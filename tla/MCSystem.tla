------------------------------ MODULE MCSystem ------------------------------
(* Model values for checking System with TLC. *)
EXTENDS System

OnePair == 1..1
TwoPairs == 1..2
=============================================================================
