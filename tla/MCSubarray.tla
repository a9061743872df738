------------------------------ MODULE MCSubarray ------------------------------
(* Subarray for TLC: the identifiers of subarrays are interchangeable. *)
EXTENDS Subarray, TLC

Symmetry == Permutations(DatasetId)
===============================================================================
