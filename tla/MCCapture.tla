----------------------------- MODULE MCCapture -----------------------------
(* Model values for checking Capture with TLC. *)
EXTENDS Capture

Requests == {CMD_START, CMD_STOP}
RequestsAndEvents == {CMD_START, CMD_STOP, CMD_EVENT}
StartsAndEvents == {CMD_START, CMD_EVENT}
=============================================================================
