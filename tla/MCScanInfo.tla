----------------------------- MODULE MCScanInfo -----------------------------
(* Model values for checking ScanInfo with TLC. *)
EXTENDS ScanInfo

NameAndScanNo == {"name", "scanNo"}
XAndOffset == {"X", "axisOffset"}
Epoch == {"epoch"}
=============================================================================
