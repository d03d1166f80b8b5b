--------------------------- MODULE MCScanPipeline ---------------------------
(* Trees of at most five entries, two-bit entry ids, a one-record pipe.    *)
EXTENDS ScanPipeline

ScanIds == 0..3
UnitSize == {1}
UnitAllocSizes == {1}
OneIdentity == {"anonymous"}
=============================================================================
