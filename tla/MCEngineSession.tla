--------------------------- MODULE MCEngineSession ---------------------------
(* EngineSession with a client of a few calls.                             *)
EXTENDS EngineSession

ScanAndPing == {"Scan", "Ping"}
=============================================================================
