--------------------------- MODULE MCEngineServer ---------------------------
(* EngineServer with a client of a few requests.                           *)
EXTENDS EngineServer
=============================================================================
