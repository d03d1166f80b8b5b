-------------------------- MODULE MCDesktopSession --------------------------
(* DesktopSession with a few user actions.                                 *)
EXTENDS DesktopSession
=============================================================================
