--------------------------- MODULE MCCommandLine ---------------------------
(* CommandLine with the verbs a command line can send.                     *)
EXTENDS CommandLine

CommandLineVerbs == CliVerbs \union {"Cancel"}
=============================================================================
