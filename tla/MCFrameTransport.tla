-------------------------- MODULE MCFrameTransport --------------------------
(* FrameTransport with three frames that fit and one that does not.        *)
EXTENDS FrameTransport

TransportPayloads == <<2, 3, 1, 0>>
=============================================================================
