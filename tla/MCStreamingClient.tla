--------------------------- MODULE MCStreamingClient ---------------------------
(***************************************************************************)
(* An instance of StreamingClient for TLC.                                 *)
(***************************************************************************)
EXTENDS StreamingClient

MCPort == {1, 2}
=============================================================================
