--------------------------- MODULE MCCommandSession ---------------------------
(***************************************************************************)
(* Instances of CommandSession for TLC.  TakeControl stands for the        *)
(* commands that sendAndWaitForResponse completes, QTMVersion for those of *)
(* SendCommand.                                                            *)
(***************************************************************************)
EXTENDS CommandSession

MCAck == {"TakeControl"}

MCRaw == {"QTMVersion"}
=============================================================================
