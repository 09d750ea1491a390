-------------------------- MODULE MCComponentDecoder --------------------------
(***************************************************************************)
(* Instances of ComponentDecoder for TLC: words of two digits of base 4,   *)
(* counts around what the payloads hold and where products wrap.           *)
(***************************************************************************)
EXTENDS ComponentDecoder

MCWords == {0, 1, 2, 3, 8}

MCSizes == 0 .. 112
=============================================================================
