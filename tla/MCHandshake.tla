----------------------------- MODULE MCHandshake -----------------------------
(***************************************************************************)
(* Instances of Handshake for TLC.  The versions 1.28 down to 1.22 are     *)
(* scaled to 1.3 down to 1.1; callers ask for the newest, for an older     *)
(* one, and for a major the SDK does not know.                             *)
(***************************************************************************)
EXTENDS Handshake

MCWanted == {<<1, 3>>, <<1, 2>>, <<2, 0>>}

MCOffered == {<<1, 3>>, <<1, 2>>, <<1, 1>>}
=============================================================================
