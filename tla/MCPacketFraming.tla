--------------------------- MODULE MCPacketFraming ---------------------------
(***************************************************************************)
(* Instances of PacketFraming for TLC.  The header is scaled down from 8   *)
(* bytes to 3, the 4096 byte buffer to 4 and the 512 MiB limit to 5; every *)
(* way a deadline or a close can split a header or a body still occurs.    *)
(***************************************************************************)
EXTENDS PacketFraming

CONSTANTS CaptureStarted

P(s, t, e, d) == [size |-> s, type |-> t, event |-> e, decodes |-> d, len |-> s]

(* A reply that makes the buffer grow, an error, two kinds of event, the   *)
(* header-only end-of-data packet, an event and an error without payload,  *)
(* a packet over the limit, and a frame whose components do not decode.    *)
MCWire == {
    P(5, "Command", ZeroEvent, TRUE),
    P(4, "Error", ZeroEvent, TRUE),
    P(4, "Event", CaptureStarted, TRUE),
    P(4, "Event", CameraSettingsChanged, TRUE),
    P(3, "NoMoreData", ZeroEvent, TRUE),
    P(3, "Event", ZeroEvent, TRUE),
    P(3, "Error", ZeroEvent, TRUE),
    P(6, "C3DFile", ZeroEvent, TRUE),
    P(5, "Data", ZeroEvent, FALSE) }

(* Payload taken for a header: sizes below, at and above every limit.      *)
MCMisread == {
    P(0, "Data", ZeroEvent, TRUE),
    P(3, "Event", CaptureStarted, TRUE),
    P(5, "XML", ZeroEvent, TRUE),
    P(4, "Event", CaptureStarted, TRUE),
    P(7, "Command", ZeroEvent, TRUE) }
=============================================================================
