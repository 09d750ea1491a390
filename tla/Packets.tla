------------------------------- MODULE Packets -------------------------------
(***************************************************************************)
(* The packets of the QTM real-time protocol as the Go client sees them:   *)
(* the packet types of packet.go, and what one whole packet turns into     *)
(* when ReceiveTimeout (protocol.go) hands it to its caller.               *)
(*                                                                         *)
(* Payloads are abstracted to what the receive path tells apart: the event *)
(* number of an Event packet, and whether the payload decodes.             *)
(***************************************************************************)
EXTENDS Integers

CONSTANTS
    Event,                  \* the EventType values in use
    NoEvent,                \* EventTypeNone, before any event
    ZeroEvent,              \* 0, Packet.Event when none was decoded; no EventType
    CameraSettingsChanged,  \* the one event that is not a state transition
    packetHeaderSize        \* bytes of the fixed header

ASSUME EventAssumption ==
    /\ {NoEvent, ZeroEvent, CameraSettingsChanged} \subseteq Event
    /\ ZeroEvent \notin {NoEvent, CameraSettingsChanged}

ASSUME HeaderSizeAssumption == packetHeaderSize \in Nat \ {0}

PacketType == {"Error", "Command", "XML", "Data", "NoMoreData", "C3DFile",
               "Event", "Discover", "QTMFile", "None"}

(* A packet: the size and type its header claims, what its payload says,   *)
(* and how many of its bytes are on the wire (fewer than size only when    *)
(* QTM closed the connection in the middle of it).                         *)
Packet == [size : Nat, type : PacketType, event : Event, decodes : BOOLEAN,
           len : Nat]

(* The errors of ReceiveTimeout, one name for each return statement.       *)
Error == {"nil", "ErrNotConnected", "connection closed", "read header",
          "invalid packet size", "size exceeds limit", "ErrTruncated",
          "read body", "unmarshal", "error packet"}

(* What a call of ReceiveTimeout returns.                                  *)
Result == [type : PacketType, event : Event, err : Error]

Failed(e) == [type |-> "None", event |-> ZeroEvent, err |-> e]

NoMoreData == [type |-> "NoMoreData", event |-> ZeroEvent, err |-> "nil"]

(* Does the packet go through Packet.UnmarshalBinary, and successfully?  A  *)
(* header-only packet is returned before its payload is looked at.         *)
Unmarshalled(p) == p.size > packetHeaderSize /\ p.decodes

(* What the caller gets for a packet that was read whole.                  *)
Answer(p) ==
    IF p.size > packetHeaderSize /\ ~p.decodes THEN Failed("unmarshal")
    ELSE [type  |-> p.type,
          event |-> IF p.type = "Event" /\ Unmarshalled(p) THEN p.event
                                                           ELSE ZeroEvent,
          err   |-> IF p.type = "Error" /\ Unmarshalled(p) THEN "error packet"
                                                           ELSE "nil"]

(* The event the packet records in lastEvent, given what was there.        *)
LastEventAfter(e, p) ==
    IF p.type = "Event" /\ Unmarshalled(p) THEN p.event ELSE e

(* The value the packet leaves in state, given what was there.             *)
StateAfter(e, p) ==
    IF LastEventAfter(CameraSettingsChanged, p) = CameraSettingsChanged
    THEN e
    ELSE p.event
=============================================================================
