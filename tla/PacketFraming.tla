---------------------------- MODULE PacketFraming ----------------------------
(***************************************************************************)
(* ReceiveTimeout (protocol.go:368-446) over the byte stream of one TCP    *)
(* connection: QTM writes packets, the client reads an 8 byte header and   *)
(* then a body, each io.ReadFull taking the bytes one by one as the        *)
(* network delivers them, under a read deadline that may pass between any  *)
(* two bytes.                                                              *)
(*                                                                         *)
(* The client does not know where packets start: a header that is read     *)
(* from the middle of a packet may claim any size and type (Misread).      *)
(***************************************************************************)
EXTENDS Packets, Sequences

CONSTANTS
    startBufferSize,    \* capacity of the receive buffer of NewProtocol
    maxPacketSize,      \* the WithMaxPacketSize limit
    readTimeoutSet,     \* is readTimeout positive?
    Wire,               \* the packets QTM may send
    Misread,            \* what bytes read off a packet boundary may look like
    HeaderAtomic,       \* environment: no deadline passes inside a header
    MaxQueue            \* bound: packets on the wire at once

ASSUME SizeAssumption ==
    /\ startBufferSize \in Nat /\ startBufferSize >= packetHeaderSize
    /\ maxPacketSize \in Nat /\ maxPacketSize >= packetHeaderSize

ASSUME WireAssumption ==
    /\ Wire \subseteq Packet
    /\ \A p \in Wire : p.size >= packetHeaderSize /\ p.len = p.size

ASSUME MisreadAssumption == Misread \subseteq Packet

ASSUME SwitchAssumption == readTimeoutSet \in BOOLEAN /\ HeaderAtomic \in BOOLEAN

ASSUME QueueAssumption == MaxQueue \in Nat

VARIABLES
    conn,       \* rt.conn # nil
    peer,       \* QTM's end: "open", "closed" (FIN sent) or "reset"
    wire,       \* packets not wholly consumed, in the order they were written
    off,        \* bytes of Head(wire) already consumed
    pc,         \* "idle", or which io.ReadFull ReceiveTimeout is in
    got,        \* bytes the call has read of the current packet
    size,       \* the size the header claimed
    synced,     \* did this call start to read on a packet boundary?
    bounded,    \* does the header's read have a deadline (d > 0)?
    told,       \* an error on this connection told the caller the stream broke
    cap,        \* cap(rt.buffer)
    lastEvent,  \* rt.lastEvent
    state,      \* rt.state
    out         \* the result of the last call

vars == <<conn, peer, wire, off, pc, got, size, synced, bounded, told, cap,
          lastEvent, state, out>>

netVars  == <<peer, wire, off>>
callVars == <<pc, got, size, synced, bounded>>
evtVars  == <<lastEvent, state>>

(* A packet of Wire, or as much of it as QTM wrote before it closed.       *)
Written == UNION {{[p EXCEPT !.len = n] : n \in 1 .. p.size} : p \in Wire}

StreamError == {"connection closed", "read header", "invalid packet size",
                "size exceeds limit", "ErrTruncated", "read body"}

FlagsTyped ==
    /\ conn \in BOOLEAN
    /\ synced \in BOOLEAN
    /\ bounded \in BOOLEAN
    /\ told \in BOOLEAN

(* The type of every variable; the size kept of a header is within the     *)
(* limit by the time ReceiveTimeout acts on it (protocol.go:393-411).      *)
TypeOK ==
    /\ FlagsTyped
    /\ peer \in {"open", "closed", "reset"}
    /\ wire \in Seq(Written)
    /\ off \in Nat
    /\ pc \in {"idle", "header", "body"}
    /\ got \in 0 .. maxPacketSize
    /\ size \in 0 .. maxPacketSize
    /\ cap \in Nat
    /\ lastEvent \in Event
    /\ state \in Event
    /\ out \in Result

Init ==
    /\ conn = FALSE
    /\ peer = "closed"
    /\ wire = <<>>
    /\ off = 0
    /\ pc = "idle"
    /\ got = 0
    /\ size = 0
    /\ synced = TRUE
    /\ bounded = TRUE
    /\ told = FALSE
    /\ cap = startBufferSize
    /\ lastEvent = NoEvent
    /\ state = NoEvent
    /\ out = Failed("nil")

(* Connect: an existing connection is dropped, then the dial succeeds.     *)
(* The buffer and the cached events survive.                               *)
Dial ==
    /\ pc = "idle"
    /\ conn' = TRUE
    /\ peer' = "open"
    /\ wire' = <<>>
    /\ off' = 0
    /\ told' = FALSE
    /\ UNCHANGED <<callVars, cap, evtVars, out>>

Disconnect ==
    /\ pc = "idle"
    /\ conn
    /\ conn' = FALSE
    /\ peer' = "closed"
    /\ wire' = <<>>
    /\ off' = 0
    /\ told' = FALSE
    /\ UNCHANGED <<callVars, cap, evtVars, out>>

-----------------------------------------------------------------------------
(* QTM's end of the connection.                                            *)

QTMSend ==
    /\ conn /\ peer = "open"
    /\ Len(wire) < MaxQueue
    /\ \E p \in Wire : wire' = Append(wire, p)
    /\ UNCHANGED <<conn, peer, off, callVars, told, cap, evtVars, out>>

(* QTM closes, on a packet boundary or in the middle of a packet.          *)
QTMClose ==
    /\ conn /\ peer = "open"
    /\ peer' = "closed"
    /\ \/ UNCHANGED wire
       \/ /\ Len(wire) < MaxQueue
          /\ \E p \in Written : p.len < p.size /\ wire' = Append(wire, p)
    /\ UNCHANGED <<conn, off, callVars, told, cap, evtVars, out>>

QTMReset ==
    /\ conn /\ peer # "reset"
    /\ peer' = "reset"
    /\ UNCHANGED <<conn, wire, off, callVars, told, cap, evtVars, out>>

-----------------------------------------------------------------------------
(* ReceiveTimeout.                                                         *)

(* The call is over: its locals are back at their initial values.          *)
Return(r) ==
    /\ pc' = "idle"
    /\ got' = 0
    /\ size' = 0
    /\ synced' = TRUE
    /\ bounded' = TRUE
    /\ out' = r

(* An error after which the bytes that follow are no packet boundary.      *)
ReturnBroken(e) ==
    /\ Return(Failed(e))
    /\ told' = TRUE
    /\ UNCHANGED <<conn, cap, evtVars>>

ReceiveNotConnected ==
    /\ pc = "idle"
    /\ ~conn
    /\ out' = Failed("ErrNotConnected")
    /\ UNCHANGED <<conn, netVars, callVars, told, cap, evtVars>>

(* The call arms the header's deadline, or clears it when d <= 0.          *)
Receive ==
    /\ pc = "idle"
    /\ conn
    /\ pc' = "header"
    /\ synced' = (off = 0)
    /\ bounded' \in BOOLEAN
    /\ UNCHANGED <<conn, netVars, got, size, told, cap, evtVars, out>>

Available == wire # <<>> /\ off < Head(wire).len

(* One byte leaves the socket.                                             *)
ConsumeByte ==
    /\ peer # "reset"
    /\ Available
    /\ IF off + 1 = Head(wire).size
       THEN wire' = Tail(wire) /\ off' = 0
       ELSE off' = off + 1 /\ UNCHANGED wire
    /\ UNCHANGED peer

(* What the bytes at the read position say: on a boundary they are the     *)
(* packet QTM wrote, elsewhere they are payload taken for a packet.        *)
Decoded == IF synced THEN {Head(wire)} ELSE Misread

HeaderByte ==
    /\ pc = "header"
    /\ got + 1 < packetHeaderSize
    /\ ConsumeByte
    /\ got' = got + 1
    /\ UNCHANGED <<conn, pc, size, synced, bounded, told, cap, evtVars, out>>

(* The header's last byte, with a size that ends the call.                 *)
RejectHeader ==
    /\ pc = "header"
    /\ got + 1 = packetHeaderSize
    /\ ConsumeByte
    /\ \E p \in Decoded :
          \/ p.size < packetHeaderSize /\ ReturnBroken("invalid packet size")
          \/ p.size > maxPacketSize /\ ReturnBroken("size exceeds limit")

(* The header's last byte, and there is no body.                           *)
HeaderOnly ==
    /\ pc = "header"
    /\ got + 1 = packetHeaderSize
    /\ ConsumeByte
    /\ \E p \in Decoded :
          /\ p.size = packetHeaderSize
          /\ Return(Answer(p))
    /\ UNCHANGED <<conn, told, cap, evtVars>>

(* Mutant of StartBody: the size limit is not checked.                     *)
StartBodyUnlimited ==
    /\ pc = "header"
    /\ got + 1 = packetHeaderSize
    /\ ConsumeByte
    /\ \E p \in Decoded :
          /\ p.size > packetHeaderSize
          /\ size' = p.size
          /\ cap' = IF cap < p.size THEN p.size ELSE cap
    /\ pc' = "body"
    /\ got' = got + 1
    /\ UNCHANGED <<conn, synced, bounded, told, evtVars, out>>

(* Mutant of StartBody: the buffer does not grow.                          *)
StartBodyUngrown ==
    /\ pc = "header"
    /\ got + 1 = packetHeaderSize
    /\ ConsumeByte
    /\ \E p \in Decoded :
          /\ p.size > packetHeaderSize /\ p.size <= maxPacketSize
          /\ size' = p.size
    /\ pc' = "body"
    /\ got' = got + 1
    /\ UNCHANGED <<conn, synced, bounded, told, cap, evtVars, out>>

(* The header's last byte: make room for the body and arm its deadline.    *)
StartBody ==
    /\ pc = "header"
    /\ got + 1 = packetHeaderSize
    /\ ConsumeByte
    /\ \E p \in Decoded :
          /\ p.size > packetHeaderSize /\ p.size <= maxPacketSize
          /\ size' = p.size
          /\ cap' = IF cap < p.size THEN p.size ELSE cap
    /\ pc' = "body"
    /\ got' = got + 1
    /\ UNCHANGED <<conn, synced, bounded, told, evtVars, out>>

BodyByte ==
    /\ pc = "body"
    /\ got + 1 < size
    /\ ConsumeByte
    /\ got' = got + 1
    /\ UNCHANGED <<conn, pc, size, synced, bounded, told, cap, evtVars, out>>

(* Mutant of FinishBody: camera settings changes are recorded as a state.  *)
FinishBodyEveryEvent ==
    /\ pc = "body"
    /\ got + 1 = size
    /\ ConsumeByte
    /\ \E p \in Decoded :
          /\ p.size = size
          /\ Return(Answer(p))
          /\ lastEvent' = LastEventAfter(lastEvent, p)
          /\ state' = LastEventAfter(state, p)
    /\ UNCHANGED <<conn, told, cap>>

(* The body's last byte: the packet is decoded, an event is recorded.      *)
FinishBody ==
    /\ pc = "body"
    /\ got + 1 = size
    /\ ConsumeByte
    /\ \E p \in Decoded :
          /\ p.size = size
          /\ Return(Answer(p))
          /\ lastEvent' = LastEventAfter(lastEvent, p)
          /\ state' = StateAfter(state, p)
    /\ UNCHANGED <<conn, told, cap>>

(* The deadline passes while the header is read.  Whatever was read of it  *)
(* is gone, and the caller is told that nothing arrived.                   *)
HeaderTimeout ==
    /\ pc = "header"
    /\ bounded
    /\ HeaderAtomic => got = 0
    /\ Return(NoMoreData)
    /\ UNCHANGED <<conn, netVars, told, cap, evtVars>>

(* Mutant of BodyTimeout: it is reported as "no more data", "as the old    *)
(* code did" (protocol.go:413-416).                                        *)
BodyTimeoutAsNoMoreData ==
    /\ pc = "body"
    /\ readTimeoutSet
    /\ Return(NoMoreData)
    /\ UNCHANGED <<conn, netVars, told, cap, evtVars>>

(* Mutant of BodyTimeout: setReadDeadline's comparison is inverted.        *)
BodyTimeoutInverted ==
    /\ pc = "body"
    /\ ~readTimeoutSet
    /\ UNCHANGED netVars
    /\ ReturnBroken("ErrTruncated")

BodyTimeout ==
    /\ pc = "body"
    /\ readTimeoutSet
    /\ UNCHANGED netVars
    /\ ReturnBroken("ErrTruncated")

(* io.ReadFull fails: the connection was reset, or ended.                  *)
HeaderReadFails ==
    /\ pc = "header"
    /\ UNCHANGED netVars
    /\ \/ peer = "reset" /\ ReturnBroken("read header")
       \/ /\ peer = "closed" /\ ~Available
          /\ ReturnBroken(IF got = 0 THEN "connection closed" ELSE "read header")

BodyReadFails ==
    /\ pc = "body"
    /\ UNCHANGED netVars
    /\ \/ peer = "reset" /\ ReturnBroken("read body")
       \/ peer = "closed" /\ ~Available /\ ReturnBroken("ErrTruncated")

-----------------------------------------------------------------------------
ReadStep ==
    \/ HeaderByte \/ RejectHeader \/ HeaderOnly \/ StartBody
    \/ BodyByte \/ FinishBody

TimeoutStep == HeaderTimeout \/ BodyTimeout

FailStep == HeaderReadFails \/ BodyReadFails

Next ==
    \/ Dial \/ Disconnect
    \/ QTMSend \/ QTMClose \/ QTMReset
    \/ ReceiveNotConnected \/ Receive
    \/ ReadStep \/ TimeoutStep \/ FailStep

Spec == Init /\ [][Next]_vars

(* The network delivers what was written, and the runtime fires deadlines  *)
(* and reports a dead connection to a blocked read.                        *)
Fairness == WF_vars(ReadStep \/ TimeoutStep \/ FailStep)

FairSpec == Spec /\ Fairness

-----------------------------------------------------------------------------
(* Between two calls the client stands on a packet boundary, unless an     *)
(* error has told the caller that it does not: the promise of              *)
(* protocol.go:413-416 that only ErrTruncated and its kin, never "no more  *)
(* data", leave bytes behind that are misread as the next header.          *)
Synchronised == (conn /\ pc = "idle" /\ ~told) => off = 0

(* A packet's size field never makes the client hold more than its limit   *)
(* (DefaultMaxPacketSize, protocol.go:74-78), whatever the header says and *)
(* however often the connection is re-established, and the body being read *)
(* fits the buffer it is read into.                                        *)
BufferBounded ==
    /\ cap <= maxPacketSize \/ cap = startBufferSize
    /\ pc = "body" => size <= cap

(* A call with a deadline, on a client whose read timeout is set, comes    *)
(* back whatever QTM does: it falls silent, closes in the middle of a      *)
(* packet, resets the connection, or the stream is off its boundaries      *)
(* (setReadDeadline, protocol.go:373 and 417).                             *)
ReceiveReturns ==
    (pc # "idle" /\ bounded /\ readTimeoutSet) ~> (pc = "idle")

(* ReceiveTimeout keeps the packet stream promise.                         *)
Stream == INSTANCE PacketStream WITH open <- conn, queue <- wire, broken <- told

StreamSpec == Stream!Spec

-----------------------------------------------------------------------------
(* The inductive invariant behind Synchronised and StreamSpec: while the   *)
(* caller has not been told otherwise, the bytes read of the packet are    *)
(* exactly the bytes consumed of the packet at the head of the wire.       *)

Position ==
    /\ wire = <<>> => off = 0
    /\ wire # <<>> => off <= Head(wire).len /\ off < Head(wire).size

Progress ==
    /\ pc # "idle" => conn
    /\ pc = "idle" => got = 0
    /\ pc = "header" => got < packetHeaderSize
    /\ pc = "body" => got < size

Aligned ==
    (HeaderAtomic /\ conn /\ ~told) =>
        /\ pc = "idle" => off = 0
        /\ pc = "header" => synced /\ off = got
        /\ pc = "body" => /\ synced /\ off = got
                          /\ wire # <<>> /\ size = Head(wire).size

IInv == TypeOK /\ Position /\ Progress /\ Aligned
=============================================================================
