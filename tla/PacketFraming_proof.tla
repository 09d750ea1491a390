------------------------- MODULE PacketFraming_proof -------------------------
(***************************************************************************)
(* Proofs about PacketFraming: the type invariant, the bound on the        *)
(* receive buffer, and, when no deadline passes inside a header, that the  *)
(* client stays on packet boundaries and keeps the PacketStream promise.   *)
(***************************************************************************)
EXTENDS PacketFraming, SequenceTheorems, TLAPS

USE DEF netVars, callVars, evtVars

(* What QTM writes has a header, and at least one byte of it arrives.      *)
LEMMA WrittenPackets ==
    \A p \in Written : /\ p \in Packet
                       /\ p.size >= packetHeaderSize
                       /\ p.len >= 1 /\ p.len <= p.size
  BY WireAssumption DEF Written, Packet

(* A whole packet of Wire is one of the packets that may be written.       *)
LEMMA WireIsWritten == Wire \subseteq Written
<1>1. ASSUME NEW p \in Wire
      PROVE  p \in Written
  <2>1. p = [p EXCEPT !.len = p.size] /\ p.size \in 1 .. p.size
    BY WireAssumption, HeaderSizeAssumption DEF Packet
  <2>. QED  BY <2>1 DEF Written
<1>. QED  BY <1>1

(* The result of a whole packet, and of an error, is a Result; the events  *)
(* it leaves behind are events.                                            *)
LEMMA PacketResults ==
    /\ \A p \in Packet : Answer(p) \in Result
    /\ \A p \in Packet, e \in Event : LastEventAfter(e, p) \in Event
    /\ \A p \in Packet, e \in Event : StateAfter(e, p) \in Event
    /\ \A e \in Error : Failed(e) \in Result
    /\ NoMoreData \in Result
  BY EventAssumption
  DEF Answer, Result, Packet, PacketType, Error, Failed, NoMoreData,
      LastEventAfter, StateAfter, Unmarshalled

(* Consuming a byte keeps the read position inside the packet at the head  *)
(* of the wire, and moves it by one inside a packet.                       *)
LEMMA Consumption ==
    ASSUME TypeOK, Position, ConsumeByte
    PROVE  /\ wire # <<>> /\ Head(wire) \in Written
           /\ wire' \in Seq(Written) /\ off' \in Nat
           /\ Position'
           /\ off + 1 < Head(wire).size => wire' = wire /\ off' = off + 1
           /\ off + 1 = Head(wire).size => wire' = Tail(wire) /\ off' = 0
           /\ peer' = peer
           /\ off < Head(wire).len
<1>1. wire # <<>> /\ wire \in Seq(Written) /\ off \in Nat
  BY DEF TypeOK, ConsumeByte, Available
<1>2. Head(wire) \in Written /\ Tail(wire) \in Seq(Written)
  BY <1>1, HeadTailProperties
<1>3. Head(wire).size \in Nat /\ Head(wire).len \in Nat
  BY <1>2, WrittenPackets DEF Packet
<1>4. CASE off + 1 = Head(wire).size
  <2>1. wire' = Tail(wire) /\ off' = 0
    BY <1>4 DEF ConsumeByte
  <2>2. wire' # <<>> => Head(wire') \in Written
    BY <2>1, <1>2, HeadTailProperties
  <2>3. Position'
    BY <2>1, <2>2, WrittenPackets, HeaderSizeAssumption DEF Position, Packet
  <2>. QED  BY <1>1, <1>2, <1>3, <1>4, <2>1, <2>3 DEF ConsumeByte, Available
<1>5. CASE off + 1 # Head(wire).size
  <2>1. wire' = wire /\ off' = off + 1
    BY <1>5 DEF ConsumeByte
  <2>2. off' <= Head(wire).len /\ off' < Head(wire).size
    BY <1>1, <1>2, <1>3, <1>5, <2>1, WrittenPackets DEF ConsumeByte, Available, Position
  <2>. QED  BY <1>1, <1>2, <1>3, <1>5, <2>1, <2>2 DEF ConsumeByte, Available, Position
<1>. QED  BY <1>4, <1>5

-----------------------------------------------------------------------------
LEMMA InitInvariant == Init => IInv
<1>. SUFFICES ASSUME Init PROVE IInv
  OBVIOUS
<1>1. FlagsTyped
  BY Zenon DEF Init, FlagsTyped
<1>2. TypeOK
  <2>1. /\ peer = "closed" /\ wire = <<>> /\ off = 0
        /\ pc = "idle" /\ got = 0 /\ size = 0 /\ cap = startBufferSize
        /\ lastEvent = NoEvent /\ state = NoEvent /\ out = Failed("nil")
    BY Zenon DEF Init
  <2>2. wire \in Seq(Written)
    BY <2>1, EmptySeq
  <2>3. out \in Result
    BY <2>1, PacketResults DEF Error
  <2>. QED
    BY <1>1, <2>1, <2>2, <2>3, SizeAssumption, EventAssumption DEF TypeOK
<1>3. Position /\ Progress
  BY DEF Init, Position, Progress
<1>4. Aligned
  BY Zenon DEF Init, Aligned
<1>. QED  BY <1>2, <1>3, <1>4 DEF IInv

(* The flags stay flags.                                                   *)
LEMMA FlagSteps == FlagsTyped /\ [Next]_vars => FlagsTyped'
<1>. SUFFICES ASSUME FlagsTyped, [Next]_vars PROVE FlagsTyped'
  OBVIOUS
<1>. USE DEF FlagsTyped
<1>1. CASE Dial \/ Disconnect
  BY <1>1, Zenon DEF Dial, Disconnect
<1>2. CASE QTMSend \/ QTMClose \/ QTMReset
  BY <1>2, Zenon DEF QTMSend, QTMClose, QTMReset
<1>3. CASE ReceiveNotConnected \/ Receive
  BY <1>3, Zenon DEF ReceiveNotConnected, Receive
<1>4. CASE ReadStep
  BY <1>4, Zenon DEF ReadStep, HeaderByte, RejectHeader, HeaderOnly, StartBody,
                     BodyByte, FinishBody, Return, ReturnBroken
<1>5. CASE TimeoutStep \/ FailStep
  BY <1>5, Zenon DEF TimeoutStep, FailStep, HeaderTimeout, BodyTimeout,
                     HeaderReadFails, BodyReadFails, Return, ReturnBroken
<1>6. CASE UNCHANGED vars
  BY <1>6, Zenon DEF vars
<1>. QED  BY <1>1, <1>2, <1>3, <1>4, <1>5, <1>6, Zenon DEF Next

(* The steps that reset the connection.                                    *)
LEMMA ConnectionSteps == IInv /\ FlagsTyped' /\ (Dial \/ Disconnect) => IInv'
<1>. SUFFICES ASSUME IInv, FlagsTyped', Dial \/ Disconnect
              PROVE  IInv'
  OBVIOUS
<1>1. TypeOK'
  <2>1. /\ peer' \in {"open", "closed"} /\ wire' = <<>> /\ off' = 0
        /\ UNCHANGED <<pc, got, size, cap, lastEvent, state, out>>
    BY DEF Dial, Disconnect
  <2>. QED  BY <2>1 DEF IInv, TypeOK
<1>2. Position'
  BY DEF Position, Dial, Disconnect
<1>3. Progress'
  BY DEF IInv, Progress, Dial, Disconnect
<1>4. Aligned'
  BY DEF Aligned, Dial, Disconnect
<1>. QED  BY <1>1, <1>2, <1>3, <1>4 DEF IInv

(* QTM's steps: what is appended leaves the head of the wire in place.     *)
LEMMA PeerSteps == IInv /\ FlagsTyped' /\ (QTMSend \/ QTMClose \/ QTMReset) => IInv'
<1>. SUFFICES ASSUME IInv, FlagsTyped', QTMSend \/ QTMClose \/ QTMReset
              PROVE  IInv'
  OBVIOUS
<1>1. CASE wire' = wire
  BY <1>1 DEF IInv, TypeOK, Position, Progress, Aligned, QTMSend, QTMClose, QTMReset
<1>2. CASE \E p \in Written : wire' = Append(wire, p)
  <2>1. PICK p \in Written : wire' = Append(wire, p)
    BY <1>2
  <2>2. wire \in Seq(Written)
    BY DEF IInv, TypeOK
  <2>3. /\ wire' \in Seq(Written) /\ wire' # <<>>
        /\ wire = <<>> => Head(wire') = p
        /\ wire # <<>> => Head(wire') = Head(wire)
    BY <2>1, <2>2, AppendProperties
  <2>4. Position'
    BY <2>1, <2>3, WrittenPackets, HeaderSizeAssumption
    DEF IInv, TypeOK, Position, Packet, QTMSend, QTMClose, QTMReset
  <2>. QED
    BY <2>3, <2>4 DEF IInv, TypeOK, Progress, Aligned, QTMSend, QTMClose, QTMReset
<1>. QED
  BY <1>1, <1>2, WireIsWritten DEF QTMSend, QTMClose, QTMReset

(* The steps of ReceiveTimeout that read a byte.                           *)
LEMMA ReadSteps == IInv /\ FlagsTyped' /\ ReadStep => IInv'
<1>. SUFFICES ASSUME IInv, FlagsTyped', ReadStep
              PROVE  IInv'
  OBVIOUS
<1>. USE SizeAssumption, HeaderSizeAssumption
<1>1. ConsumeByte
  BY DEF ReadStep, HeaderByte, RejectHeader, HeaderOnly, StartBody, BodyByte, FinishBody
<1>2. /\ wire # <<>> /\ Head(wire) \in Written
      /\ wire' \in Seq(Written) /\ off' \in Nat
      /\ Position'
      /\ off + 1 < Head(wire).size => wire' = wire /\ off' = off + 1
      /\ off + 1 = Head(wire).size => wire' = Tail(wire) /\ off' = 0
      /\ peer' = peer
      /\ off < Head(wire).len
  BY <1>1, Consumption DEF IInv
<1>3. Decoded \subseteq Packet
  BY <1>2, WrittenPackets, MisreadAssumption DEF Decoded
<1>4. Head(wire).size >= packetHeaderSize /\ Head(wire).size \in Nat
  BY <1>2, WrittenPackets DEF Packet
<1>5. CASE HeaderByte
  BY <1>2, <1>4, <1>5 DEF IInv, TypeOK, Progress, Aligned, HeaderByte
<1>6. CASE RejectHeader
  <2>1. TypeOK'
    <3>1. /\ pc' = "idle" /\ got' = 0 /\ size' = 0
          /\ UNCHANGED <<cap, lastEvent, state>>
          /\ \E e \in Error : out' = Failed(e)
      BY <1>6, Zenon DEF RejectHeader, ReturnBroken, Return, Error
    <3>. QED  BY <1>2, <3>1, PacketResults DEF IInv, TypeOK
  <2>2. Progress'
    BY <1>6 DEF Progress, RejectHeader, ReturnBroken, Return
  <2>3. Aligned'
    BY <1>6 DEF Aligned, RejectHeader, ReturnBroken, Return
  <2>. QED  BY <1>2, <2>1, <2>2, <2>3 DEF IInv
<1>7. CASE HeaderOnly
  <2>1. TypeOK'
    BY <1>2, <1>3, <1>7, PacketResults DEF IInv, TypeOK, HeaderOnly, Return
  <2>2. Progress'
    BY <1>7 DEF Progress, HeaderOnly, Return
  <2>3. Aligned'
    BY <1>2, <1>4, <1>7 DEF IInv, Aligned, HeaderOnly, Return, Decoded
  <2>. QED  BY <1>2, <2>1, <2>2, <2>3 DEF IInv
<1>8. CASE StartBody
  <2>1. PICK p \in Decoded : /\ p.size > packetHeaderSize /\ p.size <= maxPacketSize
                             /\ size' = p.size
                             /\ cap' = IF cap < p.size THEN p.size ELSE cap
    BY <1>8 DEF StartBody
  <2>2. p.size \in Nat /\ (synced => p = Head(wire))
    BY <2>1, <1>3 DEF Packet, Decoded
  <2>. QED
    BY <1>2, <1>4, <1>8, <2>1, <2>2 DEF IInv, TypeOK, Progress, Aligned, StartBody
<1>9. CASE BodyByte
  BY <1>2, <1>4, <1>9 DEF IInv, TypeOK, Progress, Aligned, BodyByte
<1>10. CASE FinishBody
  <2>1. TypeOK'
    BY <1>2, <1>3, <1>10, PacketResults DEF IInv, TypeOK, FinishBody, Return
  <2>2. Progress'
    BY <1>10 DEF Progress, FinishBody, Return
  <2>3. Aligned'
    BY <1>2, <1>4, <1>10 DEF IInv, Aligned, FinishBody, Return
  <2>. QED  BY <1>2, <2>1, <2>2, <2>3 DEF IInv
<1>. QED
  BY <1>5, <1>6, <1>7, <1>8, <1>9, <1>10 DEF ReadStep

(* The steps of ReceiveTimeout that read nothing.                          *)
LEMMA OtherCallSteps ==
    IInv /\ FlagsTyped' /\ (ReceiveNotConnected \/ Receive \/ TimeoutStep \/ FailStep) => IInv'
<1>. SUFFICES ASSUME IInv, FlagsTyped', ReceiveNotConnected \/ Receive \/ TimeoutStep \/ FailStep
              PROVE  IInv'
  OBVIOUS
<1>1. wire' = wire /\ off' = off /\ conn' = conn
  BY DEF ReceiveNotConnected, Receive, TimeoutStep, HeaderTimeout, BodyTimeout,
         FailStep, HeaderReadFails, BodyReadFails, ReturnBroken
<1>2. Position'
  BY <1>1 DEF IInv, Position
<1>3. CASE ReceiveNotConnected
  <2>1. TypeOK'
    BY <1>3, PacketResults DEF IInv, TypeOK, ReceiveNotConnected, Error
  <2>. QED
    BY <1>2, <1>3, <2>1 DEF IInv, Progress, Aligned, ReceiveNotConnected
<1>4. CASE Receive
  <2>1. TypeOK'
    BY <1>4 DEF IInv, TypeOK, Receive
  <2>2. Progress' /\ got' = 0
    BY <1>4, HeaderSizeAssumption DEF IInv, Progress, Receive
  <2>3. conn' /\ ~told' /\ HeaderAtomic => off = 0
    BY <1>4 DEF IInv, Aligned, Receive
  <2>4. off = 0 => synced'
    BY <1>4, Zenon DEF Receive
  <2>5. Aligned'
    BY <1>4, <2>2, <2>3, <2>4 DEF Aligned, Receive
  <2>. QED  BY <1>2, <2>1, <2>2, <2>5 DEF IInv
<1>5. CASE HeaderTimeout
  <2>1. TypeOK'
    BY <1>5, SizeAssumption, PacketResults DEF IInv, TypeOK, HeaderTimeout, Return
  <2>2. Progress'
    BY <1>5 DEF Progress, HeaderTimeout, Return
  <2>3. Aligned'
    BY <1>5 DEF IInv, Aligned, HeaderTimeout, Return
  <2>. QED  BY <1>2, <2>1, <2>2, <2>3 DEF IInv
<1>6. CASE BodyTimeout \/ FailStep
  <2>1. PICK e \in StreamError : ReturnBroken(e)
    BY <1>6 DEF FailStep, BodyTimeout, HeaderReadFails, BodyReadFails, StreamError
  <2>2. peer' = peer
    BY <1>6 DEF FailStep, BodyTimeout, HeaderReadFails, BodyReadFails
  <2>3. TypeOK'
    <3>1. e \in Error
      BY <2>1 DEF StreamError, Error
    <3>2. /\ pc' = "idle" /\ got' = 0 /\ size' = 0 /\ out' = Failed(e)
          /\ UNCHANGED <<cap, lastEvent, state>>
      BY <2>1, Zenon DEF ReturnBroken, Return
    <3>. QED
      BY <1>1, <2>2, <3>1, <3>2, SizeAssumption, PacketResults DEF IInv, TypeOK
  <2>4. Progress' /\ Aligned'
    BY <2>1 DEF Progress, Aligned, ReturnBroken, Return
  <2>. QED  BY <1>2, <2>3, <2>4 DEF IInv
<1>. QED
  BY <1>3, <1>4, <1>5, <1>6 DEF TimeoutStep

LEMMA StepInvariant == IInv /\ [Next]_vars => IInv'
<1>. SUFFICES ASSUME IInv, [Next]_vars PROVE IInv'
  OBVIOUS
<1>1. FlagsTyped'
  BY FlagSteps DEF IInv, TypeOK
<1>2. CASE UNCHANGED vars
  BY <1>1, <1>2 DEF IInv, TypeOK, Position, Progress, Aligned, vars
<1>. QED
  BY <1>1, <1>2, ConnectionSteps, PeerSteps, ReadSteps, OtherCallSteps DEF Next

(* Every reachable state of a client is typed, and its read position is    *)
(* where the bytes it has counted say it is.                               *)
THEOREM Invariance == Spec => []IInv
  BY InitInvariant, StepInvariant, PTL DEF Spec

(* Type correctness, with the limit on the size a header may claim.        *)
THEOREM TypeCorrect == Spec => []TypeOK
<1>1. IInv => TypeOK
  BY DEF IInv
<1>. QED  BY <1>1, Invariance, PTL

(* For every packet size, buffer size, limit and traffic: when no read     *)
(* deadline passes inside a header, a client that was not told of a broken *)
(* stream stands on a packet boundary between its calls.                   *)
THEOREM BoundaryKept == ASSUME HeaderAtomic PROVE Spec => []Synchronised
<1>1. IInv => Synchronised
  BY DEF IInv, Aligned, Synchronised
<1>. QED  BY <1>1, Invariance, PTL

-----------------------------------------------------------------------------
(* A header never makes the client allocate beyond its limit, and the body *)
(* in flight fits the buffer.                                              *)
THEOREM BufferTheorem == Spec => []BufferBounded
<1>1. Init => BufferBounded
  BY Zenon DEF Init, BufferBounded
<1>2. IInv /\ BufferBounded /\ [Next]_vars => BufferBounded'
  <2>. SUFFICES ASSUME IInv, BufferBounded, [Next]_vars
                PROVE  BufferBounded'
    OBVIOUS
  <2>1. CASE StartBody
    <3>1. PICK p \in Decoded : /\ p.size > packetHeaderSize /\ p.size <= maxPacketSize
                               /\ size' = p.size
                               /\ cap' = IF cap < p.size THEN p.size ELSE cap
      BY <2>1 DEF StartBody
    <3>2. wire # <<>> /\ Head(wire) \in Written
      BY <2>1, Consumption DEF StartBody, IInv
    <3>3. p.size \in Nat
      BY <3>2, WrittenPackets, MisreadAssumption DEF Decoded, Packet
    <3>. QED
      BY <3>1, <3>3, SizeAssumption DEF BufferBounded, IInv, TypeOK
  <2>2. CASE ~StartBody
    <3>1. cap' = cap /\ (pc' # "body" \/ (pc' = pc /\ size' = size))
      BY <2>2, Zenon
      DEF vars, Next, Dial, Disconnect, QTMSend, QTMClose, QTMReset,
          ReceiveNotConnected, Receive, ReadStep, HeaderByte, RejectHeader,
          HeaderOnly, BodyByte, FinishBody, TimeoutStep, HeaderTimeout,
          BodyTimeout, FailStep, HeaderReadFails, BodyReadFails, Return,
          ReturnBroken
    <3>. QED  BY <3>1 DEF BufferBounded
  <2>. QED  BY <2>1, <2>2
<1>. QED  BY <1>1, <1>2, Invariance, PTL DEF Spec

-----------------------------------------------------------------------------
(* PacketStream speaks of packets and results in the same words.           *)
LEMMA Vocabulary ==
    /\ \A p : Stream!Answer(p) = Answer(p)
    /\ \A e, p : Stream!StateAfter(e, p) = StateAfter(e, p)
    /\ \A e : Stream!Failed(e) = Failed(e)
    /\ Stream!NoMoreData = NoMoreData
  BY Zenon
  DEF Answer, StateAfter, LastEventAfter, Unmarshalled, Failed, NoMoreData,
      Stream!Answer, Stream!StateAfter, Stream!LastEventAfter,
      Stream!Unmarshalled, Stream!Failed, Stream!NoMoreData

(* Every step of ReceiveTimeout that reads is, to its caller, nothing, the *)
(* delivery of the next packet, or the report of a broken stream.          *)
LEMMA ReadStepsRefine ==
    ASSUME HeaderAtomic, IInv, ReadStep, ~told
    PROVE  Stream!Deliver \/ Stream!Break \/ UNCHANGED Stream!vars
<1>. USE HeaderSizeAssumption, SizeAssumption
<1>1. ConsumeByte
  BY DEF ReadStep, HeaderByte, RejectHeader, HeaderOnly, StartBody, BodyByte, FinishBody
<1>2. /\ wire # <<>> /\ Head(wire) \in Written
      /\ off + 1 < Head(wire).size => wire' = wire
      /\ off + 1 = Head(wire).size => wire' = Tail(wire)
      /\ off < Head(wire).len
      /\ off \in Nat
  BY <1>1, Consumption DEF IInv, TypeOK
<1>3. /\ Head(wire).size >= packetHeaderSize /\ Head(wire).size \in Nat
      /\ Head(wire).len \in Nat /\ Head(wire).len <= Head(wire).size
  BY <1>2, WrittenPackets DEF Packet
<1>4. /\ conn
      /\ off = got
      /\ \A p : p \in Decoded <=> p = Head(wire)
  BY DEF ReadStep, HeaderByte, RejectHeader, HeaderOnly, StartBody, BodyByte,
         FinishBody, IInv, Progress, Aligned, Decoded
<1>5. CASE HeaderByte
  BY <1>2, <1>3, <1>4, <1>5 DEF HeaderByte, Stream!vars, IInv, TypeOK
<1>6. CASE RejectHeader
  <2>1. /\ got + 1 = packetHeaderSize
        /\ Head(wire).size < packetHeaderSize \/ Head(wire).size > maxPacketSize
    BY <1>4, <1>6, Zenon DEF RejectHeader
  <2>2. wire' = wire
    <3>1. off + 1 < Head(wire).size
      BY <1>2, <1>3, <1>4, <2>1
    <3>. QED  BY <1>2, <3>1
  <2>3. \E e \in StreamError : ReturnBroken(e)
    BY <1>6, Zenon DEF RejectHeader, StreamError
  <2>. QED
    BY <1>4, <2>2, <2>3, Vocabulary, Zenon
    DEF ReturnBroken, Return, RejectHeader, Stream!Break
<1>7. CASE HeaderOnly
  <2>1. /\ got + 1 = packetHeaderSize
        /\ Head(wire).size = packetHeaderSize
        /\ out' = Answer(Head(wire))
        /\ UNCHANGED <<conn, told, state>>
    BY <1>4, <1>7, Zenon DEF HeaderOnly, Return
  <2>2. wire' = Tail(wire) /\ Head(wire).len = Head(wire).size
    BY <1>2, <1>3, <1>4, <2>1
  <2>3. state' = StateAfter(state, Head(wire))
    BY <2>1 DEF StateAfter, LastEventAfter, Unmarshalled
  <2>. QED
    BY <1>2, <1>4, <2>1, <2>2, <2>3, Vocabulary, Zenon DEF Stream!Deliver
<1>8. CASE StartBody
  <2>1. Head(wire).size > packetHeaderSize
    BY <1>4, <1>8 DEF StartBody
  <2>. QED
    BY <1>2, <1>3, <1>4, <1>8, <2>1 DEF StartBody, Stream!vars
<1>9. CASE BodyByte
  BY <1>2, <1>3, <1>4, <1>9 DEF BodyByte, Stream!vars, IInv, Aligned
<1>10. CASE FinishBody
  <2>1. /\ got + 1 = size
        /\ Head(wire).size = size
        /\ out' = Answer(Head(wire))
        /\ state' = StateAfter(state, Head(wire))
        /\ UNCHANGED <<conn, told>>
    BY <1>4, <1>10, Zenon DEF FinishBody, Return
  <2>2. wire' = Tail(wire) /\ Head(wire).len = Head(wire).size
    BY <1>2, <1>3, <1>4, <2>1
  <2>. QED
    BY <1>2, <1>4, <2>1, <2>2, Vocabulary, Zenon DEF Stream!Deliver
<1>. QED
  BY <1>5, <1>6, <1>7, <1>8, <1>9, <1>10 DEF ReadStep

(* Every step of the client is a step of PacketStream, or invisible to it. *)
LEMMA StepRefines ==
    ASSUME HeaderAtomic, IInv, [Next]_vars
    PROVE  [Stream!Next]_(Stream!vars)
<1>1. CASE Dial
  BY <1>1 DEF Dial, Stream!Next, Stream!Open
<1>2. CASE Disconnect
  BY <1>2 DEF Disconnect, Stream!Next, Stream!Close
<1>3. CASE QTMSend
  BY <1>3, WireIsWritten DEF QTMSend, Stream!Next, Stream!Send
<1>4. CASE QTMClose
  BY <1>4 DEF QTMClose, Stream!Next, Stream!Send, Stream!vars
<1>5. CASE QTMReset
  BY <1>5 DEF QTMReset, Stream!vars
<1>6. CASE ReceiveNotConnected
  BY <1>6, Vocabulary, Zenon DEF ReceiveNotConnected, Stream!Next, Stream!Refuse
<1>7. CASE Receive
  BY <1>7 DEF Receive, Stream!vars
<1>8. CASE (ReadStep \/ TimeoutStep \/ FailStep) /\ told
  <2>1. conn
    BY <1>8 DEF IInv, Progress, ReadStep, HeaderByte, RejectHeader, HeaderOnly,
           StartBody, BodyByte, FinishBody, TimeoutStep, HeaderTimeout,
           BodyTimeout, FailStep, HeaderReadFails, BodyReadFails
  <2>2. conn' = conn /\ told' = told
    BY <1>8, Zenon DEF ReadStep, HeaderByte, RejectHeader, HeaderOnly,
           StartBody, BodyByte, FinishBody, TimeoutStep, HeaderTimeout,
           BodyTimeout, FailStep, HeaderReadFails, BodyReadFails, ReturnBroken,
           IInv, TypeOK, FlagsTyped
  <2>. QED  BY <1>8, <2>1, <2>2, Zenon DEF Stream!Next, Stream!ReadsOn
<1>9. CASE ReadStep /\ ~told
  BY <1>9, ReadStepsRefine DEF Stream!Next
<1>10. CASE HeaderTimeout /\ ~told
  BY <1>10, Vocabulary, Zenon
  DEF HeaderTimeout, Return, IInv, Progress, Stream!Next, Stream!Timeout
<1>11. CASE (BodyTimeout \/ FailStep) /\ ~told
  <2>1. PICK e \in StreamError : ReturnBroken(e)
    BY <1>11, Zenon
    DEF FailStep, BodyTimeout, HeaderReadFails, BodyReadFails, StreamError
  <2>2. conn /\ wire' = wire
    BY <1>11 DEF FailStep, BodyTimeout, HeaderReadFails, BodyReadFails, IInv, Progress
  <2>. QED
    BY <2>1, <2>2, Vocabulary, Zenon
    DEF ReturnBroken, Return, Stream!Next, Stream!Break
<1>12. CASE UNCHANGED vars
  BY <1>12 DEF vars, Stream!vars
<1>. QED
  BY <1>1, <1>2, <1>3, <1>4, <1>5, <1>6, <1>7, <1>8, <1>9, <1>10, <1>11, <1>12
  DEF Next, TimeoutStep

(* For every traffic, packet size and limit, when no read deadline passes  *)
(* inside a header, ReceiveTimeout keeps the PacketStream promise: packets *)
(* come out whole, in order and once, and "no more data" loses nothing.    *)
THEOREM KeepsPromise == ASSUME HeaderAtomic PROVE Spec => StreamSpec
<1>1. Init => Stream!Init
  BY Vocabulary, Zenon DEF Init, Stream!Init
<1>2. IInv /\ [Next]_vars => [Stream!Next]_(Stream!vars)
  BY StepRefines
<1>. QED  BY <1>1, <1>2, Invariance, PTL DEF Spec, StreamSpec, Stream!Spec
=============================================================================
