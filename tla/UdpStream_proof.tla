----------------------------- MODULE UdpStream_proof -----------------------------
(***************************************************************************)
(* The safety properties of UdpStream, for any number of ports, sockets    *)
(* and datagrams, and those of the streaming program on top of it, whose   *)
(* calls are steps of UdpStream.                                           *)
(***************************************************************************)
EXTENDS StreamingClient, TLAPS

(* OneSocket is not inductive: it says nothing of a socket that is being   *)
(* closed.  Once it is closed no socket is open until the next Listen.     *)
NoneOpen == cpc \in {"closed", "cleared"} => live = {}

IInv == TypeOK /\ OneSocket /\ NoneOpen /\ WholePackets

(* It holds before the first call, connected or not.                       *)
LEMMA InitInv == NoStreamYet /\ timed \in BOOLEAN /\ conn \in BOOLEAN => IInv
<1> SUFFICES ASSUME NoStreamYet, timed \in BOOLEAN, conn \in BOOLEAN PROVE IInv
  OBVIOUS
<1> USE DEF NoStreamYet
<1>1. ControlTypeOK
  BY DEF ControlTypeOK
<1>2. SocketTypeOK
  <2>1. port \in Seq(Port)
    OBVIOUS
  <2>2. inbox \in [Socket -> Seq(Payload)]
    BY DEF Socket
  <2> QED  BY <2>1, <2>2 DEF SocketTypeOK
<1>3. NetworkTypeOK
  BY UdpAssumption DEF NetworkTypeOK
<1>4. ReceiverTypeOK
  <2>1. Nothing \in Payload
    BY UdpAssumption DEF Nothing, Make, Payload
  <2> QED  BY <2>1 DEF ReceiverTypeOK
<1>5. OneSocket /\ NoneOpen /\ WholePackets
  BY DEF OneSocket, NoneOpen, WholePackets
<1> QED  BY <1>1, <1>2, <1>3, <1>4, <1>5 DEF IInv, TypeOK

-----------------------------------------------------------------------------
(* Parts of the invariant that a step leaves alone.                        *)

LEMMA ControlKept == ControlTypeOK /\ UNCHANGED <<timed, conn, cpc, cop, wanted>> => ControlTypeOK'
  BY DEF ControlTypeOK

LEMMA SocketKept ==
    SocketTypeOK /\ UNCHANGED <<port, udpConn, sock, live, armed, inbox>> => SocketTypeOK'
  BY DEF SocketTypeOK, Socket

LEMMA NetworkKept == NetworkTypeOK /\ UNCHANGED <<target, sent, air>> => NetworkTypeOK'
  BY DEF NetworkTypeOK

LEMMA ReceiverKept == ReceiverTypeOK /\ UNCHANGED <<rpc, buffers, taken, swapped>> => ReceiverTypeOK'
  BY DEF ReceiverTypeOK

LEMMA OpenKept == IInv /\ UNCHANGED <<cpc, live, udpConn>> => (OneSocket /\ NoneOpen)'
  BY DEF IInv, OneSocket, NoneOpen

LEMMA WholeKept == IInv /\ UNCHANGED <<cpc, rpc, buffers, taken>> => WholePackets'
  BY DEF IInv, WholePackets

LEMMA StutterKept == IInv /\ UNCHANGED vars => IInv'
<1> SUFFICES ASSUME IInv, UNCHANGED vars PROVE IInv'
  OBVIOUS
<1> USE DEF vars, controlVars, socketVars, networkVars, receiverVars
<1>1. TypeOK'
  BY ControlKept, SocketKept, NetworkKept, ReceiverKept DEF IInv, TypeOK
<1>2. (OneSocket /\ NoneOpen)' /\ WholePackets'
  BY OpenKept, WholeKept
<1> QED  BY <1>1, <1>2 DEF IInv

(* Closing the socket of rt.udpConn leaves none open.                      *)
LEMMA CloseUDPCloses ==
    ASSUME IInv, NEW call \in {"EnableUDPStream", "Disconnect", "Connect"}, CloseUDP(call)
    PROVE  live' = {} /\ cop' = call /\ cpc' \in {"closed", "cleared"}
  BY DEF IInv, OneSocket, CloseUDP

(* A read fills the buffer of its own path and no other.                   *)
LEMMA FillsOwn ==
    ASSUME ReceiverTypeOK, NEW path \in Path, NEW payload \in Payload, Fill(path, payload)
    PROVE  /\ buffers' \in [{"buffer", "udpBuffer"} -> Payload]
           /\ taken' \in [Path -> Payload]
           /\ buffers'[Scratch(path)] = payload /\ taken'[path] = payload
           /\ \A other \in Path \ {path} :
                 buffers'[Scratch(other)] = buffers[Scratch(other)] /\ taken'[other] = taken[other]
<1>1. \A other \in Path : Scratch(other) \in {"buffer", "udpBuffer"}
  BY DEF Scratch
<1>2. \A other \in Path \ {path} : Scratch(other) # Scratch(path)
  BY DEF Scratch, Path
<1> QED  BY <1>1, <1>2 DEF Fill, ReceiverTypeOK

(* Forgetting what a finished call read disturbs no other.                 *)
LEMMA ForgetsOwn ==
    ASSUME ReceiverTypeOK, NEW path \in Path, Forget(path)
    PROVE  /\ taken' \in [Path -> Payload]
           /\ \A other \in Path \ {path} : taken'[other] = taken[other]
<1>1. Nothing \in Payload
  BY UdpAssumption DEF Nothing, Make, Payload
<1> QED  BY <1>1 DEF Forget, ReceiverTypeOK

(* A datagram that arrives keeps the type of the sockets.                  *)
LEMMA ArriveKept ==
    ASSUME SocketTypeOK, NEW s \in live, NEW payload \in Payload, Arrive(s, payload),
           UNCHANGED <<udpConn, sock>>
    PROVE  SocketTypeOK'
<1>1. s \in Socket /\ inbox[s] \in Seq(Payload)
  BY DEF SocketTypeOK
<1>2. Append(inbox[s], payload) \in Seq(Payload)
  BY <1>1
<1>3. inbox' \in [Socket -> Seq(Payload)]
  BY <1>1, <1>2 DEF Arrive, SocketTypeOK
<1> QED  BY <1>3 DEF Arrive, SocketTypeOK, Socket

-----------------------------------------------------------------------------
(* The steps of the control goroutine.                                     *)
LEMMA ControlInv == ASSUME IInv, ControlStep PROVE IInv'
<1> USE DEF controlVars, socketVars, networkVars, receiverVars
<1>0. TypeOK /\ OneSocket /\ NoneOpen /\ WholePackets /\ ControlTypeOK /\ SocketTypeOK
        /\ NetworkTypeOK /\ ReceiverTypeOK
  BY DEF IInv, TypeOK
<1>1. ASSUME NEW p \in Port \cup {0}, EnableUDPStream(p) PROVE IInv'
  <2>1. live' = {} /\ cop' = "EnableUDPStream" /\ cpc' \in {"closed", "cleared"}
    BY <1>1, CloseUDPCloses DEF EnableUDPStream
  <2>2. ControlTypeOK'
    BY <1>0, <1>1, <2>1 DEF EnableUDPStream, ControlTypeOK
  <2>3. SocketTypeOK'
    BY <1>0, <1>1, <2>1 DEF EnableUDPStream, SocketTypeOK, Socket
  <2>4. NetworkTypeOK' /\ ReceiverTypeOK'
    BY <1>0, <1>1, NetworkKept, ReceiverKept DEF EnableUDPStream
  <2>5. (OneSocket /\ NoneOpen)'
    BY <2>1 DEF OneSocket, NoneOpen
  <2>6. WholePackets'
    BY <1>0, <1>1, <2>1 DEF EnableUDPStream, WholePackets
  <2> QED  BY <2>2, <2>3, <2>4, <2>5, <2>6 DEF IInv, TypeOK
<1>2. ASSUME Disconnect PROVE IInv'
  <2>1. live' = {} /\ cop' = "Disconnect" /\ cpc' \in {"closed", "cleared"}
    BY <1>2, CloseUDPCloses DEF Disconnect
  <2>2. ControlTypeOK'
    BY <1>0, <1>2, <2>1 DEF Disconnect, ControlTypeOK
  <2>3. SocketTypeOK'
    BY <1>0, <1>2, <2>1 DEF Disconnect, SocketTypeOK, Socket
  <2>4. NetworkTypeOK' /\ ReceiverTypeOK'
    BY <1>0, <1>2, NetworkKept, ReceiverKept DEF Disconnect
  <2>5. (OneSocket /\ NoneOpen)'
    BY <2>1 DEF OneSocket, NoneOpen
  <2>6. WholePackets'
    BY <1>0, <1>2, <2>1 DEF Disconnect, WholePackets
  <2> QED  BY <2>2, <2>3, <2>4, <2>5, <2>6 DEF IInv, TypeOK
<1>3. ASSUME Connect PROVE IInv'
  <2>1. CASE CloseUDP("Connect")
    <3>1. live' = {} /\ cop' = "Connect" /\ cpc' \in {"closed", "cleared"}
      BY <2>1, CloseUDPCloses
    <3>2. ControlTypeOK'
      BY <1>0, <1>3, <3>1 DEF Connect, ControlTypeOK
    <3>3. SocketTypeOK'
      BY <1>0, <1>3, <3>1 DEF Connect, SocketTypeOK, Socket
    <3>4. NetworkTypeOK' /\ ReceiverTypeOK'
      BY <1>0, <1>3, NetworkKept, ReceiverKept DEF Connect
    <3>5. (OneSocket /\ NoneOpen)'
      BY <3>1 DEF OneSocket, NoneOpen
    <3>6. WholePackets'
      BY <1>0, <1>3, <3>1 DEF Connect, WholePackets
    <3> QED  BY <3>2, <3>3, <3>4, <3>5, <3>6 DEF IInv, TypeOK
  <2>2. CASE cpc' = "dial" /\ cop' = "Connect" /\ UNCHANGED live
    <3>1. ControlTypeOK'
      BY <1>0, <1>3, <2>2 DEF Connect, ControlTypeOK
    <3>2. SocketTypeOK' /\ NetworkTypeOK' /\ ReceiverTypeOK'
      BY <1>0, <1>3, <2>2, SocketKept, NetworkKept, ReceiverKept DEF Connect
    <3>3. (OneSocket /\ NoneOpen)' /\ WholePackets'
      BY <1>0, <1>3, <2>2 DEF Connect, OneSocket, NoneOpen, WholePackets
    <3> QED  BY <3>1, <3>2, <3>3 DEF IInv, TypeOK
  <2> QED  BY <1>3, <2>1, <2>2 DEF Connect
<1>4. ASSUME ClearUDP PROVE IInv'
  <2>1. ControlTypeOK'
    BY <1>0, <1>4 DEF ClearUDP, ControlTypeOK
  <2>2. SocketTypeOK'
    BY <1>0, <1>4 DEF ClearUDP, SocketTypeOK, Socket
  <2>3. NetworkTypeOK'
    BY <1>0, <1>4, NetworkKept DEF ClearUDP
  <2>4. ReceiverTypeOK'
    BY <1>0, <1>4, ReceiverKept DEF ClearUDP
  <2>5. (OneSocket /\ NoneOpen)'
    BY <1>0, <1>4 DEF ClearUDP, OneSocket, NoneOpen
  <2>6. WholePackets'
    BY <1>0, <1>4 DEF ClearUDP, WholePackets
  <2> QED  BY <2>1, <2>2, <2>3, <2>4, <2>5, <2>6 DEF IInv, TypeOK
<1>5. ASSUME Listen PROVE IInv'
  <2>1. PICK p \in Port : port' = Append(port, p)
    BY <1>5 DEF Listen
  <2>2. live = {} /\ udpConn' = Len(port') /\ live' = {Len(port')}
    BY <1>0, <1>5 DEF Listen, NoneOpen
  <2>3. ControlTypeOK'
    BY <1>0, <1>5 DEF Listen, Done, ControlTypeOK
  <2>4. SocketTypeOK'
    <3>1. port \in Seq(Port) /\ inbox \in [Socket -> Seq(Payload)] /\ DOMAIN port = 1 .. Len(port)
      BY <1>0 DEF SocketTypeOK
    <3>2. port' \in Seq(Port) /\ Len(port') = Len(port) + 1 /\ DOMAIN port' = 1 .. Len(port')
      BY <2>1, <3>1
    <3>3. inbox \in Seq(Seq(Payload)) /\ Len(inbox) = Len(port)
      BY <3>1 DEF Socket
    <3>4. <<>> \in Seq(Payload)
      OBVIOUS
    <3>5. inbox' \in Seq(Seq(Payload)) /\ Len(inbox') = Len(port')
      BY <1>5, <3>2, <3>3, <3>4 DEF Listen
    <3>6. inbox' \in [Socket' -> Seq(Payload)]
      BY <3>2, <3>5 DEF Socket
    <3>7. Socket' = Socket \cup {Len(port')}
      BY <3>1, <3>2 DEF Socket
    <3>8. UNCHANGED <<sock, armed>>
      BY <1>5 DEF Listen
    <3> QED  BY <1>0, <2>2, <3>2, <3>6, <3>7, <3>8 DEF SocketTypeOK
  <2>5. NetworkTypeOK' /\ ReceiverTypeOK'
    BY <1>0, <1>5, NetworkKept DEF Listen, ReceiverTypeOK
  <2>6. (OneSocket /\ NoneOpen)'
    BY <1>5, <2>2 DEF Listen, Done, OneSocket, NoneOpen
  <2>7. WholePackets'
    BY <1>0, <1>5 DEF Listen, Done, WholePackets
  <2> QED  BY <2>3, <2>4, <2>5, <2>6, <2>7 DEF IInv, TypeOK
<1>6. ASSUME ListenFails PROVE IInv'
  <2>1. ControlTypeOK'
    BY <1>0, <1>6 DEF ListenFails, Done, ControlTypeOK
  <2>2. SocketTypeOK'
    BY <1>0, <1>6, SocketKept DEF ListenFails, Done
  <2>3. NetworkTypeOK'
    BY <1>0, <1>6, NetworkKept DEF ListenFails, Done
  <2>4. ReceiverTypeOK'
    BY <1>0, <1>6, ReceiverKept DEF ListenFails, Done
  <2>5. (OneSocket /\ NoneOpen)'
    BY <1>0, <1>6 DEF ListenFails, Done, OneSocket, NoneOpen
  <2>6. WholePackets'
    BY <1>0, <1>6 DEF ListenFails, Done, WholePackets
  <2> QED  BY <2>1, <2>2, <2>3, <2>4, <2>5, <2>6 DEF IInv, TypeOK
<1>7. ASSUME HangUp PROVE IInv'
  <2>1. ControlTypeOK'
    BY <1>0, <1>7 DEF HangUp, Done, ControlTypeOK
  <2>2. SocketTypeOK'
    BY <1>0, <1>7, SocketKept DEF HangUp, Done
  <2>3. NetworkTypeOK'
    BY <1>0, <1>7 DEF HangUp, NetworkTypeOK
  <2>4. ReceiverTypeOK'
    BY <1>0, <1>7, ReceiverKept DEF HangUp, Done
  <2>5. (OneSocket /\ NoneOpen)'
    BY <1>0, <1>7 DEF HangUp, Done, OneSocket, NoneOpen
  <2>6. WholePackets'
    BY <1>0, <1>7 DEF HangUp, Done, WholePackets
  <2> QED  BY <2>1, <2>2, <2>3, <2>4, <2>5, <2>6 DEF IInv, TypeOK
<1>8. ASSUME Dial PROVE IInv'
  <2>1. ControlTypeOK'
    BY <1>0, <1>8 DEF Dial, Done, ControlTypeOK
  <2>2. SocketTypeOK'
    BY <1>0, <1>8, SocketKept DEF Dial, Done
  <2>3. NetworkTypeOK'
    BY <1>0, <1>8, NetworkKept DEF Dial, Done
  <2>4. ReceiverTypeOK'
    BY <1>0, <1>8, ReceiverKept DEF Dial, Done
  <2>5. (OneSocket /\ NoneOpen)'
    BY <1>0, <1>8 DEF Dial, Done, OneSocket, NoneOpen
  <2>6. WholePackets'
    BY <1>0, <1>8 DEF Dial, Done, WholePackets
  <2> QED  BY <2>1, <2>2, <2>3, <2>4, <2>5, <2>6 DEF IInv, TypeOK
<1>9. ASSUME HandshakeFails PROVE IInv'
  <2>1. live' = {} /\ cop' = "Disconnect" /\ cpc' \in {"closed", "cleared"}
    BY <1>9, CloseUDPCloses DEF HandshakeFails
  <2>2. ControlTypeOK'
    BY <1>0, <1>9, <2>1 DEF HandshakeFails, ControlTypeOK
  <2>3. SocketTypeOK'
    BY <1>0, <1>9, <2>1 DEF HandshakeFails, SocketTypeOK, Socket
  <2>4. NetworkTypeOK' /\ ReceiverTypeOK'
    BY <1>0, <1>9, NetworkKept, ReceiverKept DEF HandshakeFails
  <2>5. (OneSocket /\ NoneOpen)'
    BY <2>1 DEF OneSocket, NoneOpen
  <2>6. WholePackets'
    BY <1>0, <1>9, <2>1 DEF HandshakeFails, WholePackets
  <2> QED  BY <2>2, <2>3, <2>4, <2>5, <2>6 DEF IInv, TypeOK
<1>10. ASSUME NEW p \in Port \cup {0, 65536}, StreamFramesUDP(p) PROVE IInv'
  <2>1. ControlTypeOK'
    BY <1>0, <1>10 DEF StreamFramesUDP, ControlTypeOK
  <2>2. SocketTypeOK'
    BY <1>0, <1>10, SocketKept DEF StreamFramesUDP
  <2>3. NetworkTypeOK'
    BY <1>0, <1>10 DEF StreamFramesUDP, NetworkTypeOK
  <2>4. ReceiverTypeOK'
    BY <1>0, <1>10, ReceiverKept DEF StreamFramesUDP
  <2>5. (OneSocket /\ NoneOpen)'
    BY <1>0, <1>10 DEF StreamFramesUDP, OneSocket, NoneOpen
  <2>6. WholePackets'
    BY <1>0, <1>10 DEF StreamFramesUDP, WholePackets
  <2> QED  BY <2>1, <2>2, <2>3, <2>4, <2>5, <2>6 DEF IInv, TypeOK
<1>11. ASSUME StreamFramesStop PROVE IInv'
  <2>1. ControlTypeOK'
    BY <1>0, <1>11 DEF StreamFramesStop, ControlTypeOK
  <2>2. SocketTypeOK'
    BY <1>0, <1>11, SocketKept DEF StreamFramesStop
  <2>3. NetworkTypeOK'
    BY <1>0, <1>11 DEF StreamFramesStop, NetworkTypeOK
  <2>4. ReceiverTypeOK'
    BY <1>0, <1>11, ReceiverKept DEF StreamFramesStop
  <2>5. (OneSocket /\ NoneOpen)'
    BY <1>0, <1>11 DEF StreamFramesStop, OneSocket, NoneOpen
  <2>6. WholePackets'
    BY <1>0, <1>11 DEF StreamFramesStop, WholePackets
  <2> QED  BY <2>1, <2>2, <2>3, <2>4, <2>5, <2>6 DEF IInv, TypeOK
<1>12. ASSUME ReplyArrives PROVE IInv'
  <2>1. Make("reply", 0) \in Payload /\ "tcp" \in Path /\ "udp" \in Path \ {"tcp"}
    BY UdpAssumption DEF Make, Payload, Path
  <2>2. /\ buffers' \in [{"buffer", "udpBuffer"} -> Payload]
        /\ taken' \in [Path -> Payload]
        /\ buffers'[Scratch("tcp")] = taken'["tcp"]
        /\ buffers'[Scratch("udp")] = buffers[Scratch("udp")] /\ taken'["udp"] = taken["udp"]
    BY <1>0, <1>12, <2>1, FillsOwn DEF ReplyArrives
  <2>3. ControlTypeOK'
    BY <1>0, <1>12 DEF ReplyArrives, ControlTypeOK
  <2>4. SocketTypeOK' /\ NetworkTypeOK'
    BY <1>0, <1>12, SocketKept, NetworkKept DEF ReplyArrives
  <2>5. ReceiverTypeOK'
    BY <1>0, <1>12, <2>2 DEF ReplyArrives, ReceiverTypeOK
  <2>6. (OneSocket /\ NoneOpen)'
    BY <1>0, <1>12 DEF ReplyArrives, OneSocket, NoneOpen
  <2>7. WholePackets'
    BY <1>0, <1>12, <2>2 DEF ReplyArrives, WholePackets
  <2> QED  BY <2>3, <2>4, <2>5, <2>6, <2>7 DEF IInv, TypeOK
<1>13. ASSUME ReplyDecoded PROVE IInv'
  <2>1. taken' \in [Path -> Payload] /\ taken'["udp"] = taken["udp"]
    BY <1>0, <1>13, ForgetsOwn DEF ReplyDecoded, Path
  <2>2. ControlTypeOK'
    BY <1>0, <1>13 DEF ReplyDecoded, Done, ControlTypeOK
  <2>3. SocketTypeOK' /\ NetworkTypeOK'
    BY <1>0, <1>13, SocketKept, NetworkKept DEF ReplyDecoded
  <2>4. ReceiverTypeOK'
    BY <1>0, <1>13, <2>1 DEF ReplyDecoded, ReceiverTypeOK
  <2>5. (OneSocket /\ NoneOpen)'
    BY <1>0, <1>13 DEF ReplyDecoded, Done, OneSocket, NoneOpen
  <2>6. WholePackets'
    BY <1>0, <1>13, <2>1 DEF ReplyDecoded, Done, WholePackets
  <2> QED  BY <2>2, <2>3, <2>4, <2>5, <2>6 DEF IInv, TypeOK
<1> QED  BY <1>1, <1>2, <1>3, <1>4, <1>5, <1>6, <1>7, <1>8, <1>9, <1>10, <1>11, <1>12, <1>13
         DEF ControlStep

(* The steps of the receiver.                                              *)
LEMMA ReceiverInv == ASSUME IInv, ReceiveUDP \/ ReceiverStep PROVE IInv'
<1> USE DEF controlVars, socketVars, networkVars, receiverVars
<1>0. TypeOK /\ OneSocket /\ NoneOpen /\ WholePackets /\ ControlTypeOK /\ SocketTypeOK
        /\ NetworkTypeOK /\ ReceiverTypeOK
  BY DEF IInv, TypeOK
<1>1. ASSUME ReceiveUDP PROVE IInv'
  <2>1. ControlTypeOK'
    BY <1>0, <1>1, ControlKept DEF ReceiveUDP
  <2>2. SocketTypeOK'
    BY <1>0, <1>1, SocketKept DEF ReceiveUDP
  <2>3. NetworkTypeOK'
    BY <1>0, <1>1, NetworkKept DEF ReceiveUDP
  <2>4. ReceiverTypeOK'
    BY <1>0, <1>1 DEF ReceiveUDP, ReceiverTypeOK
  <2>5. (OneSocket /\ NoneOpen)'
    BY <1>0, <1>1 DEF ReceiveUDP, OneSocket, NoneOpen
  <2>6. WholePackets'
    BY <1>0, <1>1 DEF ReceiveUDP, WholePackets
  <2> QED  BY <2>1, <2>2, <2>3, <2>4, <2>5, <2>6 DEF IInv, TypeOK
<1>2. ASSUME SetDeadline PROVE IInv'
  <2>1. ControlTypeOK'
    BY <1>0, <1>2, ControlKept DEF SetDeadline
  <2>2. SocketTypeOK'
    BY <1>0, <1>2 DEF SetDeadline, NilDereference, Return, SocketTypeOK, Socket
  <2>3. NetworkTypeOK'
    BY <1>0, <1>2, NetworkKept DEF SetDeadline, NilDereference, Return
  <2>4. ReceiverTypeOK'
    BY <1>0, <1>2 DEF SetDeadline, NilDereference, Return, ReceiverTypeOK
  <2>5. (OneSocket /\ NoneOpen)'
    BY <1>0, <1>2 DEF SetDeadline, NilDereference, Return, OneSocket, NoneOpen
  <2>6. WholePackets'
    BY <1>0, <1>2 DEF SetDeadline, NilDereference, Return, WholePackets
  <2> QED  BY <2>1, <2>2, <2>3, <2>4, <2>5, <2>6 DEF IInv, TypeOK
<1>3. ASSUME StartRead PROVE IInv'
  <2>1. ControlTypeOK'
    BY <1>0, <1>3, ControlKept DEF StartRead
  <2>2. SocketTypeOK'
    BY <1>0, <1>3 DEF StartRead, NilDereference, SocketTypeOK, Socket
  <2>3. NetworkTypeOK'
    BY <1>0, <1>3, NetworkKept DEF StartRead, NilDereference
  <2>4. ReceiverTypeOK'
    BY <1>0, <1>3 DEF StartRead, NilDereference, ReceiverTypeOK
  <2>5. (OneSocket /\ NoneOpen)'
    BY <1>0, <1>3 DEF StartRead, NilDereference, OneSocket, NoneOpen
  <2>6. WholePackets'
    BY <1>0, <1>3 DEF StartRead, NilDereference, WholePackets
  <2> QED  BY <2>1, <2>2, <2>3, <2>4, <2>5, <2>6 DEF IInv, TypeOK
<1>4. ASSUME ReadDatagram PROVE IInv'
  <2>1. sock \in Socket /\ inbox[sock] \in Seq(Payload) /\ inbox[sock] # <<>>
    BY <1>0, <1>4 DEF ReadDatagram, SocketTypeOK
  <2>2. Head(inbox[sock]) \in Payload /\ Tail(inbox[sock]) \in Seq(Payload)
    BY <2>1
  <2>3. "udp" \in Path /\ "tcp" \in Path \ {"udp"}
    BY DEF Path
  <2>4. /\ buffers' \in [{"buffer", "udpBuffer"} -> Payload]
        /\ taken' \in [Path -> Payload]
        /\ buffers'[Scratch("udp")] = taken'["udp"]
        /\ buffers'[Scratch("tcp")] = buffers[Scratch("tcp")] /\ taken'["tcp"] = taken["tcp"]
    BY <1>0, <1>4, <2>2, <2>3, FillsOwn DEF ReadDatagram
  <2>5. ControlTypeOK' /\ NetworkTypeOK'
    BY <1>0, <1>4, ControlKept, NetworkKept DEF ReadDatagram
  <2>6. SocketTypeOK'
    BY <1>0, <1>4, <2>2 DEF ReadDatagram, SocketTypeOK, Socket
  <2>7. ReceiverTypeOK'
    BY <1>0, <1>4, <2>4 DEF ReadDatagram, ReceiverTypeOK
  <2>8. (OneSocket /\ NoneOpen)'
    BY <1>0, <1>4 DEF ReadDatagram, OneSocket, NoneOpen
  <2>9. WholePackets'
    BY <1>0, <1>4, <2>4 DEF ReadDatagram, WholePackets
  <2> QED  BY <2>5, <2>6, <2>7, <2>8, <2>9 DEF IInv, TypeOK
<1>5. ASSUME ReadFails PROVE IInv'
  <2>1. ControlTypeOK'
    BY <1>0, <1>5, ControlKept DEF ReadFails
  <2>2. SocketTypeOK'
    BY <1>0, <1>5 DEF ReadFails, Return, SocketTypeOK, Socket
  <2>3. NetworkTypeOK'
    BY <1>0, <1>5, NetworkKept DEF ReadFails, Return
  <2>4. ReceiverTypeOK'
    BY <1>0, <1>5 DEF ReadFails, Return, ReceiverTypeOK
  <2>5. (OneSocket /\ NoneOpen)'
    BY <1>0, <1>5 DEF ReadFails, Return, OneSocket, NoneOpen
  <2>6. WholePackets'
    BY <1>0, <1>5 DEF ReadFails, Return, WholePackets
  <2> QED  BY <2>1, <2>2, <2>3, <2>4, <2>5, <2>6 DEF IInv, TypeOK
<1>6. ASSUME ReadTimeout PROVE IInv'
  <2>1. ControlTypeOK'
    BY <1>0, <1>6, ControlKept DEF ReadTimeout
  <2>2. SocketTypeOK'
    BY <1>0, <1>6 DEF ReadTimeout, Return, SocketTypeOK, Socket
  <2>3. NetworkTypeOK'
    BY <1>0, <1>6, NetworkKept DEF ReadTimeout, Return
  <2>4. ReceiverTypeOK'
    BY <1>0, <1>6 DEF ReadTimeout, Return, ReceiverTypeOK
  <2>5. (OneSocket /\ NoneOpen)'
    BY <1>0, <1>6 DEF ReadTimeout, Return, OneSocket, NoneOpen
  <2>6. WholePackets'
    BY <1>0, <1>6 DEF ReadTimeout, Return, WholePackets
  <2> QED  BY <2>1, <2>2, <2>3, <2>4, <2>5, <2>6 DEF IInv, TypeOK
<1>7. ASSUME DecodeDatagram PROVE IInv'
  <2>1. taken' \in [Path -> Payload] /\ taken'["tcp"] = taken["tcp"]
    BY <1>0, <1>7, ForgetsOwn DEF DecodeDatagram, Path
  <2>2. ControlTypeOK' /\ NetworkTypeOK'
    BY <1>0, <1>7, ControlKept, NetworkKept DEF DecodeDatagram
  <2>3. SocketTypeOK'
    BY <1>0, <1>7 DEF DecodeDatagram, Return, SocketTypeOK, Socket
  <2>4. ReceiverTypeOK'
    BY <1>0, <1>7, <2>1 DEF DecodeDatagram, Return, ReceiverTypeOK
  <2>5. (OneSocket /\ NoneOpen)'
    BY <1>0, <1>7 DEF DecodeDatagram, OneSocket, NoneOpen
  <2>6. WholePackets'
    BY <1>0, <1>7, <2>1 DEF DecodeDatagram, Return, WholePackets
  <2> QED  BY <2>2, <2>3, <2>4, <2>5, <2>6 DEF IInv, TypeOK
<1> QED  BY <1>1, <1>2, <1>3, <1>4, <1>5, <1>6, <1>7 DEF ReceiverStep

(* QTM and the network.                                                    *)
LEMMA NetworkInv == ASSUME IInv, NetworkStep PROVE IInv'
<1> USE DEF controlVars, socketVars, networkVars, receiverVars
<1>0. TypeOK /\ OneSocket /\ NoneOpen /\ WholePackets /\ ControlTypeOK /\ SocketTypeOK
        /\ NetworkTypeOK /\ ReceiverTypeOK
  BY DEF IInv, TypeOK
<1>1. ASSUME QTMSends PROVE IInv'
  <2>1. ControlTypeOK'
    BY <1>0, <1>1, ControlKept DEF QTMSends
  <2>2. SocketTypeOK'
    BY <1>0, <1>1, SocketKept DEF QTMSends
  <2>3. NetworkTypeOK'
    <3>1. target \in Port /\ sent \in 0 .. MaxFrames /\ sent < MaxFrames
      BY <1>0, <1>1 DEF QTMSends, NetworkTypeOK
    <3>2. sent + 1 \in 0 .. MaxFrames
      <4>1. target \in Port /\ sent \in Nat /\ MaxFrames \in Nat /\ sent < MaxFrames
        BY <3>1, UdpAssumption
      <4> QED  BY <4>1
    <3>3. [port |-> target, payload |-> Make("frame", sent + 1)] \in Datagram
      BY <3>1, <3>2 DEF Datagram, Payload, Make
    <3> QED  BY <1>0, <1>1, <3>2, <3>3 DEF QTMSends, NetworkTypeOK
  <2>4. ReceiverTypeOK'
    BY <1>0, <1>1, ReceiverKept DEF QTMSends
  <2>5. (OneSocket /\ NoneOpen)'
    BY <1>0, <1>1 DEF QTMSends, OneSocket, NoneOpen
  <2>6. WholePackets'
    BY <1>0, <1>1 DEF QTMSends, WholePackets
  <2> QED  BY <2>1, <2>2, <2>3, <2>4, <2>5, <2>6 DEF IInv, TypeOK
<1>2. ASSUME Deliver PROVE IInv'
  <2>1. ControlTypeOK'
    BY <1>0, <1>2, ControlKept DEF Deliver, Arrive
  <2>2. SocketTypeOK'
    <3>1. PICK d \in air, s \in live : Arrive(s, d.payload)
      BY <1>2 DEF Deliver
    <3>2. d.payload \in Payload
      BY <1>0 DEF NetworkTypeOK, Datagram
    <3> QED  BY <1>0, <1>2, <3>1, <3>2, ArriveKept DEF Deliver
  <2>3. NetworkTypeOK'
    BY <1>0, <1>2 DEF Deliver, NetworkTypeOK
  <2>4. ReceiverTypeOK'
    BY <1>0, <1>2, ReceiverKept DEF Deliver, Arrive
  <2>5. (OneSocket /\ NoneOpen)'
    BY <1>0, <1>2 DEF Deliver, Arrive, OneSocket, NoneOpen
  <2>6. WholePackets'
    BY <1>0, <1>2 DEF Deliver, Arrive, WholePackets
  <2> QED  BY <2>1, <2>2, <2>3, <2>4, <2>5, <2>6 DEF IInv, TypeOK
<1>3. ASSUME StrangerSends PROVE IInv'
  <2>1. ControlTypeOK'
    BY <1>0, <1>3, ControlKept DEF StrangerSends, Arrive
  <2>2. SocketTypeOK'
    <3>1. PICK s \in live, payload \in Stray : Arrive(s, payload)
      BY <1>3 DEF StrangerSends
    <3>2. payload \in Payload
      <4>1. 0 \in 0 .. MaxFrames
        BY UdpAssumption
      <4> QED  BY <4>1 DEF Stray, Make, Payload
    <3> QED  BY <1>0, <1>3, <3>1, <3>2, ArriveKept DEF StrangerSends
  <2>3. NetworkTypeOK'
    BY <1>0, <1>3, NetworkKept DEF StrangerSends, Arrive
  <2>4. ReceiverTypeOK'
    BY <1>0, <1>3, ReceiverKept DEF StrangerSends, Arrive
  <2>5. (OneSocket /\ NoneOpen)'
    BY <1>0, <1>3 DEF StrangerSends, Arrive, OneSocket, NoneOpen
  <2>6. WholePackets'
    BY <1>0, <1>3 DEF StrangerSends, Arrive, WholePackets
  <2> QED  BY <2>1, <2>2, <2>3, <2>4, <2>5, <2>6 DEF IInv, TypeOK
<1>4. ASSUME Lose PROVE IInv'
  <2>1. ControlTypeOK'
    BY <1>0, <1>4, ControlKept DEF Lose
  <2>2. SocketTypeOK'
    BY <1>0, <1>4, SocketKept DEF Lose
  <2>3. NetworkTypeOK'
    BY <1>0, <1>4 DEF Lose, NetworkTypeOK
  <2>4. ReceiverTypeOK'
    BY <1>0, <1>4, ReceiverKept DEF Lose
  <2>5. (OneSocket /\ NoneOpen)'
    BY <1>0, <1>4 DEF Lose, OneSocket, NoneOpen
  <2>6. WholePackets'
    BY <1>0, <1>4 DEF Lose, WholePackets
  <2> QED  BY <2>1, <2>2, <2>3, <2>4, <2>5, <2>6 DEF IInv, TypeOK
<1> QED  BY <1>1, <1>2, <1>3, <1>4 DEF NetworkStep

(* The invariant is inductive.                                             *)
THEOREM Invariance == Spec => []IInv
<1>1. IInv /\ [Next]_vars => IInv'
  <2> SUFFICES ASSUME IInv, [Next]_vars PROVE IInv'
    OBVIOUS
  <2>1. CASE Next
    BY <2>1, ControlInv, ReceiverInv, NetworkInv DEF Next
  <2>2. CASE UNCHANGED vars
    BY <2>2, StutterKept
  <2> QED  BY <2>1, <2>2
<1>2. Init => IInv
  BY InitInv DEF Init
<1> QED  BY <1>1, <1>2, PTL DEF Spec

(* Every variable keeps its type: in particular QTM is never told a port   *)
(* that is none (commands.go:274).                                         *)
THEOREM TypeCorrect == Spec => []TypeOK
<1>1. IInv => TypeOK
  BY DEF IInv
<1> QED  BY Invariance, <1>1, PTL

(* No socket is left open that rt.udpConn does not hold, for any number of *)
(* calls of EnableUDPStream, Connect and Disconnect.                       *)
THEOREM SocketsOwned == Spec => []OneSocket
<1>1. IInv => OneSocket
  BY DEF IInv
<1> QED  BY Invariance, <1>1, PTL

(* The two paths do not disturb each other's packets.                      *)
THEOREM PathsSeparate == Spec => []WholePackets
<1>1. IInv => WholePackets
  BY DEF IInv
<1> QED  BY Invariance, <1>1, PTL

-----------------------------------------------------------------------------
(* The streaming program.  Its calls are steps of UdpStream, so that IInv  *)
(* holds of it too; what is its own is where the SDK is when the program   *)
(* is at a given place, which the following says.                          *)
Opening == {"start", "dialing", "version", "open", "enabling"}

(* The call that is under way.  A handshake that failed disconnects within *)
(* Connect, while the program is already leaving.                          *)
Place ==
    /\ prog \in {"start", "version", "open", "ask", "ended"} \cup Looping => cpc = "idle"
    /\ prog = "dialing" => cpc = "dial"
    /\ prog = "enabling" => cpc = "cleared" /\ cop = "EnableUDPStream"
    /\ prog = "leaving" => cpc = "idle" \/ (cpc = "cleared" /\ cop = "Disconnect")
    /\ prog = "disconnecting" => cpc \in {"closed", "cleared"} /\ cop = "Disconnect"

(* There is no socket before EnableUDPStream returned, which then is open, *)
(* and QTM streams nothing before it was asked.                            *)
Opened ==
    /\ prog \in Opening => udpConn = 0
    /\ prog \in Opening \cup {"ask"} => target = 0
    /\ prog = "ask" /\ mode = "udp" => udpConn \in live
    /\ prog = "start" => ~conn

(* A read is under way in ReceiveUDP only, of the program's own socket and *)
(* after its deadline was set.                                             *)
Receiving ==
    /\ timed
    /\ prog = "datagram" => rpc \in {"deadline", "read", "reading", "decode"}
    /\ prog # "datagram" => rpc = "idle"
    /\ rpc \in {"read", "reading"} => udpConn \in armed
    /\ rpc = "reading" => sock = udpConn

Program == Place /\ Opened /\ Receiving /\ EndsDisconnected /\ ReadsItsStream

ClientInv == IInv /\ ClientTypeOK /\ Program

LEMMA ClientInitInv == ClientInit => ClientInv
<1> SUFFICES ASSUME ClientInit PROVE ClientInv
  OBVIOUS
<1>1. IInv
  BY InitInv DEF ClientInit
<1>2. ClientTypeOK
  <2>1. TypeOK /\ s2c \in Seq(TCPPacket)
    BY <1>1 DEF IInv, ClientInit
  <2>2. port = <<>> /\ prog = "start"
    BY DEF ClientInit, NoStreamYet
  <2> QED  BY <2>1, <2>2 DEF ClientInit, ClientTypeOK
<1>3. Place /\ Opened
  BY DEF ClientInit, NoStreamYet, Place, Opened, Opening, Looping
<1>4. Receiving /\ EndsDisconnected /\ ReadsItsStream
  BY DEF ClientInit, NoStreamYet, Receiving, EndsDisconnected, ReadsItsStream, Looping
<1> QED  BY <1>1, <1>2, <1>3, <1>4 DEF ClientInv, Program

(* What is said of the program's place depends on nothing that QTM, the    *)
(* user or the network touches.                                            *)
LEMMA ProgramKept ==
    Program /\ UNCHANGED <<controlVars, port, live, armed, target, receiverVars, prog, mode>>
        => Program'
<1> SUFFICES ASSUME Program,
                    UNCHANGED <<controlVars, port, live, armed, target, receiverVars, prog, mode>>
             PROVE  Program'
  OBVIOUS
<1> USE DEF Program, controlVars, receiverVars
<1>1. Place' /\ Opened'
  BY DEF Place, Opened
<1>2. Receiving' /\ EndsDisconnected' /\ ReadsItsStream'
  BY DEF Receiving, EndsDisconnected, ReadsItsStream
<1> QED  BY <1>1, <1>2

-----------------------------------------------------------------------------
(* Connecting.                                                             *)
LEMMA ConnectingInv ==
    ASSUME ClientInv,
           StartConnect \/ Connected \/ ConnectFails
             \/ VersionSkipsEvent \/ VersionAnswered \/ VersionFails
    PROVE  ClientInv'
<1> USE DEF programVars, serverVars
<1>0. IInv /\ ClientTypeOK /\ Place /\ Opened /\ Receiving /\ EndsDisconnected /\ ReadsItsStream
  BY DEF ClientInv, Program
<1>1. ASSUME StartConnect PROVE ClientInv'
  <2>1. IInv'
    BY <1>0, <1>1, ControlInv DEF StartConnect, ControlStep
  <2>2. /\ prog = "start" /\ prog' = "dialing" /\ cpc' = "dial"
        /\ UNCHANGED <<timed, conn, udpConn, wanted, socketVars, networkVars, receiverVars>>
    BY <1>0, <1>1 DEF StartConnect, Connect, Opened, socketVars
  <2>3. ClientTypeOK'
    BY <1>0, <1>1, <2>1, <2>2 DEF StartConnect, ClientTypeOK, IInv, Looping, socketVars
  <2>4. Place' /\ Opened'
    BY <1>0, <2>2 DEF Place, Opened, Opening, Looping, networkVars
  <2>5. Receiving' /\ EndsDisconnected' /\ ReadsItsStream'
    BY <1>0, <2>2 DEF Receiving, EndsDisconnected, ReadsItsStream, Looping, socketVars, receiverVars
  <2> QED  BY <2>1, <2>3, <2>4, <2>5 DEF ClientInv, Program
<1>2. ASSUME Connected PROVE ClientInv'
  <2>1. IInv'
    BY <1>0, <1>2, ControlInv DEF Connected, ControlStep
  <2>2. /\ prog = "dialing" /\ prog' = "version" /\ cpc' = "idle"
        /\ UNCHANGED <<timed, udpConn, socketVars, networkVars, receiverVars>>
    BY <1>2 DEF Connected, Dial, Done
  <2>3. ClientTypeOK'
    BY <1>0, <1>2, <2>1, <2>2 DEF Connected, ClientTypeOK, IInv, Looping, socketVars
  <2>4. Place' /\ Opened'
    BY <1>0, <2>2 DEF Place, Opened, Opening, Looping, networkVars
  <2>5. Receiving' /\ EndsDisconnected' /\ ReadsItsStream'
    BY <1>0, <2>2 DEF Receiving, EndsDisconnected, ReadsItsStream, Looping, socketVars, receiverVars
  <2> QED  BY <2>1, <2>3, <2>4, <2>5 DEF ClientInv, Program
<1>3. ASSUME ConnectFails PROVE ClientInv'
  <2>1. IInv'
    BY <1>0, <1>3, ControlInv DEF ConnectFails, ControlStep
  <2>2. /\ prog = "dialing" /\ prog' = "leaving"
        /\ cpc' = "idle" \/ (cpc' = "cleared" /\ cop' = "Disconnect")
        /\ UNCHANGED <<timed, udpConn, port, armed, receiverVars>>
    BY <1>0, <1>3 DEF ConnectFails, Leave, Dial, Done, HandshakeFails, CloseUDP, Opened, Opening,
                      socketVars
  <2>3. ClientTypeOK'
    BY <1>0, <1>3, <2>1, <2>2 DEF ConnectFails, ClientTypeOK, IInv, Looping
  <2>4. Place' /\ Opened'
    BY <1>0, <2>2 DEF Place, Opened, Opening, Looping
  <2>5. Receiving' /\ EndsDisconnected' /\ ReadsItsStream'
    BY <1>0, <2>2 DEF Receiving, EndsDisconnected, ReadsItsStream, Looping, receiverVars
  <2> QED  BY <2>1, <2>3, <2>4, <2>5 DEF ClientInv, Program
<1>4. ASSUME VersionSkipsEvent PROVE ClientInv'
  <2>1. IInv'
    BY <1>0, <1>4, StutterKept DEF VersionSkipsEvent
  <2>2. Tail(s2c) \in Seq(TCPPacket)
    BY <1>0, <1>4 DEF VersionSkipsEvent, ClientTypeOK
  <2>3. ClientTypeOK'
    BY <1>0, <1>4, <2>1, <2>2 DEF VersionSkipsEvent, ClientTypeOK, IInv, vars, socketVars
  <2>4. Program'
    BY <1>4, ProgramKept DEF VersionSkipsEvent, ClientInv, vars, socketVars, networkVars
  <2> QED  BY <2>1, <2>3, <2>4 DEF ClientInv
<1>5. ASSUME VersionAnswered \/ VersionFails PROVE ClientInv'
  <2>1. IInv'
    BY <1>0, <1>5, StutterKept DEF VersionAnswered, VersionFails
  <2>2. s2c' \in Seq(TCPPacket)
    BY <1>0, <1>5 DEF VersionAnswered, VersionFails, ClientTypeOK
  <2>3. prog = "version" /\ prog' = "open" /\ UNCHANGED <<vars, mode, interrupted, up, streaming, owed, stalled>>
    BY <1>5 DEF VersionAnswered, VersionFails
  <2>4. ClientTypeOK'
    BY <1>0, <2>1, <2>2, <2>3 DEF ClientTypeOK, IInv, Looping, vars, socketVars
  <2>5. Place' /\ Opened'
    BY <1>0, <2>3 DEF Place, Opened, Opening, Looping, vars, controlVars, networkVars
  <2>6. Receiving' /\ EndsDisconnected' /\ ReadsItsStream'
    BY <1>0, <2>3 DEF Receiving, EndsDisconnected, ReadsItsStream, Looping,
                      vars, controlVars, socketVars, receiverVars
  <2> QED  BY <2>1, <2>4, <2>5, <2>6 DEF ClientInv, Program
<1> QED  BY <1>1, <1>2, <1>3, <1>4, <1>5

(* Starting the stream.                                                    *)
LEMMA StartingInv ==
    ASSUME ClientInv, OpenUDP \/ UDPOpened \/ Ask \/ AskRefused \/ AskUnheard
    PROVE  ClientInv'
<1> USE DEF programVars, serverVars
<1>0. IInv /\ ClientTypeOK /\ Place /\ Opened /\ Receiving /\ EndsDisconnected /\ ReadsItsStream
  BY DEF ClientInv, Program
<1>1. ASSUME OpenUDP PROVE ClientInv'
  <2>1. CASE mode = "udp" /\ EnableUDPStream(0) /\ prog' = "enabling"
    <3>1. IInv'
      BY <1>0, <2>1, ControlInv DEF ControlStep
    <3>2. /\ prog = "open" /\ cpc' = "cleared" /\ cop' = "EnableUDPStream"
          /\ UNCHANGED <<timed, udpConn, port, armed, target, receiverVars>>
      BY <1>0, <1>1, <2>1 DEF OpenUDP, EnableUDPStream, CloseUDP, Opened, Opening, networkVars
    <3>3. ClientTypeOK'
      BY <1>0, <1>1, <2>1, <3>1 DEF OpenUDP, ClientTypeOK, IInv, Looping
    <3>4. Place' /\ Opened'
      BY <1>0, <2>1, <3>2 DEF Place, Opened, Opening, Looping
    <3>5. Receiving' /\ EndsDisconnected' /\ ReadsItsStream'
      BY <1>0, <2>1, <3>2 DEF Receiving, EndsDisconnected, ReadsItsStream, Looping, receiverVars
    <3> QED  BY <3>1, <3>3, <3>4, <3>5 DEF ClientInv, Program
  <2>2. CASE mode = "tcp" /\ prog' = "ask" /\ UNCHANGED vars
    <3>1. IInv'
      BY <1>0, <2>2, StutterKept
    <3>2. ClientTypeOK'
      BY <1>0, <1>1, <2>2, <3>1 DEF OpenUDP, ClientTypeOK, IInv, Looping, vars, socketVars
    <3>3. Place' /\ Opened'
      BY <1>0, <1>1, <2>2 DEF OpenUDP, Place, Opened, Opening, Looping, vars, controlVars,
                              socketVars, networkVars
    <3>4. Receiving' /\ EndsDisconnected' /\ ReadsItsStream'
      BY <1>0, <1>1, <2>2 DEF OpenUDP, Receiving, EndsDisconnected, ReadsItsStream, Looping,
                              vars, controlVars, socketVars, receiverVars
    <3> QED  BY <3>1, <3>2, <3>3, <3>4 DEF ClientInv, Program
  <2> QED  BY <1>1, <2>1, <2>2 DEF OpenUDP
<1>2. ASSUME UDPOpened PROVE ClientInv'
  <2>0. prog = "enabling" /\ mode = "udp" /\ mode' = "udp" /\ target = 0
    BY <1>0, <1>2 DEF UDPOpened, ClientTypeOK, Opened, Opening
  <2>1. IInv'
    BY <1>0, <1>2, ControlInv DEF UDPOpened, ControlStep
  <2>2. ClientTypeOK'
    BY <1>0, <1>2, <2>0, <2>1 DEF UDPOpened, Leave, ClientTypeOK, IInv, Looping
  <2>3. CASE Listen /\ prog' = "ask"
    <3>1. cpc' = "idle" /\ udpConn' \in live' /\ UNCHANGED <<timed, target, armed, rpc, sock>>
      BY <2>3 DEF Listen, Done, networkVars
    <3>2. Place' /\ Opened'
      BY <2>0, <2>3, <3>1 DEF Place, Opened, Opening, Looping
    <3>3. Receiving' /\ EndsDisconnected' /\ ReadsItsStream'
      BY <1>0, <2>0, <2>3, <3>1 DEF Receiving, EndsDisconnected, ReadsItsStream, Looping
    <3> QED  BY <2>1, <2>2, <3>2, <3>3 DEF ClientInv, Program
  <2>4. CASE ListenFails /\ Leave
    <3>1. prog' = "leaving" /\ cpc' = "idle" /\ UNCHANGED <<timed, socketVars, receiverVars>>
      BY <2>4 DEF ListenFails, Done, Leave
    <3>2. Place' /\ Opened'
      BY <3>1 DEF Place, Opened, Opening, Looping
    <3>3. Receiving' /\ EndsDisconnected' /\ ReadsItsStream'
      BY <1>0, <2>0, <3>1 DEF Receiving, EndsDisconnected, ReadsItsStream, Looping, receiverVars
    <3> QED  BY <2>1, <2>2, <3>2, <3>3 DEF ClientInv, Program
  <2> QED  BY <1>2, <2>3, <2>4 DEF UDPOpened
<1>3. ASSUME Ask PROVE ClientInv'
  <2>1. CASE mode = "udp" /\ StreamFramesUDP(AskedPort) /\ UNCHANGED streaming
    <3>0. udpConn \in live /\ udpConn \in Socket /\ port \in Seq(Port)
      BY <1>0, <1>3, <2>1 DEF Ask, Opened, IInv, TypeOK, SocketTypeOK
    <3>1. AskedPort \in Port
      BY <3>0 DEF AskedPort, Socket
    <3>2. IInv'
      BY <1>0, <2>1, <3>1, ControlInv DEF ControlStep
    <3>3. /\ prog = "ask" /\ prog' = "loop" /\ target' = port[udpConn]
          /\ UNCHANGED <<mode, controlVars, socketVars, receiverVars>>
      BY <1>3, <2>1 DEF Ask, StreamFramesUDP, AskedPort
    <3>4. ClientTypeOK'
      BY <1>0, <1>3, <2>1, <3>2, <3>3 DEF Ask, ClientTypeOK, IInv, Looping, socketVars
    <3>5. Place' /\ Opened'
      BY <1>0, <3>3 DEF Place, Opened, Opening, Looping, controlVars
    <3>6. Receiving' /\ EndsDisconnected' /\ ReadsItsStream'
      BY <1>0, <3>0, <3>3 DEF Receiving, EndsDisconnected, ReadsItsStream, Looping,
                              controlVars, socketVars, receiverVars
    <3> QED  BY <3>2, <3>4, <3>5, <3>6 DEF ClientInv, Program
  <2>2. CASE mode = "tcp" /\ streaming' = TRUE /\ UNCHANGED vars
    <3>1. IInv'
      BY <1>0, <2>2, StutterKept
    <3>2. ClientTypeOK'
      BY <1>0, <1>3, <2>2, <3>1 DEF Ask, ClientTypeOK, IInv, Looping, vars, socketVars
    <3>3. Place' /\ Opened'
      BY <1>0, <1>3, <2>2 DEF Ask, Place, Opened, Opening, Looping, vars, controlVars
    <3>4. Receiving' /\ EndsDisconnected' /\ ReadsItsStream'
      BY <1>0, <1>3, <2>2 DEF Ask, Receiving, EndsDisconnected, ReadsItsStream, Looping,
                              vars, controlVars, socketVars, receiverVars
    <3> QED  BY <3>1, <3>2, <3>3, <3>4 DEF ClientInv, Program
  <2> QED  BY <1>3, <2>1, <2>2 DEF Ask
<1>4. ASSUME AskRefused \/ AskUnheard PROVE ClientInv'
  <2>1. IInv'
    BY <1>0, <1>4, StutterKept DEF AskRefused, AskUnheard
  <2>2. s2c' \in Seq(TCPPacket)
    <3>1. "error" \in TCPPacket
      BY DEF TCPPacket
    <3> QED  BY <1>0, <1>4, <3>1 DEF AskRefused, AskUnheard, ClientTypeOK
  <2>3. /\ prog = "ask" /\ prog' \in {"loop", "leaving"}
        /\ UNCHANGED <<vars, mode, interrupted, up, streaming, owed, stalled>>
    BY <1>4 DEF AskRefused, AskUnheard, Leave
  <2>4. ClientTypeOK'
    BY <1>0, <2>1, <2>2, <2>3 DEF ClientTypeOK, IInv, Looping, vars, socketVars
  <2>5. Place' /\ Opened'
    BY <1>0, <2>3 DEF Place, Opened, Opening, Looping, vars, controlVars
  <2>6. Receiving' /\ EndsDisconnected' /\ ReadsItsStream'
    BY <1>0, <2>3 DEF Receiving, EndsDisconnected, ReadsItsStream, Opened, Looping,
                      vars, controlVars, socketVars, networkVars, receiverVars
  <2> QED  BY <2>1, <2>4, <2>5, <2>6 DEF ClientInv, Program
<1> QED  BY <1>1, <1>2, <1>3, <1>4

(* The loop.                                                               *)
LEMMA LoopingInv ==
    ASSUME ClientInv,
           PollContext \/ ReceiveTCP \/ StartReceiveUDP \/ ReceivingUDP \/ ReceivedUDP
    PROVE  ClientInv'
<1> USE DEF programVars, serverVars
<1>0. IInv /\ ClientTypeOK /\ Place /\ Opened /\ Receiving /\ EndsDisconnected /\ ReadsItsStream
  BY DEF ClientInv, Program
<1>1. ASSUME PollContext PROVE ClientInv'
  <2>1. IInv'
    <3>1. StreamFramesStop \/ UNCHANGED vars
      BY <1>1 DEF PollContext
    <3> QED  BY <1>0, <3>1, ControlInv, StutterKept DEF ControlStep
  <2>2. /\ prog = "loop" /\ prog' \in {"receive", "leaving"} /\ target' \in {target, 0}
        /\ UNCHANGED <<mode, controlVars, socketVars, receiverVars>>
    BY <1>1 DEF PollContext, Leave, StreamFramesStop, vars, networkVars
  <2>3. ClientTypeOK'
    BY <1>0, <1>1, <2>1, <2>2 DEF PollContext, ClientTypeOK, IInv, Looping, socketVars
  <2>4. Place' /\ Opened'
    BY <1>0, <2>2 DEF Place, Opened, Opening, Looping, controlVars
  <2>5. Receiving' /\ EndsDisconnected' /\ ReadsItsStream'
    BY <1>0, <2>2 DEF Receiving, EndsDisconnected, ReadsItsStream, Looping,
                      controlVars, socketVars, receiverVars
  <2> QED  BY <2>1, <2>3, <2>4, <2>5 DEF ClientInv, Program
<1>2. ASSUME ReceiveTCP PROVE ClientInv'
  <2>1. IInv'
    BY <1>0, <1>2, StutterKept DEF ReceiveTCP
  <2>2. s2c' \in Seq(TCPPacket)
    BY <1>0, <1>2 DEF ReceiveTCP, ClientTypeOK
  <2>3. /\ prog = "receive" /\ prog' \in {"loop", "leaving"}
        /\ UNCHANGED <<vars, mode, interrupted, up, streaming, owed, stalled>>
    BY <1>2 DEF ReceiveTCP, HandlePacket, Leave
  <2>4. ClientTypeOK'
    BY <1>0, <2>1, <2>2, <2>3 DEF ClientTypeOK, IInv, Looping, vars, socketVars
  <2>5. Place' /\ Opened'
    BY <1>0, <2>3 DEF Place, Opened, Opening, Looping, vars, controlVars
  <2>6. Receiving' /\ EndsDisconnected' /\ ReadsItsStream'
    BY <1>0, <2>3 DEF Receiving, EndsDisconnected, ReadsItsStream, Looping,
                      vars, controlVars, socketVars, networkVars, receiverVars
  <2> QED  BY <2>1, <2>4, <2>5, <2>6 DEF ClientInv, Program
<1>3. ASSUME StartReceiveUDP PROVE ClientInv'
  <2>1. IInv'
    BY <1>0, <1>3, ReceiverInv DEF StartReceiveUDP
  <2>2. /\ prog = "receive" /\ mode = "udp" /\ prog' = "datagram" /\ rpc' = "deadline"
        /\ UNCHANGED <<mode, controlVars, socketVars, networkVars>>
    BY <1>0, <1>3 DEF StartReceiveUDP, ReceiveUDP, Receiving
  <2>3. ClientTypeOK'
    BY <1>0, <1>3, <2>1, <2>2 DEF StartReceiveUDP, ClientTypeOK, IInv, Looping, socketVars
  <2>4. Place' /\ Opened'
    BY <1>0, <2>2 DEF Place, Opened, Opening, Looping, controlVars
  <2>5. Receiving' /\ EndsDisconnected' /\ ReadsItsStream'
    BY <1>0, <2>2 DEF Receiving, EndsDisconnected, ReadsItsStream, Looping,
                      controlVars, socketVars, networkVars
  <2> QED  BY <2>1, <2>3, <2>4, <2>5 DEF ClientInv, Program
<1>4. ASSUME ReceivingUDP PROVE ClientInv'
  <2>1. IInv'
    BY <1>0, <1>4, ReceiverInv DEF ReceivingUDP, ReceiverStep
  <2>2. udpConn \in live /\ udpConn # 0
    BY <1>0, <1>4 DEF ReceivingUDP, ReadsItsStream, ClientTypeOK, Looping, IInv, TypeOK,
                      SocketTypeOK, Socket
  <2>3. /\ prog = "datagram"
        /\ UNCHANGED <<prog, mode, interrupted, serverVars, controlVars, port, live, networkVars>>
    BY <1>4 DEF ReceivingUDP, SetDeadline, StartRead, ReadDatagram, socketVars
  <2>4. rpc' \in {"read", "reading", "decode"}
    BY <1>4, <2>2 DEF ReceivingUDP, SetDeadline, StartRead, ReadDatagram, NilDereference
  <2>5. rpc' \in {"read", "reading"} => udpConn' \in armed'
    BY <1>0, <1>4, <2>2, <2>3 DEF ReceivingUDP, SetDeadline, StartRead, ReadDatagram,
                                  NilDereference, Receiving, controlVars, socketVars
  <2>6. rpc' = "reading" => sock' = udpConn'
    BY <1>4, <2>2, <2>3 DEF ReceivingUDP, SetDeadline, StartRead, ReadDatagram,
                            NilDereference, controlVars
  <2>7. ClientTypeOK'
    BY <1>0, <2>1, <2>3 DEF ClientTypeOK, IInv
  <2>8. Place' /\ Opened'
    BY <1>0, <2>3 DEF Place, Opened, Opening, Looping, controlVars
  <2>9. Receiving' /\ EndsDisconnected' /\ ReadsItsStream'
    BY <1>0, <2>3, <2>4, <2>5, <2>6 DEF Receiving, EndsDisconnected, ReadsItsStream, Looping,
                                        controlVars, networkVars
  <2> QED  BY <2>1, <2>7, <2>8, <2>9 DEF ClientInv, Program
<1>5. ASSUME ReceivedUDP PROVE ClientInv'
  <2>1. IInv'
    BY <1>0, <1>5, ReceiverInv DEF ReceivedUDP, ReceiverStep
  <2>2. /\ prog = "datagram" /\ prog' \in {"loop", "leaving"} /\ rpc' = "idle"
        /\ UNCHANGED <<mode, interrupted, serverVars, controlVars, socketVars, networkVars>>
    BY <1>5 DEF ReceivedUDP, ReadTimeout, DecodeDatagram, Return, Leave
  <2>3. ClientTypeOK'
    BY <1>0, <2>1, <2>2 DEF ClientTypeOK, IInv, Looping, socketVars
  <2>4. Place' /\ Opened'
    BY <1>0, <2>2 DEF Place, Opened, Opening, Looping, controlVars
  <2>5. Receiving' /\ EndsDisconnected' /\ ReadsItsStream'
    BY <1>0, <2>2 DEF Receiving, EndsDisconnected, ReadsItsStream, Looping,
                      controlVars, socketVars, networkVars
  <2> QED  BY <2>1, <2>3, <2>4, <2>5 DEF ClientInv, Program
<1> QED  BY <1>1, <1>2, <1>3, <1>4, <1>5

(* The deferred Disconnect: what is proved when the program has ended is   *)
(* that its socket was closed and the connection with it.                  *)
LEMMA LeavingInv == ASSUME ClientInv, StartDisconnect \/ Disconnected PROVE ClientInv'
<1> USE DEF programVars, serverVars
<1>0. IInv /\ ClientTypeOK /\ Place /\ Opened /\ Receiving /\ EndsDisconnected /\ ReadsItsStream
  BY DEF ClientInv, Program
<1>1. ASSUME StartDisconnect PROVE ClientInv'
  <2>1. IInv'
    BY <1>0, <1>1, ControlInv DEF StartDisconnect, ControlStep
  <2>2. /\ prog = "leaving" /\ prog' = "disconnecting"
        /\ cop' = "Disconnect" /\ cpc' \in {"closed", "cleared"}
        /\ UNCHANGED <<mode, interrupted, serverVars, timed, udpConn, port, armed, receiverVars>>
    BY <1>1 DEF StartDisconnect, Disconnect, CloseUDP
  <2>3. ClientTypeOK'
    BY <1>0, <2>1, <2>2 DEF ClientTypeOK, IInv, Looping
  <2>4. Place' /\ Opened'
    BY <2>2 DEF Place, Opened, Opening, Looping
  <2>5. Receiving' /\ EndsDisconnected' /\ ReadsItsStream'
    BY <1>0, <2>2 DEF Receiving, EndsDisconnected, ReadsItsStream, Looping, receiverVars
  <2> QED  BY <2>1, <2>3, <2>4, <2>5 DEF ClientInv, Program
<1>2. ASSUME Disconnected PROVE ClientInv'
  <2>1. IInv'
    BY <1>0, <1>2, ControlInv DEF Disconnected, ControlStep
  <2>2. cop = "Disconnect" /\ UNCHANGED <<mode, interrupted, timed, socketVars, receiverVars>>
    BY <1>0, <1>2 DEF Disconnected, ClearUDP, HangUp, Place
  <2>3. CASE ClearUDP /\ UNCHANGED <<prog, serverVars>>
    <3>1. prog = "disconnecting" /\ prog' = "disconnecting" /\ cpc' = "cleared" /\ cop' = cop
      BY <1>0, <1>2, <2>3 DEF Disconnected, ClearUDP, Place
    <3>2. ClientTypeOK'
      BY <1>0, <2>1, <2>2, <2>3 DEF ClientTypeOK, IInv, socketVars
    <3>3. Place' /\ Opened'
      BY <2>2, <3>1 DEF Place, Opened, Opening, Looping
    <3>4. Receiving' /\ EndsDisconnected' /\ ReadsItsStream'
      BY <1>0, <2>2, <3>1 DEF Receiving, EndsDisconnected, ReadsItsStream, Looping, receiverVars
    <3> QED  BY <2>1, <3>2, <3>3, <3>4 DEF ClientInv, Program
  <2>4. CASE HangUp
    <3>1. /\ prog \in {"leaving", "disconnecting"} /\ prog' \in {"leaving", "ended"}
          /\ up' = FALSE /\ streaming' = FALSE /\ owed' = FALSE /\ stalled' = FALSE /\ s2c' = <<>>
      BY <1>2, <2>4 DEF Disconnected, HangUp, ClearUDP
    <3>2. cpc' = "idle" /\ ~conn' /\ target' = 0 /\ live' = {}
      BY <1>0, <2>2, <2>4 DEF HangUp, Done, IInv, NoneOpen, socketVars
    <3>3. ClientTypeOK'
      <4>1. TypeOK' /\ port' = port /\ prog' \notin {"enabling", "datagram"}
        BY <2>1, <2>2, <3>1 DEF IInv, socketVars
      <4>2. s2c' \in Seq(TCPPacket)
        BY <3>1
      <4> QED  BY <1>0, <2>2, <3>1, <4>1, <4>2 DEF ClientTypeOK
    <3>4. Place' /\ Opened'
      BY <3>1, <3>2 DEF Place, Opened, Opening, Looping
    <3>5. Receiving' /\ EndsDisconnected' /\ ReadsItsStream'
      BY <1>0, <2>2, <2>4, <3>1, <3>2 DEF HangUp, Receiving, EndsDisconnected, ReadsItsStream,
                                          Looping, socketVars, receiverVars
    <3> QED  BY <2>1, <3>3, <3>4, <3>5 DEF ClientInv, Program
  <2> QED  BY <1>2, <2>3, <2>4 DEF Disconnected, HangUp, ClearUDP
<1> QED  BY <1>1, <1>2

(* The user, QTM and the network.                                          *)
LEMMA SurroundingsInv ==
    ASSUME ClientInv, Interrupt \/ QTMSendsTCP \/ QTMCloses \/ Elsewhere
    PROVE  ClientInv'
<1> USE DEF programVars, serverVars
<1>0. IInv /\ ClientTypeOK /\ Program
  BY DEF ClientInv
<1>1. ASSUME Interrupt PROVE ClientInv'
  <2>1. IInv'
    BY <1>0, <1>1, StutterKept DEF Interrupt
  <2>2. ClientTypeOK'
    BY <1>0, <1>1, <2>1 DEF Interrupt, ClientTypeOK, IInv, vars, socketVars
  <2>3. Program'
    BY <1>0, <1>1, ProgramKept DEF Interrupt, vars, socketVars, networkVars
  <2> QED  BY <2>1, <2>2, <2>3 DEF ClientInv
<1>2. ASSUME QTMSendsTCP PROVE ClientInv'
  <2>1. IInv'
    BY <1>0, <1>2, StutterKept DEF QTMSendsTCP
  <2>2. /\ s2c' \in Seq(TCPPacket) /\ owed' \in BOOLEAN /\ stalled' \in BOOLEAN
        /\ UNCHANGED <<vars, prog, mode, interrupted, up, streaming>>
    BY <1>0, <1>2 DEF QTMSendsTCP, ClientTypeOK
  <2>3. ClientTypeOK'
    BY <1>0, <2>1, <2>2 DEF ClientTypeOK, IInv, vars, socketVars
  <2>4. Program'
    BY <1>0, <2>2, ProgramKept DEF vars, socketVars, networkVars
  <2> QED  BY <2>1, <2>3, <2>4 DEF ClientInv
<1>3. ASSUME QTMCloses PROVE ClientInv'
  <2>0. TypeOK /\ OneSocket /\ NoneOpen /\ WholePackets
    BY <1>0 DEF IInv
  <2>1. /\ target' = 0
        /\ UNCHANGED <<controlVars, socketVars, sent, air, receiverVars, prog, mode, interrupted>>
    BY <1>3 DEF QTMCloses
  <2>2. TypeOK'
    <3>1. ControlTypeOK' /\ SocketTypeOK' /\ ReceiverTypeOK'
      BY <2>0, <2>1, ControlKept, SocketKept, ReceiverKept
         DEF TypeOK, controlVars, socketVars, receiverVars
    <3>2. NetworkTypeOK'
      BY <2>0, <2>1 DEF TypeOK, NetworkTypeOK
    <3> QED  BY <3>1, <3>2 DEF TypeOK
  <2>3. IInv'
    <3>1. (OneSocket /\ NoneOpen)' /\ WholePackets'
      BY <1>0, <2>1, OpenKept, WholeKept DEF controlVars, socketVars, receiverVars
    <3> QED  BY <2>2, <3>1 DEF IInv
  <2>4. /\ s2c' \in Seq(TCPPacket)
        /\ up' \in BOOLEAN /\ streaming' \in BOOLEAN /\ owed' \in BOOLEAN /\ stalled' \in BOOLEAN
    <3>1. s2c' \in Seq(TCPPacket)
      <4>1. s2c \in Seq(TCPPacket) /\ <<>> \in Seq(TCPPacket)
        BY <1>0 DEF ClientTypeOK
      <4>2. s2c' = s2c \/ s2c' = <<>>
        BY <1>3 DEF QTMCloses
      <4> QED  BY <4>1, <4>2
    <3>2. stalled' \in BOOLEAN
      BY <1>0, <1>3 DEF QTMCloses, ClientTypeOK
    <3>3. up' \in BOOLEAN /\ streaming' \in BOOLEAN /\ owed' \in BOOLEAN
      BY <1>3 DEF QTMCloses
    <3> QED  BY <3>1, <3>2, <3>3
  <2>5. ClientTypeOK'
    <3>1. UNCHANGED <<prog, mode, interrupted, port>>
      BY <2>1 DEF socketVars
    <3> QED  BY <1>0, <2>2, <2>4, <3>1 DEF ClientTypeOK
  <2>6. Place' /\ Opened'
    BY <1>0, <2>1 DEF Program, Place, Opened, controlVars, socketVars
  <2>7. Receiving' /\ EndsDisconnected' /\ ReadsItsStream'
    BY <1>0, <2>1 DEF Program, Receiving, EndsDisconnected, ReadsItsStream,
                      controlVars, socketVars, receiverVars
  <2> QED  BY <2>3, <2>5, <2>6, <2>7 DEF ClientInv, Program
<1>4. ASSUME Elsewhere PROVE ClientInv'
  <2>1. IInv'
    BY <1>0, <1>4, NetworkInv DEF Elsewhere
  <2>2. UNCHANGED <<controlVars, port, live, armed, target, receiverVars>>
    BY <1>4 DEF Elsewhere, NetworkStep, QTMSends, Deliver, StrangerSends, Lose, Arrive,
                socketVars, networkVars
  <2>3. ClientTypeOK'
    BY <1>0, <1>4, <2>1, <2>2 DEF Elsewhere, ClientTypeOK, IInv
  <2>4. Program'
    BY <1>0, <1>4, <2>2, ProgramKept DEF Elsewhere
  <2> QED  BY <2>1, <2>3, <2>4 DEF ClientInv
<1> QED  BY <1>1, <1>2, <1>3, <1>4

(* The program's invariant is inductive.                                   *)
THEOREM ClientInvariance == ClientSpec => []ClientInv
<1>1. ClientInv /\ [ClientNext]_allVars => ClientInv'
  <2> SUFFICES ASSUME ClientInv, [ClientNext]_allVars PROVE ClientInv'
    OBVIOUS
  <2>1. CASE ClientNext
    BY <2>1, ConnectingInv, StartingInv, LoopingInv, LeavingInv, SurroundingsInv
       DEF ClientNext, ProgramStep
  <2>2. CASE UNCHANGED allVars
    <3> USE <2>2 DEF allVars, programVars, serverVars
    <3>1. IInv'
      BY StutterKept DEF ClientInv
    <3>2. ClientTypeOK'
      BY <3>1 DEF ClientInv, ClientTypeOK, IInv, vars, socketVars
    <3>3. Program'
      BY ProgramKept DEF ClientInv, vars, socketVars, networkVars
    <3> QED  BY <3>1, <3>2, <3>3 DEF ClientInv
  <2> QED  BY <2>1, <2>2
<1> QED  BY ClientInitInv, <1>1, PTL DEF ClientSpec

(* Every variable of the program keeps its type; without the flag -udp it  *)
(* opens no socket (main.go:90-96).                                        *)
THEOREM ClientTypeCorrect == ClientSpec => []ClientTypeOK
<1>1. ClientInv => ClientTypeOK
  BY DEF ClientInv
<1> QED  BY ClientInvariance, <1>1, PTL

(* However run returns, its deferred Disconnect leaves no connection, no   *)
(* socket and no stream behind (main.go:58-59).                            *)
THEOREM ProgramCleansUp == ClientSpec => []EndsDisconnected
<1>1. ClientInv => EndsDisconnected
  BY DEF ClientInv, Program
<1> QED  BY ClientInvariance, <1>1, PTL

(* In the loop the program reads the socket that QTM streams to.           *)
THEOREM ProgramReadsItsStream == ClientSpec => []ReadsItsStream
<1>1. ClientInv => ReadsItsStream
  BY DEF ClientInv, Program
<1> QED  BY ClientInvariance, <1>1, PTL

(* No read of the program is without a deadline or of a closed socket, and *)
(* none is of a nil one: with one goroutine ReceiveUDP has no race.        *)
THEOREM ProgramReadsUntilDeadline == ClientSpec => []ReadsUntilDeadline
<1>1. ClientInv => ReadsUntilDeadline
  <2> SUFFICES ASSUME ClientInv PROVE ReadsUntilDeadline
    OBVIOUS
  <2>1. ClientTypeOK /\ Receiving /\ ReadsItsStream
    BY DEF ClientInv, Program
  <2>2. rpc # "panic"
    BY <2>1 DEF Receiving
  <2>3. ASSUME rpc = "reading" PROVE sock \in live \cap armed
    <3>1. prog = "datagram" /\ mode = "udp" /\ sock = udpConn /\ udpConn \in armed
      BY <2>1, <2>3 DEF Receiving, ClientTypeOK
    <3> QED  BY <2>1, <3>1 DEF ReadsItsStream, Looping
  <2> QED  BY <2>2, <2>3 DEF ReadsUntilDeadline
<1> QED  BY ClientInvariance, <1>1, PTL

=============================================================================
