-------------------------------- MODULE UdpStream --------------------------------
(***************************************************************************)
(* Frames over UDP (commands.go: EnableUDPStream, StreamFramesUDP,         *)
(* ReceiveUDP; protocol.go: Connect, Disconnect).  Two goroutines share a  *)
(* Protocol, as the comment of udpBuffer (protocol.go:105-108) has it: the *)
(* control goroutine issues the commands and opens and closes sockets, the *)
(* receiver calls ReceiveUDP.  Nothing locks rt.udpConn; a step here reads *)
(* or writes it once.                                                      *)
(*                                                                         *)
(* The network loses, repeats and reorders datagrams, and strangers send   *)
(* datagrams of their own.                                                 *)
(***************************************************************************)
EXTENDS Naturals, Sequences

CONSTANTS
    Port,       \* UDP ports of the client's machine
    MaxSockets, \* bound: sockets opened
    MaxFrames,  \* bound: frames QTM sends
    MaxInbox    \* datagrams the system keeps for a socket

ASSUME UdpAssumption ==
    /\ Port \subseteq 1 .. 65535
    /\ MaxSockets \in Nat /\ MaxFrames \in Nat /\ MaxInbox \in Nat

VARIABLES
    timed,      \* rt.readTimeout > 0
    conn,       \* rt.conn # nil
    udpConn,    \* rt.udpConn, 0 when nil
    cpc, cop,   \* where the control goroutine is, in which call
    wanted,     \* the port EnableUDPStream was asked for
    port,       \* the port of every socket opened so far
    live,       \* the sockets that are open
    armed,      \* the sockets with a read deadline
    inbox,      \* what each socket has received
    target,     \* the port QTM streams to, or 0
    sent,       \* frames QTM has sent
    air,        \* datagrams on their way
    rpc, sock,  \* where the receiver is, the socket it reads from
    buffers,    \* rt.buffer and rt.udpBuffer
    taken,      \* ghost: what the running call of each path read
    swapped     \* ghost: a socket was opened between deadline and read

controlVars  == <<timed, conn, udpConn, cpc, cop, wanted>>
socketVars   == <<port, live, armed, inbox>>
networkVars  == <<target, sent, air>>
receiverVars == <<rpc, sock, buffers, taken, swapped>>
vars         == <<controlVars, socketVars, networkVars, receiverVars>>

Socket == DOMAIN port

(* A frame of QTM, a reply over TCP, or another datagram: fewer bytes than *)
(* a header, or a header of something that is no frame.                    *)
Payload == [kind : {"frame", "reply", "short", "alien"}, n : 0 .. MaxFrames]

Make(kind, n) == [kind |-> kind, n |-> n]

Stray == {Make("short", 0), Make("alien", 0)}

Nothing == Make("short", 0)

Datagram == [port : Port, payload : Payload]

Path == {"tcp", "udp"}

(* Mutant of Scratch: ReceiveUDP reads into the buffer of the TCP path.    *)
ScratchShared(path) == "buffer"

(* The buffer each path reads into.                                        *)
Scratch(path) == IF path = "udp" THEN "udpBuffer" ELSE "buffer"

ControlTypeOK ==
    /\ timed \in BOOLEAN
    /\ conn \in BOOLEAN
    /\ cpc \in {"idle", "closed", "cleared", "dial", "reply"}
    /\ cop \in {"none", "EnableUDPStream", "Disconnect", "Connect", "Receive"}
    /\ wanted \in Port \cup {0}

SocketTypeOK ==
    /\ port \in Seq(Port)
    /\ udpConn \in Socket \cup {0}
    /\ sock \in Socket \cup {0}
    /\ live \subseteq Socket
    /\ armed \subseteq Socket
    /\ inbox \in [Socket -> Seq(Payload)]

NetworkTypeOK ==
    /\ target \in Port \cup {0}
    /\ sent \in 0 .. MaxFrames
    /\ air \subseteq Datagram

ReceiverTypeOK ==
    /\ rpc \in {"idle", "deadline", "read", "reading", "decode", "panic"}
    /\ buffers \in [{"buffer", "udpBuffer"} -> Payload]
    /\ taken \in [Path -> Payload]
    /\ swapped \in BOOLEAN

(* The type of every variable.                                             *)
TypeOK == ControlTypeOK /\ SocketTypeOK /\ NetworkTypeOK /\ ReceiverTypeOK

(* Everything but the connection, before the first call.                   *)
NoStreamYet ==
    /\ udpConn = 0
    /\ cpc = "idle" /\ cop = "none"
    /\ wanted = 0
    /\ port = <<>>
    /\ live = {}
    /\ armed = {}
    /\ inbox = <<>>
    /\ target = 0
    /\ sent = 0
    /\ air = {}
    /\ rpc = "idle" /\ sock = 0
    /\ buffers = [b \in {"buffer", "udpBuffer"} |-> Nothing]
    /\ taken = [path \in Path |-> Nothing]
    /\ swapped = FALSE

Init == timed \in BOOLEAN /\ conn = TRUE /\ NoStreamYet

-----------------------------------------------------------------------------
(* The control goroutine.  Closing the socket and clearing rt.udpConn are  *)
(* two steps, in EnableUDPStream and in Disconnect.                        *)

(* Mutant of CloseUDP: the old socket is left open.                        *)
CloseUDPForgets(call) ==
    /\ cop' = call
    /\ cpc' = "cleared"
    /\ UNCHANGED live

CloseUDP(call) ==
    /\ cop' = call
    /\ cpc' = IF udpConn # 0 THEN "closed" ELSE "cleared"
    /\ live' = live \ {udpConn}

EnableUDPStream(p) ==
    /\ cpc = "idle"
    /\ Len(port) < MaxSockets
    /\ CloseUDP("EnableUDPStream")
    /\ wanted' = p
    /\ UNCHANGED <<timed, conn, udpConn, port, armed, inbox, networkVars, receiverVars>>

Disconnect ==
    /\ cpc = "idle"
    /\ CloseUDP("Disconnect")
    /\ UNCHANGED <<timed, conn, udpConn, wanted, port, armed, inbox, networkVars, receiverVars>>

(* Connect disconnects first, but only if it is connected.                 *)
Connect ==
    /\ cpc = "idle"
    /\ \/ conn /\ CloseUDP("Connect")
       \/ ~conn /\ cpc' = "dial" /\ cop' = "Connect" /\ UNCHANGED live
    /\ UNCHANGED <<timed, conn, udpConn, wanted, port, armed, inbox, networkVars, receiverVars>>

ClearUDP ==
    /\ cpc = "closed"
    /\ udpConn' = 0
    /\ cpc' = "cleared"
    /\ UNCHANGED <<timed, conn, cop, wanted, socketVars, networkVars, receiverVars>>

Done == cpc' = "idle" /\ cop' = "none" /\ wanted' = 0

(* The system chooses a port, or grants the one asked for if it is free.   *)
(* The local address of a UDP socket is always a *net.UDPAddr.             *)
Listen ==
    /\ cpc = "cleared" /\ cop = "EnableUDPStream"
    /\ \E p \in Port :
          /\ wanted \in {0, p}
          /\ \A s \in live : port[s] # p
          /\ port' = Append(port, p)
    /\ inbox' = Append(inbox, <<>>)
    /\ udpConn' = Len(port')
    /\ live' = live \cup {Len(port')}
    /\ swapped' = (rpc = "read")
    /\ Done
    /\ UNCHANGED <<timed, conn, armed, networkVars,
                   rpc, sock, buffers, taken>>

ListenFails ==
    /\ cpc = "cleared" /\ cop = "EnableUDPStream"
    /\ Done
    /\ UNCHANGED <<timed, conn, udpConn, socketVars, networkVars, receiverVars>>

(* The rest of Disconnect.  QTM stops streaming to a client that hung up.  *)
HangUp ==
    /\ cpc = "cleared" /\ cop \in {"Disconnect", "Connect"}
    /\ conn' = FALSE
    /\ target' = 0
    /\ \/ cop = "Disconnect" /\ Done
       \/ cop = "Connect" /\ cpc' = "dial" /\ UNCHANGED <<cop, wanted>>
    /\ UNCHANGED <<timed, udpConn, socketVars, sent, air, receiverVars>>

(* The dial succeeds and so does the handshake, or the dial fails.         *)
Dial ==
    /\ cpc = "dial"
    /\ conn' \in BOOLEAN
    /\ Done
    /\ UNCHANGED <<timed, udpConn, socketVars, networkVars, receiverVars>>

(* A handshake that fails calls Disconnect, which closes the UDP socket.   *)
HandshakeFails ==
    /\ cpc = "dial"
    /\ conn' = TRUE
    /\ CloseUDP("Disconnect")
    /\ UNCHANGED <<timed, udpConn, wanted, port, armed, inbox, networkVars, receiverVars>>

(* Mutant of StreamFramesUDP: the port is not checked.                     *)
StreamFramesUDPUnchecked(p) ==
    /\ cpc = "idle" /\ conn
    /\ target' = p
    /\ UNCHANGED <<controlVars, socketVars, sent, air, receiverVars>>

(* QTM obeys, or it refuses and goes on as before.  The errors of the      *)
(* other arguments and of the write change nothing either.                 *)
StreamFramesUDP(p) ==
    /\ cpc = "idle" /\ conn
    /\ p > 0 /\ p <= 65535
    /\ target' = p
    /\ UNCHANGED <<controlVars, socketVars, sent, air, receiverVars>>

StreamFramesStop ==
    /\ cpc = "idle" /\ conn
    /\ target' = 0
    /\ UNCHANGED <<controlVars, socketVars, sent, air, receiverVars>>

Fill(path, payload) ==
    /\ buffers' = [buffers EXCEPT ![Scratch(path)] = payload]
    /\ taken' = [taken EXCEPT ![path] = payload]

Forget(path) == taken' = [taken EXCEPT ![path] = Nothing]

(* A command waits for its reply: ReceiveTimeout fills rt.buffer ...       *)
ReplyArrives ==
    /\ cpc = "idle" /\ conn
    /\ cpc' = "reply" /\ cop' = "Receive"
    /\ Fill("tcp", Make("reply", 0))
    /\ UNCHANGED <<timed, conn, udpConn, wanted, socketVars, networkVars,
                   rpc, sock, swapped>>

(* ... and decodes what is in it.                                          *)
ReplyDecoded ==
    /\ cpc = "reply"
    /\ Done
    /\ Forget("tcp")
    /\ UNCHANGED <<timed, conn, udpConn, socketVars, networkVars,
                   rpc, sock, buffers, swapped>>

-----------------------------------------------------------------------------
(* The receiver: ReceiveUDP.                                               *)

Return ==
    /\ rpc' = "idle"
    /\ sock' = 0
    /\ swapped' = FALSE

(* A method call on a nil *net.UDPConn ends the program.                   *)
NilDereference ==
    /\ udpConn = 0
    /\ rpc' = "panic"
    /\ UNCHANGED <<sock, swapped>>

(* Without a socket the call returns ErrNotConnected at once.              *)
ReceiveUDP ==
    /\ rpc = "idle"
    /\ udpConn # 0
    /\ rpc' = IF timed THEN "deadline" ELSE "read"
    /\ UNCHANGED <<controlVars, socketVars, networkVars, sock, buffers, taken, swapped>>

(* Mutant of SetDeadline: the deadline of the TCP connection is set.       *)
SetDeadlineOfConn ==
    /\ rpc = "deadline"
    /\ rpc' = "read"
    /\ UNCHANGED <<controlVars, socketVars, networkVars, sock, buffers, taken, swapped>>

(* SetReadDeadline fails on a socket that was closed.                      *)
SetDeadline ==
    /\ rpc = "deadline"
    /\ \/ NilDereference /\ UNCHANGED armed
       \/ udpConn \notin live \cup {0} /\ Return /\ UNCHANGED armed
       \/ /\ udpConn \in live
          /\ rpc' = "read"
          /\ armed' = armed \cup {udpConn}
          /\ UNCHANGED <<sock, swapped>>
    /\ UNCHANGED <<controlVars, port, live, inbox, networkVars, buffers, taken>>

StartRead ==
    /\ rpc = "read"
    /\ \/ NilDereference
       \/ udpConn # 0 /\ rpc' = "reading" /\ sock' = udpConn /\ UNCHANGED swapped
    /\ UNCHANGED <<controlVars, socketVars, networkVars, buffers, taken>>

ReadDatagram ==
    /\ rpc = "reading"
    /\ sock \in live /\ inbox[sock] # <<>>
    /\ rpc' = "decode"
    /\ inbox' = [inbox EXCEPT ![sock] = Tail(@)]
    /\ Fill("udp", Head(inbox[sock]))
    /\ UNCHANGED <<controlVars, port, live, armed, networkVars, sock, swapped>>

(* The socket was closed under the read.                                   *)
ReadFails ==
    /\ rpc = "reading"
    /\ sock \notin live
    /\ Return
    /\ UNCHANGED <<controlVars, socketVars, networkVars, buffers, taken>>

(* PacketTypeNoMoreData.                                                   *)
ReadTimeout ==
    /\ rpc = "reading"
    /\ sock \in live \cap armed
    /\ Return
    /\ UNCHANGED <<controlVars, socketVars, networkVars, buffers, taken>>

(* A short or undecodable datagram is an error of the call, anything else  *)
(* its packet; either way the receiver returns.                            *)
DecodeDatagram ==
    /\ rpc = "decode"
    /\ Forget("udp")
    /\ Return
    /\ UNCHANGED <<controlVars, socketVars, networkVars, buffers>>

-----------------------------------------------------------------------------
(* QTM and the network.                                                    *)

QTMSends ==
    /\ target # 0
    /\ sent < MaxFrames
    /\ sent' = sent + 1
    /\ air' = air \cup {[port |-> target, payload |-> Make("frame", sent + 1)]}
    /\ UNCHANGED <<controlVars, socketVars, target, receiverVars>>

Arrive(s, payload) ==
    /\ Len(inbox[s]) < MaxInbox
    /\ inbox' = [inbox EXCEPT ![s] = Append(@, payload)]
    /\ UNCHANGED <<port, live, armed>>

(* A datagram reaches whichever socket has its port by then.               *)
Deliver ==
    /\ \E d \in air, s \in live :
          /\ port[s] = d.port
          /\ Arrive(s, d.payload)
          /\ air' \in {air, air \ {d}}
    /\ UNCHANGED <<controlVars, target, sent, receiverVars>>

StrangerSends ==
    /\ \E s \in live, payload \in Stray : Arrive(s, payload)
    /\ UNCHANGED <<controlVars, networkVars, receiverVars>>

Lose ==
    /\ \E d \in air : air' = air \ {d}
    /\ UNCHANGED <<controlVars, socketVars, target, sent, receiverVars>>

-----------------------------------------------------------------------------
ControlStep ==
    \/ \E p \in Port \cup {0} : EnableUDPStream(p)
    \/ Disconnect \/ Connect \/ ClearUDP \/ Listen \/ ListenFails \/ HangUp
    \/ Dial \/ HandshakeFails
    \/ \E p \in Port \cup {0, 65536} : StreamFramesUDP(p)
    \/ StreamFramesStop \/ ReplyArrives \/ ReplyDecoded

ReceiverStep ==
    \/ SetDeadline \/ StartRead \/ ReadDatagram \/ ReadFails \/ ReadTimeout
    \/ DecodeDatagram

NetworkStep == QTMSends \/ Deliver \/ StrangerSends \/ Lose

(* A panic of either goroutine is the end of the program.                  *)
Next == rpc # "panic" /\ (ControlStep \/ ReceiveUDP \/ ReceiverStep \/ NetworkStep)

Spec == Init /\ [][Next]_vars

(* The receiver's goroutine runs and the clock advances.  Nothing is       *)
(* assumed of the network, or of the control goroutine.                    *)
FairSpec == Spec /\ WF_vars(ReceiverStep)

-----------------------------------------------------------------------------
(* At most one UDP socket is open, and it is the one rt.udpConn holds:     *)
(* whatever EnableUDPStream, Connect and Disconnect do in whatever order,  *)
(* successfully or not, no socket is left open that nobody can close.      *)
OneSocket == live \subseteq {udpConn}

(* What a call decodes is what its own read took, although two goroutines  *)
(* read and decode at the same time (protocol.go:105-108).                 *)
WholePackets ==
    /\ rpc = "decode" => buffers[Scratch("udp")] = taken["udp"]
    /\ cpc = "reply" => buffers[Scratch("tcp")] = taken["tcp"]

(* With a read timeout ReceiveUDP comes back even if QTM never sends and   *)
(* the socket is closed, removed or replaced under it (commands.go:379).   *)
(* Two races are outside the promise: a nil socket ends the program, and a *)
(* socket opened between SetReadDeadline and the read is read without a    *)
(* deadline.                                                               *)
ReceiveUDPReturns == (timed /\ rpc # "idle") ~> (rpc \in {"idle", "panic"} \/ swapped)

=============================================================================
