----------------------------- MODULE StreamingClient -----------------------------
(***************************************************************************)
(* The streaming program (cmd/streaming/main.go), on top of UdpStream: one *)
(* goroutine that connects, asks QTM's version, starts a stream over TCP   *)
(* or UDP and handles packets until it is interrupted, QTM shuts down or   *)
(* something fails.  Every return of run goes through its deferred         *)
(* Disconnect.                                                             *)
(*                                                                         *)
(* The TCP connection is a queue of packets, received whole as             *)
(* PacketFraming shows.                                                    *)
(***************************************************************************)
EXTENDS UdpStream

CONSTANT MaxPending     \* bound: TCP packets on their way when more is sent

ASSUME PendingAssumption == MaxPending \in Nat

VARIABLES
    prog,           \* where run is
    mode,           \* the flag -udp
    interrupted,    \* SIGINT or SIGTERM arrived
    up,             \* is QTM's end of the connection open?
    streaming,      \* does QTM stream over TCP?
    owed,           \* QTM has not answered GetQTMVersion
    stalled,        \* QTM stopped sending in the middle of a packet
    s2c             \* TCP packets on their way to the program

programVars == <<mode, interrupted>>
serverVars  == <<up, streaming, owed, stalled, s2c>>
allVars     == <<vars, prog, programVars, serverVars>>

Looping == {"loop", "receive", "datagram"}

(* A torn packet is a header whose body never arrives.                     *)
TCPPacket == {"reply", "error", "event", "shutdown", "frame", "torn"}

(* The types of the program's variables and of the SDK's; UDP only with    *)
(* the flag.                                                               *)
ClientTypeOK ==
    /\ TypeOK
    /\ prog \in {"start", "dialing", "version", "open", "enabling", "ask",
                 "leaving", "disconnecting", "ended"} \cup Looping
    /\ mode \in {"tcp", "udp"}
    /\ interrupted \in BOOLEAN
    /\ up \in BOOLEAN
    /\ streaming \in BOOLEAN
    /\ owed \in BOOLEAN
    /\ stalled \in BOOLEAN
    /\ s2c \in Seq(TCPPacket)
    /\ mode = "tcp" => prog \notin {"enabling", "datagram"} /\ port = <<>>

(* NewProtocol sets a read timeout.                                        *)
ClientInit ==
    /\ timed = TRUE
    /\ conn = FALSE
    /\ NoStreamYet
    /\ prog = "start"
    /\ mode \in {"tcp", "udp"}
    /\ interrupted = FALSE
    /\ up = FALSE
    /\ streaming = FALSE
    /\ owed = FALSE
    /\ stalled = FALSE
    /\ s2c = <<>>

-----------------------------------------------------------------------------
(* Connecting.                                                             *)

(* Mutant of Leave: log.Fatal, which runs no deferred call.                *)
LeaveAtOnce == prog' = "ended"

(* run returns, with or without an error.                                  *)
Leave == prog' = "leaving"

StartConnect ==
    /\ prog = "start"
    /\ Connect
    /\ prog' = "dialing"
    /\ UNCHANGED <<programVars, serverVars>>

(* The command of GetQTMVersion is written as soon as Connect returns.     *)
Connected ==
    /\ prog = "dialing"
    /\ Dial /\ conn'
    /\ prog' = "version"
    /\ up' = TRUE
    /\ owed' = TRUE
    /\ UNCHANGED <<programVars, streaming, stalled, s2c>>

ConnectFails ==
    /\ prog = "dialing"
    /\ HandshakeFails \/ (Dial /\ ~conn')
    /\ Leave
    /\ UNCHANGED <<programVars, serverVars>>

(* GetQTMVersion skips events, a shutdown among them ...                   *)
VersionSkipsEvent ==
    /\ prog = "version"
    /\ s2c # <<>> /\ Head(s2c) \in {"event", "shutdown"}
    /\ s2c' = Tail(s2c)
    /\ UNCHANGED <<vars, prog, programVars, up, streaming, owed, stalled>>

(* ... and returns with any other packet; run ignores an error.            *)
VersionAnswered ==
    /\ prog = "version"
    /\ s2c # <<>> /\ Head(s2c) \notin {"event", "shutdown"}
    /\ s2c' = Tail(s2c)
    /\ prog' = "open"
    /\ UNCHANGED <<vars, programVars, up, streaming, owed, stalled>>

(* The command timeout (see CommandSession), or a broken connection.       *)
VersionFails ==
    /\ prog = "version"
    /\ prog' = "open"
    /\ UNCHANGED <<vars, programVars, serverVars>>

-----------------------------------------------------------------------------
(* Starting the stream.                                                    *)

(* Mutant of OpenUDP: the flag is not looked at.                           *)
OpenUDPAlways ==
    /\ prog = "open"
    /\ EnableUDPStream(0) /\ prog' = "enabling"
    /\ UNCHANGED <<programVars, serverVars>>

OpenUDP ==
    /\ prog = "open"
    /\ \/ mode = "udp" /\ EnableUDPStream(0) /\ prog' = "enabling"
       \/ mode = "tcp" /\ prog' = "ask" /\ UNCHANGED vars
    /\ UNCHANGED <<programVars, serverVars>>

UDPOpened ==
    /\ prog = "enabling"
    /\ \/ Listen /\ prog' = "ask"
       \/ ListenFails /\ Leave
    /\ UNCHANGED <<programVars, serverVars>>

(* Mutant of AskedPort: the port of discovery, not the one granted.        *)
AskedPortFixed == CHOOSE p \in Port : TRUE

(* What EnableUDPStream returned.                                          *)
AskedPort == port[udpConn]

(* QTM obeys ...                                                           *)
Ask ==
    /\ prog = "ask" /\ up
    /\ \/ mode = "udp" /\ StreamFramesUDP(AskedPort) /\ UNCHANGED streaming
       \/ mode = "tcp" /\ streaming' = TRUE /\ UNCHANGED vars
    /\ prog' = "loop"
    /\ UNCHANGED <<programVars, up, owed, stalled, s2c>>

(* ... or refuses.                                                         *)
AskRefused ==
    /\ prog = "ask" /\ up /\ ~stalled
    /\ prog' = "loop"
    /\ s2c' = Append(s2c, "error")
    /\ UNCHANGED <<vars, programVars, up, streaming, owed, stalled>>

(* What is written after QTM closed may fail, or go nowhere.               *)
AskUnheard ==
    /\ prog = "ask" /\ ~up
    /\ Leave \/ prog' = "loop"
    /\ UNCHANGED <<vars, programVars, serverVars>>

-----------------------------------------------------------------------------
(* The loop.                                                               *)

(* Mutant of PollContext: the context is not looked at.                    *)
PollContextNot ==
    /\ prog = "loop"
    /\ prog' = "receive"
    /\ UNCHANGED <<vars, programVars, serverVars>>

(* select on ctx.Done(): the error of StreamFramesStop is ignored.         *)
PollContext ==
    /\ prog = "loop"
    /\ \/ /\ interrupted
          /\ IF up THEN StreamFramesStop ELSE UNCHANGED vars
          /\ streaming' = FALSE
          /\ Leave
       \/ ~interrupted /\ prog' = "receive" /\ UNCHANGED <<vars, streaming>>
    /\ UNCHANGED <<programVars, up, owed, stalled, s2c>>

(* Mutant of HandlePacket: every event goes on.                            *)
HandlePacketOn(p) == IF p \in {"error", "torn"} THEN Leave ELSE prog' = "loop"

(* receive's errors end run, a truncated packet without one; of the        *)
(* packets only the event QTMShuttingDown does.                            *)
HandlePacket(p) == IF p \in {"error", "torn", "shutdown"} THEN Leave ELSE prog' = "loop"

ReceiveTCP ==
    /\ prog = "receive" /\ mode = "tcp"
    /\ \/ /\ s2c # <<>>
          /\ s2c' = Tail(s2c)
          /\ HandlePacket(Head(s2c))
       \/ s2c = <<>> /\ (IF up THEN prog' = "loop" ELSE Leave) /\ UNCHANGED s2c
    /\ UNCHANGED <<vars, programVars, up, streaming, owed, stalled>>

StartReceiveUDP ==
    /\ prog = "receive" /\ mode = "udp"
    /\ ReceiveUDP
    /\ prog' = "datagram"
    /\ UNCHANGED <<programVars, serverVars>>

(* The receiver's steps within the call, up to a datagram.                 *)
ReceivingUDP ==
    /\ prog = "datagram"
    /\ SetDeadline \/ StartRead \/ ReadDatagram
    /\ UNCHANGED <<prog, programVars, serverVars>>

(* No more data, or a frame: go on.  A short datagram ends run; another    *)
(* one does if it decodes to nothing or to QTMShuttingDown, and not if it  *)
(* is another event, an error or a reply.                                  *)
ReceivedUDP ==
    /\ prog = "datagram"
    /\ \/ ReadTimeout /\ prog' = "loop"
       \/ /\ DecodeDatagram
          /\ \/ taken["udp"].kind # "short" /\ prog' = "loop"
             \/ taken["udp"].kind # "frame" /\ Leave
    /\ UNCHANGED <<programVars, serverVars>>

-----------------------------------------------------------------------------
(* The deferred Disconnect.                                                *)

StartDisconnect ==
    /\ prog = "leaving"
    /\ Disconnect
    /\ prog' = "disconnecting"
    /\ UNCHANGED <<programVars, serverVars>>

Disconnected ==
    /\ prog \in {"leaving", "disconnecting"}
    /\ \/ ClearUDP /\ UNCHANGED <<prog, serverVars>>
       \/ /\ HangUp
          /\ prog' = IF prog = "disconnecting" THEN "ended" ELSE prog
          /\ up' = FALSE /\ streaming' = FALSE /\ owed' = FALSE
          /\ stalled' = FALSE /\ s2c' = <<>>
    /\ UNCHANGED programVars

-----------------------------------------------------------------------------
(* The user, QTM and the network.                                          *)

Interrupt ==
    /\ prog # "ended"
    /\ ~interrupted
    /\ interrupted' = TRUE
    /\ UNCHANGED <<vars, prog, mode, serverVars>>

(* The version, frames, events, an error, or a packet cut off for good.    *)
QTMSendsTCP ==
    /\ up /\ ~stalled
    /\ Len(s2c) < MaxPending
    /\ \E p \in TCPPacket :
          /\ p = "reply" => owed
          /\ p = "frame" => streaming
          /\ s2c' = Append(s2c, p)
          /\ owed' = (owed /\ p # "reply")
          /\ stalled' = (p = "torn")
    /\ UNCHANGED <<vars, prog, programVars, up, streaming>>

QTMCloses ==
    /\ up
    /\ up' = FALSE
    /\ streaming' = FALSE
    /\ owed' = FALSE
    /\ UNCHANGED stalled
    /\ s2c' \in {s2c, <<>>}
    /\ target' = 0
    /\ UNCHANGED <<controlVars, socketVars, sent, air, receiverVars, prog, programVars>>

Elsewhere == NetworkStep /\ UNCHANGED <<prog, programVars, serverVars>>

-----------------------------------------------------------------------------
ProgramStep ==
    \/ StartConnect \/ Connected \/ ConnectFails
    \/ VersionSkipsEvent \/ VersionAnswered \/ VersionFails
    \/ OpenUDP \/ UDPOpened \/ Ask \/ AskRefused \/ AskUnheard
    \/ PollContext \/ ReceiveTCP \/ StartReceiveUDP \/ ReceivingUDP \/ ReceivedUDP
    \/ StartDisconnect \/ Disconnected

ClientNext == ProgramStep \/ Interrupt \/ QTMSendsTCP \/ QTMCloses \/ Elsewhere

ClientSpec == ClientInit /\ [][ClientNext]_allVars

(* The program's goroutine runs.  GetQTMVersion has an absolute deadline,  *)
(* so that events without end do not hold it; Connect is taken to return.  *)
FairClientSpec == ClientSpec /\ WF_allVars(ProgramStep) /\ WF_allVars(VersionFails)

-----------------------------------------------------------------------------
(* However the program ends, the connection and the UDP socket are closed  *)
(* and QTM streams to it no more: log.Fatal is reached only after the      *)
(* deferred cleanup (main.go:58-59).                                       *)
EndsDisconnected == prog = "ended" => ~conn /\ live = {} /\ target = 0

(* In the loop the UDP socket that is read is open and is the one QTM      *)
(* streams to, if it streams.                                              *)
ReadsItsStream ==
    (prog \in Looping /\ mode = "udp") =>
        udpConn \in live /\ target \in {0, port[udpConn]}

(* Whatever the program reads over UDP it reads from an open socket with a *)
(* deadline, and it never calls a nil one: the races that ReceiveUDP has   *)
(* with another goroutine do not arise in a program that has only one.     *)
ReadsUntilDeadline ==
    rpc # "panic" /\ (rpc = "reading" => sock \in live \cap armed)

(* An interrupt ends the program, also when QTM is silent, streams for     *)
(* ever or is gone: receive has a deadline and the loop polls the context. *)
InterruptEnds == interrupted ~> (prog = "ended")

(* Streaming over TCP, the program ends when QTM announces that it shuts   *)
(* down, or closes the connection (main.go:22, 123).                       *)
ShutdownEnds ==
    (/\ mode = "tcp" /\ prog \in Looping
     /\ ~up \/ \E j \in DOMAIN s2c : s2c[j] = "shutdown")
        ~> (prog = "ended")

=============================================================================
