----------------------------- MODULE CommandSession -----------------------------
(***************************************************************************)
(* The commands of an established connection (commands.go, parameters.go): *)
(* every public call sends a command and then waits in one of three loops, *)
(* receiveSkippingEvents for a reply, receiveSkippingEvents for a file, or *)
(* a polling loop of its own (GetState, GetParameters, Calibrate).         *)
(*                                                                         *)
(* QTM's replies carry no reference to the command they answer.  The id of *)
(* commands and packets is a ghost that says which call they belong to.    *)
(* QTM may refuse, be slow, push events, stream frames on the same         *)
(* connection, and close it.                                               *)
(***************************************************************************)
EXTENDS Integers, Sequences

CONSTANTS
    AckCommand,     \* commands that only wait for one of their responses
    RawCommand,     \* commands sent with SendCommand
    MaxCalls,       \* bound: calls on one connection
    MaxPending      \* bound: what is in flight when more is added

CaptureCommand == {"GetCaptureC3D", "GetCaptureQTM"}

PollCommand == {"GetState", "GetParameters"}

Answered == AckCommand \cup RawCommand \cup CaptureCommand \cup PollCommand \cup {"Calibrate"}

(* Fire-and-forget commands: nothing waits for an answer.                  *)
Silent == {"StreamFrames", "StreamFrames UDP", "StreamFrames Stop", "GetCurrentFrame", "Led"}

ASSUME CommandAssumption ==
    /\ AckCommand \cap (RawCommand \cup CaptureCommand \cup PollCommand \cup Silent) = {}
    /\ RawCommand \cap (CaptureCommand \cup PollCommand \cup Silent) = {}
    /\ {"Calibrate", "Receive", "none", "other"} \cap (AckCommand \cup RawCommand) = {}

ASSUME BoundAssumption == MaxCalls \in Nat /\ MaxPending \in Nat

VARIABLES
    conn,       \* rt.conn # nil
    pc,         \* where the running call is
    loop,       \* the loop it waits in
    op,         \* the running call
    serial,     \* ghost: calls begun on this connection; the id of the newest
    late,       \* has the deadline of the running loop passed?
    result,     \* what the last call returned
    up,         \* is QTM's end of the connection open?
    streaming,  \* does QTM stream frames over TCP?
    jobs,       \* acknowledged work of QTM that still ends in a packet
    c2s, s2c,   \* commands and packets in flight
    doubt       \* ghost: a reply or a frame may be on its way that no call awaits

clientVars == <<conn, pc, loop, op, serial, late, result>>
qtmVars    == <<up, streaming, jobs>>
netVars    == <<c2s, s2c>>
vars       == <<clientVars, qtmVars, netVars, doubt>>

(* id 0: the GetState of Connect.                                          *)
Command == [cmd : Answered \cup Silent, id : 0 .. MaxCalls]

(* text: the response a Command packet matches, or what an Event tells.    *)
Text == Answered \cup {"Sending capture", "other", "none",
                       "state", "settings", "closed"}

Packet == [type : {"Command", "Error", "XML", "Data", "C3DFile", "QTMFile", "Event"},
           text : Text,
           id   : 0 .. MaxCalls]

Make(type, text, id) == [type |-> type, text |-> text, id |-> id]

NoPacket == Make("Data", "none", 0)

(* The response sendAndWaitForResponse expects for a command.              *)
Expected(call) == IF call \in CaptureCommand THEN "Sending capture" ELSE call

(* Mutant of FileType: the wrong packet type for a QTM capture.            *)
FileTypeSwapped(call) == IF call = "GetCaptureC3D" THEN "C3DFile" ELSE "Data"

FileType(call) == IF call = "GetCaptureC3D" THEN "C3DFile" ELSE "QTMFile"

Outcome == {"nil", "unexpected", "ErrTimeout", "error packet", "closed",
            "write", "ErrNotConnected", "aborted", "NoMoreData", "invalid"}

Waiting == {"check", "arm", "recv", "forever"}

(* The type of every variable.                                             *)
TypeOK ==
    /\ conn \in BOOLEAN
    /\ pc \in {"idle", "receive"} \cup Waiting
    /\ loop \in {"none", "reply", "file", "poll"}
    /\ op \in Answered \cup {"Receive", "none"}
    /\ serial \in 0 .. MaxCalls
    /\ late \in BOOLEAN
    /\ result \in [op : Answered \cup Silent \cup {"Receive", "none"}, id : 0 .. MaxCalls,
                   err : Outcome, packet : Packet]
    /\ up \in BOOLEAN
    /\ streaming \in BOOLEAN
    /\ jobs \subseteq [type : {"XML", "C3DFile", "QTMFile"}, id : 0 .. MaxCalls]
    /\ c2s \in Seq(Command)
    /\ s2c \in Seq(Packet)
    /\ doubt \in BOOLEAN

(* Connect ignores what its GetState returns (protocol.go:273-275): it may *)
(* have timed out and still be with QTM.                                   *)
FromConnect == {<<>>, <<[cmd |-> "GetState", id |-> 0]>>}

(* Fresh from Connect.                                                     *)
Init ==
    /\ conn = TRUE
    /\ pc = "idle"
    /\ loop = "none"
    /\ op = "none"
    /\ serial = 0
    /\ late = FALSE
    /\ result = [op |-> "none", id |-> 0, err |-> "nil", packet |-> NoPacket]
    /\ up = TRUE
    /\ streaming = FALSE
    /\ jobs = {}
    /\ c2s \in FromConnect
    /\ s2c = <<>>
    /\ doubt = (c2s # <<>>)

InFlight == Len(c2s) + Len(s2c)

-----------------------------------------------------------------------------
(* Beginning a call.                                                       *)

(* sendCommand: what is written after QTM closed reaches nobody.           *)
Send(call) ==
    /\ serial' = serial + 1
    /\ c2s' = IF up THEN Append(c2s, [cmd |-> call, id |-> serial + 1]) ELSE c2s

Ready == pc = "idle" /\ conn /\ serial < MaxCalls /\ InFlight < MaxPending

Begin(call) ==
    /\ Ready
    /\ Send(call)
    /\ op' = call
    /\ pc' = "check"
    /\ loop' = IF call \in PollCommand THEN "poll" ELSE "reply"
    /\ late' = FALSE
    /\ UNCHANGED <<conn, result, qtmVars, s2c, doubt>>

(* StreamFrames and the like return once the command is written.  Frames   *)
(* asked for over TCP come between the replies, over UDP they do not       *)
(* (see UdpStream).                                                        *)
FireAndForget(call) ==
    /\ Ready
    /\ Send(call)
    /\ result' = [op |-> call, id |-> serial + 1, err |-> "nil", packet |-> NoPacket]
    /\ doubt' = (doubt \/ call \in {"StreamFrames", "GetCurrentFrame"})
    /\ UNCHANGED <<conn, pc, loop, op, late, qtmVars, s2c>>

(* An unknown rate, component or parameter, a bad UDP port or address:     *)
(* nothing is written.                                                     *)
BadArguments(call) ==
    /\ pc = "idle"
    /\ call \in {"StreamFrames", "StreamFrames UDP", "GetCurrentFrame", "GetParameters"}
    /\ call = "GetParameters" => conn
    /\ result' = [op |-> call, id |-> 0, err |-> "invalid", packet |-> NoPacket]
    /\ UNCHANGED <<conn, pc, loop, op, serial, late, qtmVars, netVars, doubt>>

WriteFails(call) ==
    /\ Ready
    /\ ~up
    /\ serial' = serial + 1
    /\ result' = [op |-> call, id |-> serial + 1, err |-> "write", packet |-> NoPacket]
    /\ UNCHANGED <<conn, pc, loop, op, late, qtmVars, netVars, doubt>>

NotConnected(call) ==
    /\ pc = "idle"
    /\ ~conn
    /\ result' = [op |-> call, id |-> 0, err |-> "ErrNotConnected", packet |-> NoPacket]
    /\ UNCHANGED <<conn, pc, loop, op, serial, late, qtmVars, netVars, doubt>>

-----------------------------------------------------------------------------
(* Pieces of the loops.                                                    *)

Reading == pc \in {"recv", "forever"}

Take == s2c # <<>> /\ s2c' = Tail(s2c) /\ UNCHANGED c2s

Return(err, packet) ==
    /\ pc' = "idle"
    /\ loop' = "none"
    /\ op' = "none"
    /\ late' = FALSE
    /\ result' = [op |-> op, id |-> serial, err |-> err, packet |-> packet]
    /\ UNCHANGED <<conn, serial>>

(* Mutant of GoOn: every skipped packet restarts the deadline.             *)
GoOnAfresh ==
    /\ pc' = "check"
    /\ late' = FALSE
    /\ UNCHANGED <<conn, loop, op, serial, result>>

GoOn ==
    /\ pc' = "check"
    /\ UNCHANGED <<conn, loop, op, serial, late, result>>

(* The second wait of getCapture and Calibrate has a deadline of its own.  *)
StartLoop(l) ==
    /\ loop' = l
    /\ pc' = "check"
    /\ late' = FALSE
    /\ UNCHANGED <<conn, op, serial, result>>

TimedOut == Return("ErrTimeout", NoPacket) /\ doubt' = TRUE

(* The deadline of the loop passes.                                        *)
ClockPasses ==
    /\ pc \in {"check", "arm", "recv"}
    /\ ~late
    /\ late' = TRUE
    /\ UNCHANGED <<conn, pc, loop, op, serial, result, qtmVars, netVars, doubt>>

(* The head of the loop.  receiveSkippingEvents computes the time left     *)
(* once; the polling loops read the clock again for ReceiveTimeout.        *)
CheckDeadline ==
    /\ pc = "check"
    /\ \/ late /\ TimedOut
       \/ /\ ~late
          /\ pc' = IF loop = "poll" THEN "arm" ELSE "recv"
          /\ UNCHANGED <<conn, loop, op, serial, late, result, doubt>>
    /\ UNCHANGED <<qtmVars, netVars>>

(* time.Until(deadline): not positive means no deadline to ReceiveTimeout. *)
Arm ==
    /\ pc = "arm"
    /\ pc' = IF late THEN "forever" ELSE "recv"
    /\ UNCHANGED <<conn, loop, op, serial, late, result, qtmVars, netVars, doubt>>

(* ReceiveTimeout returns PacketTypeNoMoreData.                            *)
NoMoreData ==
    /\ pc = "recv"
    /\ late
    /\ IF loop = "poll" THEN GoOn /\ UNCHANGED doubt ELSE TimedOut
    /\ UNCHANGED <<qtmVars, netVars>>

Broken ==
    /\ Reading
    /\ ~up /\ s2c = <<>>
    /\ Return("closed", NoPacket)
    /\ UNCHANGED <<qtmVars, netVars, doubt>>

(* Error packets reach every loop as an error of ReceiveTimeout.           *)
ErrorPacket ==
    /\ Reading
    /\ Take
    /\ Head(s2c).type = "Error"
    /\ Return("error packet", Head(s2c))
    /\ UNCHANGED <<qtmVars, doubt>>

-----------------------------------------------------------------------------
(* receiveSkippingEvents and what its callers do with the packet.          *)

(* Mutant of SkipEvent: an event is taken for the reply.                   *)
SkipEventNot ==
    /\ Reading /\ loop \in {"reply", "file"}
    /\ Take
    /\ Head(s2c).type = "Event"
    /\ Return("unexpected", Head(s2c))
    /\ UNCHANGED <<qtmVars, doubt>>

SkipEvent ==
    /\ Reading /\ loop \in {"reply", "file"}
    /\ Take
    /\ Head(s2c).type = "Event"
    /\ GoOn
    /\ UNCHANGED <<qtmVars, doubt>>

IsReply == Reading /\ loop = "reply" /\ Take /\ Head(s2c).type \notin {"Event", "Error"}

(* SendCommand returns p.CommandResponse, whatever the packet.             *)
RawReply ==
    /\ IsReply
    /\ op \in RawCommand
    /\ Return("nil", Head(s2c))
    /\ UNCHANGED <<qtmVars, doubt>>

Matches(p) == p.type = "Command" /\ p.text = Expected(op)

(* Mutant of Acknowledged: Calibrate returns on the acknowledgement and    *)
(* leaves the calibration XML behind.                                      *)
AcknowledgedOnly ==
    /\ IsReply
    /\ op \notin RawCommand
    /\ Matches(Head(s2c))
    /\ \/ op \in AckCommand \cup {"Calibrate"} /\ Return("nil", Head(s2c))
       \/ op \in CaptureCommand /\ StartLoop("file")
    /\ UNCHANGED <<qtmVars, doubt>>

(* sendAndWaitForResponse: one of the expected responses ...               *)
Acknowledged ==
    /\ IsReply
    /\ op \notin RawCommand
    /\ Matches(Head(s2c))
    /\ \/ op \in AckCommand /\ Return("nil", Head(s2c))
       \/ op \in CaptureCommand /\ StartLoop("file")
       \/ op = "Calibrate" /\ StartLoop("poll")
    /\ UNCHANGED <<qtmVars, doubt>>

(* ... or anything else.                                                   *)
Unexpected ==
    /\ IsReply
    /\ op \notin RawCommand
    /\ ~Matches(Head(s2c))
    /\ Return("unexpected", Head(s2c))
    /\ UNCHANGED <<qtmVars, doubt>>

(* getCapture's second packet.                                             *)
FileArrives ==
    /\ Reading /\ loop = "file"
    /\ Take
    /\ Head(s2c).type \notin {"Event", "Error"}
    /\ Return(IF Head(s2c).type = FileType(op) THEN "nil" ELSE "unexpected", Head(s2c))
    /\ UNCHANGED <<qtmVars, doubt>>

-----------------------------------------------------------------------------
(* The polling loops.                                                      *)

Wanted(p) == p.type = IF op = "GetState" THEN "Event" ELSE "XML"

(* GetState takes any event for its answer, which may still be to come.    *)
PollDone ==
    /\ Reading /\ loop = "poll"
    /\ Take
    /\ Wanted(Head(s2c))
    /\ Return("nil", Head(s2c))
    /\ doubt' = (doubt \/ (op = "GetState" /\ Head(s2c).id # serial))
    /\ UNCHANGED qtmVars

(* Calibrate gives up when QTM reports that its connection was closed.     *)
CalibrationAborted ==
    /\ Reading /\ loop = "poll" /\ op = "Calibrate"
    /\ Take
    /\ Head(s2c).type = "Event" /\ Head(s2c).text = "closed"
    /\ Return("aborted", Head(s2c))
    /\ doubt' = TRUE
    /\ UNCHANGED qtmVars

PollDiscards ==
    /\ Reading /\ loop = "poll"
    /\ Take
    /\ ~Wanted(Head(s2c)) /\ Head(s2c).type # "Error"
    /\ ~(op = "Calibrate" /\ Head(s2c).type = "Event" /\ Head(s2c).text = "closed")
    /\ GoOn
    /\ UNCHANGED <<qtmVars, doubt>>

-----------------------------------------------------------------------------
(* The application's own Receive, Disconnect and Connect.                  *)

Receive ==
    /\ pc = "idle" /\ conn
    /\ pc' = "receive"
    /\ op' = "Receive"
    /\ UNCHANGED <<conn, loop, serial, late, result, qtmVars, netVars, doubt>>

ReceiveReturns ==
    /\ pc = "receive"
    /\ \/ /\ Take
          /\ Return(IF Head(s2c).type = "Error" THEN "error packet" ELSE "nil", Head(s2c))
       \/ /\ ~up /\ s2c = <<>>
          /\ Return("closed", NoPacket)
          /\ UNCHANGED netVars
       \/ /\ Return("NoMoreData", NoPacket)
          /\ UNCHANGED netVars
    /\ UNCHANGED <<qtmVars, doubt>>

(* Disconnect hangs up; the outcome of earlier calls is of no more use.    *)
Disconnect ==
    /\ pc = "idle" /\ conn
    /\ conn' = FALSE
    /\ serial' = 0
    /\ result' = [op |-> "none", id |-> 0, err |-> "nil", packet |-> NoPacket]
    /\ up' = FALSE
    /\ streaming' = FALSE
    /\ jobs' = {}
    /\ c2s' = <<>>
    /\ s2c' = <<>>
    /\ doubt' = FALSE
    /\ UNCHANGED <<pc, loop, op, late>>

(* A successful Connect (see Handshake).                                   *)
Connect ==
    /\ pc = "idle" /\ ~conn
    /\ conn' = TRUE
    /\ up' = TRUE
    /\ c2s' \in FromConnect
    /\ doubt' = (doubt \/ c2s' # <<>>)
    /\ UNCHANGED <<pc, loop, op, serial, late, result, streaming, jobs, s2c>>

-----------------------------------------------------------------------------
(* QTM.                                                                    *)

Taking(call) == up /\ c2s # <<>> /\ Head(c2s).cmd = call /\ c2s' = Tail(c2s)

Reply(type, text) == s2c' = Append(s2c, Make(type, text, Head(c2s).id))

QTMAcknowledges ==
    /\ \E call \in AckCommand \cup RawCommand : Taking(call) /\ Reply("Command", call)
    /\ UNCHANGED <<clientVars, qtmVars, doubt>>

(* The capture or the calibration goes on after the acknowledgement.       *)
QTMStartsWork ==
    /\ \E call \in CaptureCommand \cup {"Calibrate"} :
          /\ Taking(call)
          /\ Reply("Command", Expected(call))
          /\ jobs' = jobs \cup
                {[type |-> IF call = "Calibrate" THEN "XML" ELSE FileType(call),
                  id   |-> Head(c2s).id]}
    /\ UNCHANGED <<clientVars, up, streaming, doubt>>

QTMFinishesWork ==
    /\ up
    /\ \E job \in jobs :
          /\ jobs' = jobs \ {job}
          /\ \E type \in {job.type, "Error"} :
                s2c' = Append(s2c, Make(type, "none", job.id))
    /\ UNCHANGED <<clientVars, up, streaming, c2s, doubt>>

QTMSendsParameters ==
    /\ Taking("GetParameters")
    /\ Reply("XML", "none")
    /\ UNCHANGED <<clientVars, qtmVars, doubt>>

QTMSendsState ==
    /\ Taking("GetState")
    /\ Reply("Event", "state")
    /\ UNCHANGED <<clientVars, qtmVars, doubt>>

(* Nobody waits for the refusal of a command that is only written.         *)
QTMRefuses ==
    /\ \E call \in Answered \cup Silent :
          /\ Taking(call)
          /\ doubt' = (doubt \/ call \in Silent)
    /\ Reply("Error", "none") \/ Reply("Command", "other")
    /\ UNCHANGED <<clientVars, qtmVars>>

QTMObeys ==
    /\ \/ Taking("StreamFrames") /\ streaming' = TRUE /\ UNCHANGED s2c
       \/ Taking("StreamFrames Stop") /\ streaming' = FALSE /\ UNCHANGED s2c
       \/ Taking("GetCurrentFrame") /\ Reply("Data", "none") /\ UNCHANGED streaming
       \/ (Taking("Led") \/ Taking("StreamFrames UDP")) /\ UNCHANGED <<streaming, s2c>>
    /\ UNCHANGED <<clientVars, up, jobs, doubt>>

QTMStreams ==
    /\ up /\ streaming
    /\ InFlight < MaxPending
    /\ s2c' = Append(s2c, Make("Data", "none", 0))
    /\ UNCHANGED <<clientVars, qtmVars, c2s, doubt>>

QTMPushesEvent ==
    /\ up
    /\ InFlight < MaxPending
    /\ \E text \in {"state", "settings", "closed"} :
          s2c' = Append(s2c, Make("Event", text, 0))
    /\ UNCHANGED <<clientVars, qtmVars, c2s, doubt>>

(* What QTM sent before it closed may still be read, or may be lost.       *)
QTMCloses ==
    /\ up
    /\ up' = FALSE
    /\ streaming' = FALSE
    /\ jobs' = {}
    /\ c2s' = <<>>
    /\ s2c' \in {s2c, <<>>}
    /\ UNCHANGED <<clientVars, doubt>>

-----------------------------------------------------------------------------
ApplicationStep ==
    \/ \E call \in Answered : Begin(call)
    \/ \E call \in Silent : FireAndForget(call)
    \/ \E call \in Answered \cup Silent :
          BadArguments(call) \/ WriteFails(call) \/ NotConnected(call)
    \/ Receive \/ Disconnect \/ Connect

ClientStep ==
    \/ CheckDeadline \/ Arm \/ NoMoreData \/ Broken \/ ErrorPacket
    \/ SkipEvent \/ RawReply \/ Acknowledged \/ Unexpected \/ FileArrives
    \/ PollDone \/ CalibrationAborted \/ PollDiscards
    \/ ReceiveReturns

QTMStep ==
    \/ QTMAcknowledges \/ QTMStartsWork \/ QTMFinishesWork \/ QTMSendsParameters
    \/ QTMSendsState \/ QTMRefuses \/ QTMObeys \/ QTMStreams \/ QTMPushesEvent
    \/ QTMCloses

Next == ApplicationStep \/ ClientStep \/ ClockPasses \/ QTMStep

Spec == Init /\ [][Next]_vars

(* The client's goroutine keeps running and the clock advances; nothing is *)
(* assumed of QTM.                                                         *)
Fairness == WF_vars(ClientStep) /\ WF_vars(ClockPasses)

FairSpec == Spec /\ Fairness

-----------------------------------------------------------------------------
(* The packet that decides a call, well or ill, is QTM's answer to that    *)
(* very call, although replies name no command: unless an earlier call on  *)
(* the connection ended before its answer was read, frames were asked for  *)
(* on it, or QTM refused a command nobody waits for.  With the frames on   *)
(* UDP it stays so (receiveSkippingEvents, protocol.go:448-455; the        *)
(* promise of StreamFramesUDP, commands.go:261-262).                       *)
OwnAnswer ==
    (/\ pc = "idle" /\ conn /\ ~doubt
     /\ result.op \in Answered \ {"GetState"}
     /\ result.err \in {"nil", "unexpected", "error packet"})
        => result.packet.id = result.id

(* A call that ran to its end leaves nothing but events for whoever reads  *)
(* next: no reply, no calibration XML, no captured file, no command still  *)
(* to be answered (the mistakes the comments of Calibrate, GetCaptureC3D and GetState     *)
(* report of the previous implementation).                                 *)
NothingLeftBehind ==
    (pc = "idle" /\ ~doubt) =>
        /\ jobs = {}
        /\ \A k \in DOMAIN c2s : c2s[k].cmd \in Silent
        /\ \A j \in DOMAIN s2c : s2c[j].type = "Event"

(* A call waiting in receiveSkippingEvents comes back, even if QTM never   *)
(* answers and never stops pushing events: the deadline is absolute.       *)
RepliesAwaitedReturn == (pc # "idle" /\ loop # "poll") ~> (pc = "idle" \/ loop = "poll")

=============================================================================
