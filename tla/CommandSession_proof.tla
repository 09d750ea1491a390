------------------------ MODULE CommandSession_proof ------------------------
(***************************************************************************)
(* Proofs about CommandSession: whose answer decides a call, and what a    *)
(* call leaves to the next one, for any commands and any number of calls.  *)
(***************************************************************************)
EXTENDS CommandSession, SequenceTheorems, TLAPS

-----------------------------------------------------------------------------
(* The inductive invariant.  As long as nothing is in doubt, a waiting     *)
(* call has one thing under way: its command, or QTM's answer to it, or    *)
(* the work that QTM acknowledged and its outcome.                         *)

Between == {"idle", "receive"}

WorkCommand == CaptureCommand \cup {"Calibrate"}

WorkType(call) == IF call = "Calibrate" THEN "XML" ELSE FileType(call)

(* What QTM sends on its own bears the id 0.                               *)
IsAnswer(p) == p.id # 0

Asks(c) == c.cmd \notin Silent

(* An acknowledgement after which the outcome of the work is still to come.*)
Opens(p) == loop = "reply" /\ op \in WorkCommand /\ Matches(p)

NoAnswer == \A j \in DOMAIN s2c : ~IsAnswer(s2c[j])

NoQuestion == \A k \in DOMAIN c2s : ~Asks(c2s[k])

Clean == jobs = {} /\ NoQuestion /\ NoAnswer

(* The command of the call: nothing else of it is under way.               *)
QuestionAlone ==
    \A k \in DOMAIN c2s : Asks(c2s[k]) =>
        /\ c2s[k].cmd = op /\ c2s[k].id = serial
        /\ NoAnswer /\ jobs = {}
        /\ op \in WorkCommand => loop = "reply"
        /\ \A l \in DOMAIN c2s : l # k => ~Asks(c2s[l])

(* Work goes on only for the call that asked for it.                       *)
WorkOwned ==
    jobs # {} => op \in WorkCommand /\ jobs = {[type |-> WorkType(op), id |-> serial]}

(* An answer is the call's own and, but for an acknowledgement that opens  *)
(* work, the last one.                                                     *)
AnswersOwned ==
    \A j \in DOMAIN s2c : IsAnswer(s2c[j]) =>
        /\ s2c[j].id = serial
        /\ Opens(s2c[j]) =>
              \A l \in DOMAIN s2c :
                  (l # j /\ IsAnswer(s2c[l])) => jobs = {} /\ ~Opens(s2c[l])
        /\ ~Opens(s2c[j]) =>
              jobs = {} /\ \A l \in DOMAIN s2c : l > j => ~IsAnswer(s2c[l])

OneUnderWay == QuestionAlone /\ WorkOwned /\ AnswersOwned

(* Where the call is and what the connection may hold.                     *)
Shape ==
    /\ pc # "idle" => conn
    /\ up => conn
    /\ ~up => c2s = <<>> /\ jobs = {} /\ ~streaming
    /\ pc = "idle" => op = "none"
    /\ pc = "receive" => op = "Receive"
    /\ pc \in Between <=> loop = "none"
    /\ pc \in Waiting => op \in Answered /\ serial > 0
    /\ loop = "reply" => op \notin PollCommand
    /\ loop = "file" => op \in CaptureCommand
    /\ loop = "poll" => op \in PollCommand \cup {"Calibrate"}

(* Without frames, only events come unasked, and nothing is left of the    *)
(* GetState of Connect (id 0).                                             *)
Quiet ==
    /\ ~streaming
    /\ \A k \in DOMAIN c2s :
          c2s[k].cmd \notin {"StreamFrames", "GetCurrentFrame"} /\ c2s[k].id # 0
    /\ \A job \in jobs : job.id # 0
    /\ \A j \in DOMAIN s2c : s2c[j].type # "Event" => IsAnswer(s2c[j])

ResultOwn ==
    (/\ result.op \in Answered \ {"GetState"}
     /\ result.err \in {"nil", "unexpected", "error packet"})
        => result.packet.id = result.id

Undisturbed ==
    ~doubt =>
        /\ Quiet
        /\ pc \in Between => Clean
        /\ pc \in Waiting => OneUnderWay
        /\ ResultOwn

IInv == TypeOK /\ Shape /\ Undisturbed

-----------------------------------------------------------------------------
(* Sequences, by their indices.                                            *)

LEMMA TailIndices ==
    ASSUME NEW S, NEW s \in Seq(S), s # <<>>
    PROVE  /\ Tail(s) \in Seq(S)
           /\ 1 \in DOMAIN s /\ Head(s) = s[1] /\ Head(s) \in S
           /\ \A j \in DOMAIN Tail(s) :
                 /\ j \in Nat \ {0} /\ j + 1 \in DOMAIN s /\ j + 1 > 1
                 /\ Tail(s)[j] = s[j + 1]
  BY HeadTailProperties, LenProperties

LEMMA AppendIndices ==
    ASSUME NEW S, NEW s \in Seq(S), NEW e \in S
    PROVE  /\ Append(s, e) \in Seq(S)
           /\ \A j \in DOMAIN Append(s, e) :
                 \/ j \in DOMAIN s /\ Append(s, e)[j] = s[j]
                 \/ j \notin DOMAIN s /\ Append(s, e)[j] = e
           /\ \A j, l \in DOMAIN Append(s, e) : l > j => j \in DOMAIN s
           /\ \A j, l \in DOMAIN Append(s, e) :
                 j \notin DOMAIN s /\ l \notin DOMAIN s => j = l
  BY AppendProperties, LenProperties

-----------------------------------------------------------------------------
(* Types.                                                                  *)

Results == [op : Answered \cup Silent \cup {"Receive", "none"}, id : 0 .. MaxCalls,
            err : Outcome, packet : Packet]

Jobs == [type : {"XML", "C3DFile", "QTMFile"}, id : 0 .. MaxCalls]

LEMMA Packets ==
    /\ NoPacket \in Packet
    /\ \A id \in 0 .. MaxCalls :
          /\ \A t \in {"Error", "XML", "Data", "C3DFile", "QTMFile"} :
                Make(t, "none", id) \in Packet
          /\ \A x \in Text : Make("Command", x, id) \in Packet
          /\ \A x \in {"state", "settings", "closed"} : Make("Event", x, id) \in Packet
    /\ \A call \in Answered : Expected(call) \in Text /\ call \in Text
<1>1. MaxCalls \in Nat
  BY BoundAssumption
<1>2. 0 \in 0 .. MaxCalls
  BY <1>1
<1>3. NoPacket \in Packet
  BY <1>2 DEF NoPacket, Make, Packet, Text
<1>4. ASSUME NEW id \in 0 .. MaxCalls
      PROVE  /\ \A t \in {"Error", "XML", "Data", "C3DFile", "QTMFile"} :
                   Make(t, "none", id) \in Packet
             /\ \A x \in Text : Make("Command", x, id) \in Packet
             /\ \A x \in {"state", "settings", "closed"} : Make("Event", x, id) \in Packet
  BY <1>4 DEF Make, Packet, Text
<1>5. \A call \in Answered : Expected(call) \in Text /\ call \in Text
  BY DEF Text, Expected
<1>. QED  BY <1>3, <1>4, <1>5

(* What a step does to the connection's two queues.                        *)
LEMMA Queues ==
    ASSUME TypeOK, [Next]_vars
    PROVE  /\ c2s' \in Seq(Command)
           /\ s2c' \in Seq(Packet)
<1>0. c2s \in Seq(Command) /\ s2c \in Seq(Packet) /\ serial \in 0 .. MaxCalls /\ MaxCalls \in Nat
  BY BoundAssumption DEF TypeOK
<1>1. CASE UNCHANGED <<c2s, s2c>>
  BY <1>0, <1>1
<1>2. CASE s2c' = s2c /\ serial < MaxCalls /\ \E call \in Answered \cup Silent : Send(call)
  <2>1. PICK call \in Answered \cup Silent : Send(call)
    BY <1>2
  <2>2. [cmd |-> call, id |-> serial + 1] \in Command
    BY <1>0, <1>2 DEF Command
  <2>. QED  BY <1>0, <1>2, <2>1, <2>2, AppendIndices DEF Send
<1>3. CASE Take
  BY <1>0, <1>3, TailIndices DEF Take
<1>4. CASE c2s' = <<>> /\ s2c' \in {s2c, <<>>}
  BY <1>0, <1>4, EmptySeq
<1>5. CASE c2s # <<>> /\ c2s' = Tail(c2s) /\ (s2c' = s2c \/ \E p \in Packet : s2c' = Append(s2c, p))
  BY <1>0, <1>5, TailIndices, AppendIndices
<1>6. CASE c2s' = c2s /\ \E p \in Packet : s2c' = Append(s2c, p)
  BY <1>0, <1>6, AppendIndices
<1>7. c2s # <<>> => Head(c2s).id \in 0 .. MaxCalls
  <2>1. c2s # <<>> => Head(c2s) \in Command
    BY <1>0, TailIndices
  <2>. QED  BY <1>0, <2>1 DEF Command
<1>12. CASE Connect
  <2>1. 0 \in 0 .. MaxCalls
    BY <1>0
  <2>2. [cmd |-> "GetState", id |-> 0] \in Command
    BY <2>1 DEF Command, Answered, PollCommand
  <2>3. <<>> \in Seq(Command) /\ <<[cmd |-> "GetState", id |-> 0]>> \in Seq(Command)
    BY <2>2
  <2>. QED  BY <1>0, <1>12, <2>3 DEF Connect, FromConnect
<1>8. CASE ApplicationStep
  BY <1>1, <1>2, <1>4, <1>8, <1>12, Zenon
  DEF ApplicationStep, Begin, FireAndForget, BadArguments, WriteFails, NotConnected,
      Receive, Disconnect, Ready, netVars
<1>9. CASE ClientStep \/ ClockPasses
  BY <1>1, <1>3, <1>9, Zenon
  DEF ClientStep, ClockPasses, CheckDeadline, Arm, NoMoreData, Broken, ErrorPacket,
      SkipEvent, RawReply, Acknowledged, Unexpected, FileArrives, PollDone,
      CalibrationAborted, PollDiscards, ReceiveReturns, IsReply, netVars
<1>10. CASE QTMStep
  <2>1. CASE QTMAcknowledges
    <3>1. PICK call \in AckCommand \cup RawCommand : Taking(call) /\ Reply("Command", call)
      BY <2>1 DEF QTMAcknowledges
    <3>2. call \in Text
      BY Packets DEF Answered
    <3>. QED  BY <1>5, <1>7, <3>1, <3>2, Packets DEF Taking, Reply
  <2>2. CASE QTMStartsWork
    <3>1. PICK call \in CaptureCommand \cup {"Calibrate"} :
             Taking(call) /\ Reply("Command", Expected(call))
      BY <2>2 DEF QTMStartsWork
    <3>2. Expected(call) \in Text
      BY Packets DEF Answered
    <3>. QED  BY <1>5, <1>7, <3>1, <3>2, Packets DEF Taking, Reply
  <2>3. CASE QTMFinishesWork
    <3>1. PICK job \in jobs : \E type \in {job.type, "Error"} :
             c2s' = c2s /\ s2c' = Append(s2c, Make(type, "none", job.id))
      BY <2>3 DEF QTMFinishesWork
    <3>2. job.id \in 0 .. MaxCalls /\ job.type \in {"Error", "XML", "Data", "C3DFile", "QTMFile"}
      BY <1>0 DEF TypeOK
    <3>. QED  BY <1>6, <3>1, <3>2, Packets
  <2>4. CASE QTMSendsParameters
    BY <1>5, <1>7, <2>4, Packets DEF QTMSendsParameters, Taking, Reply
  <2>5. CASE QTMSendsState
    BY <1>5, <1>7, <2>5, Packets DEF QTMSendsState, Taking, Reply
  <2>6. CASE QTMRefuses
    <3>1. "other" \in Text
      BY DEF Text
    <3>. QED  BY <1>5, <1>7, <2>6, <3>1, Packets DEF QTMRefuses, Taking, Reply
  <2>7. CASE QTMObeys
    BY <1>5, <1>7, <2>7, Packets DEF QTMObeys, Taking, Reply
  <2>8. CASE QTMStreams
    BY <1>0, <1>6, <2>8, Packets DEF QTMStreams
  <2>9. CASE QTMPushesEvent
    BY <1>0, <1>6, <2>9, Packets DEF QTMPushesEvent
  <2>10. CASE QTMCloses
    BY <1>4, <2>10 DEF QTMCloses
  <2>. QED
    BY <1>10, <2>1, <2>2, <2>3, <2>4, <2>5, <2>6, <2>7, <2>8, <2>9, <2>10 DEF QTMStep
<1>11. CASE UNCHANGED vars
  BY <1>1, <1>11 DEF vars, netVars
<1>. QED  BY <1>8, <1>9, <1>10, <1>11 DEF Next

(* The flags and the places of a call.                                     *)
LEMMA Scalars ==
    ASSUME TypeOK, [Next]_vars
    PROVE  /\ conn' \in BOOLEAN /\ late' \in BOOLEAN /\ up' \in BOOLEAN
           /\ streaming' \in BOOLEAN /\ doubt' \in BOOLEAN
           /\ pc' \in Between \cup Waiting
           /\ loop' \in {"none", "reply", "file", "poll"}
           /\ op' \in Answered \cup {"Receive", "none"}
           /\ serial' \in 0 .. MaxCalls
<1>. USE DEF TypeOK, Between, Waiting
<1>1. CASE ApplicationStep
  <2>0. doubt' \in BOOLEAN
    BY <1>1, Zenon
    DEF ApplicationStep, Begin, FireAndForget, BadArguments, WriteFails, NotConnected,
        Receive, Disconnect, Connect
  <2>1. conn' \in BOOLEAN /\ late' \in BOOLEAN /\ up' \in BOOLEAN /\ streaming' \in BOOLEAN
    BY <1>1, Zenon
    DEF ApplicationStep, Begin, FireAndForget, BadArguments, WriteFails, NotConnected,
        Receive, Disconnect, Connect, qtmVars
  <2>2. /\ pc' \in Between \cup Waiting
        /\ loop' \in {"none", "reply", "file", "poll"}
        /\ op' \in Answered \cup {"Receive", "none"}
    BY <1>1, Zenon
    DEF ApplicationStep, Begin, FireAndForget, BadArguments, WriteFails, NotConnected,
        Receive, Disconnect, Connect
  <2>3. \/ serial' \in {serial, 0}
        \/ serial < MaxCalls /\ serial' = serial + 1
    BY <1>1, Zenon
    DEF ApplicationStep, Begin, FireAndForget, BadArguments, WriteFails, NotConnected,
        Receive, Disconnect, Connect, Ready, Send
  <2>4. serial' \in 0 .. MaxCalls
    BY <2>3, BoundAssumption
  <2>. QED  BY <2>0, <2>1, <2>2, <2>4
<1>2. CASE ClientStep \/ ClockPasses
  <2>. USE DEF Return, TimedOut, GoOn, StartLoop, qtmVars
  <2>1. CASE CheckDeadline \/ Arm \/ NoMoreData \/ Broken \/ ErrorPacket \/ ClockPasses
    BY <2>1, Zenon
    DEF CheckDeadline, Arm, NoMoreData, Broken, ErrorPacket, ClockPasses
  <2>2. CASE SkipEvent \/ RawReply \/ Acknowledged \/ Unexpected \/ FileArrives
    BY <2>2, Zenon DEF SkipEvent, RawReply, Acknowledged, Unexpected, FileArrives
  <2>3. CASE PollDone \/ CalibrationAborted \/ PollDiscards \/ ReceiveReturns
    BY <2>3, Zenon DEF PollDone, CalibrationAborted, PollDiscards, ReceiveReturns
  <2>. QED  BY <1>2, <2>1, <2>2, <2>3, Zenon DEF ClientStep
<1>3. CASE QTMStep
  <2>1. doubt' \in BOOLEAN
    BY <1>3, Zenon
    DEF QTMStep, QTMAcknowledges, QTMStartsWork, QTMFinishesWork, QTMSendsParameters,
        QTMSendsState, QTMRefuses, QTMObeys, QTMStreams, QTMPushesEvent, QTMCloses
  <2>2. up' \in BOOLEAN /\ streaming' \in BOOLEAN
    BY <1>3, Zenon
    DEF QTMStep, QTMAcknowledges, QTMStartsWork, QTMFinishesWork, QTMSendsParameters,
        QTMSendsState, QTMRefuses, QTMObeys, QTMStreams, QTMPushesEvent, QTMCloses,
        qtmVars
  <2>3. UNCHANGED clientVars
    BY <1>3, Zenon
    DEF QTMStep, QTMAcknowledges, QTMStartsWork, QTMFinishesWork, QTMSendsParameters,
        QTMSendsState, QTMRefuses, QTMObeys, QTMStreams, QTMPushesEvent, QTMCloses
  <2>. QED  BY <2>1, <2>2, <2>3, Zenon DEF clientVars
<1>4. CASE UNCHANGED vars
  BY <1>4, Zenon DEF vars, clientVars, qtmVars
<1>. QED  BY <1>1, <1>2, <1>3, <1>4, Zenon DEF Next

(* A call that waits returns no packet, or the one at the head of s2c.     *)
LEMMA ResultSteps ==
    ASSUME TypeOK, [Next]_vars
    PROVE  result' \in Results
<1>0. /\ result \in Results /\ serial \in 0 .. MaxCalls /\ MaxCalls \in Nat
      /\ 0 \in 0 .. MaxCalls
      /\ op \in Answered \cup {"Receive", "none"}
      /\ NoPacket \in Packet
      /\ s2c # <<>> => Head(s2c) \in Packet
  BY BoundAssumption, Packets, TailIndices DEF TypeOK, Results
<1>1. CASE result' = result
  BY <1>0, <1>1
<1>2. CASE \E err \in Outcome : \E p \in Packet : Return(err, p)
  BY <1>0, <1>2 DEF Return, Results
<1>3. CASE ApplicationStep
  <2>1. ASSUME NEW call \in Silent, FireAndForget(call) PROVE result' \in Results
    <3>1. serial + 1 \in 0 .. MaxCalls
      BY <1>0, <2>1 DEF FireAndForget, Ready
    <3>. QED  BY <1>0, <2>1, <3>1 DEF FireAndForget, Results, Outcome
  <2>2. ASSUME NEW call \in Answered \cup Silent, BadArguments(call) PROVE result' \in Results
    BY <1>0, <2>2 DEF BadArguments, Results, Outcome
  <2>3. ASSUME NEW call \in Answered \cup Silent, WriteFails(call) PROVE result' \in Results
    <3>1. serial + 1 \in 0 .. MaxCalls
      BY <1>0, <2>3 DEF WriteFails, Ready
    <3>. QED  BY <1>0, <2>3, <3>1 DEF WriteFails, Results, Outcome
  <2>4. ASSUME NEW call \in Answered \cup Silent, NotConnected(call) PROVE result' \in Results
    BY <1>0, <2>4 DEF NotConnected, Results, Outcome
  <2>5. CASE Disconnect
    BY <1>0, <2>5 DEF Disconnect, Results, Outcome
  <2>. QED
    BY <1>1, <1>3, <2>1, <2>2, <2>3, <2>4, <2>5, Zenon
    DEF ApplicationStep, Begin, Receive, Connect
<1>4. CASE ClientStep \/ ClockPasses
  <2>1. {"ErrTimeout", "closed", "error packet", "nil", "unexpected", "aborted",
         "NoMoreData"} \subseteq Outcome
    BY DEF Outcome
  <2>2. \/ result' = result
        \/ \E err \in {"ErrTimeout", "closed", "error packet", "nil", "unexpected",
                       "aborted", "NoMoreData"} :
              \/ Return(err, NoPacket)
              \/ s2c # <<>> /\ Return(err, Head(s2c))
    <3>1. CASE FileArrives
      <4>1. s2c # <<>>
        BY <3>1 DEF FileArrives, Take
      <4>. QED  BY <3>1, <4>1, Zenon DEF FileArrives
    <3>2. CASE ReceiveReturns
      BY <3>2, Zenon DEF ReceiveReturns, Take
    <3>3. CASE CheckDeadline \/ Arm \/ NoMoreData \/ Broken \/ ErrorPacket \/ ClockPasses
      BY <3>3, Zenon
      DEF CheckDeadline, Arm, NoMoreData, Broken, ErrorPacket, ClockPasses, TimedOut,
          GoOn, Take
    <3>4. CASE SkipEvent \/ RawReply \/ Acknowledged \/ Unexpected
      BY <3>4, Zenon
      DEF SkipEvent, RawReply, Acknowledged, Unexpected, GoOn, StartLoop, IsReply, Take
    <3>5. CASE PollDone \/ CalibrationAborted \/ PollDiscards
      BY <3>5, Zenon DEF PollDone, CalibrationAborted, PollDiscards, GoOn, Take
    <3>. QED  BY <1>4, <3>1, <3>2, <3>3, <3>4, <3>5, Zenon DEF ClientStep
  <2>. QED  BY <1>0, <1>1, <1>2, <2>1, <2>2, Zenon
<1>5. CASE QTMStep \/ UNCHANGED vars
  BY <1>1, <1>5, Zenon
  DEF QTMStep, QTMAcknowledges, QTMStartsWork, QTMFinishesWork, QTMSendsParameters,
      QTMSendsState, QTMRefuses, QTMObeys, QTMStreams, QTMPushesEvent, QTMCloses,
      clientVars, vars
<1>. QED  BY <1>3, <1>4, <1>5, Zenon DEF Next

LEMMA JobSteps ==
    ASSUME TypeOK, [Next]_vars
    PROVE  jobs' \subseteq Jobs
<1>1. CASE jobs' \subseteq jobs
  BY <1>1 DEF TypeOK, Jobs
<1>2. CASE QTMStartsWork
  <2>1. PICK call \in CaptureCommand \cup {"Calibrate"} :
           /\ c2s # <<>>
           /\ jobs' = jobs \cup {[type |-> IF call = "Calibrate" THEN "XML" ELSE FileType(call),
                                  id   |-> Head(c2s).id]}
    BY <1>2 DEF QTMStartsWork, Taking
  <2>2. Head(c2s).id \in 0 .. MaxCalls
    <3>1. Head(c2s) \in Command
      BY <2>1, TailIndices DEF TypeOK
    <3>. QED  BY <3>1 DEF Command
  <2>3. (IF call = "Calibrate" THEN "XML" ELSE FileType(call)) \in {"XML", "C3DFile", "QTMFile"}
    BY DEF FileType
  <2>. HIDE DEF Jobs
  <2>4. [type |-> IF call = "Calibrate" THEN "XML" ELSE FileType(call), id |-> Head(c2s).id] \in Jobs
    BY <2>2, <2>3 DEF Jobs
  <2>. QED  BY <2>1, <2>4 DEF TypeOK, Jobs
<1>3. jobs' \subseteq jobs \/ QTMStartsWork
  <2>1. CASE ApplicationStep
    <3>1. jobs' = jobs \/ jobs' = {}
      BY <2>1, Zenon
      DEF ApplicationStep, Begin, FireAndForget, BadArguments, WriteFails, NotConnected,
          Receive, Disconnect, Connect, qtmVars
    <3>. QED  BY <3>1
  <2>2. CASE ClientStep \/ ClockPasses
    <3>1. jobs' = jobs
      BY <2>2, Zenon
      DEF ClientStep, ClockPasses, CheckDeadline, Arm, NoMoreData, Broken, ErrorPacket,
          SkipEvent, RawReply, Acknowledged, Unexpected, FileArrives, PollDone,
          CalibrationAborted, PollDiscards, ReceiveReturns, qtmVars
    <3>. QED  BY <3>1
  <2>3. CASE QTMStep
    <3>1. \/ jobs' = jobs \/ jobs' = {} \/ QTMStartsWork
          \/ \E job \in jobs : jobs' = jobs \ {job}
      BY <2>3, Zenon
      DEF QTMStep, QTMAcknowledges, QTMFinishesWork, QTMSendsParameters, QTMSendsState,
          QTMRefuses, QTMObeys, QTMStreams, QTMPushesEvent, QTMCloses, qtmVars
    <3>. QED  BY <3>1
  <2>4. CASE UNCHANGED vars
    BY <2>4 DEF vars, qtmVars
  <2>. QED  BY <2>1, <2>2, <2>3, <2>4 DEF Next
<1>. QED  BY <1>1, <1>2, <1>3

LEMMA TypeSteps == TypeOK /\ [Next]_vars => TypeOK'
  BY Queues, Scalars, ResultSteps, JobSteps, Zenon
  DEF TypeOK, Between, Waiting, Results, Jobs

-----------------------------------------------------------------------------
(* Where a call may be.                                                    *)

LEMMA Commands ==
    /\ Answered \cap Silent = {}
    /\ "none" \notin Answered /\ "Receive" \notin Answered /\ "other" \notin Answered
    /\ AckCommand \cap WorkCommand = {} /\ RawCommand \cap WorkCommand = {}
    /\ AckCommand \cap PollCommand = {} /\ RawCommand \cap PollCommand = {}
    /\ WorkCommand \cap PollCommand = {}
    /\ WorkCommand \subseteq Answered /\ PollCommand \subseteq Answered
  BY CommandAssumption DEF Answered, Silent, WorkCommand, CaptureCommand, PollCommand

LEMMA ShapeSteps == ASSUME TypeOK, Shape, [Next]_vars PROVE Shape'
<1>1. serial \in Nat
  BY BoundAssumption DEF TypeOK
<1>2. CASE ApplicationStep
  <2>1. ASSUME NEW call \in Answered, Begin(call) PROVE Shape'
    <3>1. /\ conn /\ pc' = "check" /\ op' = call /\ UNCHANGED <<conn, up, jobs, streaming>>
          /\ loop' = IF call \in PollCommand THEN "poll" ELSE "reply"
          /\ serial' > 0
          /\ c2s' = c2s \/ up
      BY <1>1, <2>1 DEF Begin, Ready, Send, qtmVars
    <3>. QED  BY <2>1, <3>1, Zenon DEF Shape, Between, Waiting
  <2>2. ASSUME NEW call \in Silent, FireAndForget(call) PROVE Shape'
    <3>1. /\ conn /\ pc = "idle" /\ UNCHANGED <<conn, pc, loop, op, up, jobs, streaming>>
          /\ c2s' = c2s \/ up
      BY <2>2 DEF FireAndForget, Ready, Send, qtmVars
    <3>. QED  BY <3>1, Zenon DEF Shape, Between, Waiting
  <2>3. ASSUME NEW call \in Answered \cup Silent,
               BadArguments(call) \/ WriteFails(call) \/ NotConnected(call)
        PROVE  Shape'
    <3>1. /\ pc = "idle"
          /\ UNCHANGED <<conn, pc, loop, op, up, jobs, streaming, c2s>>
      BY <2>3, Zenon DEF BadArguments, WriteFails, NotConnected, Ready, qtmVars, netVars
    <3>. QED  BY <3>1, Zenon DEF Shape, Between, Waiting
  <2>4. CASE Receive \/ Disconnect \/ Connect
    <3>1. CASE Receive
      BY <3>1 DEF Receive, Shape, Between, Waiting, qtmVars, netVars
    <3>2. CASE Disconnect
      BY <3>2 DEF Disconnect, Shape, Between, Waiting
    <3>3. CASE Connect
      BY <3>3 DEF Connect, Shape, Between, Waiting, netVars
    <3>. QED  BY <2>4, <3>1, <3>2, <3>3
  <2>. QED  BY <1>2, <2>1, <2>2, <2>3, <2>4, Zenon DEF ApplicationStep
<1>3. CASE ClientStep \/ ClockPasses
  <2>1. /\ pc # "idle"
        /\ UNCHANGED <<conn, serial, up, streaming, jobs, c2s>>
        /\ \/ pc' = "idle" /\ op' = "none" /\ loop' = "none"
           \/ /\ pc \in Waiting /\ pc' \in Waiting /\ UNCHANGED op
              /\ \/ loop' = loop
                 \/ loop' = "file" /\ op \in CaptureCommand
                 \/ loop' = "poll" /\ op = "Calibrate"
    <3>. USE DEF Return, TimedOut, GoOn, StartLoop, Take, Waiting, Reading, qtmVars, netVars
    <3>1. CASE CheckDeadline \/ Arm \/ NoMoreData \/ Broken \/ ErrorPacket \/ ClockPasses
      BY <3>1, Zenon DEF CheckDeadline, Arm, NoMoreData, Broken, ErrorPacket, ClockPasses
    <3>2. CASE SkipEvent \/ RawReply \/ Unexpected \/ FileArrives
      BY <3>2, Zenon DEF SkipEvent, RawReply, Unexpected, FileArrives, IsReply
    <3>3. CASE Acknowledged
      BY <3>3, Zenon DEF Acknowledged, IsReply
    <3>4. CASE PollDone \/ CalibrationAborted \/ PollDiscards \/ ReceiveReturns
      BY <3>4, Zenon DEF PollDone, CalibrationAborted, PollDiscards, ReceiveReturns
    <3>. QED  BY <1>3, <3>1, <3>2, <3>3, <3>4, Zenon DEF ClientStep
  <2>2. CASE pc' = "idle" /\ op' = "none" /\ loop' = "none"
    BY <2>1, <2>2, Zenon DEF Shape, Between, Waiting
  <2>3. CASE /\ pc \in Waiting /\ pc' \in Waiting /\ UNCHANGED op
             /\ \/ loop' = loop
                \/ loop' = "file" /\ op \in CaptureCommand
                \/ loop' = "poll" /\ op = "Calibrate"
    <3>1. pc \notin Between /\ pc' \notin Between /\ pc' # "receive" /\ pc' # "idle"
      BY <2>3 DEF Between, Waiting
    <3>. QED  BY <2>1, <2>3, <3>1, Zenon DEF Shape
  <2>. QED  BY <2>1, <2>2, <2>3
<1>4. CASE QTMStep
  <2>1. /\ UNCHANGED clientVars
        /\ up
        /\ up' = up \/ (~up' /\ c2s' = <<>> /\ jobs' = {} /\ ~streaming')
    BY <1>4, Zenon
    DEF QTMStep, QTMAcknowledges, QTMStartsWork, QTMFinishesWork, QTMSendsParameters,
        QTMSendsState, QTMRefuses, QTMObeys, QTMStreams, QTMPushesEvent, QTMCloses,
        Taking, qtmVars
  <2>. QED  BY <2>1, Zenon DEF Shape, clientVars
<1>5. CASE UNCHANGED vars
  BY <1>5, Zenon DEF Shape, vars, clientVars, qtmVars, netVars
<1>. QED  BY <1>2, <1>3, <1>4, <1>5, Zenon DEF Next

-----------------------------------------------------------------------------
(* How what is under way changes.                                          *)

(* A packet is read and the call goes on.                                  *)
LEMMA TakeKeeps ==
    ASSUME TypeOK, OneUnderWay, Take, UNCHANGED <<jobs, loop, op, serial>>
    PROVE  OneUnderWay'
<1>1. /\ s2c' = Tail(s2c) /\ c2s' = c2s
      /\ \A j \in DOMAIN s2c' : /\ j \in Nat /\ j + 1 \in DOMAIN s2c
                                /\ s2c'[j] = s2c[j + 1]
  BY TailIndices DEF Take, TypeOK
<1>2. \A p : Opens(p)' = Opens(p)
  BY DEF Opens, Matches
<1>3. NoAnswer => NoAnswer'
  BY <1>1 DEF NoAnswer
<1>4. QuestionAlone'
  BY <1>1, <1>3 DEF OneUnderWay, QuestionAlone
<1>5. WorkOwned'
  BY DEF OneUnderWay, WorkOwned
<1>6. AnswersOwned'
  <2>1. SUFFICES ASSUME NEW j \in DOMAIN s2c', IsAnswer(s2c'[j])
        PROVE  /\ s2c'[j].id = serial
               /\ Opens(s2c'[j]) =>
                     \A l \in DOMAIN s2c' :
                         (l # j /\ IsAnswer(s2c'[l])) => jobs = {} /\ ~Opens(s2c'[l])
               /\ ~Opens(s2c'[j]) =>
                     jobs = {} /\ \A l \in DOMAIN s2c' : l > j => ~IsAnswer(s2c'[l])
    BY <1>2 DEF AnswersOwned
  <2>2. \A l \in DOMAIN s2c' : (l # j => l + 1 # j + 1) /\ (l > j => l + 1 > j + 1)
    BY <1>1
  <2>. QED  BY <1>1, <2>1, <2>2 DEF OneUnderWay, AnswersOwned
<1>. QED  BY <1>4, <1>5, <1>6 DEF OneUnderWay

(* An event of QTM's own comes behind what is under way.                   *)
LEMMA EventKeeps ==
    ASSUME TypeOK, NEW p \in Packet, ~IsAnswer(p), s2c' = Append(s2c, p), c2s' = c2s,
           UNCHANGED <<jobs, loop, op, serial>>
    PROVE  (NoAnswer => NoAnswer') /\ (OneUnderWay => OneUnderWay')
<1>1. \A j \in DOMAIN s2c' : /\ IsAnswer(s2c'[j]) => j \in DOMAIN s2c
                             /\ j \in DOMAIN s2c => s2c'[j] = s2c[j]
  BY AppendIndices DEF TypeOK
<1>2. \A q : Opens(q)' = Opens(q)
  BY DEF Opens, Matches
<1>3. NoAnswer => NoAnswer'
  BY <1>1 DEF NoAnswer
<1>4. ASSUME OneUnderWay PROVE OneUnderWay'
  <2>1. QuestionAlone'
    BY <1>3, <1>4 DEF OneUnderWay, QuestionAlone
  <2>2. WorkOwned'
    BY <1>4 DEF OneUnderWay, WorkOwned
  <2>3. AnswersOwned'
    BY <1>1, <1>2, <1>4 DEF OneUnderWay, AnswersOwned
  <2>. QED  BY <2>1, <2>2, <2>3 DEF OneUnderWay
<1>. QED  BY <1>3, <1>4

(* QTM takes a command that it does not answer.                            *)
LEMMA SilentTaken ==
    ASSUME TypeOK, c2s # <<>>, c2s' = Tail(c2s), ~Asks(Head(c2s)),
           UNCHANGED <<s2c, jobs, loop, op, serial>>
    PROVE  (NoQuestion => NoQuestion') /\ (OneUnderWay => OneUnderWay')
<1>1. \A q : Opens(q)' = Opens(q)
  BY DEF Opens, Matches
<1>2. \A k \in DOMAIN c2s' : k \in Nat /\ k + 1 \in DOMAIN c2s /\ c2s'[k] = c2s[k + 1]
  BY TailIndices DEF TypeOK
<1>3. NoQuestion => NoQuestion'
  BY <1>2 DEF NoQuestion
<1>4. ASSUME OneUnderWay PROVE QuestionAlone'
  <2>1. \A k, l \in DOMAIN c2s' : l # k => l + 1 # k + 1
    BY <1>2
  <2>. QED  BY <1>2, <1>4, <2>1 DEF OneUnderWay, QuestionAlone, NoAnswer
<1>5. ASSUME OneUnderWay PROVE WorkOwned' /\ AnswersOwned'
  BY <1>1, <1>5 DEF OneUnderWay, WorkOwned, AnswersOwned
<1>. QED  BY <1>3, <1>4, <1>5 DEF OneUnderWay

(* The answer that ends a wait is the last thing under way.                *)
LEMMA LastTaken ==
    ASSUME TypeOK, OneUnderWay, Take, IsAnswer(Head(s2c)), ~Opens(Head(s2c)), jobs' = jobs
    PROVE  Clean' /\ Head(s2c).id = serial
<1>1. /\ s2c' = Tail(s2c) /\ c2s' = c2s /\ 1 \in DOMAIN s2c /\ Head(s2c) = s2c[1]
      /\ \A j \in DOMAIN s2c' : /\ j + 1 \in DOMAIN s2c /\ j + 1 > 1
                                /\ s2c'[j] = s2c[j + 1]
  BY TailIndices DEF Take, TypeOK
<1>2. NoQuestion
  BY <1>1 DEF OneUnderWay, QuestionAlone, NoQuestion, NoAnswer
<1>3. jobs = {} /\ s2c[1].id = serial /\ \A l \in DOMAIN s2c : l > 1 => ~IsAnswer(s2c[l])
  BY <1>1 DEF OneUnderWay, AnswersOwned
<1>. QED  BY <1>1, <1>2, <1>3 DEF Clean, NoQuestion, NoAnswer

(* An acknowledgement that opens work leaves the work, or its outcome.     *)
LEMMA OpeningTaken ==
    ASSUME TypeOK, OneUnderWay, Take, IsAnswer(Head(s2c)), Opens(Head(s2c)),
           UNCHANGED <<jobs, op, serial>>, loop' # "reply"
    PROVE  OneUnderWay'
<1>1. /\ s2c' = Tail(s2c) /\ c2s' = c2s /\ 1 \in DOMAIN s2c /\ Head(s2c) = s2c[1]
      /\ \A j \in DOMAIN s2c' : /\ j \in Nat /\ j + 1 \in DOMAIN s2c /\ j + 1 > 1
                                /\ s2c'[j] = s2c[j + 1]
  BY TailIndices DEF Take, TypeOK
<1>2. NoQuestion
  BY <1>1 DEF OneUnderWay, QuestionAlone, NoQuestion, NoAnswer
<1>3. QuestionAlone'
  BY <1>1, <1>2 DEF NoQuestion, QuestionAlone
<1>4. WorkOwned'
  BY DEF OneUnderWay, WorkOwned
<1>5. \A p : ~Opens(p)'
  BY DEF Opens
<1>6. \A l \in DOMAIN s2c : (l # 1 /\ IsAnswer(s2c[l])) => jobs = {} /\ ~Opens(s2c[l])
  BY <1>1 DEF OneUnderWay, AnswersOwned
<1>7. ASSUME NEW j \in DOMAIN s2c', IsAnswer(s2c'[j])
      PROVE  /\ s2c'[j].id = serial /\ jobs = {}
             /\ \A l \in DOMAIN s2c' : l > j => ~IsAnswer(s2c'[l])
  <2>1. j + 1 \in DOMAIN s2c /\ j + 1 # 1 /\ IsAnswer(s2c[j + 1])
    BY <1>1, <1>7
  <2>2. jobs = {} /\ ~Opens(s2c[j + 1])
    BY <1>6, <2>1
  <2>3. /\ s2c[j + 1].id = serial
        /\ \A l \in DOMAIN s2c : l > j + 1 => ~IsAnswer(s2c[l])
    BY <2>1, <2>2 DEF OneUnderWay, AnswersOwned
  <2>4. \A l \in DOMAIN s2c' : l > j => l + 1 > j + 1
    BY <1>1
  <2>. QED  BY <1>1, <2>2, <2>3, <2>4
<1>8. AnswersOwned'
  BY <1>5, <1>7 DEF AnswersOwned
<1>. QED  BY <1>3, <1>4, <1>8 DEF OneUnderWay

(* A call begins: its command is all that is under way, or nothing is.     *)
LEMMA BeginsAlone ==
    ASSUME TypeOK, Clean, serial < MaxCalls, NEW call \in Answered, Send(call),
           op' = call, loop' = IF call \in PollCommand THEN "poll" ELSE "reply",
           UNCHANGED <<s2c, jobs>>
    PROVE  OneUnderWay'
<1>0. serial + 1 \in 1 .. MaxCalls
  BY BoundAssumption DEF TypeOK
<1>1. NoAnswer' /\ jobs' = {}
  BY DEF Clean, NoAnswer
<1>2. call \in WorkCommand => loop' = "reply"
  BY Commands
<1>3. QuestionAlone'
  <2>1. CASE c2s' = c2s
    BY <2>1 DEF Clean, NoQuestion, QuestionAlone
  <2>2. CASE c2s' = Append(c2s, [cmd |-> call, id |-> serial + 1])
    <3>1. [cmd |-> call, id |-> serial + 1] \in Command
      BY <1>0 DEF Command
    <3>2. \A k \in DOMAIN c2s' :
             /\ Asks(c2s'[k]) => /\ k \notin DOMAIN c2s
                                 /\ c2s'[k] = [cmd |-> call, id |-> serial + 1]
             /\ \A l \in DOMAIN c2s' : k \notin DOMAIN c2s /\ l \notin DOMAIN c2s => k = l
      BY <2>2, <3>1, AppendIndices DEF TypeOK, Clean, NoQuestion
    <3>3. serial' = serial + 1
      BY DEF Send
    <3>. QED  BY <1>1, <1>2, <3>2, <3>3 DEF QuestionAlone
  <2>. QED  BY <2>1, <2>2 DEF Send
<1>4. WorkOwned' /\ AnswersOwned'
  BY <1>1 DEF WorkOwned, AnswersOwned, NoAnswer
<1>. QED  BY <1>3, <1>4 DEF OneUnderWay

(* QTM answers the command of the call; it may go on to work for it.       *)
LEMMA QuestionAnswered ==
    ASSUME TypeOK, OneUnderWay, c2s # <<>>, Asks(Head(c2s)), c2s' = Tail(c2s),
           NEW p \in Packet, p.id = Head(c2s).id, s2c' = Append(s2c, p),
           UNCHANGED <<loop, op, serial>>,
           \/ jobs' = jobs
           \/ Opens(p) /\ jobs' = jobs \cup {[type |-> WorkType(op), id |-> Head(c2s).id]}
    PROVE  OneUnderWay'
<1>1. /\ 1 \in DOMAIN c2s /\ Head(c2s) = c2s[1]
      /\ \A k \in DOMAIN c2s' : /\ k + 1 \in DOMAIN c2s /\ k + 1 # 1
                                /\ c2s'[k] = c2s[k + 1]
  BY TailIndices DEF TypeOK
<1>2. /\ Head(c2s).id = serial /\ NoAnswer /\ jobs = {}
      /\ \A l \in DOMAIN c2s : l # 1 => ~Asks(c2s[l])
  BY <1>1 DEF OneUnderWay, QuestionAlone
<1>3. NoQuestion'
  BY <1>1, <1>2 DEF NoQuestion
<1>4. QuestionAlone'
  BY <1>3 DEF NoQuestion, QuestionAlone
<1>5. \A j, l \in DOMAIN s2c' :
         /\ IsAnswer(s2c'[j]) => s2c'[j] = p /\ j \notin DOMAIN s2c
         /\ IsAnswer(s2c'[j]) /\ IsAnswer(s2c'[l]) => j = l
         /\ l > j => j \in DOMAIN s2c
  BY <1>2, AppendIndices DEF TypeOK, NoAnswer
<1>6. \A q : Opens(q)' = Opens(q)
  BY DEF Opens, Matches
<1>7. WorkOwned'
  BY <1>2 DEF WorkOwned, Opens
<1>8. AnswersOwned'
  BY <1>2, <1>5, <1>6 DEF AnswersOwned
<1>. QED  BY <1>4, <1>7, <1>8 DEF OneUnderWay

(* The outcome of work is the last answer.                                 *)
LEMMA OutcomeSent ==
    ASSUME TypeOK, OneUnderWay, NEW job \in jobs, jobs' = jobs \ {job},
           NEW p \in Packet, p.id = job.id, p.type # "Command", s2c' = Append(s2c, p),
           UNCHANGED <<c2s, loop, op, serial>>
    PROVE  OneUnderWay'
<1>1. jobs = {job} /\ job.id = serial /\ op \in WorkCommand
  BY DEF OneUnderWay, WorkOwned
<1>2. jobs' = {}
  BY <1>1
<1>3. NoQuestion
  BY <1>1 DEF OneUnderWay, QuestionAlone, NoQuestion
<1>4. QuestionAlone'
  BY <1>3 DEF NoQuestion, QuestionAlone
<1>5. WorkOwned'
  BY <1>2 DEF WorkOwned
<1>6. \A q : Opens(q)' = Opens(q)
  BY DEF Opens, Matches
<1>7. ~Opens(p)
  BY DEF Opens, Matches
<1>8. /\ \A j \in DOMAIN s2c' : \/ j \in DOMAIN s2c /\ s2c'[j] = s2c[j]
                                \/ j \notin DOMAIN s2c /\ s2c'[j] = p
      /\ \A j, l \in DOMAIN s2c' : /\ l > j => j \in DOMAIN s2c
                                   /\ j \notin DOMAIN s2c /\ l \notin DOMAIN s2c => j = l
  BY AppendIndices DEF TypeOK
<1>9. \A j, l \in DOMAIN s2c :
         /\ IsAnswer(s2c[j]) => s2c[j].id = serial /\ Opens(s2c[j])
         /\ IsAnswer(s2c[j]) /\ IsAnswer(s2c[l]) => j = l
  BY <1>1 DEF OneUnderWay, AnswersOwned
<1>10. AnswersOwned'
  BY <1>1, <1>2, <1>6, <1>7, <1>8, <1>9 DEF AnswersOwned
<1>. QED  BY <1>4, <1>5, <1>10 DEF OneUnderWay

(* The end of the connection takes away, and adds nothing.                 *)
LEMMA CloseKeeps ==
    ASSUME TypeOK, c2s' = <<>>, jobs' = {}, s2c' \in {s2c, <<>>}, UNCHANGED <<loop, op, serial>>
    PROVE  (Clean => Clean') /\ (OneUnderWay => OneUnderWay')
<1>1. \A q : Opens(q)' = Opens(q)
  BY DEF Opens, Matches
<1>2. NoQuestion' /\ (NoAnswer => NoAnswer')
  BY DEF NoQuestion, NoAnswer
<1>3. QuestionAlone' /\ WorkOwned'
  BY DEF QuestionAlone, WorkOwned
<1>4. OneUnderWay => AnswersOwned'
  BY <1>1 DEF OneUnderWay, AnswersOwned
<1>. QED  BY <1>2, <1>3, <1>4 DEF Clean, OneUnderWay

-----------------------------------------------------------------------------
(* The steps, as long as nothing is in doubt.                              *)

(* Only Disconnect ends a doubt.                                           *)
LEMMA DoubtLasts == ASSUME TypeOK, [Next]_vars, ~doubt' PROVE ~doubt \/ Disconnect
<1>1. CASE ApplicationStep
  BY <1>1, Zenon
  DEF ApplicationStep, Begin, FireAndForget, BadArguments, WriteFails, NotConnected,
      Receive, Connect
<1>2. CASE ClientStep \/ ClockPasses
  BY <1>2, Zenon
  DEF ClientStep, ClockPasses, CheckDeadline, Arm, NoMoreData, Broken, ErrorPacket,
      SkipEvent, RawReply, Acknowledged, Unexpected, FileArrives, PollDone,
      CalibrationAborted, PollDiscards, ReceiveReturns, TimedOut
<1>3. CASE QTMStep
  BY <1>3, Zenon
  DEF QTMStep, QTMAcknowledges, QTMStartsWork, QTMFinishesWork, QTMSendsParameters,
      QTMSendsState, QTMRefuses, QTMObeys, QTMStreams, QTMPushesEvent, QTMCloses
<1>4. CASE UNCHANGED vars
  BY <1>4 DEF vars
<1>. QED  BY <1>1, <1>2, <1>3, <1>4, Zenon DEF Next

Loud == {"StreamFrames", "GetCurrentFrame"}

(* What a step adds to the queues keeps them quiet.                        *)
LEMMA QuietAdds ==
    ASSUME TypeOK, Quiet, ~streaming', \A job \in jobs' : job.id # 0,
           \/ c2s' \in {c2s, <<>>}
           \/ c2s # <<>> /\ c2s' = Tail(c2s)
           \/ \E c \in Command : c.cmd \notin Loud /\ c.id # 0 /\ c2s' = Append(c2s, c),
           \/ s2c' \in {s2c, <<>>}
           \/ s2c # <<>> /\ s2c' = Tail(s2c)
           \/ \E p \in Packet : (p.type # "Event" => IsAnswer(p)) /\ s2c' = Append(s2c, p)
    PROVE  Quiet'
<1>1. \A k \in DOMAIN c2s' : c2s'[k].cmd \notin Loud /\ c2s'[k].id # 0
  <2>. USE DEF Quiet, Loud, TypeOK
  <2>1. CASE c2s' \in {c2s, <<>>}
    BY <2>1
  <2>2. CASE c2s # <<>> /\ c2s' = Tail(c2s)
    BY <2>2, TailIndices
  <2>3. CASE \E c \in Command : c.cmd \notin Loud /\ c.id # 0 /\ c2s' = Append(c2s, c)
    BY <2>3, AppendIndices
  <2>. QED  BY <2>1, <2>2, <2>3
<1>2. \A j \in DOMAIN s2c' : s2c'[j].type # "Event" => IsAnswer(s2c'[j])
  <2>. USE DEF Quiet, TypeOK
  <2>1. CASE s2c' \in {s2c, <<>>}
    BY <2>1
  <2>2. CASE s2c # <<>> /\ s2c' = Tail(s2c)
    BY <2>2, TailIndices
  <2>3. CASE \E p \in Packet : (p.type # "Event" => IsAnswer(p)) /\ s2c' = Append(s2c, p)
    BY <2>3, AppendIndices
  <2>. QED  BY <2>1, <2>2, <2>3
<1>. QED  BY <1>1, <1>2 DEF Quiet, Loud

(* A packet that QTM makes for a command or for work bears its id.         *)
LEMMA Answering ==
    ASSUME TypeOK
    PROVE  /\ c2s # <<>> => /\ Head(c2s) \in Command
                            /\ Head(c2s).id \in 0 .. MaxCalls
                            /\ Quiet => Head(c2s).id # 0
           /\ \A job \in jobs : /\ job.id \in 0 .. MaxCalls /\ (Quiet => job.id # 0)
                                /\ job.type \in {"XML", "C3DFile", "QTMFile"}
           /\ \A t, x, id : /\ Make(t, x, id).type = t /\ Make(t, x, id).text = x
                            /\ Make(t, x, id).id = id
<1>1. c2s # <<>> => Head(c2s) \in Command /\ (Quiet => Head(c2s).id # 0)
  BY TailIndices DEF TypeOK, Quiet
<1>2. \A c \in Command : c.id \in 0 .. MaxCalls
  BY DEF Command
<1>3. \A job \in jobs : /\ job.id \in 0 .. MaxCalls /\ (Quiet => job.id # 0)
                        /\ job.type \in {"XML", "C3DFile", "QTMFile"}
  BY DEF TypeOK, Quiet
<1>. QED  BY <1>1, <1>2, <1>3 DEF Make

LEMMA QuietSteps ==
    ASSUME TypeOK, Quiet, ~doubt, ~doubt', [Next]_vars
    PROVE  Quiet'
<1>1. CASE ApplicationStep
  <2>1. ~streaming'
    BY <1>1, Zenon
    DEF ApplicationStep, Begin, FireAndForget, BadArguments, WriteFails, NotConnected,
        Receive, Disconnect, Connect, qtmVars, Quiet
  <2>2. s2c' \in {s2c, <<>>}
    BY <1>1, Zenon
    DEF ApplicationStep, Begin, FireAndForget, BadArguments, WriteFails, NotConnected,
        Receive, Disconnect, Connect, netVars
  <2>3. ASSUME NEW call \in Answered \cup Silent, call \notin Loud, Ready, Send(call)
        PROVE  \/ c2s' = c2s
               \/ \E c \in Command : c.cmd \notin Loud /\ c.id # 0 /\ c2s' = Append(c2s, c)
    <3>1. [cmd |-> call, id |-> serial + 1] \in Command /\ serial + 1 # 0
      BY <2>3, BoundAssumption DEF Ready, Command, TypeOK
    <3>. QED  BY <2>3, <3>1 DEF Send
  <2>4. \A call \in Answered : call \notin Loud
    BY Commands DEF Loud, Silent
  <2>5. \A call \in Silent : FireAndForget(call) => call \notin Loud
    BY Zenon DEF FireAndForget, Loud
  <2>7. Connect => c2s' = <<>>
    BY DEF Connect
  <2>6. \/ c2s' \in {c2s, <<>>}
        \/ \E c \in Command : c.cmd \notin Loud /\ c.id # 0 /\ c2s' = Append(c2s, c)
    BY <1>1, <2>3, <2>7, <2>4, <2>5, Zenon
    DEF ApplicationStep, Begin, FireAndForget, BadArguments, WriteFails, NotConnected,
        Receive, Disconnect, netVars
  <2>8. jobs' \in {jobs, {}}
    BY <1>1, Zenon
    DEF ApplicationStep, Begin, FireAndForget, BadArguments, WriteFails, NotConnected,
        Receive, Disconnect, Connect, qtmVars
  <2>9. \A job \in jobs' : job.id # 0
    BY <2>8 DEF Quiet
  <2>. QED  BY <2>1, <2>2, <2>6, <2>9, QuietAdds
<1>2. CASE ClientStep \/ ClockPasses
  <2>1. /\ streaming' = streaming /\ jobs' = jobs /\ c2s' = c2s
        /\ s2c' = s2c \/ (s2c # <<>> /\ s2c' = Tail(s2c))
    BY <1>2, Zenon
    DEF ClientStep, ClockPasses, CheckDeadline, Arm, NoMoreData, Broken, ErrorPacket,
        SkipEvent, RawReply, Acknowledged, Unexpected, FileArrives, PollDone,
        CalibrationAborted, PollDiscards, ReceiveReturns, IsReply, Take, qtmVars, netVars
  <2>. QED  BY <2>1, QuietAdds DEF Quiet
<1>3. CASE QTMStep
  <2>1. ASSUME c2s # <<>>, Head(c2s).cmd \in Loud PROVE FALSE
    BY <2>1, TailIndices DEF TypeOK, Quiet, Loud
  <2>2. ~streaming'
    BY <1>3, <2>1, Zenon
    DEF QTMStep, QTMAcknowledges, QTMStartsWork, QTMFinishesWork, QTMSendsParameters,
        QTMSendsState, QTMRefuses, QTMObeys, QTMStreams, QTMPushesEvent, QTMCloses,
        Taking, qtmVars, Quiet, Loud
  <2>3. c2s' \in {c2s, <<>>} \/ (c2s # <<>> /\ c2s' = Tail(c2s))
    BY <1>3, Zenon
    DEF QTMStep, QTMAcknowledges, QTMStartsWork, QTMFinishesWork, QTMSendsParameters,
        QTMSendsState, QTMRefuses, QTMObeys, QTMStreams, QTMPushesEvent, QTMCloses, Taking
  <2>4. c2s # <<>> => \A t, x : IsAnswer(Make(t, x, Head(c2s).id))
    BY Answering DEF IsAnswer
  <2>5. \A job \in jobs : \A t, x : IsAnswer(Make(t, x, job.id))
    BY Answering DEF IsAnswer
  <2>6. \A x : Make("Event", x, 0).type = "Event"
    BY DEF Make
  <2>7. s2c' \in Seq(Packet)
    BY Queues
  <2>8. \/ s2c' \in {s2c, <<>>}
        \/ \E t, x, id : /\ t # "Event" => IsAnswer(Make(t, x, id))
                         /\ s2c' = Append(s2c, Make(t, x, id))
    BY <1>3, <2>1, <2>4, <2>5, Zenon
    DEF QTMStep, QTMAcknowledges, QTMStartsWork, QTMFinishesWork, QTMSendsParameters,
        QTMSendsState, QTMRefuses, QTMObeys, QTMStreams, QTMPushesEvent, QTMCloses,
        Taking, Reply, Quiet, Loud
  <2>9. \/ s2c' \in {s2c, <<>>}
        \/ \E p \in Packet : (p.type # "Event" => IsAnswer(p)) /\ s2c' = Append(s2c, p)
    <3>1. ASSUME NEW t, NEW x, NEW id, s2c' = Append(s2c, Make(t, x, id))
          PROVE  Make(t, x, id) \in Packet
      BY <2>7, <3>1, AppendProperties, LenProperties, ElementOfSeq DEF TypeOK
    <3>. QED  BY <2>8, <3>1, Answering
  <2>10. \A job \in jobs' : job.id # 0
    <3>1. CASE QTMStartsWork
      <4>1. PICK call \in CaptureCommand \cup {"Calibrate"} :
               /\ c2s # <<>>
               /\ jobs' = jobs \cup
                    {[type |-> IF call = "Calibrate" THEN "XML" ELSE FileType(call),
                      id   |-> Head(c2s).id]}
        BY <3>1 DEF QTMStartsWork, Taking
      <4>2. Head(c2s).id # 0
        BY <4>1, Answering
      <4>. QED  BY <4>1, <4>2 DEF Quiet
    <3>2. CASE ~QTMStartsWork
      <4>1. jobs' \subseteq jobs
        BY <1>3, <3>2
        DEF QTMStep, QTMAcknowledges, QTMFinishesWork, QTMSendsParameters,
            QTMSendsState, QTMRefuses, QTMObeys, QTMStreams, QTMPushesEvent, QTMCloses,
            qtmVars
      <4>. QED  BY <4>1 DEF Quiet
    <3>. QED  BY <3>1, <3>2
  <2>. QED  BY <2>2, <2>3, <2>9, <2>10, QuietAdds
<1>4. CASE UNCHANGED vars
  BY <1>4 DEF vars, qtmVars, netVars, Quiet
<1>. QED  BY <1>1, <1>2, <1>3, <1>4 DEF Next

(* What the steps below keep, of which Quiet is settled.                   *)
Kept ==
    /\ pc \in Between => Clean
    /\ pc \in Waiting => OneUnderWay
    /\ ResultOwn

(* A wait that goes on.                                                    *)
LEMMA GoesOn ==
    ASSUME TypeOK, Kept, pc \in Waiting, pc' \in Waiting, Take \/ UNCHANGED netVars,
           UNCHANGED <<jobs, loop, op, serial, result>>
    PROVE  Kept'
<1>1. OneUnderWay
  BY DEF Kept
<1>2. OneUnderWay'
  <2>1. CASE Take
    BY <1>1, <2>1, TakeKeeps
  <2>2. CASE UNCHANGED netVars
    <3>1. \A q : Opens(q)' = Opens(q)
      BY DEF Opens, Matches
    <3>. QED
      BY <1>1, <2>2, <3>1
      DEF netVars, OneUnderWay, QuestionAlone, WorkOwned, AnswersOwned, NoAnswer
  <2>. QED  BY <2>1, <2>2
<1>3. pc' \notin Between
  BY DEF Between, Waiting
<1>4. ResultOwn'
  BY DEF Kept, ResultOwn
<1>. QED  BY <1>2, <1>3, <1>4 DEF Kept

(* A wait that an answer ends.                                             *)
LEMMA Ends ==
    ASSUME TypeOK, Kept, pc \in Waiting, Take, IsAnswer(Head(s2c)), ~Opens(Head(s2c)),
           jobs' = jobs, NEW err \in Outcome, Return(err, Head(s2c))
    PROVE  Kept'
<1>1. Clean' /\ Head(s2c).id = serial
  BY LastTaken DEF Kept
<1>2. pc' \notin Waiting /\ result'.packet.id = result'.id
  BY <1>1 DEF Return, Waiting
<1>. QED  BY <1>1, <1>2 DEF Kept, ResultOwn

LEMMA ClientSteps ==
    ASSUME TypeOK, Shape, Quiet, Kept, ~doubt, ~doubt', ClientStep \/ ClockPasses
    PROVE  Kept'
<1>1. \A err \in {"closed", "error packet", "nil", "unexpected", "NoMoreData"} : err \in Outcome
  BY DEF Outcome
<1>2. /\ Reading => pc \in Waiting
      /\ \A l \in {"check", "arm", "recv"} : l \in Waiting
  BY DEF Reading, Waiting
<1>3. s2c # <<>> /\ Head(s2c).type # "Event" => IsAnswer(Head(s2c))
  BY TailIndices DEF Quiet, TypeOK
<1>4. loop # "reply" => \A p : ~Opens(p)
  BY DEF Opens
<1>5. \A p : ~Matches(p) => ~Opens(p)
  BY DEF Opens
<1>6. CASE CheckDeadline
  <2>1. pc' \in {"arm", "recv"} /\ UNCHANGED <<loop, op, serial, result, jobs, netVars>>
    BY <1>6, Zenon DEF CheckDeadline, TimedOut, qtmVars
  <2>2. pc \in Waiting /\ pc' \in Waiting
    BY <1>6, <2>1 DEF CheckDeadline, Waiting
  <2>. QED  BY <2>1, <2>2, GoesOn
<1>7. CASE Arm
  <2>1. UNCHANGED <<loop, op, serial, result, jobs, netVars>>
    BY <1>7 DEF Arm, qtmVars
  <2>2. pc \in Waiting /\ pc' \in Waiting
    BY <1>7 DEF Arm, Waiting
  <2>. QED  BY <2>1, <2>2, GoesOn
<1>8. CASE NoMoreData
  <2>1. pc' = "check" /\ UNCHANGED <<loop, op, serial, result, jobs, netVars>>
    BY <1>8, Zenon DEF NoMoreData, TimedOut, GoOn, qtmVars
  <2>2. pc \in Waiting /\ pc' \in Waiting
    BY <1>8, <2>1 DEF NoMoreData, Waiting
  <2>. QED  BY <2>1, <2>2, GoesOn
<1>9. CASE Broken
  <2>1. /\ c2s' = <<>> /\ s2c' = <<>> /\ jobs' = {}
        /\ pc' = "idle" /\ result'.err = "closed"
    BY <1>9 DEF Broken, Return, Shape, qtmVars, netVars
  <2>2. Clean'
    BY <2>1 DEF Clean, NoQuestion, NoAnswer
  <2>. QED  BY <2>1, <2>2 DEF Kept, ResultOwn, Waiting
<1>10. CASE ErrorPacket
  <2>1. ~Matches(Head(s2c)) /\ Head(s2c).type # "Event" /\ s2c # <<>> /\ Take
    BY <1>10 DEF ErrorPacket, Matches, Take
  <2>2. Reading /\ jobs' = jobs /\ Return("error packet", Head(s2c))
    BY <1>10 DEF ErrorPacket, qtmVars
  <2>. QED  BY <1>1, <1>2, <1>3, <1>5, <2>1, <2>2, Ends
<1>11. CASE SkipEvent
  <2>1. Reading /\ Take /\ pc' = "check" /\ UNCHANGED <<loop, op, serial, result, jobs>>
    BY <1>11 DEF SkipEvent, GoOn, qtmVars
  <2>. QED  BY <1>2, <2>1, GoesOn
<1>12. CASE RawReply
  <2>1. /\ Reading /\ Take /\ jobs' = jobs /\ Return("nil", Head(s2c))
        /\ s2c # <<>> /\ Head(s2c).type # "Event" /\ op \in RawCommand
    BY <1>12 DEF RawReply, IsReply, Take, qtmVars
  <2>2. ~Opens(Head(s2c))
    BY <2>1, Commands DEF Opens
  <2>. QED  BY <1>1, <1>2, <1>3, <2>1, <2>2, Ends
<1>13. CASE Acknowledged
  <2>1. /\ Reading /\ Take /\ jobs' = jobs /\ Matches(Head(s2c)) /\ loop = "reply"
        /\ s2c # <<>> /\ Head(s2c).type # "Event"
    BY <1>13 DEF Acknowledged, IsReply, Take, qtmVars
  <2>2. CASE op \in AckCommand /\ Return("nil", Head(s2c))
    <3>1. ~Opens(Head(s2c))
      BY <2>2, Commands DEF Opens
    <3>. QED  BY <1>1, <1>2, <1>3, <2>1, <2>2, <3>1, Ends
  <2>3. CASE op \in WorkCommand /\ (StartLoop("file") \/ StartLoop("poll"))
    <3>1. Opens(Head(s2c))
      BY <2>1, <2>3 DEF Opens
    <3>2. loop' # "reply" /\ pc' = "check" /\ UNCHANGED <<op, serial, result>>
      BY <2>3 DEF StartLoop
    <3>3. OneUnderWay'
      BY <1>2, <1>3, <2>1, <3>1, <3>2, OpeningTaken DEF Kept
    <3>. QED  BY <3>2, <3>3 DEF Kept, ResultOwn, Between
  <2>4. \/ op \in AckCommand /\ Return("nil", Head(s2c))
        \/ op \in WorkCommand /\ (StartLoop("file") \/ StartLoop("poll"))
    BY <1>13 DEF Acknowledged, WorkCommand
  <2>. QED  BY <2>2, <2>3, <2>4
<1>14. CASE Unexpected
  <2>1. /\ Reading /\ Take /\ jobs' = jobs /\ Return("unexpected", Head(s2c))
        /\ s2c # <<>> /\ Head(s2c).type # "Event" /\ ~Matches(Head(s2c))
    BY <1>14 DEF Unexpected, IsReply, Take, qtmVars
  <2>. QED  BY <1>1, <1>2, <1>3, <1>5, <2>1, Ends
<1>15. CASE FileArrives
  <2>1. /\ Reading /\ Take /\ jobs' = jobs /\ loop = "file"
        /\ Return("nil", Head(s2c)) \/ Return("unexpected", Head(s2c))
        /\ s2c # <<>> /\ Head(s2c).type # "Event"
    BY <1>15 DEF FileArrives, Take, qtmVars
  <2>2. ~Opens(Head(s2c))
    BY <1>4, <2>1
  <2>. QED  BY <1>1, <1>2, <1>3, <2>1, <2>2, Ends
<1>16. CASE PollDone
  <2>1. /\ Reading /\ Take /\ jobs' = jobs /\ loop = "poll"
        /\ Return("nil", Head(s2c)) /\ s2c # <<>>
    BY <1>16 DEF PollDone, Take, qtmVars
  <2>2. ~Opens(Head(s2c))
    BY <1>4, <2>1
  <2>3. IsAnswer(Head(s2c))
    <3>1. CASE op = "GetState"
      <4>1. Head(s2c).id = serial
        BY <1>16, <3>1, Zenon DEF PollDone
      <4>2. serial > 0 /\ serial \in Nat
        BY <1>2, <2>1, BoundAssumption DEF Shape, TypeOK
      <4>. QED  BY <4>1, <4>2 DEF IsAnswer
    <3>2. CASE op # "GetState"
      BY <1>3, <1>16, <2>1, <3>2 DEF PollDone, Wanted
    <3>. QED  BY <3>1, <3>2
  <2>. QED  BY <1>1, <1>2, <2>1, <2>2, <2>3, Ends
<1>17. CASE CalibrationAborted
  BY <1>17, Zenon DEF CalibrationAborted
<1>18. CASE PollDiscards
  <2>1. Reading /\ Take /\ pc' = "check" /\ UNCHANGED <<loop, op, serial, result, jobs>>
    BY <1>18 DEF PollDiscards, GoOn, qtmVars
  <2>. QED  BY <1>2, <2>1, GoesOn
<1>19. CASE ReceiveReturns
  <2>1. /\ pc = "receive" /\ pc' = "idle" /\ jobs' = jobs /\ c2s' = c2s
        /\ s2c' = s2c \/ (s2c # <<>> /\ s2c' = Tail(s2c))
        /\ result'.op = op
    <3>1. /\ pc = "receive" /\ jobs' = jobs /\ c2s' = c2s
          /\ s2c' = s2c \/ (s2c # <<>> /\ s2c' = Tail(s2c))
          /\ \E err, p : Return(err, p)
      BY <1>19, Zenon DEF ReceiveReturns, Take, qtmVars, netVars
    <3>. QED  BY <3>1 DEF Return
  <2>2. Clean
    BY <2>1 DEF Kept, Between
  <2>3. Clean'
    <3>1. NoAnswer'
      <4>1. CASE s2c' = s2c
        BY <2>2, <4>1 DEF Clean, NoAnswer
      <4>2. CASE s2c # <<>> /\ s2c' = Tail(s2c)
        BY <2>2, <4>2, TailIndices DEF Clean, NoAnswer, TypeOK
      <4>. QED  BY <2>1, <4>1, <4>2
    <3>. QED  BY <2>1, <2>2, <3>1 DEF Clean, NoQuestion
  <2>4. ResultOwn'
    BY <2>1, Commands DEF ResultOwn, Shape
  <2>. QED  BY <2>1, <2>3, <2>4 DEF Kept, Waiting
<1>20. CASE ClockPasses
  <2>1. UNCHANGED <<pc, loop, op, serial, result, jobs, netVars>>
    BY <1>20 DEF ClockPasses, qtmVars
  <2>2. pc \in Waiting /\ pc' \in Waiting
    BY <1>20, <2>1 DEF ClockPasses, Waiting
  <2>. QED  BY <2>1, <2>2, GoesOn
<1>. QED
  BY <1>6, <1>7, <1>8, <1>9, <1>10, <1>11, <1>12, <1>13, <1>14, <1>15, <1>16, <1>17,
     <1>18, <1>19, <1>20
  DEF ClientStep

LEMMA QTMSteps ==
    ASSUME TypeOK, Shape, Quiet, Kept, ~doubt, ~doubt', QTMStep
    PROVE  Kept'
<1>1. UNCHANGED clientVars
  BY Zenon
  DEF QTMStep, QTMAcknowledges, QTMStartsWork, QTMFinishesWork, QTMSendsParameters,
      QTMSendsState, QTMRefuses, QTMObeys, QTMStreams, QTMPushesEvent, QTMCloses
<1>2. UNCHANGED <<pc, loop, op, serial, result>>
  BY <1>1 DEF clientVars
<1>3. ResultOwn'
  BY <1>2 DEF Kept, ResultOwn
<1>4. pc \in Between \cup Waiting
  BY DEF TypeOK, Between, Waiting
<1>5. SUFFICES (Clean => Clean') /\ (pc \in Waiting => (OneUnderWay => OneUnderWay'))
  BY <1>2, <1>3 DEF Kept
<1>6. Clean => NoQuestion /\ jobs = {}
  BY DEF Clean
<1>7. c2s # <<>> => 1 \in DOMAIN c2s /\ Head(c2s) = c2s[1] /\ Head(c2s) \in Command
  BY TailIndices DEF TypeOK
<1>8. ASSUME NEW call \in Answered, Taking(call) PROVE c2s # <<>> /\ Asks(Head(c2s)) /\ ~Clean
  BY <1>6, <1>7, <1>8, Commands DEF Taking, Asks, NoQuestion
<1>9. ASSUME NEW call \in Answered, Taking(call), NEW t, NEW x, Reply(t, x), Make(t, x, Head(c2s).id) \in Packet,
             jobs' = jobs
      PROVE  (Clean => Clean') /\ (OneUnderWay => OneUnderWay')
  <2>1. Make(t, x, Head(c2s).id).id = Head(c2s).id
    BY Answering
  <2>2. c2s # <<>> /\ Asks(Head(c2s)) /\ ~Clean /\ c2s' = Tail(c2s)
        /\ s2c' = Append(s2c, Make(t, x, Head(c2s).id))
    BY <1>8, <1>9 DEF Taking, Reply
  <2>. QED  BY <1>2, <1>9, <2>1, <2>2, QuestionAnswered
<1>10. c2s # <<>> => Head(c2s).id \in 0 .. MaxCalls
  BY Answering
<1>11. CASE QTMAcknowledges
  <2>1. PICK call \in AckCommand \cup RawCommand : Taking(call) /\ Reply("Command", call)
    BY <1>11 DEF QTMAcknowledges
  <2>2. call \in Answered /\ call \in Text /\ jobs' = jobs
    BY <1>11, Packets DEF QTMAcknowledges, qtmVars, Answered
  <2>3. Make("Command", call, Head(c2s).id) \in Packet
    BY <1>10, <2>1, <2>2, Packets DEF Taking
  <2>. QED  BY <1>9, <2>1, <2>2, <2>3
<1>12. CASE QTMStartsWork
  <2>1. PICK call \in WorkCommand :
           /\ Taking(call) /\ Reply("Command", Expected(call))
           /\ jobs' = jobs \cup {[type |-> WorkType(call), id |-> Head(c2s).id]}
    BY <1>12 DEF QTMStartsWork, WorkCommand, WorkType
  <2>2. call \in Answered
    BY Commands
  <2>3. c2s # <<>> /\ Asks(Head(c2s)) /\ ~Clean /\ c2s' = Tail(c2s) /\ Head(c2s).cmd = call
    BY <1>8, <2>1, <2>2 DEF Taking
  <2>4. Make("Command", Expected(call), Head(c2s).id) \in Packet
    BY <1>10, <2>2, <2>3, Packets
  <2>5. ASSUME OneUnderWay PROVE OneUnderWay'
    <3>1. op = call /\ loop = "reply"
      BY <1>7, <2>1, <2>3, <2>5 DEF OneUnderWay, QuestionAlone
    <3>2. Opens(Make("Command", Expected(call), Head(c2s).id))
      BY <2>1, <3>1, Answering DEF Opens, Matches
    <3>3. Make("Command", Expected(call), Head(c2s).id).id = Head(c2s).id
      BY Answering
    <3>4. s2c' = Append(s2c, Make("Command", Expected(call), Head(c2s).id))
      BY <2>1 DEF Reply
    <3>. QED  BY <1>2, <2>1, <2>3, <2>4, <2>5, <3>1, <3>2, <3>3, <3>4, QuestionAnswered
  <2>. QED  BY <2>3, <2>5
<1>13. CASE QTMFinishesWork
  <2>1. PICK job \in jobs : /\ jobs' = jobs \ {job}
                            /\ \E type \in {job.type, "Error"} :
                                  s2c' = Append(s2c, Make(type, "none", job.id))
    BY <1>13 DEF QTMFinishesWork
  <2>2. PICK type \in {job.type, "Error"} : s2c' = Append(s2c, Make(type, "none", job.id))
    BY <2>1
  <2>3. /\ Make(type, "none", job.id) \in Packet
        /\ Make(type, "none", job.id).id = job.id
        /\ Make(type, "none", job.id).type # "Command"
    BY Answering, Packets
  <2>4. c2s' = c2s /\ ~Clean
    BY <1>6, <1>13 DEF QTMFinishesWork
  <2>. QED  BY <1>2, <2>1, <2>2, <2>3, <2>4, OutcomeSent
<1>14. CASE QTMSendsParameters
  <2>1. /\ Taking("GetParameters") /\ Reply("XML", "none") /\ jobs' = jobs
        /\ "GetParameters" \in Answered
    BY <1>14, Commands DEF QTMSendsParameters, qtmVars, PollCommand
  <2>2. Make("XML", "none", Head(c2s).id) \in Packet
    BY <1>10, <2>1, Packets DEF Taking
  <2>. QED  BY <1>9, <2>1, <2>2
<1>15. CASE QTMSendsState
  <2>1. /\ Taking("GetState") /\ Reply("Event", "state") /\ jobs' = jobs
        /\ "GetState" \in Answered
    BY <1>15, Commands DEF QTMSendsState, qtmVars, PollCommand
  <2>2. Make("Event", "state", Head(c2s).id) \in Packet
    BY <1>10, <2>1, Packets DEF Taking
  <2>. QED  BY <1>9, <2>1, <2>2
<1>16. CASE QTMRefuses
  <2>1. PICK call \in Answered \cup Silent : Taking(call) /\ doubt' = (doubt \/ call \in Silent)
    BY <1>16, Zenon DEF QTMRefuses
  <2>2. call \in Answered
    BY <2>1, Zenon
  <2>3. "other" \in Text /\ jobs' = jobs
    BY <1>16 DEF Text, QTMRefuses, qtmVars
  <2>4. /\ Make("Error", "none", Head(c2s).id) \in Packet
        /\ Make("Command", "other", Head(c2s).id) \in Packet
    BY <1>10, <2>1, <2>3, Packets DEF Taking
  <2>5. Reply("Error", "none") \/ Reply("Command", "other")
    BY <1>16 DEF QTMRefuses
  <2>. QED  BY <1>9, <2>1, <2>2, <2>3, <2>4, <2>5
<1>17. CASE QTMObeys
  <2>1. ~(c2s # <<>> /\ Head(c2s).cmd \in Loud)
    BY <1>7 DEF Quiet, Loud
  <2>2. PICK call \in Silent : Taking(call) /\ s2c' = s2c
    BY <1>17, <2>1 DEF QTMObeys, Taking, Loud, Silent
  <2>3. c2s # <<>> /\ c2s' = Tail(c2s) /\ ~Asks(Head(c2s))
    BY <2>2 DEF Taking, Asks
  <2>4. jobs' = jobs
    BY <1>17 DEF QTMObeys
  <2>5. (NoQuestion => NoQuestion') /\ (OneUnderWay => OneUnderWay')
    BY <1>2, <2>2, <2>3, <2>4, SilentTaken
  <2>. QED  BY <2>2, <2>4, <2>5 DEF Clean, NoAnswer
<1>18. CASE QTMStreams
  BY <1>18 DEF QTMStreams, Quiet
<1>19. CASE QTMPushesEvent
  <2>1. PICK x \in {"state", "settings", "closed"} : s2c' = Append(s2c, Make("Event", x, 0))
    BY <1>19 DEF QTMPushesEvent
  <2>2. Make("Event", x, 0) \in Packet /\ ~IsAnswer(Make("Event", x, 0))
    BY Packets, Answering, BoundAssumption DEF IsAnswer
  <2>3. c2s' = c2s /\ jobs' = jobs
    BY <1>19 DEF QTMPushesEvent, qtmVars
  <2>. QED  BY <1>2, <2>1, <2>2, <2>3, EventKeeps DEF Clean, NoQuestion
<1>20. CASE QTMCloses
  BY <1>2, <1>20, CloseKeeps DEF QTMCloses
<1>. QED
  BY <1>11, <1>12, <1>13, <1>14, <1>15, <1>16, <1>17, <1>18, <1>19, <1>20 DEF QTMStep

LEMMA ApplicationSteps ==
    ASSUME TypeOK, Shape, Kept, ApplicationStep, ~doubt'
    PROVE  Kept'
<1>1. pc = "idle" => Clean
  BY DEF Kept, Between
<1>2. ASSUME NEW call \in Answered, Begin(call) PROVE Kept'
  <2>1. /\ pc = "idle" /\ pc' = "check" /\ serial < MaxCalls /\ Send(call) /\ op' = call
        /\ loop' = IF call \in PollCommand THEN "poll" ELSE "reply"
        /\ UNCHANGED <<s2c, jobs, result>>
    BY <1>2 DEF Begin, Ready, qtmVars
  <2>2. OneUnderWay'
    BY <1>1, <2>1, BeginsAlone
  <2>. QED  BY <2>1, <2>2 DEF Kept, ResultOwn, Between
<1>3. ASSUME NEW call \in Silent, FireAndForget(call) PROVE Kept'
  <2>1. /\ pc = "idle" /\ serial < MaxCalls /\ Send(call) /\ result'.op = call
        /\ UNCHANGED <<pc, s2c, jobs>>
    BY <1>3 DEF FireAndForget, Ready, qtmVars
  <2>2. NoQuestion'
    <3>1. [cmd |-> call, id |-> serial + 1] \in Command
      BY <2>1, BoundAssumption DEF Command, TypeOK
    <3>2. ~Asks([cmd |-> call, id |-> serial + 1])
      BY DEF Asks
    <3>. QED
      BY <1>1, <2>1, <3>1, <3>2, AppendIndices DEF Send, Clean, NoQuestion, TypeOK
  <2>3. Clean'
    BY <1>1, <2>1, <2>2 DEF Clean, NoAnswer
  <2>. QED  BY <2>1, <2>3, Commands DEF Kept, ResultOwn, Waiting
<1>4. ASSUME NEW call \in Answered \cup Silent,
             BadArguments(call) \/ WriteFails(call) \/ NotConnected(call)
      PROVE  Kept'
  <2>1. pc = "idle" /\ UNCHANGED <<pc, s2c, c2s, jobs>>
    BY <1>4, Zenon
    DEF BadArguments, WriteFails, NotConnected, Ready, qtmVars, netVars
  <2>2. CASE BadArguments(call)
    <3>1. result'.err = "invalid"
      BY <2>2 DEF BadArguments
    <3>. QED
      BY <1>1, <2>1, <3>1 DEF Kept, ResultOwn, Waiting, Clean, NoQuestion, NoAnswer
  <2>3. CASE WriteFails(call)
    <3>1. result'.err = "write"
      BY <2>3 DEF WriteFails
    <3>. QED
      BY <1>1, <2>1, <3>1 DEF Kept, ResultOwn, Waiting, Clean, NoQuestion, NoAnswer
  <2>4. CASE NotConnected(call)
    <3>1. result'.err = "ErrNotConnected"
      BY <2>4 DEF NotConnected
    <3>. QED
      BY <1>1, <2>1, <3>1 DEF Kept, ResultOwn, Waiting, Clean, NoQuestion, NoAnswer
  <2>. QED  BY <1>4, <2>2, <2>3, <2>4
<1>5. CASE Receive
  BY <1>1, <1>5 DEF Receive, Kept, ResultOwn, Waiting, Clean, NoQuestion, NoAnswer,
                    qtmVars, netVars
<1>6. CASE Disconnect
  <2>1. pc' = "idle" /\ jobs' = {} /\ c2s' = <<>> /\ s2c' = <<>> /\ result'.op = "none"
    BY <1>6 DEF Disconnect
  <2>2. Clean'
    BY <2>1 DEF Clean, NoQuestion, NoAnswer
  <2>3. ResultOwn'
    BY <2>1, Commands DEF ResultOwn
  <2>. QED  BY <2>1, <2>2, <2>3 DEF Kept, Waiting
<1>7. CASE Connect
  <2>1. c2s' = <<>> /\ UNCHANGED <<pc, result, jobs, s2c>> /\ pc = "idle"
    BY <1>7 DEF Connect
  <2>2. Clean'
    BY <1>1, <2>1 DEF Clean, NoQuestion, NoAnswer
  <2>. QED  BY <2>1, <2>2 DEF Kept, ResultOwn, Waiting
<1>. QED  BY <1>2, <1>3, <1>4, <1>5, <1>6, <1>7 DEF ApplicationStep

-----------------------------------------------------------------------------
LEMMA UndisturbedSteps == ASSUME TypeOK, Shape, Undisturbed, [Next]_vars PROVE Undisturbed'
<1>1. SUFFICES ASSUME ~doubt' PROVE Quiet' /\ Kept'
  BY DEF Undisturbed, Kept
<1>2. CASE Disconnect
  BY <1>2, Commands
  DEF Disconnect, Quiet, Kept, ResultOwn, Waiting, Clean, NoQuestion, NoAnswer
<1>3. CASE ~doubt
  <2>1. Quiet /\ Kept
    BY <1>3 DEF Undisturbed, Kept
  <2>2. Quiet'
    BY <1>1, <1>3, <2>1, QuietSteps
  <2>3. CASE UNCHANGED vars
    <3>1. UNCHANGED <<pc, loop, op, serial, result, jobs, c2s, s2c>>
      BY <2>3 DEF vars, clientVars, qtmVars, netVars
    <3>2. \A q : Opens(q)' = Opens(q)
      BY <3>1 DEF Opens, Matches
    <3>3. Kept'
      BY <2>1, <3>1, <3>2
      DEF Kept, Clean, ResultOwn, OneUnderWay, QuestionAlone, WorkOwned, AnswersOwned,
          NoAnswer, NoQuestion
    <3>. QED  BY <2>2, <3>3
  <2>. QED
    BY <1>1, <1>3, <2>1, <2>2, <2>3, ApplicationSteps, ClientSteps, QTMSteps DEF Next
<1>. QED  BY <1>1, <1>2, <1>3, DoubtLasts

LEMMA Initially == Init => IInv
<1>. SUFFICES ASSUME Init PROVE IInv
  OBVIOUS
<1>1. TypeOK
  <2>1. 0 \in 0 .. MaxCalls
    BY BoundAssumption
  <2>2. result \in Results
    BY <2>1, Packets DEF Init, Results, Outcome
  <2>3. c2s \in Seq(Command) /\ s2c \in Seq(Packet)
    <3>1. [cmd |-> "GetState", id |-> 0] \in Command
      BY <2>1 DEF Command, Answered, PollCommand
    <3>2. <<[cmd |-> "GetState", id |-> 0]>> \in Seq(Command)
      BY <3>1
    <3>. QED  BY <3>2, EmptySeq DEF Init, FromConnect
  <2>. QED  BY <2>1, <2>2, <2>3 DEF Init, TypeOK, Results, Waiting
<1>2. Shape
  BY DEF Init, Shape, Between, Waiting
<1>3. Undisturbed
  <2>1. SUFFICES ASSUME ~doubt
                 PROVE  Quiet /\ Clean /\ ResultOwn /\ pc \notin Waiting
    BY DEF Undisturbed
  <2>2. c2s = <<>> /\ s2c = <<>> /\ jobs = {} /\ ~streaming /\ pc = "idle"
        /\ result.op = "none"
    BY <2>1 DEF Init
  <2>3. DOMAIN c2s = {} /\ DOMAIN s2c = {}
    BY <2>2
  <2>4. Quiet /\ Clean
    BY <2>2, <2>3 DEF Quiet, Clean, NoQuestion, NoAnswer
  <2>5. ResultOwn
    BY <2>2, Commands DEF ResultOwn
  <2>. QED  BY <2>2, <2>4, <2>5 DEF Waiting
<1>. QED  BY <1>1, <1>2, <1>3 DEF IInv

(* Whatever the application calls and QTM sends.                           *)
THEOREM Invariance == Spec => []IInv
<1>1. IInv /\ [Next]_vars => IInv'
  BY TypeSteps, ShapeSteps, UndisturbedSteps DEF IInv
<1>. QED  BY <1>1, Initially, PTL DEF Spec

(* Every variable keeps its type.                                          *)
THEOREM TypeCorrect == Spec => []TypeOK
<1>1. IInv => TypeOK
  BY DEF IInv
<1>. QED  BY <1>1, Invariance, PTL

(* The packet that decides a call is QTM's answer to that call, although   *)
(* replies name no command (receiveSkippingEvents, protocol.go:448-455).   *)
THEOREM AnswersMatch == Spec => []OwnAnswer
<1>1. IInv => OwnAnswer
  BY DEF IInv, Undisturbed, ResultOwn, OwnAnswer
<1>. QED  BY <1>1, Invariance, PTL

(* A call that ran to its end leaves nothing but events to whoever reads   *)
(* next, and no command that QTM would still answer.                       *)
THEOREM CallsEndClean == Spec => []NothingLeftBehind
<1>1. IInv => NothingLeftBehind
  BY DEF IInv, Undisturbed, Between, Clean, NoQuestion, NoAnswer, Asks, Quiet,
         NothingLeftBehind
<1>. QED  BY <1>1, Invariance, PTL

=============================================================================
