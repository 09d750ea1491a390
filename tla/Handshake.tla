------------------------------- MODULE Handshake -------------------------------
(***************************************************************************)
(* Connect (protocol.go:240-286) against one QTM: the welcome message, the *)
(* ladder of protocol versions walked with SetVersion, and the GetState    *)
(* call that primes the cached state; then Disconnect, a later SetVersion  *)
(* or GetState, and Connect again.                                         *)
(*                                                                         *)
(* Both directions of the TCP connection are FIFO queues of whole packets  *)
(* (PacketFraming shows when that is right).  QTM may be slow, so that a   *)
(* reply arrives after the client stopped waiting for it; it may push      *)
(* events at any time and close at any time.                               *)
(***************************************************************************)
EXTENDS Integers, Sequences

CONSTANTS
    DefaultMajorVersion,        \* the newest version the SDK speaks
    DefaultMinorVersion,
    MinSupportedMinorVersion,   \* where the ladder ends
    Wanted,                     \* the versions a caller may ask for
    Offered,                    \* the versions a QTM may accept
    MaxPending                  \* bound: what is in flight when more is added

ASSUME VersionAssumption ==
    /\ DefaultMajorVersion \in Nat \ {0}
    /\ DefaultMinorVersion \in Nat
    /\ MinSupportedMinorVersion \in 0 .. DefaultMinorVersion

Version == (Nat \ {0}) \X Nat

ASSUME WantedAssumption == Wanted \subseteq Version

ASSUME OfferedAssumption == Offered \subseteq Version

ASSUME PendingAssumption == MaxPending \in Nat

VARIABLES
    want, negotiate,    \* the client's options: WithVersion, negotiateVersion
    accepts,            \* the versions this QTM accepts
    conn,               \* rt.conn # nil
    ver,                \* <<rt.majorVersion, rt.minorVersion>>
    pc,                 \* where the running call is
    op,                 \* the public operation that is running
    i,                  \* position in the ladder
    goal,               \* the version the running SetVersion asks for
    late,               \* has the deadline of the running GetState passed?
    result,             \* what the last public operation returned
    up,                 \* is QTM's end of the connection open?
    greeted,            \* has QTM sent its welcome?
    srvVer,             \* the version QTM speaks on this connection
    c2s, s2c,           \* commands and packets in flight
    punctual,           \* ghost: no wait of this connection timed out or failed
    doubt               \* ghost: a SetVersion after Connect got no answer

config     == <<want, negotiate, accepts>>
clientVars == <<conn, ver, pc, op, i, goal, late, result>>
qtmVars    == <<up, greeted, srvVer>>
netVars    == <<c2s, s2c>>
ghostVars  == <<punctual, doubt>>
vars       == <<config, clientVars, qtmVars, netVars, ghostVars>>

NoVersion == <<0, 0>>

(* versionCandidates: the requested version, then the default major's      *)
(* minors downwards, without those that are not older than the request.    *)
NewestFallback(w) ==
    IF w[1] = DefaultMajorVersion /\ w[2] <= DefaultMinorVersion
    THEN w[2] - 1
    ELSE DefaultMinorVersion

LadderLength(w, negotiating) ==
    IF negotiating /\ NewestFallback(w) >= MinSupportedMinorVersion
    THEN 2 + NewestFallback(w) - MinSupportedMinorVersion
    ELSE 1

Candidate(w, k) ==
    IF k = 1 THEN w ELSE <<DefaultMajorVersion, NewestFallback(w) + 2 - k>>

versionCandidates ==
    [k \in 1 .. LadderLength(want, negotiate) |-> Candidate(want, k)]

(* Commands and packets; only "Version" and "VersionSet" name a version.   *)
Command == [kind : {"Version", "GetState"}, ver : Version \cup {NoVersion}]

Packet == [kind : {"Welcome", "Other", "VersionSet", "Rejected", "Event"},
           ver  : Version \cup {NoVersion}]

Plain(k) == [kind |-> k, ver |-> NoVersion]

VersionCommand(v) == [kind |-> "Version", ver |-> v]

VersionSet(v) == [kind |-> "VersionSet", ver |-> v]

Call == {"none", "Connect", "SetVersion", "GetState"}

ConnectFailure == {"dial", "welcome", "unexpected welcome", "ErrVersionNotSupported"}

Outcome == ConnectFailure \cup {"ok", "error", "ErrTimeout"}

PrimingState == {"state.check", "state.arm", "state.recv", "state.forever"}

FlagsTyped ==
    /\ negotiate \in BOOLEAN
    /\ conn \in BOOLEAN
    /\ late \in BOOLEAN
    /\ up \in BOOLEAN
    /\ greeted \in BOOLEAN
    /\ punctual \in BOOLEAN
    /\ doubt \in BOOLEAN

(* The type of every variable; the ladder is never walked past its end.    *)
TypeOK ==
    /\ FlagsTyped
    /\ want \in Wanted
    /\ accepts \subseteq Offered
    /\ ver \in Version \cup {NoVersion}
    /\ pc \in {"idle", "welcome", "try", "version"} \cup PrimingState
    /\ op \in Call
    /\ i \in 1 .. LadderLength(want, negotiate) + 1
    /\ goal \in Version
    /\ result \in Outcome
    /\ srvVer \in Version \cup {NoVersion}
    /\ c2s \in Seq(Command)
    /\ s2c \in Seq(Packet)

Init ==
    /\ want \in Wanted
    /\ negotiate \in BOOLEAN
    /\ accepts \in SUBSET Offered
    /\ conn = FALSE
    /\ ver = NoVersion
    /\ pc = "idle"
    /\ op = "none"
    /\ i = 1
    /\ goal = want
    /\ late = FALSE
    /\ result = "ok"
    /\ up = FALSE
    /\ greeted = FALSE
    /\ srvVer = NoVersion
    /\ c2s = <<>>
    /\ s2c = <<>>
    /\ punctual = TRUE
    /\ doubt = FALSE

-----------------------------------------------------------------------------
(* Pieces of the client's steps.                                           *)

Return(r) ==
    /\ pc' = "idle"
    /\ op' = "none"
    /\ late' = FALSE
    /\ result' = r

(* Disconnect's effect on the connection, seen from both ends.             *)
Hangup ==
    /\ conn' = FALSE
    /\ ver' = NoVersion
    /\ up' = FALSE
    /\ greeted' = FALSE
    /\ srvVer' = NoVersion
    /\ c2s' = <<>>
    /\ s2c' = <<>>
    /\ doubt' = FALSE

(* A Connect that fails hangs up before it returns.                        *)
FailConnect(r) == Hangup /\ Return(r)

Take == s2c # <<>> /\ s2c' = Tail(s2c) /\ UNCHANGED c2s

(* A read of an ended connection.                                          *)
Ended == ~up /\ s2c = <<>>

SendFails == ~up

InFlight == Len(c2s) + Len(s2c)

-----------------------------------------------------------------------------
(* Connect.                                                                *)

(* An open connection is dropped first; QTM gives a new one a fresh state. *)
Dial ==
    /\ pc = "idle"
    /\ conn' = TRUE
    /\ ver' = NoVersion
    /\ up' = TRUE
    /\ greeted' = FALSE
    /\ srvVer' = NoVersion
    /\ c2s' = <<>>
    /\ s2c' = <<>>
    /\ pc' = "welcome"
    /\ op' = "Connect"
    /\ i' = 1
    /\ goal' = want
    /\ punctual' = TRUE
    /\ doubt' = FALSE
    /\ UNCHANGED <<config, late, result>>

DialFails ==
    /\ pc = "idle"
    /\ FailConnect("dial")
    /\ punctual' = TRUE
    /\ UNCHANGED <<config, i, goal>>

Welcomed ==
    /\ pc = "welcome"
    /\ Take
    /\ Head(s2c).kind = "Welcome"
    /\ pc' = "try"
    /\ UNCHANGED <<config, conn, ver, op, i, goal, late, result, qtmVars, ghostVars>>

(* The first packet is another one, or none came: ReceiveTimeout then      *)
(* returns a packet whose CommandResponse is empty.  connectTimeout is     *)
(* assumed to be positive; without it this read has no deadline.           *)
NotWelcomed ==
    /\ pc = "welcome"
    /\ \/ s2c # <<>> /\ Head(s2c).kind # "Welcome" /\ UNCHANGED punctual
       \/ punctual' = FALSE
    /\ FailConnect("unexpected welcome")
    /\ UNCHANGED <<config, i, goal>>

WelcomeFails ==
    /\ pc = "welcome"
    /\ Ended
    /\ FailConnect("welcome")
    /\ punctual' = FALSE
    /\ UNCHANGED <<config, i, goal>>

(* The next candidate: SetVersion's send succeeds ...                      *)
TryVersion ==
    /\ pc = "try"
    /\ i <= Len(versionCandidates)
    /\ goal' = versionCandidates[i]
    /\ c2s' = Append(c2s, VersionCommand(versionCandidates[i]))
    /\ pc' = "version"
    /\ UNCHANGED <<config, conn, ver, op, i, late, result, qtmVars, s2c, ghostVars>>

(* Mutant of TryVersionFails: the loop does not stop at the ladder's end.  *)
TryVersionFailsForever ==
    /\ pc = "try"
    /\ SendFails
    /\ i' = i + 1
    /\ punctual' = FALSE
    /\ UNCHANGED <<config, conn, ver, pc, op, goal, late, result, qtmVars, netVars, doubt>>

(* ... or fails, and the loop goes on with the one after it.               *)
TryVersionFails ==
    /\ pc = "try"
    /\ i <= Len(versionCandidates)
    /\ SendFails
    /\ i' = i + 1
    /\ punctual' = FALSE
    /\ UNCHANGED <<config, conn, ver, pc, op, goal, late, result, qtmVars, netVars, doubt>>

(* Mutant of LadderExhausted: Connect returns without Disconnect.          *)
LadderExhaustedKeepsConn ==
    /\ pc = "try"
    /\ i > Len(versionCandidates)
    /\ Return("ErrVersionNotSupported")
    /\ UNCHANGED <<config, conn, ver, i, goal, qtmVars, netVars, ghostVars>>

LadderExhausted ==
    /\ pc = "try"
    /\ i > Len(versionCandidates)
    /\ FailConnect("ErrVersionNotSupported")
    /\ UNCHANGED <<config, i, goal, punctual>>

-----------------------------------------------------------------------------
(* SetVersion's wait in sendAndWaitForResponse, for Connect and for a      *)
(* caller of its own.                                                      *)

SetVersion ==
    /\ pc = "idle"
    /\ conn
    /\ InFlight < MaxPending
    /\ \E v \in Wanted :
          /\ goal' = v
          /\ c2s' = Append(c2s, VersionCommand(v))
    /\ pc' = "version"
    /\ op' = "SetVersion"
    /\ UNCHANGED <<config, conn, ver, i, late, result, qtmVars, s2c, ghostVars>>

(* SetVersion returns an error: Connect tries the next candidate.          *)
VersionFails(r) ==
    \/ /\ op = "Connect"
       /\ pc' = "try"
       /\ i' = i + 1
       /\ UNCHANGED <<op, late, result>>
    \/ /\ op = "SetVersion"
       /\ Return(r)
       /\ UNCHANGED i

(* Mutant of SkipEvent: an event is taken for the answer.                  *)
SkipEventNot ==
    /\ pc = "version"
    /\ Take
    /\ Head(s2c).kind = "Event"
    /\ VersionFails("error")
    /\ UNCHANGED <<config, conn, ver, goal, qtmVars, ghostVars>>

SkipEvent ==
    /\ pc = "version"
    /\ Take
    /\ Head(s2c).kind = "Event"
    /\ UNCHANGED <<config, clientVars, qtmVars, ghostVars>>

(* Mutant of VersionAccepted: any "Version set to" is taken for the answer.*)
VersionAcceptedLoosely ==
    /\ pc = "version"
    /\ s2c # <<>>
    /\ Head(s2c).kind = "VersionSet"
    /\ s2c' = Tail(s2c)
    /\ ver' = goal
    /\ op = "Connect"
    /\ pc' = "state.check"
    /\ c2s' = Append(c2s, Plain("GetState"))
    /\ UNCHANGED <<config, conn, op, i, goal, late, result, qtmVars, ghostVars>>

(* The expected answer: the version is recorded, and Connect goes on to    *)
(* GetState, whose send may fail.                                          *)
VersionAccepted ==
    /\ pc = "version"
    /\ s2c # <<>>
    /\ Head(s2c) = VersionSet(goal)
    /\ s2c' = Tail(s2c)
    /\ ver' = goal
    /\ \/ /\ op = "Connect"
          /\ pc' = "state.check"
          /\ c2s' = Append(c2s, Plain("GetState"))
          /\ UNCHANGED <<op, late, result, punctual>>
       \/ /\ op = "Connect"
          /\ SendFails
          /\ Return("ok")
          /\ punctual' = FALSE
          /\ UNCHANGED c2s
       \/ /\ op = "SetVersion"
          /\ Return("ok")
          /\ UNCHANGED <<c2s, punctual>>
    /\ UNCHANGED <<config, conn, i, goal, qtmVars, doubt>>

(* Any other packet than an event is taken for the answer.                 *)
VersionRefused ==
    /\ pc = "version"
    /\ Take
    /\ Head(s2c).kind # "Event" /\ Head(s2c) # VersionSet(goal)
    /\ VersionFails("error")
    /\ UNCHANGED <<config, conn, ver, goal, qtmVars, ghostVars>>

(* Mutant of VersionTimeout: the wait inside Connect has no deadline.      *)
VersionTimeoutNotInConnect ==
    /\ pc = "version"
    /\ op = "SetVersion"
    /\ VersionFails("ErrTimeout")
    /\ punctual' = FALSE
    /\ doubt' = TRUE
    /\ UNCHANGED <<config, conn, ver, goal, qtmVars, netVars>>

(* Mutant of VersionTimeout: the version is recorded before the error is   *)
(* looked at.                                                              *)
VersionTimeoutRecords ==
    /\ pc = "version"
    /\ VersionFails("ErrTimeout")
    /\ ver' = goal
    /\ punctual' = FALSE
    /\ doubt' = (doubt \/ op = "SetVersion")
    /\ UNCHANGED <<config, conn, goal, qtmVars, netVars>>

VersionTimeout ==
    /\ pc = "version"
    /\ VersionFails("ErrTimeout")
    /\ punctual' = FALSE
    /\ doubt' = (doubt \/ op = "SetVersion")
    /\ UNCHANGED <<config, conn, ver, goal, qtmVars, netVars>>

VersionBroken ==
    /\ pc = "version"
    /\ Ended
    /\ VersionFails("error")
    /\ punctual' = FALSE
    /\ doubt' = (doubt \/ op = "SetVersion")
    /\ UNCHANGED <<config, conn, ver, goal, qtmVars, netVars>>

-----------------------------------------------------------------------------
(* GetState, called by Connect or by the application.  The loop reads the  *)
(* clock twice: once to see whether its deadline has passed, once more to  *)
(* compute the time that is left.                                          *)

GetState ==
    /\ pc = "idle"
    /\ conn
    /\ InFlight < MaxPending
    /\ c2s' = Append(c2s, Plain("GetState"))
    /\ pc' = "state.check"
    /\ op' = "GetState"
    /\ UNCHANGED <<config, conn, ver, i, goal, late, result, qtmVars, s2c, ghostVars>>

(* sendString returns ErrNotConnected, or its write fails: the call, of    *)
(* SetVersion or GetState, ends there.                                     *)
CannotSend ==
    /\ pc = "idle"
    /\ SendFails
    /\ result' = "error"
    /\ UNCHANGED <<config, conn, ver, pc, op, i, goal, late, qtmVars, netVars, ghostVars>>

(* The deadline of DefaultCommandTimeout passes.                           *)
ClockPasses ==
    /\ pc \in {"state.check", "state.arm", "state.recv"}
    /\ ~late
    /\ late' = TRUE
    /\ UNCHANGED <<config, conn, ver, pc, op, i, goal, result, qtmVars, netVars, ghostVars>>

(* Connect ignores what its GetState returns.                              *)
StateReturns(r) == Return(IF op = "Connect" THEN "ok" ELSE r)

StateCheck ==
    /\ pc = "state.check"
    /\ \/ late /\ StateReturns("ErrTimeout")
       \/ ~late /\ pc' = "state.arm" /\ UNCHANGED <<op, late, result>>
    /\ UNCHANGED <<config, conn, ver, i, goal, qtmVars, netVars, ghostVars>>

(* time.Until(deadline): ReceiveTimeout blocks indefinitely when it is not *)
(* positive.                                                               *)
StateArm ==
    /\ pc = "state.arm"
    /\ pc' = IF late THEN "state.forever" ELSE "state.recv"
    /\ UNCHANGED <<config, conn, ver, op, i, goal, late, result, qtmVars, netVars, ghostVars>>

StatePacket ==
    /\ pc \in {"state.recv", "state.forever"}
    /\ Take
    /\ \/ Head(s2c).kind = "Event" /\ StateReturns("ok")
       \/ Head(s2c).kind = "Rejected" /\ StateReturns("error")
       \/ /\ Head(s2c).kind \notin {"Event", "Rejected"}
          /\ pc' = "state.check"
          /\ UNCHANGED <<op, late, result>>
    /\ UNCHANGED <<config, conn, ver, i, goal, qtmVars, ghostVars>>

StateNoMoreData ==
    /\ pc = "state.recv"
    /\ late
    /\ pc' = "state.check"
    /\ UNCHANGED <<config, conn, ver, op, i, goal, late, result, qtmVars, netVars, ghostVars>>

StateBroken ==
    /\ pc \in {"state.recv", "state.forever"}
    /\ Ended
    /\ StateReturns("error")
    /\ punctual' = FALSE
    /\ UNCHANGED <<config, conn, ver, i, goal, qtmVars, netVars, doubt>>

-----------------------------------------------------------------------------
Disconnect ==
    /\ pc = "idle"
    /\ conn
    /\ Hangup
    /\ UNCHANGED <<config, pc, op, i, goal, late, result, punctual>>

-----------------------------------------------------------------------------
(* QTM, or whatever listens on its port.                                   *)

QTMGreets ==
    /\ up /\ ~greeted
    /\ greeted' = TRUE
    /\ \E m \in {"Welcome", "Other"} : s2c' = Append(s2c, Plain(m))
    /\ UNCHANGED <<config, clientVars, up, srvVer, c2s, ghostVars>>

QTMSetsVersion ==
    /\ up
    /\ c2s # <<>>
    /\ Head(c2s).kind = "Version"
    /\ Head(c2s).ver \in accepts
    /\ srvVer' = Head(c2s).ver
    /\ s2c' = Append(s2c, VersionSet(Head(c2s).ver))
    /\ c2s' = Tail(c2s)
    /\ UNCHANGED <<config, clientVars, up, greeted, ghostVars>>

QTMRejectsVersion ==
    /\ up
    /\ c2s # <<>>
    /\ Head(c2s).kind = "Version"
    /\ Head(c2s).ver \notin accepts
    /\ s2c' = Append(s2c, Plain("Rejected"))
    /\ c2s' = Tail(c2s)
    /\ UNCHANGED <<config, clientVars, qtmVars, ghostVars>>

QTMSendsState ==
    /\ up
    /\ c2s # <<>>
    /\ Head(c2s).kind = "GetState"
    /\ s2c' = Append(s2c, Plain("Event"))
    /\ c2s' = Tail(c2s)
    /\ UNCHANGED <<config, clientVars, qtmVars, ghostVars>>

QTMPushesEvent ==
    /\ up /\ greeted
    /\ InFlight < MaxPending
    /\ s2c' = Append(s2c, Plain("Event"))
    /\ UNCHANGED <<config, clientVars, qtmVars, c2s, ghostVars>>

(* What QTM sent before it closed may still be read, or may be lost.       *)
QTMCloses ==
    /\ up
    /\ up' = FALSE
    /\ s2c' \in {s2c, <<>>}
    /\ UNCHANGED <<config, clientVars, greeted, srvVer, c2s, ghostVars>>

-----------------------------------------------------------------------------
ConnectStep ==
    \/ Welcomed \/ NotWelcomed \/ WelcomeFails
    \/ TryVersion \/ TryVersionFails \/ LadderExhausted

VersionStep ==
    \/ SkipEvent \/ VersionAccepted \/ VersionRefused
    \/ VersionTimeout \/ VersionBroken

StateStep ==
    \/ StateCheck \/ StateArm \/ StatePacket \/ StateNoMoreData \/ StateBroken

ApplicationStep ==
    \/ Dial \/ DialFails \/ SetVersion \/ GetState \/ CannotSend \/ Disconnect

QTMStep ==
    \/ QTMGreets \/ QTMSetsVersion \/ QTMRejectsVersion \/ QTMSendsState
    \/ QTMPushesEvent \/ QTMCloses

Next ==
    \/ ApplicationStep
    \/ ConnectStep \/ VersionStep \/ StateStep \/ ClockPasses
    \/ QTMStep

Spec == Init /\ [][Next]_vars

(* The client's goroutine keeps running, its deadlines pass, and the       *)
(* clock advances.  Nothing is assumed of QTM.                             *)
Fairness ==
    /\ WF_vars(ConnectStep)
    /\ WF_vars(VersionStep) /\ WF_vars(VersionTimeout)
    /\ WF_vars(StateStep) /\ WF_vars(ClockPasses)

FairSpec == Spec /\ Fairness

-----------------------------------------------------------------------------
(* The version the client reports (Version, protocol.go:308-312) is the    *)
(* one QTM speaks on this connection, and one that QTM accepts, however    *)
(* late QTM's replies were during the ladder; only a SetVersion call that  *)
(* was left unanswered after Connect puts it in doubt.                     *)
VersionAgreement ==
    (pc = "idle" /\ conn /\ ~doubt) => srvVer = ver /\ ver \in accepts

(* A Connect that fails leaves no connection and no version behind         *)
(* (protocol.go:235-239), and a client without connection has no version.  *)
FailedConnectCloses ==
    /\ (pc = "idle" /\ result \in ConnectFailure) => ~conn
    /\ ~conn => ver = NoVersion /\ c2s = <<>>

(* When every reply came in time, Connect settles on the version asked     *)
(* for if QTM accepts it, else on the newest that QTM accepts among the    *)
(* supported ones of the default major that are older than the request     *)
(* (protocol.go:213-217), and gives up only when QTM accepts none of them  *)
(* (TestConnectPrefersNewestAcceptedVersion, and the walk down of          *)
(* TestConnectNegotiatesDownToOlderVersion).                               *)
Fallback ==
    {v \in {DefaultMajorVersion} \X (MinSupportedMinorVersion .. DefaultMinorVersion) :
        negotiate /\ ~(v[1] = want[1] /\ v[2] >= want[2])}

FirstAccepted ==
    punctual =>
        /\ (op = "Connect" /\ pc \in PrimingState /\ ver # want) =>
              /\ want \notin accepts
              /\ ver \in Fallback
              /\ \A v \in Fallback \cap accepts : v[2] <= ver[2]
        /\ (pc = "idle" /\ result = "ErrVersionNotSupported") =>
              accepts \cap ({want} \cup Fallback) = {}

(* Every call of the handshake comes back, unless it hangs in GetState's   *)
(* read without deadline.                                                  *)
HangsOnlyInGetState ==
    (pc # "idle") ~> (pc \in {"idle", "state.forever"})

(* protocol.go:64: "DefaultCommandTimeout applies to commands that wait    *)
(* for a response", and GetState is one, so every call comes back.         *)
CallsReturn == (pc # "idle") ~> (pc = "idle")

(* The handshake keeps what Connection promises.  What Connect does before *)
(* it returns is hidden.                                                   *)
Phase ==
    IF op = "Connect" THEN "connecting"
    ELSE IF ~conn THEN "closed"
    ELSE IF op = "SetVersion" THEN "changing" ELSE "open"

Shown(v) == IF op = "Connect" THEN NoVersion ELSE v

Promised == INSTANCE Connection WITH
    phase <- Phase, version <- Shown(ver), spoken <- Shown(srvVer),
    unsure <- doubt, failed <- result # "ok"

ConnectionSpec == Promised!Spec

-----------------------------------------------------------------------------
(* The inductive invariant behind VersionAgreement.  QTM answers commands  *)
(* in order, so that the answer to the newest SetVersion, when the client  *)
(* reads it, is the last one there can be: no earlier command is still     *)
(* under way that could make QTM change its version again.                 *)

IsAnswer(m) == m.kind \in {"VersionSet", "Rejected"}

NoAnswers == \A j \in DOMAIN s2c : ~IsAnswer(s2c[j])

NoVersionCommand == \A k \in DOMAIN c2s : c2s[k].kind # "Version"

(* The client and QTM agree, and nothing is under way that changes that.   *)
Settled ==
    /\ NoVersionCommand
    /\ NoAnswers
    /\ srvVer = ver
    /\ ver \in accepts

Running ==
    /\ pc # "idle" => conn
    /\ up => conn
    /\ ~conn => ver = NoVersion /\ c2s = <<>> /\ s2c = <<>>
    /\ pc = "idle" => op = "none"
    /\ pc \in {"welcome", "try"} => op = "Connect"
    /\ pc = "version" => op \in {"Connect", "SetVersion"}
    /\ (conn /\ op = "Connect") => ~doubt

Greeting ==
    /\ (conn /\ ~greeted) => pc = "welcome" /\ s2c = <<>>
    /\ pc = "welcome" =>
          c2s = <<>> /\ \A j \in DOMAIN s2c : j > 1 => s2c[j].kind = "Event"
    /\ (conn /\ pc # "welcome") =>
          \A j \in DOMAIN s2c : s2c[j].kind \notin {"Welcome", "Other"}

(* While Connect walks the ladder, what is under way is about candidates   *)
(* that were tried.                                                        *)
Tried(v) ==
    \E k \in DOMAIN versionCandidates :
        /\ k < i \/ (k = i /\ pc = "version")
        /\ v = versionCandidates[k]

Laddered ==
    (op = "Connect" /\ pc \in {"try", "version"}) =>
        /\ \A k \in DOMAIN c2s : c2s[k].kind = "Version" => Tried(c2s[k].ver)
        /\ \A j \in DOMAIN s2c : s2c[j].kind = "VersionSet" => Tried(s2c[j].ver)
        /\ pc = "version" =>
              i \in DOMAIN versionCandidates /\ goal = versionCandidates[i]

(* The command that asks for goal, and the answer that grants it, are the  *)
(* last of their kind.                                                     *)
LastCommand ==
    \A k, l \in DOMAIN c2s :
        (c2s[k] = VersionCommand(goal) /\ l > k) => c2s[l].kind # "Version"

LastAnswer ==
    \A j \in DOMAIN s2c : s2c[j] = VersionSet(goal) =>
        /\ NoVersionCommand
        /\ srvVer = goal
        /\ goal \in accepts
        /\ \A l \in DOMAIN s2c : l > j => ~IsAnswer(s2c[l])

(* A SetVersion after Connect has one command or one answer under way.     *)
OneAnswer ==
    /\ \A k \in DOMAIN c2s : c2s[k].kind = "Version" =>
          /\ c2s[k].ver = goal
          /\ NoAnswers
          /\ srvVer = ver /\ ver \in accepts
    /\ \A j \in DOMAIN s2c :
          /\ s2c[j].kind = "VersionSet" => s2c[j].ver = goal
          /\ s2c[j].kind = "Rejected" =>
                /\ NoVersionCommand
                /\ srvVer = ver /\ ver \in accepts
                /\ \A l \in DOMAIN s2c : l > j => ~IsAnswer(s2c[l])

Agreeing ==
    (conn /\ ~doubt) =>
        /\ pc \in {"idle"} \cup PrimingState => Settled
        /\ pc = "version" => LastCommand /\ LastAnswer
        /\ (pc = "version" /\ op = "SetVersion") => OneAnswer

IInv == TypeOK /\ Running /\ Greeting /\ Laddered /\ Agreeing
=============================================================================
