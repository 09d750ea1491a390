--------------------------- MODULE Handshake_proof ---------------------------
(***************************************************************************)
(* Proofs about Handshake: what the ladder of versions contains, and that  *)
(* the client and QTM agree on the version after every Connect.            *)
(***************************************************************************)
EXTENDS Handshake, SequenceTheorems, TLAPS

USE DEF config, clientVars, qtmVars, netVars, ghostVars

-----------------------------------------------------------------------------
(* The ladder.                                                             *)

LEMMA LadderShape ==
    ASSUME NEW w \in Version, NEW n \in BOOLEAN
    PROVE  /\ NewestFallback(w) \in Int
           /\ NewestFallback(w) <= DefaultMinorVersion
           /\ LadderLength(w, n) \in Nat \ {0}
           /\ \A k \in 1 .. LadderLength(w, n) :
                 /\ Candidate(w, k) \in Version
                 /\ k > 1 => /\ NewestFallback(w) + 2 - k \in
                                    MinSupportedMinorVersion .. NewestFallback(w)
                             /\ Candidate(w, k)[1] = DefaultMajorVersion
                             /\ Candidate(w, k)[2] = NewestFallback(w) + 2 - k
<1>1. w[1] \in Nat \ {0} /\ w[2] \in Nat
  BY DEF Version
<1>2. NewestFallback(w) \in Int /\ NewestFallback(w) <= DefaultMinorVersion
  BY <1>1, VersionAssumption DEF NewestFallback
<1>3. LadderLength(w, n) \in Nat \ {0}
  BY <1>2, VersionAssumption DEF LadderLength
<1>4. ASSUME NEW k \in 1 .. LadderLength(w, n)
      PROVE  /\ Candidate(w, k) \in Version
             /\ k > 1 => /\ NewestFallback(w) + 2 - k \in
                                MinSupportedMinorVersion .. NewestFallback(w)
                         /\ Candidate(w, k)[1] = DefaultMajorVersion
                         /\ Candidate(w, k)[2] = NewestFallback(w) + 2 - k
  <2>1. CASE k = 1
    BY <2>1 DEF Candidate
  <2>2. CASE k # 1
    <3>1. NewestFallback(w) + 2 - k \in MinSupportedMinorVersion .. NewestFallback(w)
      BY <1>2, <1>3, <2>2, VersionAssumption DEF LadderLength
    <3>. QED
      BY <1>2, <2>2, <3>1, VersionAssumption DEF Candidate, Version
  <2>. QED  BY <2>1, <2>2
<1>. QED  BY <1>2, <1>3, <1>4

(* Connect never asks for the same version twice.                          *)
LEMMA LadderDistinct ==
    ASSUME NEW w \in Version, NEW n \in BOOLEAN,
           NEW k \in 1 .. LadderLength(w, n), NEW l \in 1 .. LadderLength(w, n),
           Candidate(w, k) = Candidate(w, l)
    PROVE  k = l
<1>1. /\ NewestFallback(w) \in Int
      /\ LadderLength(w, n) \in Nat \ {0}
      /\ w[1] \in Nat /\ w[2] \in Nat
  BY LadderShape DEF Version
<1>2. CASE k # 1 /\ l # 1
  BY <1>1, <1>2, LadderShape
<1>3. ASSUME NEW m \in 1 .. LadderLength(w, n), m # 1, Candidate(w, m) = w
      PROVE  FALSE
  <2>1. /\ w[1] = DefaultMajorVersion
        /\ w[2] = NewestFallback(w) + 2 - m
        /\ w[2] <= NewestFallback(w)
        /\ NewestFallback(w) <= DefaultMinorVersion
    BY <1>1, <1>3, LadderShape, VersionAssumption
  <2>. QED  BY <1>1, <2>1, VersionAssumption DEF NewestFallback
<1>4. Candidate(w, 1) = w
  BY DEF Candidate
<1>. QED  BY <1>2, <1>3, <1>4

(* The fallbacks are exactly the supported minors of the default major     *)
(* that are older than the request, newest first: the loop of              *)
(* versionCandidates (protocol.go:223-228) with its `continue`.            *)
THEOREM LadderComplete ==
    ASSUME NEW w \in Version
    PROVE  /\ Candidate(w, 1) = w
           /\ \A m \in Nat :
                 (\E k \in 2 .. LadderLength(w, TRUE) :
                     Candidate(w, k) = <<DefaultMajorVersion, m>>)
                 <=>
                 /\ m \in MinSupportedMinorVersion .. DefaultMinorVersion
                 /\ ~(w[1] = DefaultMajorVersion /\ m >= w[2])
           /\ \A k, l \in 2 .. LadderLength(w, TRUE) :
                 k < l => Candidate(w, k)[2] > Candidate(w, l)[2]
           /\ LadderLength(w, FALSE) = 1
<1>1. /\ NewestFallback(w) \in Int
      /\ LadderLength(w, TRUE) \in Nat \ {0}
      /\ w[1] \in Nat /\ w[2] \in Nat
  BY LadderShape DEF Version
<1>2. ASSUME NEW m \in Nat, NEW k \in 2 .. LadderLength(w, TRUE),
             Candidate(w, k) = <<DefaultMajorVersion, m>>
      PROVE  /\ m \in MinSupportedMinorVersion .. DefaultMinorVersion
             /\ ~(w[1] = DefaultMajorVersion /\ m >= w[2])
  <2>. DEFINE L == LadderLength(w, TRUE)
  <2>1. L \in Nat /\ k \in 2 .. L
    BY <1>1, <1>2
  <2>. HIDE DEF L
  <2>2. k \in 1 .. L /\ k > 1
    BY <2>1
  <2>3. /\ m = NewestFallback(w) + 2 - k
        /\ m \in MinSupportedMinorVersion .. NewestFallback(w)
    <3>1. Candidate(w, k)[2] = m
      BY <1>2
    <3>. QED  BY <2>2, <3>1, LadderShape DEF L
  <2>. QED  BY <1>1, <2>3, VersionAssumption DEF NewestFallback
<1>3. ASSUME NEW m \in MinSupportedMinorVersion .. DefaultMinorVersion,
             ~(w[1] = DefaultMajorVersion /\ m >= w[2])
      PROVE  \E k \in 2 .. LadderLength(w, TRUE) :
                 Candidate(w, k) = <<DefaultMajorVersion, m>>
  <2>1. m \in Nat /\ m <= NewestFallback(w) /\ m >= MinSupportedMinorVersion
    BY <1>1, <1>3, VersionAssumption DEF NewestFallback
  <2>2. NewestFallback(w) + 2 - m \in 2 .. LadderLength(w, TRUE)
    BY <1>1, <2>1, VersionAssumption DEF LadderLength
  <2>3. Candidate(w, NewestFallback(w) + 2 - m) = <<DefaultMajorVersion, m>>
    BY <1>1, <2>1, <2>2 DEF Candidate
  <2>. QED  BY <2>2, <2>3
<1>4. ASSUME NEW k \in 2 .. LadderLength(w, TRUE),
             NEW l \in 2 .. LadderLength(w, TRUE), k < l
      PROVE  Candidate(w, k)[2] > Candidate(w, l)[2]
  BY <1>1, <1>4 DEF Candidate
<1>5. Candidate(w, 1) = w /\ LadderLength(w, FALSE) = 1
  BY DEF Candidate, LadderLength
<1>. QED  BY <1>2, <1>3, <1>4, <1>5, VersionAssumption

(* The same, for the candidates of the client at hand.                     *)
LEMMA Candidates ==
    ASSUME want \in Wanted, negotiate \in BOOLEAN
    PROVE  /\ LadderLength(want, negotiate) \in Nat \ {0}
           /\ Len(versionCandidates) = LadderLength(want, negotiate)
           /\ DOMAIN versionCandidates = 1 .. LadderLength(want, negotiate)
           /\ \A k \in DOMAIN versionCandidates : versionCandidates[k] \in Version
           /\ \A k, l \in DOMAIN versionCandidates :
                 versionCandidates[k] = versionCandidates[l] => k = l
<1>1. want \in Version
  BY WantedAssumption
<1>2. LadderLength(want, negotiate) \in Nat \ {0}
  BY <1>1, LadderShape
<1>3. /\ DOMAIN versionCandidates = 1 .. LadderLength(want, negotiate)
      /\ \A k \in 1 .. LadderLength(want, negotiate) :
            versionCandidates[k] = Candidate(want, k) /\ Candidate(want, k) \in Version
  BY <1>1, LadderShape DEF versionCandidates
<1>4. versionCandidates \in Seq(Version)
  BY <1>2, <1>3 DEF versionCandidates
<1>5. Len(versionCandidates) = LadderLength(want, negotiate)
  BY <1>2, <1>3, <1>4, LenProperties
<1>6. ASSUME NEW k \in DOMAIN versionCandidates, NEW l \in DOMAIN versionCandidates,
             versionCandidates[k] = versionCandidates[l]
      PROVE  k = l
  BY <1>1, <1>3, <1>6, LadderDistinct
<1>. QED  BY <1>2, <1>3, <1>5, <1>6

-----------------------------------------------------------------------------
(* Type correctness and control.                                           *)

LEMMA Messages ==
    /\ Plain("GetState") \in Command
    /\ \A v \in Version : VersionCommand(v) \in Command /\ VersionSet(v) \in Packet
    /\ \A m \in {"Welcome", "Other", "Rejected", "Event"} : Plain(m) \in Packet
    /\ \A k : Plain(k).kind = k
    /\ \A v : VersionCommand(v).kind = "Version" /\ VersionCommand(v).ver = v
    /\ \A v : VersionSet(v).kind = "VersionSet" /\ VersionSet(v).ver = v
    /\ \A m \in Packet : (m.kind = "VersionSet" /\ m = VersionSet(m.ver)) \/ m.kind # "VersionSet"
    /\ \A m \in Command : (m.kind = "Version" /\ m = VersionCommand(m.ver)) \/ m.kind = "GetState"
  BY DEF Plain, Command, Packet, VersionCommand, VersionSet

(* The actions that change a flag.                                         *)
LEMMA FlagSteps == FlagsTyped /\ [Next]_vars => FlagsTyped'
<1>. SUFFICES ASSUME FlagsTyped, [Next]_vars PROVE FlagsTyped'
  OBVIOUS
<1>. USE DEF FlagsTyped, Return, Hangup, FailConnect, Take, VersionFails, StateReturns
<1>1. CASE ApplicationStep
  BY <1>1, Zenon DEF ApplicationStep, Dial, DialFails, SetVersion, GetState, CannotSend, Disconnect
<1>2. CASE ConnectStep
  BY <1>2, Zenon DEF ConnectStep, Welcomed, NotWelcomed, WelcomeFails, TryVersion,
                     TryVersionFails, LadderExhausted
<1>3. CASE VersionStep
  BY <1>3, Zenon DEF VersionStep, SkipEvent, VersionAccepted, VersionRefused,
                     VersionTimeout, VersionBroken
<1>4. CASE StateStep \/ ClockPasses
  BY <1>4, Zenon DEF StateStep, ClockPasses, StateCheck, StateArm, StatePacket,
                     StateNoMoreData, StateBroken
<1>5. CASE QTMStep
  BY <1>5, Zenon DEF QTMStep, QTMGreets, QTMSetsVersion, QTMRejectsVersion,
                     QTMSendsState, QTMPushesEvent, QTMCloses
<1>6. CASE UNCHANGED vars
  BY <1>6, Zenon DEF vars
<1>. QED  BY <1>1, <1>2, <1>3, <1>4, <1>5, <1>6, Zenon DEF Next

LEMMA ConfigSteps ==
    [Next]_vars => UNCHANGED config /\ versionCandidates' = versionCandidates
<1>. SUFFICES ASSUME [Next]_vars
              PROVE  UNCHANGED config /\ versionCandidates' = versionCandidates
  OBVIOUS
<1>1. want' = want /\ negotiate' = negotiate /\ accepts' = accepts
  BY Zenon DEF vars, Next, ApplicationStep, Dial, DialFails, SetVersion, GetState, CannotSend,
     Disconnect, ConnectStep, Welcomed, NotWelcomed, WelcomeFails, TryVersion,
     TryVersionFails, LadderExhausted, VersionStep, SkipEvent, VersionAccepted,
     VersionRefused, VersionTimeout, VersionBroken, StateStep, ClockPasses,
     StateCheck, StateArm, StatePacket, StateNoMoreData, StateBroken, QTMStep,
     QTMGreets, QTMSetsVersion, QTMRejectsVersion, QTMSendsState,
     QTMPushesEvent, QTMCloses
<1>. QED  BY <1>1 DEF versionCandidates, LadderLength, Candidate, NewestFallback

LEMMA TypeSteps ==
    ASSUME TypeOK, Laddered, Running, FlagsTyped', [Next]_vars
    PROVE  TypeOK'
<1>1. want' = want /\ negotiate' = negotiate /\ accepts' = accepts
  BY ConfigSteps
<1>2. /\ want \in Wanted /\ want \in Version /\ negotiate \in BOOLEAN
      /\ Len(versionCandidates) = LadderLength(want, negotiate)
      /\ LadderLength(want, negotiate) \in Nat \ {0}
      /\ DOMAIN versionCandidates = 1 .. LadderLength(want, negotiate)
      /\ \A k \in DOMAIN versionCandidates : versionCandidates[k] \in Version
  BY Candidates, WantedAssumption, Zenon DEF TypeOK, FlagsTyped
<1>3. i' \in 1 .. LadderLength(want, negotiate) + 1
  <2>1. CASE i' = i
    BY <2>1 DEF TypeOK
  <2>2. CASE i' = 1
    BY <2>2, <1>2
  <2>3. CASE i' = i + 1 /\ i \in DOMAIN versionCandidates
    BY <2>3, <1>2
  <2>4. CASE TryVersionFails
    <3>1. i' = i + 1 /\ i <= LadderLength(want, negotiate)
      BY <2>4, <1>2 DEF TryVersionFails
    <3>. QED  BY <1>2, <3>1 DEF TypeOK
  <2>5. CASE VersionRefused \/ VersionTimeout \/ VersionBroken
    <3>1. i' = i \/ (i' = i + 1 /\ i \in DOMAIN versionCandidates)
      BY <2>5, Zenon DEF VersionRefused, VersionTimeout, VersionBroken,
                         VersionFails, Laddered
    <3>. QED  BY <2>1, <2>3, <3>1
  <2>. QED
    BY <2>1, <2>2, <2>4, <2>5, Zenon
    DEF vars, Next, ApplicationStep, Dial, DialFails, SetVersion, GetState, CannotSend,
     Disconnect, ConnectStep, Welcomed, NotWelcomed, WelcomeFails, TryVersion,
     LadderExhausted, VersionStep, SkipEvent, VersionAccepted, StateStep,
     ClockPasses, StateCheck, StateArm, StatePacket, StateNoMoreData,
     StateBroken, QTMStep, QTMGreets, QTMSetsVersion, QTMRejectsVersion,
     QTMSendsState, QTMPushesEvent, QTMCloses
<1>4. /\ pc' \in {"idle", "welcome", "try", "version"} \cup PrimingState
      /\ op' \in Call
      /\ result' \in Outcome
  <2>. USE DEF TypeOK, PrimingState, Call, Outcome, ConnectFailure, Return,
           FailConnect, VersionFails, StateReturns
  <2>1. CASE ApplicationStep
    BY <2>1, Zenon DEF ApplicationStep, Dial, DialFails, SetVersion, GetState, CannotSend, Disconnect
  <2>2. CASE ConnectStep
    BY <2>2, Zenon DEF ConnectStep, Welcomed, NotWelcomed, WelcomeFails, TryVersion,
                     TryVersionFails, LadderExhausted
  <2>3. CASE VersionStep
    BY <2>3, Zenon DEF VersionStep, SkipEvent, VersionAccepted, VersionRefused,
                     VersionTimeout, VersionBroken
  <2>4. CASE StateStep \/ ClockPasses
    BY <2>4, Zenon DEF StateStep, ClockPasses, StateCheck, StateArm, StatePacket,
                     StateNoMoreData, StateBroken
  <2>5. CASE QTMStep
    BY <2>5, Zenon DEF QTMStep, QTMGreets, QTMSetsVersion, QTMRejectsVersion,
                     QTMSendsState, QTMPushesEvent, QTMCloses
  <2>6. CASE UNCHANGED vars
    BY <2>6, Zenon DEF vars
  <2>. QED  BY <2>1, <2>2, <2>3, <2>4, <2>5, <2>6, Zenon DEF Next
<1>5. /\ ver' \in Version \cup {NoVersion}
      /\ goal' \in Version
  <2>1. ver' \in {ver, goal, NoVersion}
    BY Zenon
    DEF vars, Next, ApplicationStep, Dial, DialFails, SetVersion, GetState, CannotSend,
        Disconnect, ConnectStep, Welcomed, NotWelcomed, WelcomeFails, TryVersion,
        TryVersionFails, LadderExhausted, VersionStep, SkipEvent, VersionAccepted,
        VersionRefused, VersionTimeout, VersionBroken, StateStep, ClockPasses,
        StateCheck, StateArm, StatePacket, StateNoMoreData, StateBroken, QTMStep,
        QTMGreets, QTMSetsVersion, QTMRejectsVersion, QTMSendsState,
        QTMPushesEvent, QTMCloses, Hangup, FailConnect
  <2>2. \/ goal' \in {goal, want} \cup Wanted
        \/ i <= LadderLength(want, negotiate) /\ goal' = versionCandidates[i]
    BY <1>2, Zenon
    DEF vars, Next, ApplicationStep, Dial, DialFails, SetVersion, GetState, CannotSend,
        Disconnect, ConnectStep, Welcomed, NotWelcomed, WelcomeFails, TryVersion,
        TryVersionFails, LadderExhausted, VersionStep, SkipEvent, VersionAccepted,
        VersionRefused, VersionTimeout, VersionBroken, StateStep, ClockPasses,
        StateCheck, StateArm, StatePacket, StateNoMoreData, StateBroken, QTMStep,
        QTMGreets, QTMSetsVersion, QTMRejectsVersion, QTMSendsState,
        QTMPushesEvent, QTMCloses
  <2>3. i <= LadderLength(want, negotiate) => i \in DOMAIN versionCandidates
    BY <1>2 DEF TypeOK
  <2>. QED  BY <1>2, <2>1, <2>2, <2>3, WantedAssumption DEF TypeOK
<1>6. /\ c2s' \in Seq(Command)
      /\ s2c' \in Seq(Packet)
      /\ srvVer' \in Version \cup {NoVersion}
  <2>. USE DEF TypeOK
  <2>1. c2s = <<>> \/ (Head(c2s) \in Command /\ Tail(c2s) \in Seq(Command))
    BY HeadTailProperties
  <2>2. s2c = <<>> \/ Tail(s2c) \in Seq(Packet)
    BY HeadTailProperties
  <2>3. <<>> \in Seq(Command) /\ <<>> \in Seq(Packet)
    BY EmptySeq
  <2>4. CASE UNCHANGED <<c2s, s2c, srvVer>>
    BY <2>4
  <2>5. CASE c2s' = <<>> /\ s2c' = <<>> /\ srvVer' = NoVersion
    BY <2>3, <2>5
  <2>6. CASE TryVersion
    <3>1. versionCandidates[i] \in Version
      BY <1>2, <2>6 DEF TryVersion
    <3>. QED  BY <2>6, <3>1, Messages, AppendProperties DEF TryVersion
  <2>7. CASE SetVersion
    <3>1. PICK v \in Wanted : c2s' = Append(c2s, VersionCommand(v))
      BY <2>7 DEF SetVersion
    <3>2. VersionCommand(v) \in Command
      BY WantedAssumption, Messages
    <3>. QED  BY <2>7, <3>1, <3>2, AppendProperties DEF SetVersion
  <2>8. CASE GetState
    BY <2>8, Messages, AppendProperties DEF GetState
  <2>9. CASE s2c # <<>> /\ s2c' = Tail(s2c) /\ UNCHANGED srvVer
             /\ c2s' \in {c2s, Append(c2s, Plain("GetState"))}
    <3>1. Append(c2s, Plain("GetState")) \in Seq(Command)
      BY Messages, AppendProperties
    <3>. QED  BY <2>2, <2>9, <3>1
  <2>10. CASE QTMGreets \/ QTMPushesEvent
    <3>1. PICK m \in {"Welcome", "Other", "Event"} : s2c' = Append(s2c, Plain(m))
      BY <2>10, Zenon DEF QTMGreets, QTMPushesEvent
    <3>. QED
      BY <2>10, <3>1, Messages, AppendProperties DEF QTMGreets, QTMPushesEvent
  <2>11. CASE QTMSetsVersion
    <3>1. Head(c2s).ver \in Version
      BY <2>11, OfferedAssumption DEF QTMSetsVersion
    <3>. QED
      BY <2>1, <2>11, <3>1, Messages, AppendProperties DEF QTMSetsVersion
  <2>12. CASE QTMRejectsVersion \/ QTMSendsState
    <3>1. PICK m \in {"Rejected", "Event"} : s2c' = Append(s2c, Plain(m))
      BY <2>12, Zenon DEF QTMRejectsVersion, QTMSendsState
    <3>2. Plain(m) \in Packet
      BY Messages
    <3>. QED
      BY <2>1, <2>12, <3>1, <3>2, AppendProperties DEF QTMRejectsVersion, QTMSendsState
  <2>13. CASE QTMCloses
    BY <2>3, <2>13 DEF QTMCloses
  <2>. QED
    BY <2>4, <2>5, <2>6, <2>7, <2>8, <2>9, <2>10, <2>11, <2>12, <2>13, Zenon
    DEF vars, Next, ApplicationStep, Dial, DialFails, CannotSend, Disconnect, ConnectStep,
        Welcomed, NotWelcomed, WelcomeFails, TryVersionFails, LadderExhausted,
        VersionStep, SkipEvent, VersionAccepted, VersionRefused, VersionTimeout,
        VersionBroken, StateStep, ClockPasses, StateCheck, StateArm, StatePacket,
        StateNoMoreData, StateBroken, QTMStep, Hangup, FailConnect, Take
<1>. QED
  BY <1>1, <1>2, <1>3, <1>4, <1>5, <1>6, Zenon DEF TypeOK

-----------------------------------------------------------------------------
(* Sequences, by their indices.                                            *)

LEMMA TailIndices ==
    ASSUME NEW S, NEW s \in Seq(S), s # <<>>
    PROVE  /\ 1 \in DOMAIN s /\ Head(s) = s[1]
           /\ \A j \in DOMAIN Tail(s) :
                 /\ j \in Nat \ {0} /\ j + 1 \in DOMAIN s
                 /\ Tail(s)[j] = s[j + 1]
           /\ \A j \in DOMAIN s : j \in Nat /\ j >= 1
  BY HeadTailProperties, LenProperties

LEMMA AppendIndices ==
    ASSUME NEW S, NEW s \in Seq(S), NEW e \in S
    PROVE  /\ Append(s, e) # <<>>
           /\ \A j \in DOMAIN Append(s, e) :
                 \/ j \in DOMAIN s /\ Append(s, e)[j] = s[j]
                 \/ j \notin DOMAIN s /\ Append(s, e)[j] = e
           /\ \A j, l \in DOMAIN Append(s, e) :
                 (l > j /\ l \in DOMAIN s) => j \in DOMAIN s
           /\ \A j, l \in DOMAIN Append(s, e) :
                 (j \notin DOMAIN s /\ l > j) => FALSE
           /\ s = <<>> => \A j \in DOMAIN Append(s, e) : j = 1
  BY AppendProperties, LenProperties

(* The same, for the two directions of the connection.                     *)
LEMMA Shifts ==
    ASSUME c2s \in Seq(Command), s2c \in Seq(Packet)
    PROVE  /\ c2s # <<>> =>
                 /\ 1 \in DOMAIN c2s /\ Head(c2s) = c2s[1]
                 /\ \A k \in DOMAIN Tail(c2s) : /\ k \in Nat \ {0} /\ k + 1 \in DOMAIN c2s
                                               /\ Tail(c2s)[k] = c2s[k + 1]
           /\ s2c # <<>> =>
                 /\ 1 \in DOMAIN s2c /\ Head(s2c) = s2c[1]
                 /\ \A j \in DOMAIN Tail(s2c) : /\ j \in Nat \ {0} /\ j + 1 \in DOMAIN s2c
                                               /\ Tail(s2c)[j] = s2c[j + 1]
           /\ \A j \in DOMAIN s2c : j \in Nat /\ j >= 1
           /\ \A k \in DOMAIN c2s : k \in Nat /\ k >= 1
           /\ \A m \in Packet : \A j \in DOMAIN Append(s2c, m) :
                 \/ j \in DOMAIN s2c /\ Append(s2c, m)[j] = s2c[j]
                 \/ j \notin DOMAIN s2c /\ Append(s2c, m)[j] = m
           /\ \A m \in Packet : \A j, l \in DOMAIN Append(s2c, m) :
                 l > j => j \in DOMAIN s2c
           /\ \A m \in Command : \A k \in DOMAIN Append(c2s, m) :
                 \/ k \in DOMAIN c2s /\ Append(c2s, m)[k] = c2s[k]
                 \/ k \notin DOMAIN c2s /\ Append(c2s, m)[k] = m
           /\ \A m \in Command : \A k, l \in DOMAIN Append(c2s, m) :
                 l > k => k \in DOMAIN c2s
<1>1. /\ c2s # <<>> =>
            /\ 1 \in DOMAIN c2s /\ Head(c2s) = c2s[1]
            /\ \A k \in DOMAIN Tail(c2s) : /\ k \in Nat \ {0} /\ k + 1 \in DOMAIN c2s
                                          /\ Tail(c2s)[k] = c2s[k + 1]
      /\ s2c # <<>> =>
            /\ 1 \in DOMAIN s2c /\ Head(s2c) = s2c[1]
            /\ \A j \in DOMAIN Tail(s2c) : /\ j \in Nat \ {0} /\ j + 1 \in DOMAIN s2c
                                          /\ Tail(s2c)[j] = s2c[j + 1]
  BY TailIndices
<1>2. /\ \A j \in DOMAIN s2c : j \in Nat /\ j >= 1
      /\ \A k \in DOMAIN c2s : k \in Nat /\ k >= 1
  BY LenProperties
<1>3. ASSUME NEW m \in Packet
      PROVE  /\ \A j \in DOMAIN Append(s2c, m) :
                    \/ j \in DOMAIN s2c /\ Append(s2c, m)[j] = s2c[j]
                    \/ j \notin DOMAIN s2c /\ Append(s2c, m)[j] = m
             /\ \A j, l \in DOMAIN Append(s2c, m) : l > j => j \in DOMAIN s2c
  BY AppendIndices
<1>4. ASSUME NEW m \in Command
      PROVE  /\ \A k \in DOMAIN Append(c2s, m) :
                    \/ k \in DOMAIN c2s /\ Append(c2s, m)[k] = c2s[k]
                    \/ k \notin DOMAIN c2s /\ Append(c2s, m)[k] = m
             /\ \A k, l \in DOMAIN Append(c2s, m) : l > k => k \in DOMAIN c2s
  BY AppendIndices
<1>. QED  BY <1>1, <1>2, <1>3, <1>4

(* Control and connection go together.                                     *)
LEMMA RunningSteps ==
    ASSUME Running, [Next]_vars
    PROVE  Running'
<1>. USE DEF Return, Hangup, FailConnect, VersionFails, StateReturns
<1>1. CASE ApplicationStep
  <2>1. CASE CannotSend
    <3>1. UNCHANGED <<conn, ver, pc, op, up, c2s, s2c, doubt>>
      BY <2>1, Zenon DEF CannotSend
    <3>. QED  BY <3>1, Zenon DEF Running
  <2>2. CASE Dial \/ DialFails \/ SetVersion \/ GetState \/ Disconnect
    BY <2>2, Zenon DEF Running, Dial, DialFails, SetVersion, GetState, Disconnect
  <2>. QED  BY <1>1, <2>1, <2>2, Zenon DEF ApplicationStep
<1>2. CASE ConnectStep
  <2>1. \/ /\ ~conn' /\ ~up' /\ pc' = "idle" /\ op' = "none"
           /\ ver' = NoVersion /\ c2s' = <<>> /\ s2c' = <<>>
        \/ /\ pc \in {"welcome", "try"} /\ pc' \in {"try", "version"}
           /\ UNCHANGED <<conn, op, up, doubt>>
    BY <1>2, Zenon DEF ConnectStep, Welcomed, NotWelcomed, WelcomeFails, TryVersion,
                       TryVersionFails, LadderExhausted
  <2>2. CASE pc' = "idle" /\ ~conn'
    BY <2>1, <2>2, Zenon DEF Running
  <2>3. CASE /\ pc \in {"welcome", "try"} /\ pc' \in {"try", "version"}
             /\ UNCHANGED <<conn, op, up, doubt>>
    <3>1. conn /\ op = "Connect" /\ ~doubt
      BY <2>3, Zenon DEF Running
    <3>. QED  BY <2>3, <3>1, Zenon DEF Running
  <2>. QED  BY <2>1, <2>2, <2>3, Zenon
<1>3. CASE VersionStep
  <2>1. /\ pc = "version" /\ UNCHANGED <<conn, up>>
        /\ \/ pc' = "idle" /\ op' = "none"
           \/ pc' \in {"version", "state.check"} /\ op' = op /\ UNCHANGED doubt
           \/ /\ pc' = "try" /\ op = "Connect" /\ op' = op
              /\ doubt' => (doubt \/ op = "SetVersion")
    <3>1. CASE VersionTimeout \/ VersionBroken
      <4>1. doubt' = (doubt \/ op = "SetVersion")
        BY <3>1, Zenon DEF VersionTimeout, VersionBroken
      <4>2. doubt' => (doubt \/ op = "SetVersion")
        BY <4>1, Zenon
      <4>3. /\ pc = "version" /\ UNCHANGED <<conn, up>>
            /\ \/ pc' = "idle" /\ op' = "none"
               \/ pc' = "try" /\ op = "Connect" /\ op' = op
        BY <3>1, Zenon DEF VersionTimeout, VersionBroken
      <4>. QED  BY <4>2, <4>3, Zenon
    <3>2. CASE VersionRefused
      <4>1. doubt' = doubt /\ pc = "version" /\ UNCHANGED <<conn, up>>
        BY <3>2, Zenon DEF VersionRefused
      <4>2. \/ pc' = "idle" /\ op' = "none"
            \/ pc' = "try" /\ op = "Connect" /\ op' = op
        BY <3>2, Zenon DEF VersionRefused
      <4>3. doubt' => (doubt \/ op = "SetVersion")
        BY <4>1, Zenon
      <4>. QED  BY <4>1, <4>2, <4>3, Zenon
    <3>3. CASE SkipEvent \/ VersionAccepted
      BY <3>3, Zenon DEF SkipEvent, VersionAccepted
    <3>. QED  BY <1>3, <3>1, <3>2, <3>3, Zenon DEF VersionStep
  <2>2. conn /\ (op = "Connect" => ~doubt) /\ op \in {"Connect", "SetVersion"}
    BY <2>1, Zenon DEF Running
  <2>3. CASE pc' = "idle" /\ op' = "none"
    BY <2>1, <2>2, <2>3, Zenon DEF Running
  <2>4. CASE pc' \in {"version", "state.check"} /\ op' = op /\ UNCHANGED doubt
    BY <2>1, <2>2, <2>4, Zenon DEF Running
  <2>5. CASE /\ pc' = "try" /\ op = "Connect" /\ op' = op
             /\ doubt' => (doubt \/ op = "SetVersion")
    <3>1. ~doubt' /\ conn' /\ op' = "Connect"
      BY <2>1, <2>2, <2>5, Zenon
    <3>. QED  BY <2>5, <3>1, Zenon DEF Running
  <2>. QED  BY <2>1, <2>3, <2>4, <2>5, Zenon
<1>4. CASE StateStep \/ ClockPasses
  <2>1. /\ pc # "idle" /\ UNCHANGED <<conn, up, doubt>>
        /\ pc' \notin {"welcome", "try", "version"}
        /\ (pc' = "idle" /\ op' = "none") \/ (pc' # "idle" /\ op' = op)
    BY <1>4, Zenon DEF StateStep, ClockPasses, StateCheck, StateArm, StatePacket,
                       StateNoMoreData, StateBroken
  <2>. QED  BY <2>1, Zenon DEF Running
<1>5. CASE QTMStep
  <2>1. up /\ UNCHANGED <<clientVars, ghostVars>>
    BY <1>5, Zenon DEF QTMStep, QTMGreets, QTMSetsVersion, QTMRejectsVersion,
                       QTMSendsState, QTMPushesEvent, QTMCloses
  <2>. QED  BY <2>1, Zenon DEF Running
<1>6. CASE UNCHANGED vars
  BY <1>6, Zenon DEF Running, vars
<1>. QED  BY <1>1, <1>2, <1>3, <1>4, <1>5, <1>6, Zenon DEF Next

(* The welcome is the first packet, and there is only one.                 *)
LEMMA GreetingSteps ==
    ASSUME TypeOK, Running, Greeting, [Next]_vars
    PROVE  Greeting'
<1>. DEFINE G1 == (conn /\ ~greeted) => pc = "welcome" /\ s2c = <<>>
            Events == \A j \in DOMAIN s2c : j > 1 => s2c[j].kind = "Event"
            G2 == pc = "welcome" => c2s = <<>> /\ Events
            Clean == \A j \in DOMAIN s2c : s2c[j].kind \notin {"Welcome", "Other"}
            G3 == (conn /\ pc # "welcome") => Clean
<1>0. s2c \in Seq(Packet) /\ c2s \in Seq(Command)
  BY DEF TypeOK
<1>1. CASE c2s' = <<>> /\ s2c' = <<>> /\ ((~conn' /\ pc' = "idle") \/ pc' = "welcome")
  <2>1. Events' /\ Clean'
    BY <1>1
  <2>. QED  BY <1>1, <2>1, Zenon DEF Greeting
<1>2. CASE Welcomed
  <2>1. /\ pc = "welcome" /\ pc' = "try" /\ s2c # <<>> /\ s2c' = Tail(s2c)
        /\ UNCHANGED <<conn, greeted>>
    BY <1>2, Zenon DEF Welcomed, Take
  <2>2. Events /\ (conn => greeted)
    BY <2>1, Zenon DEF Greeting
  <2>3. Clean'
    <3>1. ASSUME NEW j \in DOMAIN Tail(s2c) PROVE Tail(s2c)[j].kind = "Event"
      BY <1>0, <2>1, <2>2, <3>1, TailIndices
    <3>. QED  BY <2>1, <3>1, Zenon
  <2>. QED  BY <2>1, <2>2, <2>3, Zenon DEF Greeting
<1>3. CASE /\ UNCHANGED <<conn, greeted>> /\ pc # "welcome" /\ pc' # "welcome"
           /\ s2c' = s2c \/ (s2c # <<>> /\ s2c' = Tail(s2c))
  <2>1. Clean => Clean'
    BY <1>0, <1>3, TailIndices
  <2>. QED  BY <1>3, <2>1, Zenon DEF Greeting
<1>4. CASE /\ UNCHANGED <<conn, pc, greeted, c2s, s2c>>
  BY <1>4, Zenon DEF Greeting
<1>5. CASE QTMGreets
  <2>1. /\ up /\ ~greeted /\ greeted' /\ UNCHANGED <<conn, pc, c2s>>
        /\ \E m \in {"Welcome", "Other"} : s2c' = Append(s2c, Plain(m))
    BY <1>5, Zenon DEF QTMGreets
  <2>2. pc = "welcome" /\ s2c = <<>> /\ c2s = <<>>
    BY <2>1, Zenon DEF Greeting, Running
  <2>3. Events'
    <3>1. PICK m \in {"Welcome", "Other"} : s2c' = Append(s2c, Plain(m))
      BY <2>1
    <3>2. Plain(m) \in Packet
      BY Messages
    <3>. QED  BY <1>0, <2>2, <3>1, <3>2, AppendIndices
  <2>. QED  BY <2>1, <2>2, <2>3, Zenon DEF Greeting
<1>6. ASSUME UNCHANGED <<conn, pc, greeted>>, conn,
             c2s # <<>> \/ (greeted /\ c2s' = c2s),
             NEW m \in Packet,
             m.kind \in {"VersionSet", "Rejected", "Event"},
             pc = "welcome" => m.kind = "Event",
             s2c' = Append(s2c, m)
      PROVE  Greeting'
  <2>2. greeted /\ (pc = "welcome" => c2s = <<>> /\ c2s' = <<>>)
    BY <1>6, Zenon DEF Greeting
  <2>3. pc = "welcome" => (Events => Events')
    BY <1>0, <1>6, AppendIndices
  <2>4. Clean => Clean'
    BY <1>0, <1>6, AppendIndices
  <2>. QED  BY <1>6, <2>2, <2>3, <2>4, Zenon DEF Greeting
<1>7. CASE QTMSetsVersion \/ QTMRejectsVersion \/ QTMSendsState \/ QTMPushesEvent
  <2>1. /\ UNCHANGED <<conn, pc, greeted>> /\ up
        /\ c2s # <<>> \/ (greeted /\ c2s' = c2s)
    BY <1>7, Zenon DEF QTMSetsVersion, QTMRejectsVersion, QTMSendsState, QTMPushesEvent
  <2>2. \/ \E m \in {"Rejected", "Event"} : s2c' = Append(s2c, Plain(m))
        \/ Head(c2s).ver \in Version /\ s2c' = Append(s2c, VersionSet(Head(c2s).ver))
    <3>1. accepts \subseteq Version
      BY OfferedAssumption DEF TypeOK
    <3>2. \A v \in accepts : v \in Version
      BY <3>1
    <3>. QED
      BY <1>7, <3>2, Zenon
      DEF QTMSetsVersion, QTMRejectsVersion, QTMSendsState, QTMPushesEvent
  <2>3. \E m \in Packet : /\ m.kind \in {"VersionSet", "Rejected", "Event"}
                          /\ s2c' = Append(s2c, m)
    BY <2>2, Messages
  <2>4. pc = "welcome" => QTMPushesEvent
    BY <1>7, Zenon DEF QTMSetsVersion, QTMRejectsVersion, QTMSendsState, Greeting
  <2>5. QTMPushesEvent => /\ Plain("Event") \in Packet /\ Plain("Event").kind = "Event"
                          /\ s2c' = Append(s2c, Plain("Event"))
    BY Messages, Zenon DEF QTMPushesEvent
  <2>. QED  BY <1>6, <2>1, <2>3, <2>4, <2>5, Zenon DEF Running
<1>8. CASE QTMCloses
  <2>1. UNCHANGED <<conn, pc, greeted, c2s>> /\ (s2c' = s2c \/ s2c' = <<>>)
    BY <1>8, Zenon DEF QTMCloses
  <2>2. (Events => Events') /\ (Clean => Clean')
    BY <2>1
  <2>3. G1'
    BY <2>1, Zenon DEF Greeting
  <2>4. G2' /\ G3'
    BY <2>1, <2>2, Zenon DEF Greeting
  <2>. QED  BY <2>3, <2>4, Zenon DEF Greeting
<1>9. CASE ConnectStep \/ ApplicationStep
  <2>1. pc \in {"idle", "welcome", "try"} /\ pc \in {"idle", "try"} => pc # "welcome"
    BY <1>9, Zenon DEF ConnectStep, ApplicationStep, Dial, DialFails, SetVersion,
      GetState, CannotSend, Disconnect, Welcomed, NotWelcomed, WelcomeFails, TryVersion,
      TryVersionFails, LadderExhausted
  <2>. QED
    BY <1>1, <1>2, <1>3, <1>9, Zenon
    DEF ConnectStep, ApplicationStep, Dial, DialFails, SetVersion, GetState, CannotSend,
        Disconnect, NotWelcomed, WelcomeFails, TryVersion, TryVersionFails,
        LadderExhausted, Hangup, FailConnect, Return
<1>10. CASE VersionStep \/ StateStep \/ ClockPasses
  BY <1>3, <1>10, Zenon
  DEF VersionStep, SkipEvent, VersionAccepted, VersionRefused, VersionTimeout,
      VersionBroken, VersionFails, StateStep, ClockPasses, StateCheck, StateArm,
      StatePacket, StateNoMoreData, StateBroken, StateReturns, Take, Return
<1>. QED
  BY <1>4, <1>5, <1>7, <1>8, <1>9, <1>10, Zenon DEF vars, Next, QTMStep

(* While Connect walks the ladder, only candidates it tried are under way. *)
LEMMA LadderedSteps ==
    ASSUME TypeOK, Running, Greeting, Laddered, [Next]_vars
    PROVE  Laddered'
<1>. DEFINE Commands == \A k \in DOMAIN c2s : c2s[k].kind = "Version" => Tried(c2s[k].ver)
            Answers == \A j \in DOMAIN s2c : s2c[j].kind = "VersionSet" => Tried(s2c[j].ver)
            Asking == pc = "version" =>
                        i \in DOMAIN versionCandidates /\ goal = versionCandidates[i]
            Walking == op = "Connect" /\ pc \in {"try", "version"}
<1>0. /\ s2c \in Seq(Packet) /\ c2s \in Seq(Command)
      /\ i \in Nat
      /\ Len(versionCandidates) \in Nat
      /\ DOMAIN versionCandidates = 1 .. Len(versionCandidates)
      /\ \A k \in DOMAIN versionCandidates : versionCandidates[k] \in Version
      /\ versionCandidates' = versionCandidates
  BY Candidates, ConfigSteps DEF TypeOK, FlagsTyped
<1>1. CASE ~Walking'
  BY <1>1, Zenon DEF Laddered
<1>2. CASE Welcomed
  <2>1. /\ pc = "welcome" /\ pc' = "try" /\ s2c # <<>> /\ s2c' = Tail(s2c) /\ c2s' = c2s
    BY <1>2, Zenon DEF Welcomed, Take
  <2>2. c2s = <<>> /\ \A j \in DOMAIN s2c : j > 1 => s2c[j].kind = "Event"
    BY <2>1, Zenon DEF Greeting
  <2>3. Commands' /\ Asking'
    BY <2>1, <2>2
  <2>4. Answers'
    BY <1>0, <2>1, <2>2, Shifts
  <2>. QED  BY <2>3, <2>4, Zenon DEF Laddered
<1>3. CASE /\ Walking /\ Walking' /\ UNCHANGED <<i, goal, pc>>
           /\ c2s' = c2s \/ (c2s # <<>> /\ c2s' = Tail(c2s))
           /\ \/ s2c' = s2c \/ s2c' = <<>>
              \/ s2c # <<>> /\ s2c' = Tail(s2c)
              \/ s2c' = Append(s2c, Plain("Event")) \/ s2c' = Append(s2c, Plain("Rejected"))
  <2>0. \A v : Tried(v) => Tried(v)'
    BY <1>0, <1>3 DEF Tried
  <2>a. Commands /\ Answers /\ Asking
    BY <1>3, Zenon DEF Laddered
  <2>1. Commands' /\ Asking'
    <3>1. CASE c2s' = c2s
      BY <1>0, <1>3, <2>0, <2>a, <3>1
    <3>2. CASE c2s # <<>> /\ c2s' = Tail(c2s)
      BY <1>0, <1>3, <2>0, <2>a, <3>2, Shifts
    <3>. QED  BY <1>3, <3>1, <3>2
  <2>2. /\ Plain("Event") \in Packet /\ Plain("Event").kind = "Event"
        /\ Plain("Rejected") \in Packet /\ Plain("Rejected").kind = "Rejected"
    BY Messages
  <2>3. Answers'
    <3>1. CASE s2c' = s2c \/ s2c' = <<>>
      BY <2>0, <2>a, <3>1
    <3>2. CASE s2c # <<>> /\ s2c' = Tail(s2c)
      BY <1>0, <2>0, <2>a, <3>2, Shifts
    <3>3. CASE s2c' = Append(s2c, Plain("Event")) \/ s2c' = Append(s2c, Plain("Rejected"))
      BY <1>0, <2>0, <2>2, <2>a, <3>3, Shifts
    <3>. QED  BY <1>3, <3>1, <3>2, <3>3
  <2>. QED  BY <2>1, <2>3, Zenon DEF Laddered
<1>4. CASE TryVersion
  <2>1. /\ pc = "try" /\ pc' = "version" /\ op = "Connect"
        /\ i' = i /\ i <= Len(versionCandidates) /\ goal' = versionCandidates[i]
        /\ c2s' = Append(c2s, VersionCommand(versionCandidates[i])) /\ s2c' = s2c
    BY <1>4, Zenon DEF TryVersion, Running
  <2>2. i \in DOMAIN versionCandidates
    BY <1>0, <2>1 DEF TypeOK
  <2>3. \A v : (Tried(v) \/ v = versionCandidates[i]) => Tried(v)'
    BY <1>0, <2>1, <2>2 DEF Tried
  <2>4. /\ VersionCommand(versionCandidates[i]) \in Command
        /\ VersionCommand(versionCandidates[i]).ver = versionCandidates[i]
    BY <1>0, <2>2, Messages
  <2>5. Commands'
    BY <1>0, <2>1, <2>3, <2>4, Shifts DEF Laddered
  <2>6. Answers' /\ Asking'
    BY <1>0, <2>1, <2>2, <2>3 DEF Laddered
  <2>. QED  BY <2>5, <2>6, Zenon DEF Laddered
<1>5. CASE /\ Walking /\ pc' = "try" /\ i' = i + 1
           /\ c2s' = c2s /\ (s2c' = s2c \/ (s2c # <<>> /\ s2c' = Tail(s2c)))
  <2>1. \A v : Tried(v) => Tried(v)'
    BY <1>0, <1>5 DEF Tried
  <2>2. Commands' /\ Asking'
    BY <1>5, <2>1 DEF Laddered
  <2>3. Answers'
    <3>1. Answers
      BY <1>5, Zenon DEF Laddered
    <3>2. CASE s2c' = s2c
      BY <2>1, <3>1, <3>2
    <3>3. CASE s2c # <<>> /\ s2c' = Tail(s2c)
      BY <1>0, <2>1, <3>1, <3>3, Shifts
    <3>. QED  BY <1>5, <3>2, <3>3
  <2>. QED  BY <2>2, <2>3, Zenon DEF Laddered
<1>6. CASE QTMSetsVersion /\ Walking
  <2>1. /\ UNCHANGED <<pc, op, i, goal>> /\ c2s # <<>> /\ c2s' = Tail(c2s)
        /\ Head(c2s).kind = "Version"
        /\ s2c' = Append(s2c, VersionSet(Head(c2s).ver))
        /\ Head(c2s).ver \in accepts
    BY <1>6, Zenon DEF QTMSetsVersion
  <2>2. \A v : Tried(v) => Tried(v)'
    BY <1>0, <2>1 DEF Tried
  <2>3. Commands' /\ Asking'
    BY <1>0, <1>6, <2>1, <2>2, Shifts DEF Laddered
  <2>4. /\ VersionSet(Head(c2s).ver) \in Packet
        /\ VersionSet(Head(c2s).ver).ver = Head(c2s).ver
    BY <2>1, OfferedAssumption, Messages DEF TypeOK
  <2>5. Tried(Head(c2s).ver)
    BY <1>0, <1>6, <2>1, Shifts DEF Laddered
  <2>6. Answers'
    BY <1>0, <1>6, <2>1, <2>2, <2>4, <2>5, Shifts DEF Laddered
  <2>. QED  BY <2>3, <2>6, Zenon DEF Laddered
<1>7. CASE ApplicationStep \/ ConnectStep
  BY <1>1, <1>2, <1>4, <1>5, <1>7, Zenon
  DEF ConnectStep, ApplicationStep, Dial, DialFails, SetVersion, GetState, CannotSend,
      Disconnect, NotWelcomed, WelcomeFails, TryVersionFails, LadderExhausted,
      Hangup, FailConnect, Return, Running
<1>8. CASE VersionStep \/ StateStep \/ ClockPasses
  BY <1>1, <1>3, <1>5, <1>8, Zenon
  DEF VersionStep, SkipEvent, VersionAccepted, VersionRefused, VersionTimeout,
      VersionBroken, VersionFails, StateStep, ClockPasses, StateCheck, StateArm,
      StatePacket, StateNoMoreData, StateBroken, StateReturns, Take, Return
<1>9. CASE QTMStep
  <2>1. CASE ~Walking
    <3>1. UNCHANGED <<pc, op>>
      BY <1>9, Zenon DEF QTMStep, QTMGreets, QTMSetsVersion, QTMRejectsVersion,
                         QTMSendsState, QTMPushesEvent, QTMCloses
    <3>. QED  BY <1>1, <2>1, <3>1, Zenon
  <2>2. CASE Walking /\ ~QTMGreets
    BY <1>3, <1>6, <1>9, <2>2, Zenon
    DEF QTMStep, QTMSetsVersion, QTMRejectsVersion, QTMSendsState, QTMPushesEvent,
        QTMCloses
  <2>3. CASE Walking /\ QTMGreets
    BY <2>3, Zenon DEF QTMGreets, Greeting, Running
  <2>. QED  BY <2>1, <2>2, <2>3, Zenon
<1>10. CASE UNCHANGED vars
  BY <1>1, <1>3, <1>10, Zenon DEF vars
<1>. QED  BY <1>7, <1>8, <1>9, <1>10, Zenon DEF Next

(* Agreement.  What each kind of step does to the three parts of Agreeing. *)
LEMMA SettledKept ==
    ASSUME TypeOK, Settled,
           UNCHANGED <<srvVer, ver, accepts>>,
           \/ c2s' = c2s \/ c2s' = Append(c2s, Plain("GetState"))
           \/ c2s # <<>> /\ c2s' = Tail(c2s),
           \/ s2c' = s2c \/ s2c' = <<>> \/ (s2c # <<>> /\ s2c' = Tail(s2c))
           \/ s2c' = Append(s2c, Plain("Event"))
    PROVE  Settled'
<1>0. /\ s2c \in Seq(Packet) /\ c2s \in Seq(Command)
      /\ Plain("Event") \in Packet /\ Plain("Event").kind = "Event"
      /\ Plain("GetState") \in Command /\ Plain("GetState").kind = "GetState"
      /\ NoVersionCommand /\ NoAnswers
  BY Messages DEF TypeOK, Settled
<1>1. NoVersionCommand'
  <2>1. CASE c2s' = c2s
    BY <1>0, <2>1 DEF NoVersionCommand
  <2>2. CASE c2s' = Append(c2s, Plain("GetState"))
    BY <1>0, <2>2, Shifts DEF NoVersionCommand
  <2>3. CASE c2s # <<>> /\ c2s' = Tail(c2s)
    BY <1>0, <2>3, Shifts DEF NoVersionCommand
  <2>. QED  BY <2>1, <2>2, <2>3
<1>2. NoAnswers'
  <2>1. CASE s2c' = s2c \/ s2c' = <<>>
    BY <1>0, <2>1 DEF NoAnswers, IsAnswer
  <2>2. CASE s2c # <<>> /\ s2c' = Tail(s2c)
    BY <1>0, <2>2, Shifts DEF NoAnswers, IsAnswer
  <2>3. CASE s2c' = Append(s2c, Plain("Event"))
    BY <1>0, <2>3, Shifts DEF NoAnswers, IsAnswer
  <2>. QED  BY <2>1, <2>2, <2>3
<1>. QED  BY <1>1, <1>2 DEF Settled

(* While SetVersion waits, events and GetState commands change nothing.    *)
LEMMA WaitingKept ==
    ASSUME TypeOK, LastCommand, LastAnswer,
           UNCHANGED <<srvVer, ver, accepts, goal>>,
           \/ c2s' = c2s
           \/ c2s # <<>> /\ c2s' = Tail(c2s) /\ Head(c2s).kind # "Version",
           \/ s2c' = s2c \/ s2c' = <<>> \/ (s2c # <<>> /\ s2c' = Tail(s2c))
           \/ s2c' = Append(s2c, Plain("Event"))
    PROVE  /\ LastCommand' /\ LastAnswer'
           /\ OneAnswer => OneAnswer'
<1>0. /\ s2c \in Seq(Packet) /\ c2s \in Seq(Command)
      /\ Plain("Event") \in Packet /\ Plain("Event").kind = "Event"
      /\ \A v : VersionSet(v).kind = "VersionSet"
  BY Messages DEF TypeOK
<1>1. /\ LastCommand'
      /\ NoVersionCommand => NoVersionCommand'
      /\ OneAnswer => \A k \in DOMAIN c2s' : c2s'[k].kind = "Version" =>
                          /\ c2s'[k].ver = goal /\ NoAnswers
                          /\ srvVer = ver /\ ver \in accepts
  <2>1. CASE c2s' = c2s
    BY <1>0, <2>1 DEF LastCommand, NoVersionCommand, OneAnswer, VersionCommand
  <2>2. CASE c2s # <<>> /\ c2s' = Tail(c2s)
    BY <1>0, <2>2, Shifts DEF LastCommand, NoVersionCommand, OneAnswer, VersionCommand
  <2>. QED  BY <2>1, <2>2
<1>2. /\ NoAnswers => NoAnswers'
      /\ \A v : (\A j \in DOMAIN s2c : s2c[j] = v =>
                    \A l \in DOMAIN s2c : l > j => ~IsAnswer(s2c[l]))
              => (v.kind # "Event" =>
                  \A j \in DOMAIN s2c' : s2c'[j] = v =>
                    /\ \E k \in DOMAIN s2c : s2c[k] = v
                    /\ \A l \in DOMAIN s2c' : l > j => ~IsAnswer(s2c'[l]))
  <2>1. CASE s2c' = s2c \/ s2c' = <<>>
    BY <1>0, <2>1 DEF NoAnswers, IsAnswer
  <2>2. CASE s2c # <<>> /\ s2c' = Tail(s2c)
    BY <1>0, <2>2, Shifts DEF NoAnswers, IsAnswer
  <2>3. CASE s2c' = Append(s2c, Plain("Event"))
    BY <1>0, <2>3, Shifts DEF NoAnswers, IsAnswer
  <2>. QED  BY <2>1, <2>2, <2>3
<1>3. LastAnswer'
  BY <1>0, <1>1, <1>2 DEF LastAnswer
<1>4. ASSUME OneAnswer PROVE OneAnswer'
  <2>1. ASSUME NEW j \in DOMAIN s2c'
        PROVE  /\ s2c'[j].kind = "VersionSet" => s2c'[j].ver = goal
               /\ s2c'[j].kind = "Rejected" =>
                     /\ NoVersionCommand
                     /\ srvVer = ver /\ ver \in accepts
                     /\ \A l \in DOMAIN s2c' : l > j => ~IsAnswer(s2c'[l])
    <3>1. CASE s2c' = s2c \/ s2c' = <<>>
      BY <1>0, <1>4, <2>1, <3>1 DEF OneAnswer
    <3>2. CASE s2c # <<>> /\ s2c' = Tail(s2c)
      BY <1>0, <1>4, <2>1, <3>2, Shifts DEF OneAnswer
    <3>3. CASE s2c' = Append(s2c, Plain("Event"))
      BY <1>0, <1>4, <2>1, <3>3, Shifts DEF OneAnswer, IsAnswer
    <3>. QED  BY <3>1, <3>2, <3>3
  <2>. QED  BY <1>1, <1>2, <1>4, <2>1 DEF OneAnswer
<1>. QED  BY <1>1, <1>3, <1>4

(* QTM takes the first version command from the wire and answers it.       *)
LEMMA AnswerKept ==
    ASSUME TypeOK, LastCommand, LastAnswer,
           QTMSetsVersion \/ QTMRejectsVersion
    PROVE  /\ LastCommand' /\ LastAnswer'
           /\ OneAnswer => OneAnswer'
<1>0. /\ s2c \in Seq(Packet) /\ c2s \in Seq(Command)
      /\ \A v : VersionSet(v).kind = "VersionSet" /\ VersionSet(v).ver = v
      /\ \A v : VersionCommand(v).kind = "Version" /\ VersionCommand(v).ver = v
      /\ \A m \in Command : m.kind = "Version" => m = VersionCommand(m.ver)
      /\ Plain("Rejected") \in Packet /\ Plain("Rejected").kind = "Rejected"
  BY Messages DEF TypeOK
<1>1. /\ c2s # <<>> /\ c2s' = Tail(c2s) /\ Head(c2s).kind = "Version"
      /\ UNCHANGED <<goal, ver, accepts>>
  BY Zenon DEF QTMSetsVersion, QTMRejectsVersion
<1>2. /\ 1 \in DOMAIN c2s /\ c2s[1].kind = "Version" /\ c2s[1] = Head(c2s)
      /\ Head(c2s) \in Command /\ ~NoVersionCommand
  BY <1>0, <1>1, Shifts, HeadTailProperties DEF NoVersionCommand
<1>3. LastCommand'
  BY <1>0, <1>1, Shifts DEF LastCommand
<1>4. \A j \in DOMAIN s2c : s2c[j] # VersionSet(goal)
  BY <1>2 DEF LastAnswer
<1>5. Head(c2s).ver = goal => NoVersionCommand'
  BY <1>0, <1>1, <1>2, Shifts DEF LastCommand, NoVersionCommand
<1>6. OneAnswer => Head(c2s).ver = goal /\ NoAnswers /\ srvVer = ver /\ ver \in accepts
  BY <1>2 DEF OneAnswer
<1>7. OneAnswer => \A k \in DOMAIN c2s' : c2s'[k].kind # "Version"
  BY <1>5, <1>6, <1>1 DEF NoVersionCommand
<1>8. CASE QTMSetsVersion
  <2>1. /\ Head(c2s).ver \in accepts /\ srvVer' = Head(c2s).ver
        /\ s2c' = Append(s2c, VersionSet(Head(c2s).ver))
    BY <1>8, Zenon DEF QTMSetsVersion
  <2>2. VersionSet(Head(c2s).ver) \in Packet
    BY <2>1, OfferedAssumption, Messages DEF TypeOK
  <2>3. LastAnswer'
    BY <1>0, <1>1, <1>4, <1>5, <2>1, <2>2, Shifts DEF LastAnswer
  <2>4. OneAnswer => OneAnswer'
    BY <1>0, <1>1, <1>6, <1>7, <2>1, <2>2, Shifts DEF OneAnswer, NoAnswers, IsAnswer
  <2>. QED  BY <1>3, <2>3, <2>4
<1>9. CASE QTMRejectsVersion
  <2>1. srvVer' = srvVer /\ s2c' = Append(s2c, Plain("Rejected"))
    BY <1>9, Zenon DEF QTMRejectsVersion
  <2>2. LastAnswer'
    BY <1>0, <1>1, <1>4, <2>1, Shifts DEF LastAnswer
  <2>3. ASSUME OneAnswer PROVE OneAnswer'
    <3>1. NoVersionCommand'
      BY <1>5, <1>6, <2>3
    <3>. QED
      BY <1>0, <1>1, <1>6, <1>7, <2>1, <2>3, <3>1, Shifts
      DEF OneAnswer, NoAnswers, IsAnswer
  <2>. QED  BY <1>3, <2>2, <2>3
<1>. QED  BY <1>8, <1>9

(* SetVersion on a settled connection, and Connect's next candidate.       *)
LEMMA AskedOnce ==
    ASSUME TypeOK, Settled,
           NEW v \in Version, goal' = v,
           c2s' = Append(c2s, VersionCommand(v)),
           UNCHANGED <<s2c, srvVer, ver, accepts>>
    PROVE  LastCommand' /\ LastAnswer' /\ OneAnswer'
<1>0. /\ s2c \in Seq(Packet) /\ c2s \in Seq(Command)
      /\ VersionCommand(v) \in Command /\ VersionCommand(v).ver = v
      /\ VersionSet(v).kind = "VersionSet"
      /\ VersionCommand(v).kind = "Version"
      /\ NoVersionCommand /\ NoAnswers /\ srvVer = ver /\ ver \in accepts
  BY Messages DEF TypeOK, Settled
<1>1. LastCommand'
  BY <1>0, Shifts DEF LastCommand, NoVersionCommand
<1>2. LastAnswer'
  BY <1>0 DEF LastAnswer, NoAnswers, IsAnswer
<1>3. OneAnswer'
  <2>1. \A k \in DOMAIN c2s' : c2s'[k].kind = "Version" => c2s'[k].ver = v
    BY <1>0, Shifts DEF NoVersionCommand
  <2>. QED  BY <1>0, <2>1 DEF OneAnswer, NoAnswers, IsAnswer
<1>. QED  BY <1>1, <1>2, <1>3

LEMMA CandidateAsked ==
    ASSUME TypeOK, Running, Laddered, TryVersion
    PROVE  LastCommand' /\ LastAnswer'
<1>0. /\ s2c \in Seq(Packet) /\ c2s \in Seq(Command)
      /\ i \in Nat
      /\ \A k \in DOMAIN versionCandidates : k \in Nat
      /\ \A k \in DOMAIN versionCandidates : versionCandidates[k] \in Version
      /\ \A k, l \in DOMAIN versionCandidates :
            versionCandidates[k] = versionCandidates[l] => k = l
      /\ \A v : VersionSet(v).kind = "VersionSet" /\ VersionSet(v).ver = v
      /\ \A v : VersionCommand(v).kind = "Version" /\ VersionCommand(v).ver = v
      /\ i <= Len(versionCandidates) => i \in DOMAIN versionCandidates
  BY Candidates, Messages DEF TypeOK, FlagsTyped
<1>1. /\ op = "Connect" /\ pc = "try"
      /\ i <= Len(versionCandidates) /\ goal' = versionCandidates[i]
      /\ c2s' = Append(c2s, VersionCommand(versionCandidates[i])) /\ s2c' = s2c
  BY Zenon DEF TryVersion, Running
<1>2. ~Tried(versionCandidates[i])
  BY <1>0, <1>1 DEF Tried
<1>3. /\ \A k \in DOMAIN c2s : c2s[k] # VersionCommand(versionCandidates[i])
      /\ \A j \in DOMAIN s2c : s2c[j] # VersionSet(versionCandidates[i])
  BY <1>0, <1>1, <1>2 DEF Laddered
<1>4. VersionCommand(versionCandidates[i]) \in Command
  BY <1>0, <1>1, Messages
<1>5. LastCommand'
  BY <1>0, <1>1, <1>3, <1>4, Shifts DEF LastCommand
<1>6. LastAnswer'
  BY <1>1, <1>3 DEF LastAnswer
<1>. QED  BY <1>5, <1>6

(* The client reads the answer it waits for.                               *)
LEMMA AcceptedSettles ==
    ASSUME TypeOK, LastAnswer, VersionAccepted
    PROVE  Settled'
<1>0. /\ s2c \in Seq(Packet) /\ c2s \in Seq(Command)
      /\ Plain("GetState") \in Command /\ Plain("GetState").kind = "GetState"
  BY Messages DEF TypeOK
<1>1. /\ s2c # <<>> /\ Head(s2c) = VersionSet(goal) /\ s2c' = Tail(s2c)
      /\ ver' = goal /\ UNCHANGED <<srvVer, accepts>>
      /\ c2s' \in {c2s, Append(c2s, Plain("GetState"))}
  BY Zenon DEF VersionAccepted
<1>2. 1 \in DOMAIN s2c /\ s2c[1] = VersionSet(goal)
  BY <1>0, <1>1, Shifts
<1>3. /\ NoVersionCommand /\ srvVer = goal /\ goal \in accepts
      /\ \A l \in DOMAIN s2c : l > 1 => ~IsAnswer(s2c[l])
  BY <1>2 DEF LastAnswer
<1>4. NoAnswers'
  BY <1>0, <1>1, <1>3, Shifts DEF NoAnswers, IsAnswer
<1>5. NoVersionCommand'
  <2>1. CASE c2s' = c2s
    BY <1>3, <2>1 DEF NoVersionCommand
  <2>2. CASE c2s' = Append(c2s, Plain("GetState"))
    BY <1>0, <1>3, <2>2, Shifts DEF NoVersionCommand
  <2>. QED  BY <1>1, <2>1, <2>2
<1>. QED  BY <1>1, <1>3, <1>4, <1>5 DEF Settled

LEMMA RefusedSettles ==
    ASSUME TypeOK, OneAnswer, VersionRefused,
           \A j \in DOMAIN s2c : s2c[j].kind \notin {"Welcome", "Other"}
    PROVE  Settled'
<1>0. /\ s2c \in Seq(Packet) /\ c2s \in Seq(Command)
      /\ \A m \in Packet : m.kind = "VersionSet" => m = VersionSet(m.ver)
  BY Messages DEF TypeOK
<1>1. /\ s2c # <<>> /\ Head(s2c) # VersionSet(goal) /\ s2c' = Tail(s2c)
      /\ Head(s2c).kind # "Event" /\ c2s' = c2s
      /\ UNCHANGED <<srvVer, ver, accepts>>
  BY Zenon DEF VersionRefused, Take
<1>2. 1 \in DOMAIN s2c /\ s2c[1] = Head(s2c) /\ s2c[1] \in Packet
  BY <1>0, <1>1, Shifts, HeadTailProperties
<1>3. s2c[1].kind \in {"Welcome", "Other", "VersionSet", "Rejected", "Event"}
  BY <1>2 DEF Packet
<1>4. s2c[1].kind # "VersionSet"
  BY <1>0, <1>1, <1>2 DEF OneAnswer
<1>5. s2c[1].kind = "Rejected"
  BY <1>1, <1>2, <1>3, <1>4
<1>6. /\ NoVersionCommand /\ srvVer = ver /\ ver \in accepts
      /\ \A l \in DOMAIN s2c : l > 1 => ~IsAnswer(s2c[l])
  BY <1>2, <1>5 DEF OneAnswer
<1>7. NoAnswers'
  BY <1>0, <1>1, <1>6, Shifts DEF NoAnswers, IsAnswer
<1>. QED  BY <1>1, <1>6, <1>7 DEF Settled, NoVersionCommand

LEMMA AgreeingSteps ==
    ASSUME TypeOK, Running, Greeting, Laddered, Agreeing, [Next]_vars
    PROVE  Agreeing'
<1>. DEFINE Idle == pc \in {"idle"} \cup PrimingState
<1>0. UNCHANGED accepts
  BY ConfigSteps
<1>1. CASE ~conn' \/ doubt' \/ pc' \in {"welcome", "try"}
  BY <1>1, Zenon DEF Agreeing, PrimingState
<1>2. CASE /\ Idle /\ Idle' /\ UNCHANGED <<conn, doubt, srvVer, ver>>
           /\ \/ c2s' = c2s \/ c2s' = Append(c2s, Plain("GetState"))
              \/ c2s # <<>> /\ c2s' = Tail(c2s)
           /\ \/ s2c' = s2c \/ s2c' = <<>> \/ (s2c # <<>> /\ s2c' = Tail(s2c))
              \/ s2c' = Append(s2c, Plain("Event"))
  <2>1. Settled => Settled'
    BY <1>0, <1>2, SettledKept, Zenon
  <2>. QED  BY <1>2, <2>1, Zenon DEF Agreeing, PrimingState
<1>3. CASE /\ pc = "version" /\ pc' = "version"
           /\ UNCHANGED <<conn, doubt, srvVer, ver, goal, op>>
           /\ \/ c2s' = c2s
              \/ c2s # <<>> /\ c2s' = Tail(c2s) /\ Head(c2s).kind # "Version"
           /\ \/ s2c' = s2c \/ s2c' = <<>> \/ (s2c # <<>> /\ s2c' = Tail(s2c))
              \/ s2c' = Append(s2c, Plain("Event"))
  <2>1. (LastCommand /\ LastAnswer) =>
            /\ LastCommand' /\ LastAnswer'
            /\ OneAnswer => OneAnswer'
    BY <1>0, <1>3, WaitingKept, Zenon
  <2>. QED  BY <1>3, <2>1, Zenon DEF Agreeing, PrimingState
<1>4. CASE TryVersion
  <2>1. LastCommand' /\ LastAnswer'
    BY <1>4, CandidateAsked
  <2>2. pc' = "version" /\ op' = "Connect"
    BY <1>4, Zenon DEF TryVersion, Running
  <2>. QED  BY <2>1, <2>2, Zenon DEF Agreeing, PrimingState
<1>5. CASE SetVersion
  <2>1. PICK v \in Wanted : goal' = v /\ c2s' = Append(c2s, VersionCommand(v))
    BY <1>5, Zenon DEF SetVersion
  <2>2. v \in Version
    BY WantedAssumption
  <2>3. pc = "idle" /\ pc' = "version" /\ UNCHANGED <<conn, doubt, s2c, srvVer, ver>>
    BY <1>5, Zenon DEF SetVersion
  <2>4. Settled => LastCommand' /\ LastAnswer' /\ OneAnswer'
    BY <1>0, <2>1, <2>2, <2>3, AskedOnce, Zenon
  <2>. QED  BY <2>3, <2>4, Zenon DEF Agreeing, PrimingState
<1>6. CASE VersionAccepted
  <2>1. pc = "version" /\ pc' \in {"idle", "state.check"} /\ UNCHANGED <<conn, doubt>>
    BY <1>6, Zenon DEF VersionAccepted, Return
  <2>2. LastAnswer => Settled'
    BY <1>6, AcceptedSettles
  <2>. QED  BY <2>1, <2>2, Zenon DEF Agreeing, PrimingState
<1>7. CASE VersionRefused
  <2>1. pc = "version" /\ UNCHANGED <<conn, doubt>>
    BY <1>7, Zenon DEF VersionRefused
  <2>2. pc' = "try" \/ (pc' = "idle" /\ op = "SetVersion")
    BY <1>7, Zenon DEF VersionRefused, VersionFails, Return
  <2>3. CASE pc' = "idle" /\ op = "SetVersion"
    <3>1. conn => \A j \in DOMAIN s2c : s2c[j].kind \notin {"Welcome", "Other"}
      BY <2>1, Zenon DEF Greeting
    <3>2. (conn /\ OneAnswer) => Settled'
      BY <1>7, <3>1, RefusedSettles
    <3>. QED  BY <2>1, <2>3, <3>2, Zenon DEF Agreeing, PrimingState
  <2>. QED  BY <1>1, <2>2, <2>3, Zenon
<1>8. CASE VersionTimeout \/ VersionBroken
  <2>1. /\ doubt' = (doubt \/ op = "SetVersion")
        /\ pc' = "try" \/ op = "SetVersion"
    BY <1>8, Zenon DEF VersionTimeout, VersionBroken, VersionFails
  <2>2. pc' = "try" \/ doubt'
    BY <2>1
  <2>. QED  BY <1>1, <2>2, Zenon
<1>9. CASE QTMStep
  <2>1. UNCHANGED <<conn, doubt, pc, op, ver, goal>>
    BY <1>9, Zenon DEF QTMStep, QTMGreets, QTMSetsVersion, QTMRejectsVersion,
                       QTMSendsState, QTMPushesEvent, QTMCloses
  <2>2. CASE QTMSetsVersion \/ QTMRejectsVersion
    <3>1. CASE pc = "version"
      <4>1. (LastCommand /\ LastAnswer) =>
                /\ LastCommand' /\ LastAnswer'
                /\ OneAnswer => OneAnswer'
        BY <2>2, AnswerKept
      <4>. QED  BY <2>1, <3>1, <4>1, Zenon DEF Agreeing, PrimingState
    <3>2. CASE Idle
      <4>1. c2s \in Seq(Command) /\ c2s # <<>> /\ Head(c2s).kind = "Version"
        BY <2>2 DEF QTMSetsVersion, QTMRejectsVersion, TypeOK
      <4>2. ~NoVersionCommand
        BY <4>1, TailIndices DEF NoVersionCommand
      <4>. QED  BY <2>1, <3>2, <4>2, Zenon DEF Agreeing, Settled, PrimingState
    <3>. QED  BY <1>1, <2>1, <3>1, <3>2, Zenon DEF TypeOK
  <2>3. CASE QTMSendsState \/ QTMPushesEvent \/ QTMCloses
    <3>1. /\ UNCHANGED srvVer
          /\ \/ c2s' = c2s
             \/ c2s # <<>> /\ c2s' = Tail(c2s) /\ Head(c2s).kind = "GetState"
          /\ \/ s2c' = s2c \/ s2c' = <<>>
             \/ s2c' = Append(s2c, Plain("Event"))
      BY <2>3, Zenon DEF QTMSendsState, QTMPushesEvent, QTMCloses
    <3>2. "GetState" # "Version"
      OBVIOUS
    <3>3. pc = "version" \/ Idle \/ pc \in {"welcome", "try"}
      BY Zenon DEF TypeOK
    <3>4. CASE pc = "version"
      <4>1. \/ c2s' = c2s
            \/ c2s # <<>> /\ c2s' = Tail(c2s) /\ Head(c2s).kind # "Version"
        BY <3>1, <3>2, Zenon
      <4>. QED  BY <1>3, <2>1, <3>1, <3>4, <4>1, Zenon
    <3>5. CASE Idle
      BY <1>2, <2>1, <3>1, <3>5, Zenon
    <3>6. CASE pc \in {"welcome", "try"}
      BY <1>1, <2>1, <3>6, Zenon
    <3>. QED  BY <3>3, <3>4, <3>5, <3>6, Zenon
  <2>4. CASE QTMGreets
    <3>1. up /\ ~greeted
      BY <2>4, Zenon DEF QTMGreets
    <3>2. pc' = "welcome"
      BY <2>1, <3>1, Zenon DEF Greeting, Running
    <3>. QED  BY <1>1, <3>2, Zenon
  <2>. QED  BY <1>9, <2>2, <2>3, <2>4, Zenon DEF QTMStep
<1>10. CASE ApplicationStep
  BY <1>1, <1>2, <1>5, <1>10, Zenon
  DEF ApplicationStep, Dial, DialFails, GetState, CannotSend, Disconnect, Hangup, FailConnect,
      PrimingState
<1>11. CASE ConnectStep
  BY <1>1, <1>4, <1>11, Zenon
  DEF ConnectStep, Welcomed, NotWelcomed, WelcomeFails, TryVersionFails,
      LadderExhausted, Hangup, FailConnect
<1>12. CASE VersionStep
  BY <1>3, <1>6, <1>7, <1>8, <1>12, Zenon DEF VersionStep, SkipEvent, Take
<1>13. CASE StateStep \/ ClockPasses
  BY <1>2, <1>13, Zenon
  DEF StateStep, ClockPasses, StateCheck, StateArm, StatePacket, StateNoMoreData,
      StateBroken, StateReturns, Return, Take, PrimingState
<1>14. CASE UNCHANGED vars
  <2>1. UNCHANGED <<conn, doubt, srvVer, ver, goal, op, pc, c2s, s2c>>
    BY <1>14, Zenon DEF vars
  <2>2. pc = "version" \/ Idle \/ pc \in {"welcome", "try"}
    BY Zenon DEF TypeOK
  <2>. QED  BY <1>1, <1>2, <1>3, <2>1, <2>2, Zenon
<1>. QED  BY <1>9, <1>10, <1>11, <1>12, <1>13, <1>14, Zenon DEF Next

-----------------------------------------------------------------------------
(* The initial states.                                                     *)
LEMMA Initially == Init => IInv
<1>. SUFFICES ASSUME Init PROVE IInv
  OBVIOUS
<1>1. FlagsTyped
  BY Zenon DEF Init, FlagsTyped
<1>2. TypeOK
  <2>1. LadderLength(want, negotiate) \in Nat \ {0}
    BY Candidates, Zenon DEF Init
  <2>2. i = 1 /\ want \in Wanted /\ goal = want /\ accepts \in SUBSET Offered
    BY Zenon DEF Init
  <2>3. /\ pc = "idle" /\ op = "none" /\ result = "ok" /\ c2s = <<>> /\ s2c = <<>>
        /\ ver = NoVersion /\ srvVer = NoVersion
    BY Zenon DEF Init
  <2>4. i \in 1 .. LadderLength(want, negotiate) + 1
    BY <2>1, <2>2
  <2>5. /\ pc \in {"idle", "welcome", "try", "version"} \cup PrimingState
        /\ op \in Call /\ result \in Outcome
    BY <2>3, Zenon DEF Call, Outcome
  <2>6. c2s \in Seq(Command) /\ s2c \in Seq(Packet)
    BY <2>3, EmptySeq
  <2>7. /\ accepts \subseteq Offered /\ goal \in Version
        /\ ver \in Version \cup {NoVersion} /\ srvVer \in Version \cup {NoVersion}
    BY <2>2, <2>3, WantedAssumption
  <2>. QED  BY <1>1, <2>2, <2>4, <2>5, <2>6, <2>7, Zenon DEF TypeOK
<1>3. Running /\ Greeting /\ Laddered /\ Agreeing
  BY Zenon DEF Init, Running, Greeting, Laddered, Agreeing
<1>. QED  BY <1>2, <1>3 DEF IInv

(* The invariant is inductive.                                             *)
THEOREM Invariance == Spec => []IInv
<1>1. IInv /\ [Next]_vars => IInv'
  BY FlagSteps, TypeSteps, RunningSteps, GreetingSteps, LadderedSteps,
     AgreeingSteps, Zenon DEF IInv, TypeOK
<1>. QED  BY Initially, <1>1, PTL DEF Spec

(* Every variable keeps its type, and the ladder is never walked past its  *)
(* end, whatever versions the SDK supports and QTM accepts.                *)
THEOREM TypeCorrect == Spec => []TypeOK
<1>1. IInv => TypeOK
  BY DEF IInv
<1>. QED  BY Invariance, <1>1, PTL

(* The client and QTM agree on the version, whatever the ladder, and       *)
(* however many replies were late while it was walked.                     *)
THEOREM Agreement == Spec => []VersionAgreement
<1>1. IInv => VersionAgreement
  BY Zenon DEF IInv, Agreeing, Settled, VersionAgreement
<1>. QED  BY Invariance, <1>1, PTL

-----------------------------------------------------------------------------
(* A failed Connect closes: FailedConnectCloses needs that nothing opens   *)
(* the connection between two calls.                                       *)
Closed == (pc = "idle" /\ result \in ConnectFailure) => ~conn

LEMMA ClosedSteps == Running /\ Closed /\ [Next]_vars => Closed'
<1>. SUFFICES ASSUME Running, Closed, [Next]_vars PROVE Closed'
  OBVIOUS
<1>. USE DEF Closed, ConnectFailure, Return, Hangup, FailConnect, VersionFails, StateReturns
<1>1. CASE ApplicationStep
  BY <1>1, Zenon DEF ApplicationStep, Dial, DialFails, SetVersion, GetState, CannotSend, Disconnect
<1>2. CASE ConnectStep
  BY <1>2, Zenon DEF ConnectStep, Welcomed, NotWelcomed, WelcomeFails, TryVersion,
                     TryVersionFails, LadderExhausted
<1>3. CASE VersionStep
  <2>1. pc' # "idle" \/ result' \in {"ok", "error", "ErrTimeout"}
    BY <1>3, Zenon DEF VersionStep, SkipEvent, VersionAccepted, VersionRefused,
                       VersionTimeout, VersionBroken
  <2>. QED  BY <2>1
<1>4. CASE StateStep \/ ClockPasses
  <2>1. pc' # "idle" \/ result' \in {"ok", "error", "ErrTimeout"}
    BY <1>4, Zenon DEF StateStep, ClockPasses, StateCheck, StateArm, StatePacket,
                       StateNoMoreData, StateBroken
  <2>. QED  BY <2>1
<1>5. CASE QTMStep
  BY <1>5, Zenon DEF QTMStep, QTMGreets, QTMSetsVersion, QTMRejectsVersion,
                     QTMSendsState, QTMPushesEvent, QTMCloses
<1>6. CASE UNCHANGED vars
  BY <1>6, Zenon DEF vars
<1>. QED  BY <1>1, <1>2, <1>3, <1>4, <1>5, <1>6, Zenon DEF Next

(* A Connect that fails, for whatever reason and after however many        *)
(* candidates, leaves the client disconnected and without a version.       *)
THEOREM FailureCloses == Spec => []FailedConnectCloses
<1>1. Init => Closed
  BY Zenon DEF Init, Closed, ConnectFailure
<1>2. IInv => Running
  BY DEF IInv
<1>3. Running /\ Closed => FailedConnectCloses
  BY Zenon DEF Running, Closed, FailedConnectCloses
<1>. QED  BY Invariance, ClosedSteps, <1>1, <1>2, <1>3, PTL DEF Spec

-----------------------------------------------------------------------------
(* FirstAccepted.  When no wait timed out, at most one command or answer   *)
(* of the ladder is under way, and it is about the candidate at hand: so a *)
(* rejection that is read rejects that candidate.                          *)

Alone ==
    /\ \A k \in DOMAIN c2s : c2s[k].kind = "Version" =>
          /\ c2s[k].ver = goal
          /\ NoAnswers
          /\ \A l \in DOMAIN c2s : l > k => c2s[l].kind # "Version"
    /\ \A j \in DOMAIN s2c : IsAnswer(s2c[j]) =>
          /\ NoVersionCommand
          /\ \A l \in DOMAIN s2c : l > j => ~IsAnswer(s2c[l])
          /\ \/ s2c[j] = VersionSet(goal)
             \/ s2c[j].kind = "Rejected" /\ goal \notin accepts

Refused(k) == versionCandidates[k] \notin accepts

Walked ==
    (op = "Connect" /\ pc # "idle") => \A k \in 1 .. i - 1 : Refused(k)

Exchanging ==
    /\ pc = "try" => NoVersionCommand /\ NoAnswers
    /\ (op = "Connect" /\ pc = "version") => Alone

Reached == (op = "Connect" /\ pc \in PrimingState) => ver = versionCandidates[i]

GaveUp ==
    (pc = "idle" /\ result = "ErrVersionNotSupported") =>
        \A k \in DOMAIN versionCandidates : Refused(k)

Punctually == punctual => Walked /\ Exchanging /\ Reached /\ GaveUp

LEMMA AloneKept ==
    ASSUME TypeOK, Alone,
           UNCHANGED <<accepts, goal>>,
           \/ c2s' = c2s
           \/ c2s # <<>> /\ c2s' = Tail(c2s),
           \/ s2c' = s2c \/ s2c' = <<>> \/ (s2c # <<>> /\ s2c' = Tail(s2c))
           \/ s2c' = Append(s2c, Plain("Event"))
    PROVE  Alone'
<1>0. /\ s2c \in Seq(Packet) /\ c2s \in Seq(Command)
      /\ Plain("Event") \in Packet /\ Plain("Event").kind = "Event"
  BY Messages DEF TypeOK
<1>1. NoVersionCommand => NoVersionCommand'
  <2>1. CASE c2s' = c2s
    BY <1>0, <2>1 DEF NoVersionCommand
  <2>2. CASE c2s # <<>> /\ c2s' = Tail(c2s)
    BY <1>0, <2>2, Shifts DEF NoVersionCommand
  <2>. QED  BY <2>1, <2>2
<1>2. NoAnswers => NoAnswers'
  <2>1. CASE s2c' = s2c \/ s2c' = <<>>
    BY <1>0, <2>1 DEF NoAnswers, IsAnswer
  <2>2. CASE s2c # <<>> /\ s2c' = Tail(s2c)
    BY <1>0, <2>2, Shifts DEF NoAnswers, IsAnswer
  <2>3. CASE s2c' = Append(s2c, Plain("Event"))
    BY <1>0, <2>3, Shifts DEF NoAnswers, IsAnswer
  <2>. QED  BY <2>1, <2>2, <2>3
<1>3. \A k \in DOMAIN c2s' : c2s'[k].kind = "Version" =>
          /\ c2s'[k].ver = goal
          /\ NoAnswers
          /\ \A l \in DOMAIN c2s' : l > k => c2s'[l].kind # "Version"
  <2>1. CASE c2s' = c2s
    BY <2>1 DEF Alone
  <2>2. CASE c2s # <<>> /\ c2s' = Tail(c2s)
    BY <1>0, <2>2, Shifts DEF Alone
  <2>. QED  BY <2>1, <2>2
<1>4. \A j \in DOMAIN s2c' : IsAnswer(s2c'[j]) =>
          /\ NoVersionCommand
          /\ \A l \in DOMAIN s2c' : l > j => ~IsAnswer(s2c'[l])
          /\ \/ s2c'[j] = VersionSet(goal)
             \/ s2c'[j].kind = "Rejected" /\ goal \notin accepts
  <2>1. CASE s2c' = s2c \/ s2c' = <<>>
    BY <2>1 DEF Alone
  <2>2. CASE s2c # <<>> /\ s2c' = Tail(s2c)
    BY <1>0, <2>2, Shifts DEF Alone
  <2>3. CASE s2c' = Append(s2c, Plain("Event"))
    BY <1>0, <2>3, Shifts DEF Alone, IsAnswer
  <2>. QED  BY <2>1, <2>2, <2>3
<1>. QED  BY <1>1, <1>2, <1>3, <1>4 DEF Alone, IsAnswer

(* QTM's answer replaces the command.                                      *)
LEMMA AloneAnswered ==
    ASSUME TypeOK, Alone, QTMSetsVersion \/ QTMRejectsVersion
    PROVE  Alone'
<1>0. /\ s2c \in Seq(Packet) /\ c2s \in Seq(Command)
      /\ Plain("Rejected") \in Packet /\ Plain("Rejected").kind = "Rejected"
  BY Messages DEF TypeOK
<1>1. /\ c2s # <<>> /\ c2s' = Tail(c2s) /\ Head(c2s).kind = "Version"
      /\ UNCHANGED <<goal, accepts>>
  BY Zenon DEF QTMSetsVersion, QTMRejectsVersion
<1>2. 1 \in DOMAIN c2s /\ c2s[1] = Head(c2s)
  BY <1>0, <1>1, Shifts
<1>3. /\ Head(c2s).ver = goal /\ NoAnswers
      /\ \A l \in DOMAIN c2s : l > 1 => c2s[l].kind # "Version"
  BY <1>1, <1>2 DEF Alone
<1>4. NoVersionCommand'
  BY <1>0, <1>1, <1>3, Shifts DEF NoVersionCommand
<1>5. PICK m \in Packet :
         /\ s2c' = Append(s2c, m)
         /\ m = VersionSet(goal) \/ (m.kind = "Rejected" /\ goal \notin accepts)
  <2>1. CASE QTMSetsVersion
    <3>1. goal \in accepts /\ s2c' = Append(s2c, VersionSet(goal))
      BY <1>3, <2>1 DEF QTMSetsVersion
    <3>2. VersionSet(goal) \in Packet
      BY Messages DEF TypeOK
    <3>. QED  BY <3>1, <3>2
  <2>2. CASE QTMRejectsVersion
    BY <1>0, <1>3, <2>2 DEF QTMRejectsVersion
  <2>. QED  BY <2>1, <2>2
<1>6. \A j \in DOMAIN s2c' : IsAnswer(s2c'[j]) =>
          /\ \A l \in DOMAIN s2c' : l > j => ~IsAnswer(s2c'[l])
          /\ \/ s2c'[j] = VersionSet(goal)
             \/ s2c'[j].kind = "Rejected" /\ goal \notin accepts
  BY <1>0, <1>3, <1>5, Shifts DEF NoAnswers
<1>. QED  BY <1>1, <1>4, <1>6 DEF Alone, NoVersionCommand, IsAnswer

LEMMA PunctualSteps ==
    ASSUME IInv, Punctually, [Next]_vars
    PROVE  Punctually'
<1>1. SUFFICES ASSUME punctual' PROVE Walked' /\ Exchanging' /\ Reached' /\ GaveUp'
  BY DEF Punctually
<1>2. /\ TypeOK /\ Running /\ Greeting /\ Laddered
      /\ UNCHANGED accepts /\ versionCandidates' = versionCandidates
      /\ \A k : Refused(k)' = Refused(k)
  BY ConfigSteps DEF IInv, Refused
<1>3. /\ s2c \in Seq(Packet) /\ c2s \in Seq(Command)
      /\ i \in Nat /\ i <= Len(versionCandidates) + 1
      /\ Len(versionCandidates) \in Nat
      /\ DOMAIN versionCandidates = 1 .. Len(versionCandidates)
      /\ \A k \in DOMAIN versionCandidates : versionCandidates[k] \in Version
  BY <1>2, Candidates DEF TypeOK, FlagsTyped
<1>4. CASE Dial
  <2>1. pc' = "welcome" /\ i' = 1
    BY <1>4, Zenon DEF Dial
  <2>. QED  BY <2>1 DEF Walked, Exchanging, Reached, GaveUp, PrimingState
<1>5. CASE DialFails
  <2>1. pc' = "idle" /\ result' = "dial"
    BY <1>5, Zenon DEF DialFails, FailConnect, Return
  <2>. QED  BY <2>1 DEF Walked, Exchanging, Reached, GaveUp, PrimingState
<1>6. CASE punctual /\ pc' = "idle" /\ \/ pc = "idle" /\ result' = result
                                       \/ result' # "ErrVersionNotSupported"
  <2>1. GaveUp'
    BY <1>2, <1>6 DEF Punctually, GaveUp
  <2>. QED  BY <1>6, <2>1 DEF Walked, Exchanging, Reached, PrimingState
<1>7. CASE Welcomed
  <2>1. /\ pc = "welcome" /\ pc' = "try" /\ UNCHANGED <<op, i, punctual>>
        /\ s2c # <<>> /\ s2c' = Tail(s2c) /\ c2s' = c2s
    BY <1>7, Zenon DEF Welcomed, Take
  <2>2. op = "Connect" /\ c2s = <<>> /\ \A j \in DOMAIN s2c : j > 1 => s2c[j].kind = "Event"
    BY <1>2, <2>1, Zenon DEF Running, Greeting
  <2>3. NoVersionCommand' /\ NoAnswers'
    BY <1>3, <2>1, <2>2, Shifts DEF NoVersionCommand, NoAnswers, IsAnswer
  <2>4. Walked'
    BY <1>1, <1>2, <2>1, <2>2 DEF Punctually, Walked
  <2>. QED  BY <2>1, <2>3, <2>4 DEF Exchanging, Reached, GaveUp, PrimingState
<1>8. CASE TryVersion
  <2>1. /\ pc = "try" /\ pc' = "version" /\ UNCHANGED <<op, i, punctual, s2c>>
        /\ i <= Len(versionCandidates) /\ goal' = versionCandidates[i]
        /\ c2s' = Append(c2s, VersionCommand(versionCandidates[i]))
    BY <1>8, Zenon DEF TryVersion
  <2>2. NoVersionCommand /\ NoAnswers /\ op = "Connect" /\ Walked
    BY <1>1, <1>2, <2>1 DEF Punctually, Exchanging, Running
  <2>3. i \in DOMAIN versionCandidates
    BY <1>2, <1>3, <2>1 DEF TypeOK
  <2>4. /\ VersionCommand(versionCandidates[i]) \in Command
        /\ VersionCommand(versionCandidates[i]).ver = versionCandidates[i]
    BY <1>3, <2>3, Messages
  <2>5. Alone'
    BY <1>3, <2>1, <2>2, <2>4, Shifts DEF Alone, NoVersionCommand, NoAnswers, IsAnswer
  <2>6. Walked'
    BY <1>2, <2>1, <2>2 DEF Walked
  <2>. QED  BY <2>1, <2>5, <2>6 DEF Exchanging, Reached, GaveUp, PrimingState
<1>9. CASE LadderExhausted
  <2>1. /\ pc = "try" /\ pc' = "idle" /\ UNCHANGED punctual /\ i > Len(versionCandidates)
    BY <1>9, Zenon DEF LadderExhausted, FailConnect, Return
  <2>2. \A k \in 1 .. i - 1 : Refused(k)
    BY <1>1, <1>2, <2>1 DEF Punctually, Walked, Running
  <2>3. GaveUp'
    BY <1>2, <1>3, <2>1, <2>2 DEF GaveUp
  <2>. QED  BY <2>1, <2>3 DEF Walked, Exchanging, Reached, PrimingState
<1>10. CASE SkipEvent
  <2>1. /\ pc = "version" /\ UNCHANGED <<pc, op, i, ver, goal, result, punctual>>
        /\ s2c # <<>> /\ s2c' = Tail(s2c) /\ c2s' = c2s
    BY <1>10, Zenon DEF SkipEvent, Take
  <2>2. Alone => Alone'
    BY <1>2, <2>1, AloneKept
  <2>. QED
    BY <1>1, <1>2, <2>1, <2>2
    DEF Punctually, Walked, Exchanging, Reached, GaveUp, PrimingState
<1>11. CASE VersionAccepted /\ pc' # "idle"
  <2>1. /\ pc = "version" /\ op = "Connect" /\ pc' = "state.check" /\ ver' = goal
        /\ UNCHANGED <<op, i, punctual>>
    BY <1>11, Zenon DEF VersionAccepted, Return
  <2>2. goal = versionCandidates[i]
    BY <1>2, <2>1 DEF Laddered
  <2>3. Walked' /\ Reached'
    BY <1>1, <1>2, <2>1, <2>2 DEF Punctually, Walked, Reached
  <2>. QED  BY <2>1, <2>3 DEF Exchanging, GaveUp
<1>12. CASE VersionRefused /\ pc' # "idle"
  <2>1. /\ pc = "version" /\ op = "Connect" /\ pc' = "try" /\ i' = i + 1
        /\ UNCHANGED <<op, punctual>>
        /\ s2c # <<>> /\ s2c' = Tail(s2c) /\ c2s' = c2s
        /\ Head(s2c).kind # "Event" /\ Head(s2c) # VersionSet(goal)
    BY <1>12, Zenon DEF VersionRefused, VersionFails, Return, Take
  <2>2. Alone /\ Walked /\ goal = versionCandidates[i]
    BY <1>1, <1>2, <2>1 DEF Punctually, Exchanging, Laddered
  <2>3. 1 \in DOMAIN s2c /\ s2c[1] = Head(s2c) /\ s2c[1] \in Packet
    BY <1>3, <2>1, Shifts, HeadTailProperties
  <2>4. s2c[1].kind \in {"VersionSet", "Rejected"}
    <3>1. s2c[1].kind \notin {"Welcome", "Other", "Event"}
      BY <1>2, <2>1, <2>3 DEF Running, Greeting
    <3>. QED  BY <2>3, <3>1 DEF Packet
  <2>5. /\ NoVersionCommand /\ goal \notin accepts
        /\ \A l \in DOMAIN s2c : l > 1 => ~IsAnswer(s2c[l])
    BY <2>1, <2>2, <2>3, <2>4 DEF Alone, IsAnswer
  <2>6. NoVersionCommand' /\ NoAnswers'
    BY <1>3, <2>1, <2>5, Shifts DEF NoVersionCommand, NoAnswers, IsAnswer
  <2>7. Walked'
    <3>1. \A k \in 1 .. i - 1 : Refused(k)
      BY <2>1, <2>2 DEF Walked
    <3>2. Refused(i)
      BY <2>2, <2>5 DEF Refused
    <3>3. \A k \in 1 .. i' - 1 : k \in 1 .. i - 1 \/ k = i
      BY <1>3, <2>1
    <3>. QED  BY <1>2, <3>1, <3>2, <3>3 DEF Walked
  <2>. QED  BY <2>1, <2>6, <2>7 DEF Exchanging, Reached, GaveUp, PrimingState
<1>13. CASE pc' # "idle" /\ pc' # "try" /\ op' \in {"SetVersion", "GetState"}
  BY <1>13 DEF Walked, Exchanging, Reached, GaveUp
<1>14. CASE /\ pc \in PrimingState /\ pc' \in PrimingState
            /\ UNCHANGED <<op, i, ver, punctual>>
  BY <1>1, <1>2, <1>14
  DEF Punctually, Walked, Exchanging, Reached, GaveUp, PrimingState
<1>15. CASE QTMStep
  <2>1. UNCHANGED <<pc, op, i, ver, goal, result, punctual>>
    BY <1>15, Zenon DEF QTMStep, QTMGreets, QTMSetsVersion, QTMRejectsVersion,
                        QTMSendsState, QTMPushesEvent, QTMCloses
  <2>2. Walked' /\ Reached' /\ GaveUp'
    BY <1>1, <1>2, <2>1 DEF Punctually, Walked, Reached, GaveUp
  <2>3. Exchanging
    BY <1>1, <2>1 DEF Punctually
  <2>4. CASE QTMSetsVersion \/ QTMRejectsVersion
    <3>1. ~NoVersionCommand
      <4>1. c2s # <<>> /\ Head(c2s).kind = "Version"
        BY <2>4, Zenon DEF QTMSetsVersion, QTMRejectsVersion
      <4>. QED  BY <1>3, <4>1, Shifts DEF NoVersionCommand
    <3>2. Alone => Alone'
      BY <1>2, <2>4, AloneAnswered
    <3>. QED  BY <2>1, <2>2, <2>3, <3>1, <3>2 DEF Exchanging
  <2>5. CASE QTMSendsState \/ QTMPushesEvent \/ QTMCloses
    <3>1. /\ c2s' = c2s \/ (c2s # <<>> /\ c2s' = Tail(c2s))
          /\ s2c' = s2c \/ s2c' = <<>> \/ s2c' = Append(s2c, Plain("Event"))
      BY <2>5, Zenon DEF QTMSendsState, QTMPushesEvent, QTMCloses
    <3>2. Alone => Alone'
      BY <1>2, <2>1, <3>1, AloneKept
    <3>3. NoVersionCommand => NoVersionCommand'
      <4>1. CASE c2s # <<>> /\ c2s' = Tail(c2s)
        BY <1>3, <4>1, Shifts DEF NoVersionCommand
      <4>. QED  BY <3>1, <4>1 DEF NoVersionCommand
    <3>4. Plain("Event") \in Packet /\ ~IsAnswer(Plain("Event"))
      BY Messages DEF IsAnswer
    <3>5. NoAnswers => NoAnswers'
      <4>1. CASE s2c' = Append(s2c, Plain("Event"))
        BY <1>3, <3>4, <4>1, Shifts DEF NoAnswers
      <4>. QED  BY <3>1, <4>1 DEF NoAnswers
    <3>. QED  BY <2>1, <2>2, <2>3, <3>2, <3>3, <3>5 DEF Exchanging
  <2>6. CASE QTMGreets
    <3>1. pc = "welcome"
      BY <1>2, <2>6, Zenon DEF QTMGreets, Running, Greeting
    <3>. QED  BY <2>1, <2>2, <3>1 DEF Exchanging
  <2>. QED  BY <1>15, <2>4, <2>5, <2>6 DEF QTMStep
<1>16. CASE UNCHANGED vars
  <2>1. UNCHANGED <<pc, op, i, ver, goal, result, punctual, c2s, s2c>>
    BY <1>16 DEF vars
  <2>2. Alone => Alone'
    BY <1>2, <2>1, AloneKept
  <2>. QED
    BY <1>1, <1>2, <2>1, <2>2
    DEF Punctually, Walked, Exchanging, Reached, GaveUp, NoVersionCommand, NoAnswers
<1>17. CASE ApplicationStep
  <2>1. CASE SetVersion \/ GetState
    BY <1>13, <2>1, Zenon DEF SetVersion, GetState, PrimingState
  <2>2. CASE Disconnect
    BY <1>1, <1>6, <2>2, Zenon DEF Disconnect
  <2>3. CASE CannotSend
    <3>1. punctual' = punctual /\ pc' = "idle" /\ result' # "ErrVersionNotSupported"
      BY <2>3 DEF CannotSend
    <3>. QED  BY <1>1, <1>6, <3>1
  <2>. QED  BY <1>4, <1>5, <1>17, <2>1, <2>2, <2>3 DEF ApplicationStep
<1>18. CASE ConnectStep
  <2>1. ~TryVersionFails /\ ~WelcomeFails
    BY <1>1, Zenon DEF TryVersionFails, WelcomeFails
  <2>2. CASE NotWelcomed
    <3>1. pc' = "idle" /\ result' = "unexpected welcome" /\ punctual
      BY <1>1, <2>2, Zenon DEF NotWelcomed, FailConnect, Return
    <3>. QED  BY <1>6, <3>1
  <2>. QED  BY <1>7, <1>8, <1>9, <1>18, <2>1, <2>2 DEF ConnectStep
<1>19. CASE VersionStep
  <2>1. ~VersionTimeout /\ ~VersionBroken
    BY <1>1, Zenon DEF VersionTimeout, VersionBroken
  <2>2. CASE (VersionAccepted \/ VersionRefused) /\ pc' = "idle"
    <3>1. (result' = "ok" \/ result' = "error") /\ punctual
      BY <1>1, <2>2 DEF VersionAccepted, VersionRefused, VersionFails, Return
    <3>. QED  BY <1>6, <2>2, <3>1
  <2>. QED  BY <1>10, <1>11, <1>12, <1>19, <2>1, <2>2 DEF VersionStep
<1>20. CASE StateStep \/ ClockPasses
  <2>1. CASE pc' = "idle"
    <3>1. /\ result' = "ok" \/ result' = "error" \/ result' = "ErrTimeout"
          /\ punctual
      BY <1>1, <1>20, <2>1
      DEF StateStep, ClockPasses, StateCheck, StateArm, StatePacket, StateNoMoreData,
          StateBroken, StateReturns, Return, PrimingState
    <3>. QED  BY <1>6, <2>1, <3>1
  <2>2. CASE pc' # "idle"
    <3>1. /\ pc \in PrimingState /\ pc' \in PrimingState
          /\ UNCHANGED <<op, i, ver, punctual>>
      BY <1>20, <2>2, Zenon
      DEF StateStep, ClockPasses, StateCheck, StateArm, StatePacket, StateNoMoreData,
          StateBroken, StateReturns, Return, PrimingState
    <3>. QED  BY <1>14, <3>1
  <2>. QED  BY <2>1, <2>2
<1>. QED  BY <1>15, <1>16, <1>17, <1>18, <1>19, <1>20 DEF Next

(* The candidates after the first are the fallbacks, newest first.         *)
LEMMA LadderIsFallback ==
    ASSUME want \in Wanted, negotiate \in BOOLEAN
    PROVE  /\ versionCandidates[1] = want
           /\ \A k \in DOMAIN versionCandidates : k > 1 => versionCandidates[k] \in Fallback
           /\ \A v \in Fallback : \E k \in DOMAIN versionCandidates :
                                     k > 1 /\ versionCandidates[k] = v
           /\ \A k, l \in DOMAIN versionCandidates :
                 1 < k /\ k < l => versionCandidates[k][2] > versionCandidates[l][2]
<1>1. /\ want \in Version /\ LadderLength(want, negotiate) \in Nat \ {0}
      /\ DOMAIN versionCandidates = 1 .. LadderLength(want, negotiate)
  BY Candidates, WantedAssumption
<1>2. \A k \in DOMAIN versionCandidates : versionCandidates[k] = Candidate(want, k)
  BY <1>1 DEF versionCandidates
<1>3. versionCandidates[1] = want
  BY <1>1, <1>2 DEF Candidate
<1>4. CASE ~negotiate
  <2>1. DOMAIN versionCandidates = 1 .. 1 /\ Fallback = {}
    BY <1>1, <1>4 DEF LadderLength, Fallback
  <2>. QED  BY <1>3, <2>1
<1>5. CASE negotiate
  <2>. DEFINE L == LadderLength(want, TRUE)
  <2>1. DOMAIN versionCandidates = 1 .. L /\ L \in Nat \ {0}
    BY <1>1, <1>5
  <2>2. /\ \A m \in Nat :
              (\E k \in 2 .. L : Candidate(want, k) = <<DefaultMajorVersion, m>>)
              <=>
              /\ m \in MinSupportedMinorVersion .. DefaultMinorVersion
              /\ ~(want[1] = DefaultMajorVersion /\ m >= want[2])
        /\ \A k, l \in 2 .. L : k < l => Candidate(want, k)[2] > Candidate(want, l)[2]
    BY <1>1, LadderComplete
  <2>. HIDE DEF L
  <2>3. ASSUME NEW k \in 2 .. L
        PROVE  \E m \in Nat : Candidate(want, k) = <<DefaultMajorVersion, m>>
    <3>1. k \in 1 .. L /\ k > 1
      BY <2>1
    <3>2. /\ NewestFallback(want) + 2 - k \in MinSupportedMinorVersion .. NewestFallback(want)
          /\ NewestFallback(want) \in Int
      BY <1>1, <3>1, LadderShape DEF L
    <3>3. NewestFallback(want) + 2 - k \in Nat
      BY <3>2, VersionAssumption
    <3>4. Candidate(want, k) = <<DefaultMajorVersion, NewestFallback(want) + 2 - k>>
      BY <3>1 DEF Candidate
    <3>. QED  BY <3>3, <3>4
  <2>4. ASSUME NEW k \in 2 .. L PROVE Candidate(want, k) \in Fallback
    <3>1. PICK m \in Nat : Candidate(want, k) = <<DefaultMajorVersion, m>>
      BY <2>3
    <3>2. /\ m \in MinSupportedMinorVersion .. DefaultMinorVersion
          /\ ~(want[1] = DefaultMajorVersion /\ m >= want[2])
      BY <2>2, <3>1
    <3>. QED  BY <1>5, <3>1, <3>2 DEF Fallback
  <2>5. ASSUME NEW v \in Fallback PROVE \E k \in 2 .. L : Candidate(want, k) = v
    <3>1. PICK m \in MinSupportedMinorVersion .. DefaultMinorVersion :
              v = <<DefaultMajorVersion, m>>
      BY DEF Fallback
    <3>2. ~(want[1] = DefaultMajorVersion /\ m >= want[2]) /\ m \in Nat
      BY <3>1, VersionAssumption DEF Fallback
    <3>. QED  BY <2>2, <3>1, <3>2
  <2>6. \A k \in DOMAIN versionCandidates : k > 1 <=> k \in 2 .. L
    BY <2>1
  <2>7. \A k \in 2 .. L : k \in DOMAIN versionCandidates
    BY <2>1
  <2>8. \A k, l \in DOMAIN versionCandidates : 1 < k /\ k < l => l \in 2 .. L /\ k \in 2 .. L
    BY <2>1
  <2>. QED  BY <1>2, <1>3, <2>2, <2>4, <2>5, <2>6, <2>7, <2>8
<1>. QED  BY <1>4, <1>5 DEF Fallback

(* While Connect primes the state, i is the candidate that was accepted.   *)
InLadder == (op = "Connect" /\ pc \in PrimingState) => i \in DOMAIN versionCandidates

LEMMA InLadderSteps == IInv /\ InLadder /\ [Next]_vars => InLadder'
<1>. SUFFICES ASSUME IInv, InLadder, [Next]_vars PROVE InLadder'
  OBVIOUS
<1>1. versionCandidates' = versionCandidates
  BY ConfigSteps
<1>2. CASE VersionAccepted
  <2>1. pc = "version" /\ i' = i /\ (op' = op \/ op' = "none")
    BY <1>2 DEF VersionAccepted, Return
  <2>2. op = "Connect" => i \in DOMAIN versionCandidates
    BY <2>1 DEF IInv, Laddered
  <2>. QED  BY <1>1, <2>1, <2>2 DEF InLadder
<1>3. CASE StateStep \/ ClockPasses
  <2>1. pc \in PrimingState /\ i' = i /\ (op' = op \/ op' = "none")
    BY <1>3 DEF StateStep, StateCheck, StateArm, StatePacket, StateNoMoreData, StateBroken,
                ClockPasses, StateReturns, Return, PrimingState
  <2>. QED  BY <1>1, <2>1 DEF InLadder
<1>4. CASE QTMStep \/ UNCHANGED vars
  <2>1. UNCHANGED <<op, pc, i>>
    BY <1>4 DEF QTMStep, QTMGreets, QTMSetsVersion, QTMRejectsVersion, QTMSendsState,
                QTMPushesEvent, QTMCloses, vars
  <2>. QED  BY <1>1, <2>1 DEF InLadder
<1>5. CASE ApplicationStep
  <2>1. op' # "Connect" \/ pc' = "welcome"
    BY <1>5 DEF ApplicationStep, Dial, DialFails, SetVersion, GetState, CannotSend, Disconnect,
                FailConnect, Return, IInv, Running
  <2>. QED  BY <2>1 DEF InLadder, PrimingState
<1>6. CASE ConnectStep \/ SkipEvent \/ VersionRefused \/ VersionTimeout \/ VersionBroken
  <2>1. pc' \in {"idle", "try", "version"}
    BY <1>6 DEF ConnectStep, Welcomed, NotWelcomed, WelcomeFails, TryVersion, TryVersionFails,
                LadderExhausted, FailConnect, Return, SkipEvent, VersionRefused, VersionTimeout,
                VersionBroken, VersionFails
  <2>. QED  BY <2>1 DEF InLadder, PrimingState
<1>. QED  BY <1>2, <1>3, <1>4, <1>5, <1>6 DEF Next, VersionStep

(* When every reply came in time, Connect settles on the version asked for *)
(* or on the newest fallback that QTM accepts, and gives up only when it   *)
(* accepts none, whatever the ladder and whatever else QTM sends.          *)
THEOREM FirstIsTaken == Spec => []FirstAccepted
<1>1. Init => Punctually /\ InLadder
  BY DEF Init, Punctually, Walked, Exchanging, Reached, GaveUp, PrimingState, InLadder
<1>2. IInv /\ Punctually /\ InLadder => FirstAccepted
  <2>. SUFFICES ASSUME IInv, Punctually, InLadder, punctual PROVE FirstAccepted
    BY DEF FirstAccepted
  <2>1. want \in Wanted /\ negotiate \in BOOLEAN
    BY DEF IInv, TypeOK, FlagsTyped
  <2>2. /\ LadderLength(want, negotiate) \in Nat \ {0}
        /\ DOMAIN versionCandidates = 1 .. LadderLength(want, negotiate)
    BY <2>1, Candidates
  <2>3. ASSUME op = "Connect", pc \in PrimingState, ver # want
        PROVE  /\ want \notin accepts
               /\ ver \in Fallback
               /\ \A v \in Fallback \cap accepts : v[2] <= ver[2]
    <3>1. /\ i \in DOMAIN versionCandidates /\ ver = versionCandidates[i]
          /\ \A k \in 1 .. i - 1 : Refused(k)
      <4>1. pc # "idle"
        BY <2>3 DEF PrimingState
      <4>. QED  BY <2>3, <4>1 DEF Punctually, Walked, Reached, InLadder
    <3>2. i # 1 /\ i > 1 /\ i \in Nat
      BY <2>1, <2>2, <2>3, <3>1, LadderIsFallback
    <3>3. want \notin accepts
      <4>1. Refused(1)
        BY <3>1, <3>2
      <4>. QED  BY <2>1, <4>1, LadderIsFallback DEF Refused
    <3>4. ver \in Fallback
      BY <2>1, <3>1, <3>2, LadderIsFallback
    <3>5. ASSUME NEW v \in Fallback \cap accepts PROVE v[2] <= ver[2]
      <4>1. PICK k \in DOMAIN versionCandidates : k > 1 /\ versionCandidates[k] = v
        BY <2>1, LadderIsFallback
      <4>2. k \in Nat /\ ~(k \in 1 .. i - 1)
        BY <2>2, <3>1, <4>1 DEF Refused
      <4>3. k = i \/ i < k
        BY <2>2, <3>2, <4>1, <4>2
      <4>4. v[2] \in Int /\ ver[2] \in Int
        BY <3>4, VersionAssumption DEF Fallback
      <4>5. CASE k = i
        BY <3>1, <4>1, <4>4, <4>5
      <4>6. CASE i < k
        <5>1. versionCandidates[i][2] > versionCandidates[k][2]
          BY <2>1, <3>1, <3>2, <4>1, <4>6, LadderIsFallback
        <5>. QED  BY <3>1, <4>1, <4>4, <5>1
      <4>. QED  BY <4>3, <4>5, <4>6
    <3>. QED  BY <3>3, <3>4, <3>5
  <2>4. ASSUME pc = "idle", result = "ErrVersionNotSupported"
        PROVE  accepts \cap ({want} \cup Fallback) = {}
    <3>1. \A k \in DOMAIN versionCandidates : versionCandidates[k] \notin accepts
      BY <2>4 DEF Punctually, GaveUp, Refused
    <3>2. 1 \in DOMAIN versionCandidates
      BY <2>2
    <3>3. want \notin accepts
      BY <2>1, <3>1, <3>2, LadderIsFallback
    <3>4. \A v \in Fallback : v \notin accepts
      BY <2>1, <3>1, LadderIsFallback
    <3>. QED  BY <3>3, <3>4
  <2>. QED  BY <2>3, <2>4 DEF FirstAccepted
<1>3. IInv /\ Punctually /\ InLadder /\ [Next]_vars => (Punctually /\ InLadder)'
  BY PunctualSteps, InLadderSteps
<1>. QED  BY Invariance, <1>1, <1>2, <1>3, PTL DEF Spec

-----------------------------------------------------------------------------
(* The refinement of Connection.  The calls that are seen to be under way  *)
(* are those of the loops.                                                 *)
Doing ==
    /\ op = "SetVersion" => pc = "version"
    /\ op = "GetState" => pc \in PrimingState

LEMMA DoingSteps == Running /\ Doing /\ [Next]_vars => Doing'
<1>. SUFFICES ASSUME Running, Doing, [Next]_vars PROVE Doing'
  OBVIOUS
<1>. USE DEF Doing, Return, Hangup, FailConnect, VersionFails, StateReturns, PrimingState
<1>1. CASE ApplicationStep
  BY <1>1 DEF ApplicationStep, Dial, DialFails, SetVersion, GetState, CannotSend, Disconnect, Running
<1>2. CASE ConnectStep
  BY <1>2 DEF ConnectStep, Welcomed, NotWelcomed, WelcomeFails, TryVersion,
              TryVersionFails, LadderExhausted, Running
<1>3. CASE VersionStep
  BY <1>3 DEF VersionStep, SkipEvent, VersionAccepted, VersionRefused, VersionTimeout,
              VersionBroken, clientVars, Running
<1>4. CASE StateStep
  BY <1>4 DEF StateStep, StateCheck, StateArm, StatePacket, StateNoMoreData, StateBroken
<1>5. CASE ClockPasses \/ QTMStep \/ UNCHANGED vars
  BY <1>5 DEF ClockPasses, QTMStep, QTMGreets, QTMSetsVersion, QTMRejectsVersion,
              QTMSendsState, QTMPushesEvent, QTMCloses, vars, clientVars
<1>. QED  BY <1>1, <1>2, <1>3, <1>4, <1>5 DEF Next

(* What an application sees, before and after a step.                      *)
LEMMA Views ==
    /\ op = "Connect" => Phase = "connecting"
    /\ op # "Connect" /\ ~conn => Phase = "closed"
    /\ op = "SetVersion" /\ conn => Phase = "changing"
    /\ op \notin {"Connect", "SetVersion"} /\ conn => Phase = "open"
    /\ \A v : op = "Connect" => Shown(v) = NoVersion
    /\ \A v : op # "Connect" => Shown(v) = v
  BY DEF Phase, Shown

LEMMA ViewsAfter ==
    /\ op' = "Connect" => Phase' = "connecting"
    /\ op' # "Connect" /\ ~conn' => Phase' = "closed"
    /\ op' = "SetVersion" /\ conn' => Phase' = "changing"
    /\ op' \notin {"Connect", "SetVersion"} /\ conn' => Phase' = "open"
    /\ op' = "Connect" => Shown(ver)' = NoVersion /\ Shown(srvVer)' = NoVersion
    /\ op' # "Connect" => Shown(ver)' = ver' /\ Shown(srvVer)' = srvVer'
  BY DEF Phase, Shown

(* Steps that the application does not see: none of what it sees changes,  *)
(* or Connect is running and stays so.                                     *)
LEMMA Unseen ==
    ASSUME UNCHANGED <<accepts, conn, op, ver, srvVer, doubt, result>>
    PROVE  UNCHANGED Promised!vars
  BY DEF Promised!vars, Phase, Shown

LEMMA Hidden ==
    ASSUME op = "Connect", op' = "Connect", UNCHANGED <<accepts, doubt, result>>
    PROVE  UNCHANGED Promised!vars
  BY Views, ViewsAfter DEF Promised!vars

(* An agreement is what the calls end with that QTM answered.              *)
LEMMA Agreed ==
    ASSUME Agreeing, conn, ~doubt, pc \in {"idle"} \cup PrimingState
    PROVE  srvVer = ver /\ ver \in accepts
  BY DEF Agreeing, Settled

LEMMA AgreedAfter ==
    ASSUME Agreeing', conn', ~doubt', pc' = "idle"
    PROVE  srvVer' = ver' /\ ver' \in accepts'
  BY DEF Agreeing, Settled

LEMMA ConnectPromised ==
    ASSUME op = "Connect", op' = "none", conn', ~doubt, doubt' = doubt, accepts' = accepts,
           srvVer' = ver', ver' \in accepts', result' = "ok"
    PROVE  Promised!Connected
<1>1. Phase = "connecting" /\ Phase' = "open"
  BY Views, ViewsAfter
<1>2. Shown(ver)' = ver' /\ Shown(srvVer)' = srvVer'
  BY ViewsAfter
<1>. QED  BY <1>1, <1>2 DEF Promised!Connected

LEMMA ClosedPromised ==
    ASSUME op' = "none", ~conn', ver' = NoVersion, srvVer' = NoVersion, doubt' = FALSE,
           accepts' = accepts
    PROVE  /\ Phase' = "closed" /\ Promised!Forget
           /\ (Phase # "changing" /\ result' # "ok") => Promised!ConnectFails
<1>1. Phase' = "closed" /\ Shown(ver)' = NoVersion /\ Shown(srvVer)' = NoVersion
  BY ViewsAfter
<1>2. Promised!Forget
  BY <1>1 DEF Promised!Forget
<1>. QED  BY <1>1, <1>2 DEF Promised!ConnectFails

(* The calls of the application, and Disconnect.                           *)
LEMMA ApplicationPromised ==
    ASSUME IInv, ApplicationStep
    PROVE  Promised!Next \/ UNCHANGED Promised!vars
<1>. USE DEF Promised!Next
<1>0. pc = "idle" /\ op = "none"
  BY DEF ApplicationStep, Dial, DialFails, SetVersion, GetState, CannotSend, Disconnect, IInv, Running
<1>1. CASE Dial
  <2>1. /\ op' = "Connect" /\ doubt' = FALSE /\ accepts' = accepts /\ result' = result
    BY <1>1 DEF Dial, config
  <2>2. /\ Phase \in {"closed", "open"} /\ Phase' = "connecting"
        /\ Shown(ver)' = NoVersion /\ Shown(srvVer)' = NoVersion
    BY <1>0, <2>1, Views, ViewsAfter
  <2>3. Promised!Connect
    BY <2>1, <2>2 DEF Promised!Connect, Promised!Forget
  <2>. QED  BY <2>3
<1>2. CASE DialFails
  <2>1. /\ op' = "none" /\ ~conn' /\ ver' = NoVersion /\ srvVer' = NoVersion /\ doubt' = FALSE
        /\ accepts' = accepts /\ result' = "dial"
    BY <1>2 DEF DialFails, FailConnect, Hangup, Return, config
  <2>2. Phase # "changing"
    BY <1>0 DEF Phase
  <2>. QED  BY <2>1, <2>2, ClosedPromised
<1>3. CASE SetVersion
  <2>1. /\ conn /\ conn' = conn /\ op' = "SetVersion"
        /\ UNCHANGED <<accepts, ver, srvVer, doubt, result>>
    BY <1>3 DEF SetVersion, config, qtmVars, ghostVars
  <2>2. /\ Phase = "open" /\ Phase' = "changing"
        /\ Shown(ver)' = Shown(ver) /\ Shown(srvVer)' = Shown(srvVer)
    BY <1>0, <2>1, Views, ViewsAfter
  <2>3. Promised!SetVersion
    BY <2>1, <2>2 DEF Promised!SetVersion
  <2>. QED  BY <2>3
<1>4. CASE GetState
  <2>1. /\ op' = "GetState" /\ UNCHANGED <<accepts, conn, ver, srvVer, doubt, result>>
    BY <1>4 DEF GetState, config, qtmVars, ghostVars
  <2>2. Phase' = Phase /\ Shown(ver)' = Shown(ver) /\ Shown(srvVer)' = Shown(srvVer)
    BY <1>0, <2>1 DEF Phase, Shown
  <2>. QED  BY <2>1, <2>2 DEF Promised!vars
<1>5. CASE Disconnect
  <2>1. /\ conn /\ op' = "none" /\ ~conn' /\ ver' = NoVersion /\ srvVer' = NoVersion
        /\ doubt' = FALSE /\ accepts' = accepts /\ result' = result
    BY <1>0, <1>5 DEF Disconnect, Hangup, config
  <2>2. Phase = "open" /\ Phase' = "closed" /\ Promised!Forget
    BY <1>0, <2>1, Views, ClosedPromised
  <2>3. Promised!Disconnect
    BY <2>1, <2>2 DEF Promised!Disconnect
  <2>. QED  BY <2>3
<1>6. CASE CannotSend
  <2>1. result' = "error" /\ UNCHANGED <<accepts, conn, ver, op, srvVer, doubt>>
    BY <1>6 DEF CannotSend
  <2>2. /\ Phase \in {"closed", "open"} /\ Phase' = Phase
        /\ Shown(ver)' = Shown(ver) /\ Shown(srvVer)' = Shown(srvVer)
    BY <1>0, <2>1 DEF Phase, Shown
  <2>3. Promised!CannotSend
    BY <2>1, <2>2 DEF Promised!CannotSend
  <2>. QED  BY <2>3
<1>. QED  BY <1>1, <1>2, <1>3, <1>4, <1>5, <1>6 DEF ApplicationStep

(* What Connect does until it returns.                                     *)
LEMMA ConnectStepPromised ==
    ASSUME IInv, ConnectStep
    PROVE  Promised!Next \/ UNCHANGED Promised!vars
<1>0. op = "Connect" /\ Phase = "connecting"
  <2>1. pc \in {"welcome", "try"}
    BY DEF ConnectStep, Welcomed, NotWelcomed, WelcomeFails, TryVersion, TryVersionFails,
           LadderExhausted
  <2>. QED  BY <2>1, Views DEF IInv, Running
<1>1. CASE Welcomed \/ TryVersion \/ TryVersionFails
  <2>1. op' = "Connect" /\ UNCHANGED <<accepts, doubt, result>>
    BY <1>0, <1>1 DEF Welcomed, TryVersion, TryVersionFails, config, ghostVars
  <2>. QED  BY <1>0, <2>1, Hidden
<1>2. CASE NotWelcomed \/ WelcomeFails \/ LadderExhausted
  <2>1. /\ op' = "none" /\ ~conn' /\ ver' = NoVersion /\ srvVer' = NoVersion /\ doubt' = FALSE
        /\ accepts' = accepts
    BY <1>2 DEF NotWelcomed, WelcomeFails, LadderExhausted, FailConnect, Hangup, Return, config
  <2>2. result' # "ok"
    BY <1>2 DEF NotWelcomed, WelcomeFails, LadderExhausted, FailConnect, Return
  <2>3. Promised!ConnectFails
    BY <1>0, <2>1, <2>2, ClosedPromised
  <2>. QED  BY <2>3 DEF Promised!Next
<1>. QED  BY <1>1, <1>2 DEF ConnectStep

(* The wait for the answer to SetVersion.                                  *)
LEMMA VersionStepPromised ==
    ASSUME IInv, IInv', VersionStep
    PROVE  Promised!Next \/ UNCHANGED Promised!vars
<1>. USE DEF Promised!Next
<1>0. /\ pc = "version" /\ conn /\ doubt \in BOOLEAN /\ goal \in Version
      /\ op \in {"Connect", "SetVersion"} /\ (op = "Connect" => ~doubt)
      /\ Agreeing'
  <2>1. pc = "version"
    BY DEF VersionStep, SkipEvent, VersionAccepted, VersionRefused, VersionTimeout, VersionBroken
  <2>. QED  BY <2>1 DEF IInv, Running, TypeOK, FlagsTyped
<1>1. UNCHANGED <<accepts, conn, srvVer>>
  BY DEF VersionStep, SkipEvent, VersionAccepted, VersionRefused, VersionTimeout, VersionBroken,
         config, clientVars, qtmVars
<1>2. CASE SkipEvent
  BY <1>1, <1>2, Unseen DEF SkipEvent, clientVars, ghostVars
<1>3. CASE VersionAccepted
  <2>1. ver' = goal /\ doubt' = doubt
    BY <1>3 DEF VersionAccepted
  <2>2. CASE op = "Connect" /\ pc' = "state.check" /\ UNCHANGED <<op, result>>
    BY <1>1, <2>1, <2>2, Hidden
  <2>3. CASE op = "Connect" /\ Return("ok")
    <3>1. op' = "none" /\ pc' = "idle" /\ result' = "ok"
      BY <2>3 DEF Return
    <3>2. srvVer' = ver' /\ ver' \in accepts'
      BY <1>0, <1>1, <2>1, <2>3, <3>1, AgreedAfter
    <3>. QED  BY <1>0, <1>1, <2>1, <2>3, <3>1, <3>2, ConnectPromised
  <2>4. CASE op = "SetVersion" /\ Return("ok")
    <3>1. op' = "none" /\ pc' = "idle" /\ result' = "ok"
      BY <2>4 DEF Return
    <3>2. ~doubt => srvVer' = ver' /\ ver' \in accepts'
      BY <1>0, <1>1, <2>1, <3>1, AgreedAfter
    <3>3. /\ Phase = "changing" /\ Phase' = "open"
          /\ Shown(srvVer) = srvVer /\ Shown(ver)' = ver' /\ Shown(srvVer)' = srvVer'
      BY <1>0, <1>1, <2>4, <3>1, Views, ViewsAfter
    <3>4. Promised!VersionSet
      BY <1>0, <1>1, <2>1, <3>1, <3>2, <3>3 DEF Promised!VersionSet, Promised!Answered
    <3>. QED  BY <3>4
  <2>. QED  BY <1>3, <2>2, <2>3, <2>4 DEF VersionAccepted
<1>4. CASE VersionRefused \/ VersionTimeout \/ VersionBroken
  <2>1. /\ ver' = ver
        /\ VersionRefused => doubt' = doubt
        /\ VersionTimeout \/ VersionBroken => doubt' = (doubt \/ op = "SetVersion")
    BY <1>4, Zenon DEF VersionRefused, VersionTimeout, VersionBroken, ghostVars
  <2>2. CASE op = "Connect"
    <3>1. op' = "Connect" /\ result' = result
      BY <1>4, <2>2 DEF VersionRefused, VersionTimeout, VersionBroken, VersionFails
    <3>2. doubt' = doubt
      BY <1>0, <1>4, <2>1, <2>2
    <3>. QED  BY <1>1, <2>2, <3>1, <3>2, Hidden
  <2>3. CASE op = "SetVersion"
    <3>1. op' = "none" /\ pc' = "idle" /\ result' # "ok"
      BY <1>4, <2>3 DEF VersionRefused, VersionTimeout, VersionBroken, VersionFails, Return
    <3>2. /\ Phase = "changing" /\ Phase' = "open"
          /\ Shown(ver) = ver /\ Shown(srvVer) = srvVer
          /\ Shown(ver)' = ver' /\ Shown(srvVer)' = srvVer'
      BY <1>0, <1>1, <2>3, <3>1, Views, ViewsAfter
    <3>3. CASE VersionRefused
      <4>1. ~doubt => srvVer' = ver'
        BY <1>0, <1>1, <2>1, <3>1, <3>3, AgreedAfter
      <4>2. Promised!VersionRefused
        BY <1>1, <2>1, <3>1, <3>2, <3>3, <4>1 DEF Promised!VersionRefused, Promised!Answered
      <4>. QED  BY <4>2
    <3>4. CASE VersionTimeout \/ VersionBroken
      <4>1. doubt' = TRUE
        BY <2>1, <2>3, <3>4
      <4>2. Promised!VersionUnanswered
        BY <1>1, <2>1, <3>1, <3>2, <4>1 DEF Promised!VersionUnanswered
      <4>. QED  BY <4>2
    <3>. QED  BY <1>4, <3>3, <3>4
  <2>. QED  BY <1>0, <2>2, <2>3
<1>. QED  BY <1>2, <1>3, <1>4 DEF VersionStep

(* GetState, of Connect or of the application.                             *)
LEMMA StateStepPromised ==
    ASSUME IInv, Doing, StateStep \/ ClockPasses
    PROVE  Promised!Next \/ UNCHANGED Promised!vars
<1>0. /\ pc \in PrimingState /\ conn /\ (op = "Connect" => ~doubt) /\ Agreeing
      /\ op # "SetVersion"
  <2>1. pc \in PrimingState /\ pc \notin {"idle", "version"}
    BY DEF StateStep, StateCheck, StateArm, StatePacket, StateNoMoreData, StateBroken,
           ClockPasses, PrimingState
  <2>. QED  BY <2>1 DEF IInv, Running, Doing
<1>1. UNCHANGED <<accepts, conn, ver, srvVer, doubt>>
  BY DEF StateStep, StateCheck, StateArm, StatePacket, StateNoMoreData, StateBroken, ClockPasses,
         config, qtmVars, ghostVars
<1>2. CASE UNCHANGED <<op, result>>
  BY <1>1, <1>2, Unseen
<1>3. CASE op = "Connect" /\ op' = "none" /\ result' = "ok"
  <2>1. srvVer' = ver' /\ ver' \in accepts'
    BY <1>0, <1>1, <1>3, Agreed
  <2>2. Promised!Connected
    BY <1>0, <1>1, <1>3, <2>1, ConnectPromised
  <2>. QED  BY <2>2 DEF Promised!Next
<1>4. CASE op # "Connect" /\ op' = "none"
  <2>1. /\ Phase = "open" /\ Phase' = "open"
        /\ Shown(ver)' = Shown(ver) /\ Shown(srvVer)' = Shown(srvVer)
    BY <1>0, <1>1, <1>4 DEF Phase, Shown, Running, TypeOK, IInv
  <2>2. Promised!GetState
    BY <1>1, <2>1 DEF Promised!GetState
  <2>. QED  BY <2>2 DEF Promised!Next
<1>. QED
  BY <1>2, <1>3, <1>4
  DEF StateStep, StateCheck, StateArm, StatePacket, StateNoMoreData, StateBroken, ClockPasses,
      StateReturns, Return

(* QTM.  Outside a SetVersion it changes its version only when in doubt.   *)
LEMMA QTMStepPromised ==
    ASSUME IInv, QTMStep
    PROVE  Promised!Next \/ UNCHANGED Promised!vars
<1>1. CASE QTMSetsVersion
  <2>1. /\ up /\ c2s # <<>> /\ Head(c2s).kind = "Version" /\ srvVer' \in accepts
        /\ UNCHANGED <<accepts, conn, ver, pc, op, result, doubt>>
    BY <1>1 DEF QTMSetsVersion, config, clientVars, ghostVars
  <2>2. CASE op = "Connect"
    BY <2>1, <2>2, Hidden
  <2>3. CASE op # "Connect"
    <3>1. conn /\ pc \in {"idle", "version"} \cup PrimingState
      BY <2>1, <2>3 DEF IInv, TypeOK, Running
    <3>2. op = "SetVersion" \/ doubt
      <4>1. SUFFICES ASSUME op # "SetVersion", ~doubt PROVE FALSE
        OBVIOUS
      <4>2. pc \in {"idle"} \cup PrimingState
        BY <2>3, <3>1, <4>1 DEF IInv, Running
      <4>3. NoVersionCommand
        BY <3>1, <4>1, <4>2 DEF IInv, Agreeing, Settled
      <4>4. 1 \in DOMAIN c2s /\ Head(c2s) = c2s[1]
        BY <2>1, TailIndices DEF IInv, TypeOK
      <4>. QED  BY <2>1, <4>3, <4>4 DEF NoVersionCommand
    <3>3. /\ Phase = "changing" \/ (Phase = "open" /\ doubt)
          /\ Phase' = Phase /\ Shown(ver)' = Shown(ver) /\ Shown(srvVer)' = srvVer'
      BY <2>1, <2>3, <3>1, <3>2 DEF Phase, Shown
    <3>4. Promised!QTMObeys
      BY <2>1, <3>3 DEF Promised!QTMObeys
    <3>. QED  BY <3>4 DEF Promised!Next
  <2>. QED  BY <2>2, <2>3
<1>2. CASE QTMGreets \/ QTMRejectsVersion \/ QTMSendsState \/ QTMPushesEvent \/ QTMCloses
  BY <1>2, Unseen DEF QTMGreets, QTMRejectsVersion, QTMSendsState, QTMPushesEvent, QTMCloses,
                      config, clientVars, qtmVars, ghostVars
<1>. QED  BY <1>1, <1>2 DEF QTMStep

(* What Connect, SetVersion and Disconnect promise is kept, whatever is    *)
(* late, lost or interleaved: each step is one of Connection, or hidden.   *)
THEOREM KeepsPromise == Spec => ConnectionSpec
<1>1. Init => Promised!Init
  <2>. SUFFICES ASSUME Init PROVE Promised!Init
    OBVIOUS
  <2>1. /\ op = "none" /\ ~conn /\ ver = NoVersion /\ srvVer = NoVersion
        /\ doubt = FALSE /\ result = "ok" /\ accepts \subseteq Offered
    BY DEF Init
  <2>2. Phase = "closed" /\ Shown(ver) = NoVersion /\ Shown(srvVer) = NoVersion
    BY <2>1 DEF Phase, Shown
  <2>. QED  BY <2>1, <2>2, OfferedAssumption DEF Promised!Init
<1>2. Init => Doing
  BY DEF Init, Doing
<1>3. IInv => Running
  BY DEF IInv
<1>4. IInv /\ IInv' /\ Doing /\ [Next]_vars => [Promised!Next]_(Promised!vars)
  <2>. SUFFICES ASSUME IInv, IInv', Doing, [Next]_vars
                PROVE  Promised!Next \/ UNCHANGED Promised!vars
    OBVIOUS
  <2>1. CASE UNCHANGED vars
    BY <2>1, Unseen DEF vars, config, clientVars, qtmVars, ghostVars
  <2>2. CASE Next
    BY <2>2, ApplicationPromised, ConnectStepPromised, VersionStepPromised, StateStepPromised,
       QTMStepPromised DEF Next
  <2>. QED  BY <2>1, <2>2
<1>. QED  BY Invariance, DoingSteps, <1>1, <1>2, <1>3, <1>4, PTL
          DEF Spec, ConnectionSpec, Promised!Spec

=============================================================================
