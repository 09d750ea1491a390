----------------------------- MODULE Discovery_proof -----------------------------
(***************************************************************************)
(* The safety properties of Discovery, for any networks, hosts, machine    *)
(* and number of calls.                                                    *)
(***************************************************************************)
EXTENDS Discovery, TLAPS

(* Every action, with the definitions it is made of.                       *)
LEMMA Steps ==
    ASSUME [Next]_vars
    PROVE  \/ Discover \/ InterfacesFail \/ SkipInterface \/ TakeInterface \/ TakeAddress
           \/ Listen \/ ListenFails \/ Broadcast \/ WriteFails \/ Arm \/ ArmFails
           \/ StartRead \/ ReadTimeout \/ ReadFails \/ ReadReply \/ ReadMalformed
           \/ ClockPasses \/ HostReplies \/ UNCHANGED vars
  BY DEF Next, DiscoverStep

-----------------------------------------------------------------------------
(* Types.                                                                  *)

LEMMA CallsType == MaxCalls \in Nat
  BY DiscoveryAssumption DEF DiscoveryAssumption

LEMMA CamerasType == \A h \in Host : CamerasOf[h] \subseteq Int \cup {Unreadable}
<1>1. CamerasOf \in [Host -> SUBSET (Int \cup {Unreadable})]
  BY DiscoveryAssumption DEF DiscoveryAssumption
<1> QED  BY <1>1

LEMMA TypeInit == Init => TypeOK
<1> SUFFICES ASSUME Init PROVE TypeOK
  OBVIOUS
<1>1. CollectTypeOK
  <2>1. left \in Seq(Interface)
    BY DEF Init
  <2>2. addrs \in Seq(InterfaceAddress)
    BY DEF Init
  <2>3. ips \in Seq(Net)
    BY DEF Init
  <2> QED  BY <2>1, <2>2, <2>3 DEF Init, CollectTypeOK
<1>2. CallTypeOK
  <2>1. calls \in 0 .. MaxCalls
    BY CallsType DEF Init
  <2> QED  BY <2>1 DEF Init, CallTypeOK
<1>3. GatherTypeOK
  BY DEF Init, GatherTypeOK
<1> QED  BY <1>1, <1>2, <1>3 DEF TypeOK

LEMMA CollectKept == CollectTypeOK /\ UNCHANGED <<machine, left, addrs, ips>> => CollectTypeOK'
  BY DEF CollectTypeOK

LEMMA GatherKept == GatherTypeOK /\ UNCHANGED <<asked, begun, inbox, heard, responses>> => GatherTypeOK'
  BY DEF GatherTypeOK

(* What decodes a reply returns a response.                                *)
LEMMA UnmarshalType ==
    ASSUME NEW from \in Address, NEW d \in Reply
    PROVE  Unmarshal(Fresh(from), d) \in Response
<1>1. Fresh(from) \in Response /\ Fresh(from).Cameras = 0
  BY DEF Fresh, Response
<1>2. d.name \in Host /\ d.cameras \in Int \cup {Unreadable}
  BY DEF Reply
<1>3. CASE d.cameras = Unreadable
  BY <1>1, <1>2, <1>3 DEF Unmarshal, Response
<1>4. CASE d.cameras # Unreadable
  BY <1>1, <1>2, <1>4 DEF Unmarshal, Response
<1> QED  BY <1>3, <1>4

(* A reply reaches the socket.                                             *)
Arrives(d) ==
    /\ d.from[2] \in asked \cap Reaches[d.from[1]]
    /\ d.name = d.from[1]
    /\ d.cameras \in CamerasOf[d.from[1]]
    /\ inbox' = Append(inbox, d)
    /\ heard' = IF d.body = "info" THEN heard \cup {d} ELSE heard

LEMMA ReplyArrives == ASSUME GatherTypeOK, HostReplies PROVE \E d \in Reply : Arrives(d)
<1> DEFINE D(h, n, body, cameras) ==
               [from |-> <<h, n>>, body |-> body, name |-> h, cameras |-> cameras]
<1>1. PICK h \in Host, n \in asked, body \in Body :
          /\ n \in Reaches[h]
          /\ \E cameras \in CamerasOf[h] :
                /\ inbox' = Append(inbox, D(h, n, body, cameras))
                /\ heard' = IF body = "info" THEN heard \cup {D(h, n, body, cameras)} ELSE heard
  BY DEF HostReplies
<1>2. PICK cameras \in CamerasOf[h] :
          /\ inbox' = Append(inbox, D(h, n, body, cameras))
          /\ heard' = IF body = "info" THEN heard \cup {D(h, n, body, cameras)} ELSE heard
  BY <1>1
<1>3. n \in Net /\ cameras \in Int \cup {Unreadable}
  BY CamerasType DEF GatherTypeOK
<1>4. D(h, n, body, cameras) \in Reply
  BY <1>3 DEF Reply, Address
<1>5. Arrives(D(h, n, body, cameras))
  BY <1>1, <1>2 DEF Arrives
<1> QED  BY <1>4, <1>5

LEMMA CallInv == ASSUME CallTypeOK, [Next]_vars PROVE CallTypeOK'
<1> USE DEF CallTypeOK, callVars
<1>1. CASE Discover
  <2>1. calls' \in 0 .. MaxCalls
    BY <1>1, CallsType DEF Discover
  <2> QED  BY <1>1, <2>1 DEF Discover
<1>2. CASE InterfacesFail \/ ListenFails \/ WriteFails \/ ArmFails \/ ReadTimeout \/ ReadFails
  BY <1>2 DEF InterfacesFail, ListenFails, WriteFails, ArmFails, ReadTimeout, ReadFails, Return
<1>3. CASE SkipInterface \/ TakeInterface \/ TakeAddress \/ Listen \/ Broadcast \/ Arm
  BY <1>3 DEF SkipInterface, TakeInterface, TakeAddress, Listen, Broadcast, Arm
<1>4. CASE StartRead \/ ReadReply \/ ReadMalformed \/ ClockPasses \/ HostReplies \/ UNCHANGED vars
  BY <1>4 DEF StartRead, ReadReply, ReadMalformed, ClockPasses, HostReplies, GoOn, vars
<1> QED  BY <1>1, <1>2, <1>3, <1>4, Steps

LEMMA CollectInv == ASSUME CollectTypeOK, [Next]_vars PROVE CollectTypeOK'
<1> USE DEF callVars, netVars
<1>1. CASE Discover
  <2>1. machine \in Seq(Interface)
    BY MachineAssumption DEF CollectTypeOK
  <2> QED  BY <1>1, <2>1 DEF Discover, CollectTypeOK
<1>2. CASE SkipInterface \/ TakeInterface
  <2>1. left \in Seq(Interface) /\ left # <<>>
    BY <1>2 DEF SkipInterface, TakeInterface, CollectTypeOK
  <2>2. Tail(left) \in Seq(Interface) /\ Head(left) \in Interface
    BY <2>1
  <2>3. Head(left).addrs \in Seq(InterfaceAddress)
    BY <2>2 DEF Interface
  <2> QED  BY <1>2, <2>2, <2>3 DEF SkipInterface, TakeInterface, CollectTypeOK
<1>3. CASE TakeAddress
  <2>1. addrs \in Seq(InterfaceAddress) /\ addrs # <<>> /\ ips \in Seq(Net)
    BY <1>3 DEF TakeAddress, CollectTypeOK
  <2>2. Tail(addrs) \in Seq(InterfaceAddress) /\ Head(addrs).net \in Net
    <3>1. Tail(addrs) \in Seq(InterfaceAddress) /\ Head(addrs) \in InterfaceAddress
      BY <2>1
    <3> QED  BY <3>1 DEF InterfaceAddress
  <2>3. Append(ips, Head(addrs).net) \in Seq(Net)
    BY <2>1, <2>2
  <2> QED  BY <1>3, <2>1, <2>2, <2>3 DEF TakeAddress, CollectTypeOK
<1>4. CASE Broadcast
  <2>1. Tail(ips) \in Seq(Net)
    BY <1>4 DEF Broadcast, CollectTypeOK
  <2> QED  BY <1>4, <2>1 DEF Broadcast, CollectTypeOK
<1>5. CASE InterfacesFail \/ ListenFails \/ WriteFails \/ ArmFails \/ ReadTimeout \/ ReadFails
  BY <1>5, CollectKept
     DEF InterfacesFail, ListenFails, WriteFails, ArmFails, ReadTimeout, ReadFails
<1>6. CASE Listen \/ Arm \/ StartRead \/ ReadReply \/ ReadMalformed \/ ClockPasses \/ HostReplies
           \/ UNCHANGED vars
  BY <1>6, CollectKept
     DEF Listen, Arm, StartRead, ReadReply, ReadMalformed, ClockPasses, HostReplies, vars
<1> QED  BY <1>1, <1>2, <1>3, <1>4, <1>5, <1>6, Steps

LEMMA GatherInv == ASSUME CollectTypeOK, GatherTypeOK, [Next]_vars PROVE GatherTypeOK'
<1> USE DEF callVars, netVars
<1>1. CASE Discover
  BY <1>1 DEF Discover, GatherTypeOK
<1>2. CASE InterfacesFail \/ ListenFails \/ WriteFails \/ ArmFails \/ ReadTimeout
  <2>1. UNCHANGED <<asked, begun, responses, inbox, heard>>
    BY <1>2 DEF InterfacesFail, ListenFails, WriteFails, ArmFails, ReadTimeout
  <2> QED  BY <2>1, GatherKept
<1>3. CASE ReadFails
  BY <1>3 DEF ReadFails, GatherTypeOK
<1>4. CASE Broadcast
  <2>1. Head(ips) \in Net
    BY <1>4 DEF Broadcast, CollectTypeOK
  <2> QED  BY <1>4, <2>1 DEF Broadcast, GatherTypeOK
<1>5. CASE ReadReply
  <2>1. inbox \in Seq(Reply) /\ inbox # <<>>
    BY <1>5 DEF ReadReply, GatherTypeOK
  <2>2. Tail(inbox) \in Seq(Reply) /\ Head(inbox) \in Reply
    BY <2>1
  <2>3. Unmarshal(Fresh(Head(inbox).from), Head(inbox)) \in Response
    BY <2>2, UnmarshalType DEF Reply
  <2>4. responses' \in Seq(Response)
    BY <1>5, <2>3 DEF ReadReply, Gather, GatherTypeOK
  <2> QED  BY <1>5, <2>2, <2>4 DEF ReadReply, GatherTypeOK
<1>6. CASE ReadMalformed
  <2>1. Tail(inbox) \in Seq(Reply)
    BY <1>6 DEF ReadMalformed, GatherTypeOK
  <2> QED  BY <1>6, <2>1 DEF ReadMalformed, GatherTypeOK
<1>7. CASE HostReplies
  <2>1. PICK d \in Reply : Arrives(d)
    BY <1>7, ReplyArrives
  <2>2. inbox' \in Seq(Reply) /\ heard' \subseteq Reply
    BY <2>1 DEF Arrives, GatherTypeOK
  <2> QED  BY <1>7, <2>2 DEF HostReplies, GatherTypeOK
<1>8. CASE SkipInterface \/ TakeInterface \/ TakeAddress \/ Listen \/ Arm \/ StartRead
           \/ ClockPasses \/ UNCHANGED vars
  BY <1>8, GatherKept
     DEF SkipInterface, TakeInterface, TakeAddress, Listen, Arm, StartRead, ClockPasses, vars
<1> QED  BY <1>1, <1>2, <1>3, <1>4, <1>5, <1>6, <1>7, <1>8, Steps

(* The type of every variable, whatever the hosts report (the count that   *)
(* is no number is never stored, discover.go:209-211).                     *)
THEOREM TypeCorrect == Spec => []TypeOK
<1>1. TypeOK /\ [Next]_vars => TypeOK'
  BY CallInv, CollectInv, GatherInv DEF TypeOK
<1> QED  BY TypeInit, <1>1, PTL DEF Spec

-----------------------------------------------------------------------------
(* The socket is open only between Listen and the return.                  *)
OpenInCall == open => pc \in {"send", "wait", "reading"}

(* No call leaves its socket open, whichever step of it failed.            *)
THEOREM ClosesSocket == Spec => []SocketClosed
<1>1. Init => OpenInCall
  BY DEF Init, OpenInCall
<1>2. OpenInCall /\ [Next]_vars => OpenInCall'
  <2> SUFFICES ASSUME OpenInCall, [Next]_vars PROVE OpenInCall'
    OBVIOUS
  <2> USE DEF OpenInCall, callVars
  <2>1. CASE Discover \/ SkipInterface \/ TakeInterface \/ TakeAddress \/ Listen \/ Broadcast \/ Arm
    BY <2>1 DEF Discover, SkipInterface, TakeInterface, TakeAddress, Listen, Broadcast, Arm
  <2>2. CASE InterfacesFail \/ ListenFails \/ WriteFails \/ ArmFails \/ ReadTimeout \/ ReadFails
    BY <2>2 DEF InterfacesFail, ListenFails, WriteFails, ArmFails, ReadTimeout, ReadFails, Return
  <2>3. CASE StartRead \/ ReadReply \/ ReadMalformed \/ ClockPasses \/ HostReplies \/ UNCHANGED vars
    BY <2>3 DEF StartRead, ReadReply, ReadMalformed, ClockPasses, HostReplies, GoOn, vars
  <2> QED  BY <2>1, <2>2, <2>3, Steps
<1>3. OpenInCall => SocketClosed
  BY DEF OpenInCall, SocketClosed
<1> QED  BY <1>1, <1>2, <1>3, PTL DEF Spec

(* Responses change only when a reply is read, or are dropped.             *)
LEMMA OnlyReadReply == ASSUME [Next]_vars PROVE responses' \in {responses, <<>>} \/ ReadReply
<1> USE DEF callVars, netVars
<1>1. CASE Discover \/ SkipInterface \/ TakeInterface \/ TakeAddress \/ Listen \/ Broadcast \/ Arm
  BY <1>1 DEF Discover, SkipInterface, TakeInterface, TakeAddress, Listen, Broadcast, Arm
<1>2. CASE InterfacesFail \/ ListenFails \/ WriteFails \/ ArmFails \/ ReadTimeout \/ ReadFails
  BY <1>2 DEF InterfacesFail, ListenFails, WriteFails, ArmFails, ReadTimeout, ReadFails, Return
<1>3. CASE StartRead \/ ReadMalformed \/ ClockPasses \/ HostReplies \/ UNCHANGED vars
  BY <1>3 DEF StartRead, ReadMalformed, ClockPasses, HostReplies, GoOn, vars
<1> QED  BY <1>1, <1>2, <1>3, Steps

-----------------------------------------------------------------------------
(* Duplicates.                                                             *)

LEMMA AppendsNew ==
    ASSUME NoDuplicates, responses \in Seq(Response), NEW dr \in Response, Gather(dr)
    PROVE  NoDuplicates'
<1>1. CASE \E k \in DOMAIN responses : responses[k] = dr
  BY <1>1 DEF Gather, NoDuplicates
<1>2. CASE \A k \in DOMAIN responses : responses[k] # dr
  <2>1. responses' = Append(responses, dr)
    BY <1>2 DEF Gather
  <2>2. Len(responses') = Len(responses) + 1 /\ DOMAIN responses' = 1 .. Len(responses) + 1
    BY <2>1
  <2>3. \A k \in DOMAIN responses : responses'[k] = responses[k]
    BY <2>1
  <2>4. responses'[Len(responses) + 1] = dr
    BY <2>1
  <2>5. DOMAIN responses = 1 .. Len(responses) /\ Len(responses) \in Nat
    OBVIOUS
  <2>6. \A k \in DOMAIN responses' : k \in DOMAIN responses \/ k = Len(responses) + 1
    BY <2>2, <2>5
  <2> QED  BY <1>2, <2>3, <2>4, <2>6 DEF NoDuplicates
<1> QED  BY <1>1, <1>2

(* No host is listed twice with the same answer.                           *)
THEOREM ListsOnce == Spec => []NoDuplicates
<1>1. Init => NoDuplicates
  BY DEF Init, NoDuplicates
<1>2. TypeOK /\ NoDuplicates /\ [Next]_vars => NoDuplicates'
  <2> SUFFICES ASSUME TypeOK, NoDuplicates, [Next]_vars PROVE NoDuplicates'
    OBVIOUS
  <2>1. CASE responses' \in {responses, <<>>}
    BY <2>1 DEF NoDuplicates
  <2>2. CASE ReadReply
    <3>1. Head(inbox) \in Reply /\ responses \in Seq(Response)
      BY <2>2 DEF ReadReply, TypeOK, GatherTypeOK
    <3>2. Unmarshal(Fresh(Head(inbox).from), Head(inbox)) \in Response
      BY <3>1, UnmarshalType DEF Reply
    <3> QED  BY <2>2, <3>1, <3>2, AppendsNew DEF ReadReply
  <2> QED  BY <2>1, <2>2, OnlyReadReply
<1> QED  BY <1>1, <1>2, TypeCorrect, PTL DEF Spec

-----------------------------------------------------------------------------
(* Answers.                                                                *)

Listed(r) ==
    /\ r.Hostname = r.Address[1]
    /\ \E cameras \in CamerasOf[r.Address[1]] :
          r.Cameras = IF cameras = Unreadable THEN 0 ELSE cameras
    /\ r.Address[2] \in asked \cap Reaches[r.Address[1]]

Sent(d) ==
    /\ d.from[2] \in asked \cap Reaches[d.from[1]]
    /\ d.name = d.from[1]
    /\ d.cameras \in CamerasOf[d.from[1]]

(* What waits in the socket comes from hosts that were asked.              *)
AnswersTrue == \A k \in DOMAIN inbox : Sent(inbox[k])

AllListed == \A k \in DOMAIN responses : Listed(responses[k])

LEMMA AskedGrows == ASSUME TypeOK, [Next]_vars PROVE asked \subseteq asked'
<1> USE DEF callVars, netVars
<1>1. CASE Broadcast
  BY <1>1 DEF Broadcast
<1>2. CASE \/ Discover \/ InterfacesFail \/ SkipInterface \/ TakeInterface \/ TakeAddress
           \/ Listen \/ ListenFails \/ WriteFails \/ Arm \/ ArmFails
  BY <1>2 DEF Discover, InterfacesFail, SkipInterface, TakeInterface, TakeAddress,
              Listen, ListenFails, WriteFails, Arm, ArmFails
<1>3. CASE \/ StartRead \/ ReadTimeout \/ ReadFails \/ ReadReply \/ ReadMalformed
           \/ ClockPasses \/ HostReplies \/ UNCHANGED vars
  BY <1>3 DEF StartRead, ReadTimeout, ReadFails, ReadReply, ReadMalformed,
              ClockPasses, HostReplies, vars
<1> QED  BY <1>1, <1>2, <1>3, Steps

LEMMA AnswersInv == ASSUME TypeOK, AnswersTrue, [Next]_vars PROVE AnswersTrue'
<1> USE DEF callVars, netVars
<1>0. inbox \in Seq(Reply) /\ \A d : Sent(d) => Sent(d)'
  BY AskedGrows DEF TypeOK, GatherTypeOK, Sent
<1>1. CASE inbox' \in {inbox, <<>>}
  BY <1>0, <1>1 DEF AnswersTrue
<1>2. CASE inbox # <<>> /\ inbox' = Tail(inbox)
  <2>1. \A k \in DOMAIN Tail(inbox) : k + 1 \in DOMAIN inbox /\ Tail(inbox)[k] = inbox[k + 1]
    BY <1>0, <1>2
  <2> QED  BY <1>0, <1>2, <2>1 DEF AnswersTrue
<1>3. CASE HostReplies
  <2>1. PICK d \in Reply : Arrives(d)
    BY <1>3, ReplyArrives DEF TypeOK
  <2>2. Sent(d) /\ inbox' = Append(inbox, d)
    BY <2>1 DEF Arrives, Sent
  <2>3. \A k \in DOMAIN Append(inbox, d) :
            Append(inbox, d)[k] = IF k \in DOMAIN inbox THEN inbox[k] ELSE d
    BY <1>0
  <2> QED  BY <1>0, <2>2, <2>3 DEF AnswersTrue
<1>4. CASE Discover \/ SkipInterface \/ TakeInterface \/ TakeAddress \/ Listen \/ Broadcast \/ Arm
  BY <1>1, <1>4 DEF Discover, SkipInterface, TakeInterface, TakeAddress, Listen, Broadcast, Arm
<1>5. CASE InterfacesFail \/ ListenFails \/ WriteFails \/ ArmFails \/ ReadTimeout \/ ReadFails
  BY <1>1, <1>5 DEF InterfacesFail, ListenFails, WriteFails, ArmFails, ReadTimeout, ReadFails, Return
<1>6. CASE StartRead \/ ReadReply \/ ReadMalformed \/ ClockPasses \/ UNCHANGED vars
  BY <1>1, <1>2, <1>6 DEF StartRead, ReadReply, ReadMalformed, ClockPasses, vars
<1> QED  BY <1>3, <1>4, <1>5, <1>6, Steps

LEMMA ListedInv == ASSUME TypeOK, AnswersTrue, AllListed, [Next]_vars PROVE AllListed'
<1>0. responses \in Seq(Response) /\ \A r : Listed(r) => Listed(r)'
  BY AskedGrows DEF TypeOK, GatherTypeOK, Listed
<1>1. CASE responses' \in {responses, <<>>}
  BY <1>0, <1>1 DEF AllListed
<1>2. CASE ReadReply
  <2> DEFINE d == Head(inbox)
             dr == Unmarshal(Fresh(d.from), d)
  <2>1. d \in Reply /\ Sent(d)
    BY <1>2 DEF ReadReply, TypeOK, GatherTypeOK, AnswersTrue
  <2>2. dr \in Response /\ Gather(dr)
    BY <1>2, <2>1, UnmarshalType DEF ReadReply, Reply
  <2>3. Listed(dr)
    <3> HIDE DEF d
    <3>1. /\ dr.Address = d.from /\ dr.Hostname = d.name
          /\ dr.Cameras = IF d.cameras = Unreadable THEN 0 ELSE d.cameras
      BY DEF Unmarshal, Fresh
    <3> QED  BY <2>1, <3>1 DEF Listed, Sent
  <2> HIDE DEF dr
  <2>4. CASE responses' = Append(responses, dr)
    <3>1. \A k \in DOMAIN Append(responses, dr) :
              Append(responses, dr)[k] = IF k \in DOMAIN responses THEN responses[k] ELSE dr
      BY <1>0, <2>2
    <3> QED  BY <1>0, <2>3, <2>4, <3>1 DEF AllListed
  <2> QED  BY <1>1, <2>2, <2>4 DEF Gather
<1> QED  BY <1>1, <1>2, OnlyReadReply

(* Every response is what its own host sent.                               *)
THEOREM ListsTruly == Spec => []EachAsSent
<1>1. Init => AnswersTrue /\ AllListed
  BY DEF Init, AnswersTrue, AllListed
<1>2. TypeOK /\ AnswersTrue /\ AllListed /\ [Next]_vars => (AnswersTrue /\ AllListed)'
  BY AnswersInv, ListedInv
<1>3. AllListed => EachAsSent
  BY DEF AllListed, Listed, EachAsSent
<1> QED  BY <1>1, <1>2, <1>3, TypeCorrect, PTL DEF Spec

-----------------------------------------------------------------------------
(* Good replies.                                                           *)

HeardGood == \A d \in heard : d.body = "info"

Unfailed == pc # "idle" => err = "nil"

(* What reading one datagram does: responses only grow, and the others     *)
(* are still unread.                                                       *)
LEMMA OthersStay ==
    ASSUME GatherTypeOK, inbox # <<>>, inbox' = Tail(inbox),
           NEW dr \in Response, responses' \in {responses, Append(responses, dr)}
    PROVE  /\ \A d : Lists(d) => Lists(d)'
           /\ \A d : Unread(d) => d = Head(inbox) \/ Unread(d)'
<1>1. inbox \in Seq(Reply) /\ responses \in Seq(Response)
  BY DEF GatherTypeOK
<1>2. \A k \in DOMAIN responses : k \in DOMAIN responses' /\ responses'[k] = responses[k]
  <2>1. CASE responses' = Append(responses, dr)
    BY <1>1, <2>1
  <2> QED  BY <2>1
<1>a. \A d : Lists(d) => Lists(d)'
  BY <1>2 DEF Lists
<1>3. \A k \in DOMAIN inbox : k = 1 \/ (k - 1 \in DOMAIN Tail(inbox) /\ Tail(inbox)[k - 1] = inbox[k])
  BY <1>1
<1>4. Head(inbox) = inbox[1]
  BY <1>1
<1>b. \A d : Unread(d) => d = Head(inbox) \/ Unread(d)'
  BY <1>3, <1>4 DEF Unread
<1> QED  BY <1>a, <1>b

(* A reply that is read is in the responses.                               *)
LEMMA ReadIsListed ==
    ASSUME GatherTypeOK, ReadReply, NEW d, d = Head(inbox)
    PROVE  /\ Lists(d)'
           /\ \E dr \in Response : responses' \in {responses, Append(responses, dr)}
<1> DEFINE dr == Unmarshal(Fresh(d.from), d)
<1>1. inbox \in Seq(Reply) /\ inbox # <<>> /\ responses \in Seq(Response) /\ Gather(dr)
  BY DEF ReadReply, GatherTypeOK
<1>2. d \in Reply
  BY <1>1
<1>3. dr \in Response
  BY <1>2, UnmarshalType DEF Reply
<1>4. dr = [Address  |-> d.from,
            Hostname |-> d.name,
            Cameras  |-> IF d.cameras = Unreadable THEN 0 ELSE d.cameras]
  <2>1. /\ dr.Address = d.from /\ dr.Hostname = d.name
        /\ dr.Cameras = IF d.cameras = Unreadable THEN 0 ELSE d.cameras
    BY DEF Unmarshal, Fresh
  <2> HIDE DEF dr
  <2> QED  BY <1>3, <2>1 DEF Response
<1> HIDE DEF dr
<1>5. \E k \in DOMAIN responses' : responses'[k] = dr
  <2>1. CASE responses' = Append(responses, dr)
    <3>1. Len(responses) + 1 \in DOMAIN responses' /\ responses'[Len(responses) + 1] = dr
      BY <1>1, <1>3, <2>1
    <3> QED  BY <3>1
  <2>2. CASE responses' = responses /\ \E k \in DOMAIN responses : responses[k] = dr
    BY <2>2
  <2> QED  BY <1>1, <2>1, <2>2 DEF Gather
<1>6. Lists(d)'
  BY <1>4, <1>5 DEF Lists
<1> QED  BY <1>1, <1>3, <1>6 DEF Gather

LEMMA HeardStep == ASSUME TypeOK, HeardGood, [Next]_vars PROVE HeardGood'
<1> USE DEF callVars, netVars
<1>1. CASE heard' \in {heard, {}}
  BY <1>1 DEF HeardGood
<1>2. CASE HostReplies
  <2>1. PICK d \in Reply : Arrives(d)
    BY <1>2, ReplyArrives DEF TypeOK
  <2> QED  BY <2>1 DEF Arrives, HeardGood
<1>3. CASE \/ Discover \/ InterfacesFail \/ SkipInterface \/ TakeInterface \/ TakeAddress
           \/ Listen \/ ListenFails \/ Broadcast \/ WriteFails \/ Arm \/ ArmFails
  BY <1>1, <1>3 DEF Discover, InterfacesFail, SkipInterface, TakeInterface, TakeAddress,
                    Listen, ListenFails, Broadcast, WriteFails, Arm, ArmFails
<1>4. CASE \/ StartRead \/ ReadTimeout \/ ReadFails \/ ReadReply \/ ReadMalformed
           \/ ClockPasses \/ UNCHANGED vars
  BY <1>1, <1>4 DEF StartRead, ReadTimeout, ReadFails, ReadReply, ReadMalformed, ClockPasses, vars
<1> QED  BY <1>2, <1>3, <1>4, Steps

LEMMA UnfailedStep == ASSUME Unfailed, [Next]_vars PROVE Unfailed'
<1> USE DEF Unfailed, callVars
<1>1. CASE Discover \/ SkipInterface \/ TakeInterface \/ TakeAddress \/ Listen \/ Broadcast \/ Arm
  BY <1>1 DEF Discover, SkipInterface, TakeInterface, TakeAddress, Listen, Broadcast, Arm
<1>2. CASE InterfacesFail \/ ListenFails \/ WriteFails \/ ArmFails \/ ReadTimeout \/ ReadFails
  BY <1>2 DEF InterfacesFail, ListenFails, WriteFails, ArmFails, ReadTimeout, ReadFails, Return
<1>3. CASE StartRead \/ ReadReply \/ ReadMalformed \/ ClockPasses \/ HostReplies \/ UNCHANGED vars
  BY <1>3 DEF StartRead, ReadReply, ReadMalformed, ClockPasses, HostReplies, GoOn, vars
<1> QED  BY <1>1, <1>2, <1>3, Steps

LEMMA HiddenStep ==
    ASSUME TypeOK, HeardGood, Unfailed, NoneHidden, [Next]_vars
    PROVE  NoneHidden'
<1> USE DEF callVars, netVars
<1>0. GatherTypeOK /\ inbox \in Seq(Reply)
  BY DEF TypeOK, GatherTypeOK
<1>1. CASE Discover
  BY <1>1 DEF Discover, NoneHidden
<1>2. CASE InterfacesFail \/ ListenFails \/ WriteFails \/ ArmFails \/ ReadFails
  BY <1>2 DEF InterfacesFail, ListenFails, WriteFails, ArmFails, ReadFails, Return, NoneHidden
<1>3. ASSUME UNCHANGED <<responses, inbox, heard>>, err' \in {"nil", "deadline"} => err \in {"nil", "deadline"},
             open \/ late => (open \/ late)'
      PROVE  NoneHidden'
  BY <1>3 DEF NoneHidden, Lists, Unread
<1>4. CASE ReadTimeout
  <2>1. late /\ UNCHANGED <<late, responses, inbox, heard>>
    BY <1>4 DEF ReadTimeout
  <2>2. err = "nil"
    BY <1>4 DEF ReadTimeout, Gathering, Unfailed
  <2> QED  BY <1>3, <2>1, <2>2
<1>5. CASE SkipInterface \/ TakeInterface \/ TakeAddress \/ Listen \/ Broadcast \/ Arm \/ StartRead
  BY <1>3, <1>5 DEF SkipInterface, TakeInterface, TakeAddress, Listen, Broadcast, Arm, StartRead
<1>6. CASE ClockPasses \/ UNCHANGED vars
  BY <1>3, <1>6 DEF ClockPasses, vars
<1>7. CASE ReadReply
  <2> SUFFICES ASSUME NEW d \in heard, err \in {"nil", "deadline"}
               PROVE  (Lists(d) \/ (Unread(d) /\ (open \/ late)))'
    BY <1>7 DEF ReadReply, NoneHidden
  <2>1. inbox # <<>> /\ inbox' = Tail(inbox) /\ UNCHANGED <<open, late>>
    BY <1>7 DEF ReadReply, GoOn
  <2>2. PICK dr \in Response : responses' \in {responses, Append(responses, dr)}
    BY <1>0, <1>7, ReadIsListed
  <2>3. Lists(d) \/ (Unread(d) /\ (open \/ late))
    BY DEF NoneHidden
  <2>4. d = Head(inbox) => Lists(d)'
    BY <1>0, <1>7, ReadIsListed
  <2> QED  BY <1>0, <2>1, <2>2, <2>3, <2>4, OthersStay
<1>8. CASE ReadMalformed
  <2> SUFFICES ASSUME NEW d \in heard, err \in {"nil", "deadline"}
               PROVE  (Lists(d) \/ (Unread(d) /\ (open \/ late)))'
    BY <1>8 DEF ReadMalformed, NoneHidden
  <2>1. inbox # <<>> /\ inbox' = Tail(inbox) /\ UNCHANGED <<open, late, responses>>
    BY <1>8 DEF ReadMalformed, GoOn
  <2>2. d # Head(inbox)
    BY <1>8 DEF ReadMalformed, HeardGood
  <2>3. Lists(d) \/ (Unread(d) /\ (open \/ late))
    BY DEF NoneHidden
  <2>4. \E dr \in Response : responses' \in {responses, Append(responses, dr)}
    <3>1. Head(inbox) \in Reply
      BY <1>0, <2>1
    <3>2. Fresh(Head(inbox).from) \in Response
      BY <3>1 DEF Reply, Fresh, Response
    <3> QED  BY <2>1, <3>2
  <2> QED  BY <1>0, <2>1, <2>2, <2>3, <2>4, OthersStay
<1>9. CASE HostReplies
  <2>1. PICK e \in Reply : Arrives(e)
    BY <1>0, <1>9, ReplyArrives
  <2>2. open /\ UNCHANGED <<open, late, responses, err>>
    BY <1>9 DEF HostReplies
  <2>3. \A k \in DOMAIN inbox : k \in DOMAIN inbox' /\ inbox'[k] = inbox[k]
    BY <1>0, <2>1 DEF Arrives
  <2>4. Len(inbox) + 1 \in DOMAIN inbox' /\ inbox'[Len(inbox) + 1] = e
    BY <1>0, <2>1 DEF Arrives
  <2>5. \A d : Unread(d) => Unread(d)'
    BY <2>3 DEF Unread
  <2>6. Unread(e)'
    BY <2>4 DEF Unread
  <2>7. \A d : Lists(d) => Lists(d)'
    BY <2>2 DEF Lists
  <2>8. heard' \subseteq heard \cup {e}
    BY <2>1 DEF Arrives
  <2> QED  BY <2>2, <2>5, <2>6, <2>7, <2>8 DEF NoneHidden
<1> QED  BY <1>1, <1>2, <1>4, <1>5, <1>6, <1>7, <1>8, <1>9, Steps

(* No good reply is hidden: a call that ends at its deadline or goes on    *)
(* lists each one it received, or still has it before it.                  *)
THEOREM HidesNone == Spec => []NoneHidden
<1>1. Init => HeardGood /\ Unfailed /\ NoneHidden
  BY DEF Init, HeardGood, Unfailed, NoneHidden
<1>2. TypeOK /\ HeardGood /\ Unfailed /\ [Next]_vars => (HeardGood /\ Unfailed)'
  BY HeardStep, UnfailedStep
<1>3. TypeOK /\ HeardGood /\ Unfailed /\ NoneHidden /\ [Next]_vars => NoneHidden'
  BY HiddenStep
<1> QED  BY <1>1, <1>2, <1>3, TypeCorrect, PTL DEF Spec

-----------------------------------------------------------------------------
(* Networks.                                                               *)

InCall == pc \in {"collect", "send", "wait", "reading"}

(* A network is accounted for when it was asked, will be, or is among the  *)
(* addresses of the current interface.                                     *)
Accounted(n) ==
    \/ n \in begun
    \/ \E i \in DOMAIN ips : ips[i] = n
    \/ \E i \in DOMAIN addrs : addrs[i].kind = "ipv4" /\ addrs[i].net = n

Passed == Len(machine) - Len(left)

(* left is what remains of machine; the interfaces before it are done.     *)
Remaining ==
    /\ Len(left) <= Len(machine)
    /\ \A k \in DOMAIN left : left[k] = machine[Passed + k]

Reached(k) ==
    \A j \in DOMAIN machine[k].addrs :
        machine[k].addrs[j].kind = "ipv4" => Accounted(machine[k].addrs[j].net)

Looked == \A k \in 1 .. Passed : ~Skipped(machine[k]) => Reached(k)

Phases ==
    /\ pc \in {"send", "wait", "reading"} => left = <<>> /\ addrs = <<>>
    /\ Gathering => ips = <<>>

NetInv == InCall => Remaining /\ Looked /\ Phases

(* What is accounted for stays so, and no interface is passed over.        *)
LEMMA Keeps ==
    ASSUME Looked, UNCHANGED <<machine, left>>, \A n : Accounted(n) => Accounted(n)'
    PROVE  Looked'
  BY DEF Looked, Reached, Passed

(* The first of the remaining interfaces is the one after those passed.    *)
LEMMA Advance ==
    ASSUME CollectTypeOK, Remaining, left # <<>>, left' = Tail(left), machine' = machine
    PROVE  /\ Remaining'
           /\ Passed' = Passed + 1 /\ Passed \in Nat
           /\ machine[Passed'] = Head(left)
<1>1. /\ left \in Seq(Interface) /\ machine \in Seq(Interface)
      /\ Len(left) \in Nat /\ Len(machine) \in Nat
  BY MachineAssumption DEF CollectTypeOK
<1>2. Len(left') = Len(left) - 1 /\ \A k \in DOMAIN left' : k + 1 \in DOMAIN left /\ left'[k] = left[k + 1]
  BY <1>1
<1>3. Passed' = Passed + 1 /\ Passed \in Nat
  BY <1>1, <1>2 DEF Passed, Remaining
<1>4. 1 \in DOMAIN left /\ Head(left) = left[1]
  BY <1>1
<1>5. machine[Passed'] = Head(left)
  BY <1>3, <1>4 DEF Remaining
<1>6. Remaining'
  <2>1. Len(left') <= Len(machine')
    BY <1>1, <1>2 DEF Remaining
  <2>2. ASSUME NEW k \in DOMAIN left' PROVE left'[k] = machine'[Passed' + k]
    <3>1. k \in Nat /\ left'[k] = machine[Passed + (k + 1)]
      BY <1>1, <1>2 DEF Remaining
    <3>2. Passed + (k + 1) = Passed' + k
      BY <1>3, <3>1
    <3> QED  BY <3>1, <3>2
  <2> QED  BY <2>1, <2>2 DEF Remaining
<1> QED  BY <1>3, <1>5, <1>6

LEMMA NetStep == ASSUME TypeOK, NetInv, [Next]_vars PROVE NetInv'
<1> USE DEF callVars, netVars
<1>0. CollectTypeOK
  BY DEF TypeOK
<1>1. CASE Discover
  <2>1. left' = machine' /\ machine' \in Seq(Interface) /\ pc' = "collect"
    BY <1>0, <1>1, MachineAssumption DEF Discover, CollectTypeOK
  <2>2. Passed' = 0
    BY <2>1 DEF Passed
  <2> QED  BY <2>1, <2>2 DEF NetInv, Remaining, Looked, Phases, Gathering
<1>2. CASE InterfacesFail \/ ListenFails \/ WriteFails \/ ArmFails \/ ReadTimeout \/ ReadFails
  BY <1>2 DEF InterfacesFail, ListenFails, WriteFails, ArmFails, ReadTimeout, ReadFails, Return,
              NetInv, InCall
<1>3. CASE SkipInterface \/ TakeInterface
  <2>1. /\ pc = "collect" /\ pc' = "collect" /\ left # <<>> /\ left' = Tail(left)
        /\ addrs = <<>> /\ UNCHANGED <<machine, ips, begun>>
    BY <1>3 DEF SkipInterface, TakeInterface
  <2>2. Remaining /\ Looked
    BY <2>1 DEF NetInv, InCall
  <2>3. /\ Remaining' /\ Passed' = Passed + 1 /\ Passed \in Nat
        /\ machine[Passed'] = Head(left)
    BY <1>0, <2>1, <2>2, Advance
  <2>4. \A n : Accounted(n) => Accounted(n)'
    BY <2>1 DEF Accounted
  <2>5. Looked'
    <3>1. ASSUME NEW k \in 1 .. Passed', ~Skipped(machine[k]) PROVE Reached(k)'
      <4>1. CASE k = Passed'
        <5>1. machine[k] = Head(left) /\ TakeInterface
          BY <1>3, <2>3, <3>1, <4>1 DEF SkipInterface
        <5>2. addrs' = machine'[k].addrs
          BY <2>1, <5>1 DEF TakeInterface
        <5> QED  BY <5>2 DEF Reached, Accounted
      <4>2. CASE k # Passed'
        <5>1. k \in 1 .. Passed
          BY <2>3, <4>2
        <5> QED  BY <2>1, <2>2, <2>4, <3>1, <5>1 DEF Looked, Reached
      <4> QED  BY <4>1, <4>2
    <3> QED  BY <2>1, <3>1 DEF Looked
  <2> QED  BY <2>1, <2>3, <2>5 DEF NetInv, Phases, Gathering
<1>4. CASE TakeAddress
  <2>1. /\ pc = "collect" /\ pc' \in {"collect", "panic"} /\ addrs # <<>> /\ addrs' = Tail(addrs)
        /\ UNCHANGED <<machine, left, begun>>
    BY <1>4 DEF TakeAddress
  <2>2. addrs \in Seq(InterfaceAddress) /\ ips \in Seq(Net)
    BY <1>0 DEF CollectTypeOK
  <2>3. \A i \in DOMAIN addrs : i = 1 \/ (i - 1 \in DOMAIN Tail(addrs) /\ Tail(addrs)[i - 1] = addrs[i])
    BY <2>1, <2>2
  <2>4. Head(addrs) = addrs[1]
    BY <2>1, <2>2
  <2>5. /\ \A i \in DOMAIN ips : i \in DOMAIN ips' /\ ips'[i] = ips[i]
        /\ Head(addrs).kind = "ipv4" => \E i \in DOMAIN ips' : ips'[i] = Head(addrs).net
    <3>1. Head(addrs).net \in Net
      <4>1. Head(addrs) \in InterfaceAddress
        BY <2>1, <2>2
      <4> QED  BY <4>1 DEF InterfaceAddress
    <3>2. CASE ips' = ips /\ Head(addrs).kind # "ipv4"
      BY <3>2
    <3>3. CASE ips' = Append(ips, Head(addrs).net)
      <4>1. Len(ips) + 1 \in DOMAIN ips' /\ ips'[Len(ips) + 1] = Head(addrs).net
        BY <2>2, <3>1, <3>3
      <4>2. \A i \in DOMAIN ips : i \in DOMAIN ips' /\ ips'[i] = ips[i]
        BY <2>2, <3>1, <3>3
      <4> QED  BY <4>1, <4>2
    <3> QED  BY <1>4, <3>2, <3>3 DEF TakeAddress
  <2>6. \A n : Accounted(n) => Accounted(n)'
    BY <2>1, <2>3, <2>4, <2>5 DEF Accounted
  <2>7. (Remaining /\ Looked)'
    <3>1. Remaining /\ Looked
      BY <2>1 DEF NetInv, InCall
    <3>2. Remaining'
      BY <2>1, <3>1 DEF Remaining, Passed
    <3> QED  BY <2>1, <2>6, <3>1, <3>2, Keeps
  <2> QED  BY <2>1, <2>7 DEF NetInv, Phases, Gathering
<1>5. CASE Broadcast
  <2>1. /\ pc = "send" /\ pc' = "send" /\ ips # <<>> /\ ips' = Tail(ips)
        /\ begun' = begun \cup {Head(ips)} /\ UNCHANGED <<machine, left, addrs>>
    BY <1>5 DEF Broadcast
  <2>2. ips \in Seq(Net)
    BY <1>0 DEF CollectTypeOK
  <2>3. /\ \A i \in DOMAIN ips : i = 1 \/ (i - 1 \in DOMAIN Tail(ips) /\ Tail(ips)[i - 1] = ips[i])
        /\ Head(ips) = ips[1]
    BY <2>1, <2>2
  <2>4. \A n : Accounted(n) => Accounted(n)'
    BY <2>1, <2>3 DEF Accounted
  <2>5. Remaining /\ Looked /\ Phases
    BY <2>1 DEF NetInv, InCall
  <2>6. Remaining'
    BY <2>1, <2>5 DEF Remaining, Passed
  <2>7. Looked'
    BY <2>1, <2>4, <2>5, Keeps
  <2> QED  BY <2>1, <2>5, <2>6, <2>7 DEF NetInv, Phases, Gathering
<1>6. ASSUME UNCHANGED <<machine, left, addrs, ips, begun>>, InCall' => InCall, Phases'
      PROVE  NetInv'
  <2>1. \A n : Accounted(n) => Accounted(n)'
    BY <1>6 DEF Accounted
  <2> SUFFICES ASSUME InCall' PROVE (Remaining /\ Looked /\ Phases)'
    BY DEF NetInv
  <2>2. Remaining /\ Looked
    BY <1>6 DEF NetInv
  <2>3. Remaining'
    BY <1>6, <2>2 DEF Remaining, Passed
  <2> QED  BY <1>6, <2>1, <2>2, <2>3, Keeps
<1>7. CASE Listen \/ Arm \/ StartRead \/ ReadReply \/ ReadMalformed \/ ClockPasses \/ HostReplies
           \/ UNCHANGED vars
  <2>1. UNCHANGED <<machine, left, addrs, ips, begun>> /\ (InCall' => InCall)
    BY <1>7 DEF Listen, Arm, StartRead, ReadReply, ReadMalformed, GoOn, ClockPasses, HostReplies,
                vars, InCall, Gathering
  <2>2. InCall' => Phases'
    BY <1>7 DEF Listen, Arm, StartRead, ReadReply, ReadMalformed, GoOn, ClockPasses, HostReplies,
                vars, InCall, NetInv, Phases, Gathering
  <2>3. ~InCall' => NetInv'
    BY DEF NetInv
  <2> QED  BY <1>6, <2>1, <2>2, <2>3
<1> QED  BY <1>1, <1>2, <1>3, <1>4, <1>5, <1>7, Steps

(* Every IPv4 network of the machine is asked before the replies are       *)
(* awaited, whatever interfaces and addresses precede it.                  *)
THEOREM AsksAll == Spec => []EveryNetAsked
<1>1. Init => NetInv
  BY DEF Init, NetInv, InCall
<1>2. TypeOK /\ NetInv /\ [Next]_vars => NetInv'
  BY NetStep
<1>3. TypeOK /\ NetInv => EveryNetAsked
  <2> SUFFICES ASSUME TypeOK, NetInv, Gathering PROVE EveryNetAsked
    BY DEF EveryNetAsked
  <2>1. left = <<>> /\ addrs = <<>> /\ ips = <<>> /\ Looked
    BY DEF NetInv, InCall, Gathering, Phases
  <2>2. machine \in Seq(Interface)
    BY MachineAssumption DEF TypeOK, CollectTypeOK
  <2>3. DOMAIN machine = 1 .. Passed
    BY <2>1, <2>2 DEF Passed
  <2>4. \A n : Accounted(n) => n \in begun
    BY <2>1 DEF Accounted
  <2> QED  BY <2>1, <2>3, <2>4 DEF Looked, Reached, EveryNetAsked
<1> QED  BY <1>1, <1>2, <1>3, TypeCorrect, PTL DEF Spec

=============================================================================
