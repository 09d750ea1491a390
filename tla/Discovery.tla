-------------------------------- MODULE Discovery --------------------------------
(***************************************************************************)
(* Discover (pkg/discover/discover.go): it collects the broadcast address  *)
(* of every network this machine is on, asks each, and gathers the replies *)
(* that arrive before one deadline.                                        *)
(*                                                                         *)
(* Hosts that run QTM answer a request from the address they have on the   *)
(* network it was broadcast on.  They may answer not at all, more than     *)
(* once, in any order, badly, or as late as the next call.                 *)
(***************************************************************************)
EXTENDS Integers, Sequences

CONSTANTS
    Net,            \* networks, named by their broadcast addresses
    Host,           \* machines that run QTM
    Reaches,        \* the networks each host is on
    CamerasOf,      \* the camera counts each host may report
    Machine,        \* possible results of net.Interfaces
    ListenPort,     \* the port the caller gives to NewDiscovery, maybe 0
    AnyPort,        \* a port the system chooses for 0
    Unreadable,     \* a camera count that is no number
    MaxCalls,       \* bound: calls of Discover
    MaxInbox        \* datagrams the system keeps for the socket

AddressKind == {"ipv4", "loopback", "ipv6", "anycast"}

InterfaceAddress == [kind : AddressKind, net : Net]

Interface == [up : BOOLEAN, loopback : BOOLEAN, addrs : Seq(InterfaceAddress)]

ASSUME MachineAssumption == Machine \subseteq Seq(Interface)

ASSUME DiscoveryAssumption ==
    /\ Reaches \in [Host -> SUBSET Net]
    /\ CamerasOf \in [Host -> SUBSET (Int \cup {Unreadable})] /\ Unreadable \notin Int
    /\ ListenPort \subseteq Nat /\ AnyPort \in Nat \ {0}
    /\ MaxCalls \in Nat /\ MaxInbox \in Nat

VARIABLES
    machine,    \* this machine's interfaces
    receivePort,
    pc,         \* where Discover is
    left,       \* interfaces still to look at
    addrs,      \* addresses of the current one still to look at
    ips,        \* broadcast addresses still to ask, once collected
    open,       \* is the socket open?
    late,       \* has the read deadline passed?
    responses,  \* what has been gathered
    err,        \* what ended the last call
    calls,      \* calls begun
    asked,      \* networks that a host can answer on: asked in any call
    begun,      \* ghost: networks asked in this call
    inbox,      \* what the socket of this call has received and not read
    heard       \* ghost: good replies the socket of this call has received

callVars == <<left, addrs, ips, open, late, responses, err, calls, begun>>
netVars  == <<asked, inbox, heard>>
vars     == <<machine, receivePort, pc, callVars, netVars>>

Address == Host \X Net

Response == [Address : Address, Hostname : Host \cup {"none"}, Cameras : Int]

(* Malformed: fewer than 16 bytes, or not three parts.                     *)
Body == {"info", "malformed"}

(* Where a reply comes from, and what its text says.                       *)
Reply == [from : Address, body : Body, name : Host, cameras : Int \cup {Unreadable}]

CollectTypeOK ==
    /\ machine \in Machine
    /\ left \in Seq(Interface)
    /\ addrs \in Seq(InterfaceAddress)
    /\ ips \in Seq(Net)

CallTypeOK ==
    /\ receivePort \in ListenPort
    /\ pc \in {"idle", "collect", "send", "wait", "reading", "panic"}
    /\ open \in BOOLEAN
    /\ late \in BOOLEAN
    /\ err \in {"nil", "interfaces", "listen", "write", "arm", "deadline", "read"}
    /\ calls \in 0 .. MaxCalls

GatherTypeOK ==
    /\ asked \subseteq Net
    /\ begun \subseteq Net
    /\ inbox \in Seq(Reply)
    /\ heard \subseteq Reply
    /\ responses \in Seq(Response)

(* The type of every variable.                                             *)
TypeOK == CollectTypeOK /\ CallTypeOK /\ GatherTypeOK

Init ==
    /\ machine \in Machine
    /\ receivePort \in ListenPort
    /\ pc = "idle"
    /\ left = <<>>
    /\ addrs = <<>>
    /\ ips = <<>>
    /\ open = FALSE
    /\ late = FALSE
    /\ responses = <<>>
    /\ err = "nil"
    /\ calls = 0
    /\ asked = {}
    /\ begun = {}
    /\ inbox = <<>>
    /\ heard = {}

-----------------------------------------------------------------------------
(* getBroadcastAddresses.                                                  *)

Discover ==
    /\ pc = "idle"
    /\ calls < MaxCalls
    /\ calls' = calls + 1
    /\ pc' = "collect"
    /\ left' = machine
    /\ addrs' = <<>>
    /\ ips' = <<>>
    /\ begun' = {}
    /\ late' = FALSE
    /\ responses' = <<>>
    /\ err' = "nil"
    /\ inbox' = <<>>
    /\ heard' = {}
    /\ UNCHANGED <<machine, receivePort, open, asked>>

(* The deferred Close runs on every return after the socket was opened.    *)
Return(e) ==
    /\ pc' = "idle"
    /\ err' = e
    /\ open' = FALSE

Skipped(intf) == ~intf.up \/ intf.loopback

(* net.Interfaces fails, or the Addrs of an interface.                     *)
InterfacesFail ==
    /\ pc = "collect" /\ addrs = <<>>
    /\ left = machine \/ (left # <<>> /\ ~Skipped(Head(left)))
    /\ Return("interfaces")
    /\ UNCHANGED <<machine, receivePort, left, addrs, ips, late, responses, calls, begun, netVars>>

(* Mutant of SkipInterface: break instead of continue.                     *)
SkipInterfaceAndRest ==
    /\ pc = "collect" /\ addrs = <<>>
    /\ left # <<>> /\ Skipped(Head(left))
    /\ left' = <<>>
    /\ UNCHANGED <<machine, receivePort, pc, addrs, ips, open, late, responses, err, calls,
                   begun, netVars>>

SkipInterface ==
    /\ pc = "collect" /\ addrs = <<>>
    /\ left # <<>> /\ Skipped(Head(left))
    /\ left' = Tail(left)
    /\ UNCHANGED <<machine, receivePort, pc, addrs, ips, open, late, responses, err, calls,
                   begun, netVars>>

TakeInterface ==
    /\ pc = "collect" /\ addrs = <<>>
    /\ left # <<>> /\ ~Skipped(Head(left))
    /\ left' = Tail(left)
    /\ addrs' = Head(left).addrs
    /\ UNCHANGED <<machine, receivePort, pc, ips, open, late, responses, err, calls,
                   begun, netVars>>

(* Loopback and IPv6 addresses are skipped.  combineIPAndMask takes a      *)
(* *net.IPNet; Windows gives an anycast address as a *net.IPAddr, on which *)
(* the type assertion panics.                                              *)
TakeAddress ==
    /\ pc = "collect" /\ addrs # <<>>
    /\ addrs' = Tail(addrs)
    /\ ips' = IF Head(addrs).kind = "ipv4" THEN Append(ips, Head(addrs).net) ELSE ips
    /\ pc' = IF Head(addrs).kind = "anycast" THEN "panic" ELSE pc
    /\ UNCHANGED <<machine, receivePort, left, open, late, responses, err, calls,
                   begun, netVars>>

-----------------------------------------------------------------------------
(* Asking.                                                                 *)

Listen ==
    /\ pc = "collect" /\ addrs = <<>> /\ left = <<>>
    /\ pc' = "send"
    /\ open' = TRUE
    /\ UNCHANGED <<machine, receivePort, left, addrs, ips, late, responses, err, calls,
                   begun, netVars>>

ListenFails ==
    /\ pc = "collect" /\ addrs = <<>> /\ left = <<>>
    /\ Return("listen")
    /\ UNCHANGED <<machine, receivePort, left, addrs, ips, late, responses, calls, begun, netVars>>

(* The port the socket has, and the one the request tells QTM to answer:   *)
(* for 0 they differ, and no answer arrives.                               *)
BoundPort == IF receivePort = 0 THEN AnyPort ELSE receivePort

Broadcast ==
    /\ pc = "send" /\ ips # <<>>
    /\ ips' = Tail(ips)
    /\ begun' = begun \cup {Head(ips)}
    /\ asked' = IF receivePort = BoundPort THEN asked \cup {Head(ips)} ELSE asked
    /\ UNCHANGED <<machine, receivePort, pc, left, addrs, open, late, responses, err, calls,
                   inbox, heard>>

(* Mutant of WriteFails: a return before the deferred Close is in place.   *)
WriteFailsOpen ==
    /\ pc = "send" /\ ips # <<>>
    /\ pc' = "idle"
    /\ err' = "write"
    /\ UNCHANGED <<machine, receivePort, left, addrs, ips, open, late, responses, calls,
                   begun, netVars>>

(* One network that cannot be written to ends the call.                    *)
WriteFails ==
    /\ pc = "send" /\ ips # <<>>
    /\ Return("write")
    /\ UNCHANGED <<machine, receivePort, left, addrs, ips, late, responses, calls, begun, netVars>>

Arm ==
    /\ pc = "send" /\ ips = <<>>
    /\ pc' = "wait"
    /\ UNCHANGED <<machine, receivePort, left, addrs, ips, open, late, responses, err, calls,
                   begun, netVars>>

(* SetReadDeadline fails.                                                  *)
ArmFails ==
    /\ pc = "send" /\ ips = <<>>
    /\ Return("arm")
    /\ UNCHANGED <<machine, receivePort, left, addrs, ips, late, responses, calls, begun, netVars>>

-----------------------------------------------------------------------------
(* Gathering.                                                              *)

Gathering == pc \in {"wait", "reading"}

(* The deadline that was set once passes.                                  *)
ClockPasses ==
    /\ Gathering
    /\ ~late
    /\ late' = TRUE
    /\ UNCHANGED <<machine, receivePort, pc, left, addrs, ips, open, responses, err, calls,
                   begun, netVars>>

(* ReadFrom looks at the deadline before it waits.                         *)
StartRead ==
    /\ pc = "wait"
    /\ ~late
    /\ pc' = "reading"
    /\ UNCHANGED <<machine, receivePort, callVars, netVars>>

(* The deadline ends the loop, and the call without error.                 *)
ReadTimeout ==
    /\ Gathering
    /\ late
    /\ Return("deadline")
    /\ UNCHANGED <<machine, receivePort, left, addrs, ips, late, responses, calls, begun, netVars>>

(* Any other error ends it with an error and no responses.                 *)
ReadFails ==
    /\ pc = "reading"
    /\ Return("read")
    /\ responses' = <<>>
    /\ UNCHANGED <<machine, receivePort, left, addrs, ips, late, calls, begun, netVars>>

(* Mutant of Fresh: one Response for all datagrams.                        *)
FreshOnce(from) ==
    IF responses = <<>> THEN [Address |-> from, Hostname |-> "none", Cameras |-> 0]
                        ELSE [responses[Len(responses)] EXCEPT !.Address = from]

Fresh(from) == [Address |-> from, Hostname |-> "none", Cameras |-> 0]

(* Mutant of Unmarshal: the count is stored whether it was read or not.    *)
UnmarshalAnyCount(dr, d) == [dr EXCEPT !.Hostname = d.name, !.Cameras = d.cameras]

(* UnmarshalBinary of a reply that decodes: a camera count that is no      *)
(* number leaves Cameras as it was.                                        *)
Unmarshal(dr, d) ==
    [dr EXCEPT !.Hostname = d.name,
               !.Cameras  = IF d.cameras = Unreadable THEN @ ELSE d.cameras]

(* Mutant of Gather: a host that answers again is listed again.            *)
GatherAll(dr) == responses' = Append(responses, dr)

Gather(dr) ==
    responses' = IF \E k \in DOMAIN responses : responses[k] = dr
                 THEN responses ELSE Append(responses, dr)

(* Mutant of GoOn: every read has a deadline of its own.                   *)
GoOnAfresh == pc' = "wait" /\ late' = FALSE

GoOn == pc' = "wait" /\ UNCHANGED late

ReadReply ==
    /\ pc = "reading"
    /\ inbox # <<>> /\ Head(inbox).body = "info"
    /\ inbox' = Tail(inbox)
    /\ Gather(Unmarshal(Fresh(Head(inbox).from), Head(inbox)))
    /\ GoOn
    /\ UNCHANGED <<machine, receivePort, left, addrs, ips, open, err, calls, begun,
                   asked, heard>>

(* Mutant of ReadMalformed: a bad reply ends the discovery.                *)
ReadMalformedLast ==
    /\ pc = "reading"
    /\ inbox # <<>> /\ Head(inbox).body = "malformed"
    /\ Return("deadline")
    /\ UNCHANGED <<machine, receivePort, left, addrs, ips, late, responses, calls, begun, netVars>>

(* OnMalformedResponse is told, and the discovery goes on.                 *)
ReadMalformed ==
    /\ pc = "reading"
    /\ inbox # <<>> /\ Head(inbox).body = "malformed"
    /\ inbox' = Tail(inbox)
    /\ GoOn
    /\ UNCHANGED <<machine, receivePort, left, addrs, ips, open, responses, err, calls, begun,
                   asked, heard>>

-----------------------------------------------------------------------------
(* A host answers a request of this or an earlier call, with its own name. *)
HostReplies ==
    /\ open /\ Len(inbox) < MaxInbox
    /\ \E h \in Host, n \in asked, body \in Body :
          /\ n \in Reaches[h]
          /\ \E cameras \in CamerasOf[h] :
                LET d == [from |-> <<h, n>>, body |-> body, name |-> h, cameras |-> cameras]
                IN  /\ inbox' = Append(inbox, d)
                    /\ heard' = IF body = "info" THEN heard \cup {d} ELSE heard
    /\ UNCHANGED <<machine, receivePort, pc, callVars, asked>>

-----------------------------------------------------------------------------
DiscoverStep ==
    \/ InterfacesFail \/ SkipInterface \/ TakeInterface \/ TakeAddress
    \/ Listen \/ ListenFails \/ Broadcast \/ WriteFails \/ Arm \/ ArmFails
    \/ StartRead \/ ReadTimeout \/ ReadFails \/ ReadReply \/ ReadMalformed

Next == Discover \/ DiscoverStep \/ ClockPasses \/ HostReplies

Spec == Init /\ [][Next]_vars

(* Discover's goroutine runs and the clock advances; nothing is assumed of *)
(* the hosts.                                                              *)
FairSpec == Spec /\ WF_vars(DiscoverStep) /\ WF_vars(ClockPasses)

-----------------------------------------------------------------------------
(* Every response is what one host said of itself: its name and its count  *)
(* are those of the host at its address, nothing is left of another reply  *)
(* where a reply has no readable count (discover.go:181, 209-211), and its *)
(* address is one that was asked.                                          *)
EachAsSent ==
    \A k \in DOMAIN responses :
        LET h == responses[k].Address[1]
        IN  /\ responses[k].Hostname = h
            /\ \E cameras \in CamerasOf[h] :
                  responses[k].Cameras = IF cameras = Unreadable THEN 0 ELSE cameras
            /\ responses[k].Address[2] \in asked \cap Reaches[h]

(* A host that answers again, also because it was asked twice, is listed   *)
(* once per address and answer (discover.go:190-192).                      *)
NoDuplicates ==
    \A j, k \in DOMAIN responses : responses[j] = responses[k] => j = k

(* When Discover waits for replies it has asked every IPv4 network of this *)
(* machine: an interface that is down, a loopback interface or an IPv6     *)
(* address hides none of those that follow it.                             *)
EveryNetAsked ==
    Gathering =>
        \A k \in DOMAIN machine : ~Skipped(machine[k]) =>
            \A j \in DOMAIN machine[k].addrs :
                machine[k].addrs[j].kind = "ipv4" => machine[k].addrs[j].net \in begun

(* No call leaves its socket open, whichever step failed: the next could   *)
(* not listen on the same port.                                            *)
SocketClosed == pc = "idle" => ~open

(* "One bad reply must not hide every other QTM on the network"            *)
(* (discover.go:113): every good reply that reached the socket of a call   *)
(* is in its responses, as it was sent, or waits to be read in the open    *)
(* socket, or was still unread when the deadline had passed; unless the    *)
(* call ended with an error.                                               *)
Lists(d) ==
    \E k \in DOMAIN responses :
        responses[k] = [Address  |-> d.from,
                        Hostname |-> d.name,
                        Cameras  |-> IF d.cameras = Unreadable THEN 0 ELSE d.cameras]

Unread(d) == \E k \in DOMAIN inbox : inbox[k] = d

NoneHidden ==
    err \in {"nil", "deadline"} =>
        \A d \in heard : Lists(d) \/ (Unread(d) /\ (open \/ late))

(* Discover comes back although hosts may answer without end: there is one *)
(* deadline for all replies.                                               *)
DiscoverReturns == (pc # "idle") ~> (pc \in {"idle", "panic"})

=============================================================================
