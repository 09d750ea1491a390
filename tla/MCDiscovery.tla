------------------------------ MODULE MCDiscovery ------------------------------
(***************************************************************************)
(* An instance of Discovery for TLC: a host on two networks and a host on  *)
(* one of them.                                                            *)
(***************************************************************************)
EXTENDS Discovery, TLC

CONSTANTS h1, h2, lan, wlan

MCNet == {lan, wlan}

MCHost == {h1, h2}

MCReaches == h1 :> {lan, wlan} @@ h2 :> {lan}

MCCameras == h1 :> {3} @@ h2 :> {5, Unreadable}

At(kind, net) == [kind |-> kind, net |-> net]

Card(list) == [up |-> TRUE, loopback |-> FALSE, addrs |-> list]

Lo == [up |-> TRUE, loopback |-> TRUE, addrs |-> <<At("loopback", lan)>>]

Down == [up |-> FALSE, loopback |-> FALSE, addrs |-> <<At("ipv4", lan)>>]

(* Loopback and down interfaces come first, an interface has an IPv6       *)
(* address before its IPv4 one, two are on one network, one is anycast.    *)
MCMachine == {
    <<Lo, Down, Card(<<At("ipv6", lan), At("ipv4", lan)>>), Card(<<At("ipv4", wlan)>>)>>,
    <<Card(<<At("ipv4", lan), At("ipv4", wlan)>>), Card(<<At("ipv4", lan)>>)>>,
    <<Card(<<At("loopback", lan), At("ipv4", lan)>>)>>,
    <<Lo, Card(<<At("anycast", lan)>>)>>}

MCListenPort == {0, 4545}
=============================================================================
