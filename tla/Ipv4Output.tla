----------------------------- MODULE Ipv4Output -----------------------------
(***************************************************************************)
(* ipv4_send of src/files/ipv4.c over arp_resolve: choose the next hop,    *)
(* find its hardware address, hand the frame to Ethernet.  The forwarding  *)
(* table enters as what its search returns for each destination (module    *)
(* Ipv4Lookup); the resolver is module Arp, which a send drives.           *)
(***************************************************************************)
EXTENDS Arp

CONSTANTS
    Own,            \* ipv4_hostaddr
    OwnMac,         \* hardware address of the interface
    Multicast,      \* 224.0.0.9, which initialize_rip has joined
    MulticastMac,   \* 01:00:5E:00:00:09
    Broadcasts,     \* addresses whose last byte is 255
    Zero,           \* the gateway 0.0.0.0 of a directly connected subnet
    Forwarding      \* what the forwarding table may answer for each address

ASSUME OwnAssumption == Own \in Ip /\ Broadcasts \subseteq Ip \ {Own}
ASSUME MulticastAssumption == Multicast \notin Ip
ASSUME NoRouteAssumption == NULL \notin Ip \cup {Zero}
ASSUME ForwardingAssumption == Forwarding \subseteq [Ip -> Ip \cup {Zero, NULL}]

VARIABLES
    gateway,    \* gateway of the route to each address, NULL without one
    status,     \* of the sender
    dst,        \* destination of the packet being sent
    frames      \* handed to Ethernet: the packet's destination and the address

outvars == <<gateway, status, dst, frames>>
ovars == <<avars, outvars>>

Destination == Ip \cup {Multicast}
Address == Mac \cup {OwnMac, MulticastMac}

OutputTypeOK ==
    /\ TypeOK
    /\ gateway \in [Ip -> Ip \cup {Zero, NULL}]
    /\ status \in {"ready", "resolving", "crashed"}
    /\ dst \in Destination
    /\ frames \subseteq [dst: Destination, mac: Address]

OInit ==
    /\ Init
    /\ gateway \in Forwarding
    /\ status = "ready"
    /\ dst = Multicast
    /\ frames = {}

---------------------------------------------------------------------------
\* eth_send puts the frame on the wire or fails.
EthSend(f) == frames' \in {frames, frames \cup {f}}

\* The packet with its header goes to Ethernet; the result is not acted upon.
Transmit(d, mac) == EthSend([dst |-> d, mac |-> mac])

SendMulticast ==
    /\ status = "ready"
    /\ dst' = Multicast
    /\ Transmit(Multicast, MulticastMac)
    /\ UNCHANGED <<avars, gateway, status>>

\* The route found is used before it is compared with NULL.
SendWithoutRoute ==
    /\ status = "ready"
    /\ \E d \in Ip : gateway[d] = NULL /\ dst' = d
    /\ status' = "crashed"
    /\ UNCHANGED <<avars, gateway, frames>>

\* ip_subscribed_to holds and no resolution is made; the address written is
\* our own, or none at all for a broadcast.
SendSubscribed ==
    /\ status = "ready"
    /\ \E d \in {Own} \cup Broadcasts :
           /\ gateway[d] # NULL
           /\ dst' = d
           /\ \E mac \in IF d = Own THEN {OwnMac} ELSE Address : Transmit(d, mac)
    /\ UNCHANGED <<avars, gateway, status>>

\* Mutant: the destination is resolved although it is behind a gateway.
MutNextHop(d) == d

NextHop(d) == IF gateway[d] = Zero THEN d ELSE gateway[d]

\* Mutant: a request is broadcast without a look at the cache.
MutCallResolve ==
    /\ status = "ready" /\ pc = "idle"
    /\ \E d \in Ip \ ({Own} \cup Broadcasts) :
           gateway[d] # NULL /\ dst' = d /\ target' = NextHop(d)
    /\ n' = 0 /\ timer' = TIMEOUT
    /\ pc' = "send" /\ result' = "none"
    /\ status' = "resolving"
    /\ UNCHANGED <<cache, recv, mac_addr, replies, others, gateway, frames>>

CallResolve ==
    /\ status = "ready"
    /\ \E d \in Ip \ ({Own} \cup Broadcasts) :
           /\ gateway[d] # NULL
           /\ dst' = d
           /\ ResolveFromCache(NextHop(d)) \/ ResolveFromNetwork(NextHop(d))
    /\ status' = "resolving"
    /\ UNCHANGED <<gateway, frames>>

\* The resolver works while the sender waits; its cache ages all the time.
Resolving == (Work \/ Answer \/ OthersArrive \/ Tick) /\ UNCHANGED outvars

Resolved ==
    /\ status = "resolving"
    /\ pc = "idle"
    /\ status' = "ready"
    /\ UNCHANGED <<avars, gateway, dst>>

SendResolved == Resolved /\ result # "error" /\ Transmit(dst, mac_addr)

ResolveFailed == Resolved /\ result = "error" /\ UNCHANGED frames

ONext ==
    \/ SendMulticast \/ SendWithoutRoute \/ SendSubscribed \/ CallResolve
    \/ Resolving /\ status # "crashed"
    \/ SendResolved \/ ResolveFailed

OSpec == OInit /\ [][ONext]_ovars

\* The process runs and the clock advances, as long as the sender has not died.
\* No reply is assumed, and no end to the frames of others.
OFairSpec ==
    /\ OSpec
    /\ WF_ovars(status # "crashed" /\ Work /\ UNCHANGED outvars)
    /\ WF_ovars(status # "crashed" /\ Tick /\ UNCHANGED outvars)

---------------------------------------------------------------------------
\* What goes to another host goes to a hardware address some host gave for the
\* next hop on its way: the gateway, or the host itself when it is connected.
\* Of broadcasts, whose address nothing sets, it says nothing.
FramesGoToNextHop ==
    \A f \in frames :
        f.dst \in Ip \ ({Own} \cup Broadcasts) =>
            LET via == gateway[f.dst]
            IN [ip |-> IF via = Zero THEN f.dst ELSE via, mac |-> f.mac] \in replies
=============================================================================
