------------------------------ MODULE NetInput ------------------------------
(***************************************************************************)
(* Receiving a datagram: udp_recv calls ipv4_recv calls eth_recv, each a   *)
(* loop that drops what is not meant for it and waits for what is left of  *)
(* its own timer, started with what was left of its caller's.              *)
(*                                                                         *)
(* A frame is what each layer tells of it.  The fields of IP and UDP are   *)
(* read from whatever bytes are there, whether the frame is IP or not.     *)
(***************************************************************************)
EXTENDS Integers, Sequences

CONSTANTS
    Frames,         \* the frames that may arrive
    Timeouts,       \* timeouts udp_recv is called with, INFINITE among them
    MaxWait,        \* the longest finite one
    MaxQueue,       \* frames the socket holds
    MaxArrivals     \* bound on the frames of a behaviour, -1 for none

INFINITE == -1

Frame == [mine: BOOLEAN,    \* sent to the hardware address of the interface
          ip: BOOLEAN,      \* its Ethernet type is IPv4
          here: BOOLEAN,    \* ip_subscribed_to holds of its destination
          udp: BOOLEAN,     \* its protocol is UDP
          sum: BOOLEAN,     \* its header checksum is right
          port: BOOLEAN,    \* its destination port is the open one
          carries: {"nothing", "header", "data"}]
                            \* no IP payload, a UDP header alone, or more

ASSUME FramesAssumption == Frames \subseteq Frame
ASSUME WaitAssumption == MaxWait \in Nat /\ Timeouts \subseteq INFINITE .. MaxWait
ASSUME QueueAssumption == MaxQueue \in Nat

VARIABLES
    queue,      \* frames that arrived and were not read
    pc,         \* the innermost call under way
    udp_timer, ipv4_timer, eth_timer,
    result,     \* of the last udp_recv that returned
    asked,      \* its timeout
    waited,     \* ticks since it was called
    arrived,    \* every frame queued
    delivered   \* every datagram returned

timers == <<udp_timer, ipv4_timer, eth_timer>>
history == <<asked, waited, arrived, delivered>>
nvars == <<queue, pc, timers, result, history>>

Left == INFINITE .. MaxWait

TypeOK ==
    /\ queue \in Seq(Frames) /\ Len(queue) <= MaxQueue
    /\ pc \in {"app", "udp", "ipv4", "eth"}
    /\ udp_timer \in Left /\ ipv4_timer \in Left /\ eth_timer \in Left
    /\ result \in {"none", "datagram", "timeout", "empty", "error"}
    /\ asked \in Left /\ waited \in 0 .. MaxWait + 1
    /\ arrived \in Seq(Frames) /\ delivered \in Seq(Frames)

Init ==
    /\ queue = <<>>
    /\ pc = "app"
    /\ udp_timer = 0 /\ ipv4_timer = 0 /\ eth_timer = 0
    /\ result = "none"
    /\ asked = 0 /\ waited = 0
    /\ arrived = <<>> /\ delivered = <<>>

---------------------------------------------------------------------------
(* What each layer lets through. *)

\* Mutant: the test before multicast was added.
MutEthAccepts(f) == f.mine /\ f.ip

\* eth_recv reads on only if the frame is neither for us nor of the type.
EthAccepts(f) == f.mine \/ f.ip

Ipv4Accepts(f) == f.here /\ f.udp /\ f.sum

UdpAccepts(f) == f.port

Accepted(f) == EthAccepts(f) /\ Ipv4Accepts(f) /\ UdpAccepts(f)

\* The length left after a layer took off its header is 0, which the layer
\* above takes for the end of the wait.  (A datagram shorter than the UDP header,
\* whose length would come out negative, is not among the frames.)
LengthIsZero(f) ==
    /\ EthAccepts(f) /\ Ipv4Accepts(f)
    /\ \/ f.carries = "nothing"
       \/ f.carries = "header" /\ UdpAccepts(f)

---------------------------------------------------------------------------
UdpRecv ==
    /\ pc = "app"
    /\ udp_timer' \in Timeouts
    /\ asked' = udp_timer' /\ waited' = 0
    /\ pc' = "udp"
    /\ UNCHANGED <<queue, ipv4_timer, eth_timer, result, arrived, delivered>>

CallIpv4Recv ==
    /\ pc = "udp"
    /\ ipv4_timer' = udp_timer
    /\ pc' = "ipv4"
    /\ UNCHANGED <<queue, udp_timer, eth_timer, result, history>>

CallEthRecv ==
    /\ pc = "ipv4"
    /\ eth_timer' = ipv4_timer
    /\ pc' = "eth"
    /\ UNCHANGED <<queue, udp_timer, ipv4_timer, result, history>>

\* rawnet_recv returns the next frame, also when no time is left to wait.
RawRecv ==
    /\ pc = "eth"
    /\ queue # <<>>
    /\ queue' = Tail(queue)
    /\ UNCHANGED <<timers, asked, waited, arrived>>

\* Mutant: a datagram for another port counts as no datagram at all.
MutDrop(f) ==
    IF EthAccepts(f) /\ Ipv4Accepts(f)
    THEN pc' = "app" /\ result' = "timeout"
    ELSE pc' = (IF EthAccepts(f) THEN "ipv4" ELSE "eth") /\ UNCHANGED result

\* The layer that refuses the frame goes on with its loop.
Drop(f) ==
    /\ pc' = IF ~EthAccepts(f) THEN "eth"
             ELSE IF ~Ipv4Accepts(f) THEN "ipv4"
             ELSE "udp"
    /\ UNCHANGED result

Deliver ==
    /\ RawRecv
    /\ Accepted(Head(queue)) /\ ~LengthIsZero(Head(queue))
    /\ delivered' = Append(delivered, Head(queue))
    /\ pc' = "app"
    /\ result' = "datagram"

ReturnZero ==
    /\ RawRecv
    /\ LengthIsZero(Head(queue))
    /\ pc' = "app"
    /\ result' = "empty"
    /\ UNCHANGED delivered

Discard ==
    /\ RawRecv
    /\ ~Accepted(Head(queue)) /\ ~LengthIsZero(Head(queue))
    /\ Drop(Head(queue))
    /\ UNCHANGED delivered

\* Mutant: udp_recv goes round its loop again.
MutTimeOut ==
    /\ pc = "eth"
    /\ queue = <<>> /\ eth_timer = 0
    /\ pc' = "udp"
    /\ UNCHANGED <<queue, timers, result, history>>

\* Every layer passes the 0 of its callee on without another look at its timer.
TimeOut ==
    /\ pc = "eth"
    /\ queue = <<>> /\ eth_timer = 0
    /\ pc' = "app"
    /\ result' = "timeout"
    /\ UNCHANGED <<queue, timers, history>>

RecvError ==
    /\ pc = "eth"
    /\ pc' = "app"
    /\ result' = "error"
    /\ UNCHANGED <<queue, timers, history>>

\* A frame too many is lost.
Arrive ==
    /\ Len(queue) < MaxQueue
    /\ MaxArrivals >= 0 => Len(arrived) < MaxArrivals
    /\ \E f \in Frames :
           /\ queue' = Append(queue, f)
           /\ arrived' = Append(arrived, f)
    /\ UNCHANGED <<pc, timers, result, asked, waited, delivered>>

\* Mutant: timers that are over or infinite count on.
MutElapse(t) == t - 1

Elapse(t) == IF t > 0 THEN t - 1 ELSE t

\* waited is counted to just past the longest timeout.
Tick ==
    /\ udp_timer' = Elapse(udp_timer)
    /\ ipv4_timer' = Elapse(ipv4_timer)
    /\ eth_timer' = Elapse(eth_timer)
    /\ waited' = IF waited <= MaxWait THEN waited + 1 ELSE waited
    /\ UNCHANGED <<queue, pc, result, asked, arrived, delivered>>

Receive ==
    \/ CallIpv4Recv \/ CallEthRecv
    \/ Deliver \/ ReturnZero \/ Discard \/ TimeOut

Next == UdpRecv \/ Receive \/ RecvError \/ Arrive \/ Tick

Spec == Init /\ [][Next]_nvars

\* The process runs and time passes; nothing has to arrive or to fail.
FairSpec == Spec /\ WF_nvars(Receive) /\ WF_nvars(Tick)

---------------------------------------------------------------------------
\* A UDP datagram with data for the open port and one of our addresses,
\* multicast ones included.
Ours(f) == f.ip /\ f.here /\ f.udp /\ f.sum /\ f.port /\ f.carries = "data"

\* Frames taken out of the queue.
Read == Len(arrived) - Len(queue)

\* at tells which of the first n frames each datagram returned was.
Follows(at, n) ==
    /\ \A k \in DOMAIN delivered :
           /\ delivered[k] = arrived[at[k]]
           /\ \A h \in 1 .. k - 1 : at[h] < at[k]
    /\ \A m \in 1 .. n : Ours(arrived[m]) => \E k \in DOMAIN delivered : at[k] = m

\* Through three loops, timeouts and restarts of the wait, what is returned are
\* frames that got into the queue and were read, each once and in the order they
\* came, and every datagram for us that was read is among them.
DeliveredInOrder == \E at \in [DOMAIN delivered -> 1 .. Read] : Follows(at, Read)

\* A receive that gives up has waited for as long as it was asked to.
GivesUpInTime ==
    pc = "app" /\ result = "timeout" => asked >= 0 /\ waited >= asked

\* Frames of others do not keep a finite receive from coming to an end, as long
\* as they stop coming.
FiniteReceiveEnds == pc # "app" /\ asked >= 0 ~> pc = "app"
=============================================================================
