----------------------------- MODULE RouteLife -----------------------------
(***************************************************************************)
(* What the daemon promises of each destination, whichever slot holds it:  *)
(* unknown, static (from the file), alive while its timer runs, expired,   *)
(* dying while its garbage countdown runs.  RipServer's slots, timers and  *)
(* flags implement it: a countdown belongs to a slot there, to a           *)
(* destination here.                                                       *)
(***************************************************************************)
EXTENDS Integers

CONSTANTS Dest, GARBAGE_COLLECTOR

VARIABLES
    life,
    left        \* of the countdown of a dying destination, else 0

lifevars == <<life, left>>

In(stage) == {d \in Dest : life[d] = stage}

\* The destinations of a set reach a stage, with no countdown running.
Become(dests, stage) ==
    /\ life' = [d \in Dest |-> IF d \in dests THEN stage ELSE life[d]]
    /\ left' = [d \in Dest |-> IF d \in dests THEN 0 ELSE left[d]]

Init ==
    /\ life \in [Dest -> {"unknown", "static"}]
    /\ left = [d \in Dest |-> 0]

\* A usable route to d is learned, improved or refreshed.
Reach(d) == Become({d}, "alive")

\* The router d is reached through takes it back: a static route too.
Withdraw(d) == life[d] # "unknown" /\ Become({d}, "expired")

\* A request by name for dying destinations makes their countdown start over.
Request(dests) == dests \subseteq In("dying") /\ Become(dests, "expired")

StartCountdowns ==
    /\ life' = [d \in Dest |-> IF d \in In("expired") THEN "dying" ELSE life[d]]
    /\ left' = [d \in Dest |->
           IF d \in In("expired") THEN GARBAGE_COLLECTOR ELSE left[d]]

\* All whose countdown is over are forgotten together.
Forget == Become({d \in In("dying") : left[d] = 0}, "unknown")

\* Some live destinations expire; every countdown goes on.
TimePasses ==
    \E expiring \in SUBSET In("alive") :
        /\ life' = [d \in Dest |-> IF d \in expiring THEN "expired" ELSE life[d]]
        /\ left' = [d \in Dest |-> IF left[d] > 0 THEN left[d] - 1 ELSE left[d]]

Next ==
    \/ \E d \in Dest : Reach(d) \/ Withdraw(d)
    \/ \E dests \in SUBSET Dest : Request(dests)
    \/ StartCountdowns \/ Forget \/ TimePasses

Spec == Init /\ [][Next]_lifevars
=============================================================================
