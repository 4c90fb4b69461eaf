-------------------------------- MODULE Arp --------------------------------
(***************************************************************************)
(* arp_resolve of src/files/arp.c and the cache it keeps: look the address *)
(* up, broadcast a request, listen for the reply until the timer runs out, *)
(* save what was learned.  The network delivers replies late, repeatedly   *)
(* or never, and the socket also hands over frames of other protocols and  *)
(* frames of others, which eth_recv reads and drops.                       *)
(* Clock ticks come between any two steps.                                 *)
(***************************************************************************)
EXTENDS Integers

CONSTANTS
    Ip,             \* addresses that are resolved
    Mac,
    NULL,           \* the zeroed string of an unused cache entry
    CACHE_SIZE,     \* _CACHE_SIZE, 50 in the code
    CACHE_TIME,     \* _CACHE_TIME, in ticks
    TIMEOUT,        \* the 16 s of one resolution, in ticks
    MaxOthers       \* frames of others the socket holds

ASSUME SizeAssumption == CACHE_SIZE \in Nat
ASSUME TimeAssumption == CACHE_TIME \in Nat \ {0} /\ TIMEOUT \in Nat \ {0}
ASSUME NullAssumption == NULL \notin Ip
ASSUME OthersAssumption == MaxOthers \in Nat

VARIABLES
    cache,      \* each entry's ip, mac and the time left on its timer
    pc,
    target,     \* target_addr
    n,          \* attempts made
    timer,      \* time left to this resolution
    recv,       \* what the last eth_recv of this attempt returned
    mac_addr,   \* output parameter, also written by every eth_recv
    result,     \* of the call that has returned
    replies,    \* replies hosts have sent
    others      \* frames in the socket for other hosts and of other protocols

avars == <<cache, pc, target, n, timer, recv, mac_addr, result, replies, others>>

Entries == 0 .. CACHE_SIZE - 1
Reply == [ip: Ip, mac: Mac]
CacheEntry == [ip: Ip \cup {NULL}, mac: Mac \cup {NULL}, left: 0 .. CACHE_TIME]
Frame == [kind: {"reply"}, ip: Ip, mac: Mac]
Nothing == [kind: {"error", "timeout", "other"}]

TypeOK ==
    /\ cache \in [Entries -> CacheEntry]
    /\ pc \in {"idle", "send", "listen", "wait"}
    /\ target \in Ip
    /\ n \in 0 .. 1
    /\ timer \in 0 .. TIMEOUT
    /\ recv \in Frame \cup Nothing
    /\ mac_addr \in Mac
    /\ result \in {"none", "ok", "nobody", "error"}
    /\ replies \subseteq Reply
    /\ others \in 0 .. MaxOthers

Init ==
    /\ cache = [e \in Entries |-> [ip |-> NULL, mac |-> NULL, left |-> 0]]
    /\ pc = "idle"
    /\ target \in Ip
    /\ n = 0 /\ timer = 0
    /\ recv = [kind |-> "error"]
    /\ mac_addr \in Mac
    /\ result = "none"
    /\ replies = {}
    /\ others = 0

---------------------------------------------------------------------------
Live(e) == cache[e].left > 0

\* Mutant: the search ends one entry early.
MutHits(ip) == {e \in Entries : e + 1 < CACHE_SIZE /\ cache[e].ip = ip /\ Live(e)}

\* Expired entries of the address are passed over.
Hits(ip) == {e \in Entries : cache[e].ip = ip /\ Live(e)}

ResolveFromCache(ip) ==
    /\ pc = "idle"
    /\ \E e \in Hits(ip) : /\ \A f \in Hits(ip) : e <= f
                           /\ mac_addr' = cache[e].mac
    /\ target' = ip
    /\ result' = "ok"
    /\ UNCHANGED <<cache, pc, n, timer, recv, replies, others>>

ResolveFromNetwork(ip) ==
    /\ pc = "idle"
    /\ Hits(ip) = {}
    /\ target' = ip
    /\ n' = 0
    /\ timer' = TIMEOUT
    /\ pc' = "send"
    /\ result' = "none"
    /\ UNCHANGED <<cache, recv, mac_addr, replies, others>>

\* The call's own variables are gone.
Return(r) ==
    /\ pc' = "idle"
    /\ result' = r
    /\ n' = 0 /\ timer' = 0 /\ recv' = [kind |-> "error"]

SendRequest ==
    /\ pc = "send"
    /\ recv' = [kind |-> "error"]
    /\ pc' = "listen"
    /\ UNCHANGED <<cache, target, n, timer, mac_addr, result, replies, others>>

\* eth_send returned 0 or -1.
SendFails ==
    /\ pc = "send"
    /\ Return("error")
    /\ UNCHANGED <<cache, target, mac_addr, replies, others>>

\* A host that heard the request answers for the address, whoever it is.
Answer ==
    /\ pc \in {"listen", "wait"}
    /\ \E m \in Mac : replies' = replies \cup {[ip |-> target, mac |-> m]}
    /\ UNCHANGED <<cache, pc, target, n, timer, recv, mac_addr, result, others>>

---------------------------------------------------------------------------
(* The inner loop: until a reply comes or the timer runs out. *)

\* Any host may send to any other at any time; what the socket has no room for
\* is lost.
OthersArrive ==
    /\ others < MaxOthers
    /\ others' = others + 1
    /\ UNCHANGED <<cache, pc, target, n, timer, recv, mac_addr, result, replies>>

CallRecv ==
    /\ pc = "listen"
    /\ recv.kind # "reply" /\ timer > 0
    /\ pc' = "wait"
    /\ UNCHANGED <<cache, target, n, timer, recv, mac_addr, result, replies, others>>

RecvReply ==
    /\ pc = "wait"
    /\ \E r \in replies : /\ recv' = [kind |-> "reply", ip |-> r.ip, mac |-> r.mac]
                          /\ mac_addr' = r.mac
    /\ pc' = "listen"
    /\ UNCHANGED <<cache, target, n, timer, result, replies, others>>

\* A request of another host, or a frame for us that is not ARP at all.
RecvOther ==
    /\ pc = "wait"
    /\ recv' = [kind |-> "other"]
    /\ mac_addr' \in Mac
    /\ pc' = "listen"
    /\ UNCHANGED <<cache, target, n, timer, result, replies, others>>

\* eth_recv drops the frame and reads on, also when its time is over.
Discard ==
    /\ pc = "wait"
    /\ others > 0
    /\ others' = others - 1
    /\ UNCHANGED <<cache, pc, target, n, timer, recv, mac_addr, result, replies>>

\* rawnet_recv tells that the time is over only when there is nothing to read.
RecvNothing ==
    /\ pc = "wait"
    /\ \/ timer = 0 /\ others = 0 /\ recv' = [kind |-> "timeout"]
       \/ recv' = [kind |-> "error"]
    /\ pc' = "listen"
    /\ UNCHANGED <<cache, target, n, timer, mac_addr, result, replies, others>>

---------------------------------------------------------------------------
(* After the inner loop. *)

\* Mutant: an entry counts as free whatever its timer says.
MutFree(e) == \A f \in Entries : e <= f

Free(e) == ~Live(e)

\* The first entry whose time is over, never used ones included; a full cache
\* is left as it is.
Saved(r) ==
    [e \in Entries |->
        IF Free(e) /\ \A f \in Entries : Free(f) => e <= f
        THEN [ip |-> r.ip, mac |-> r.mac, left |-> CACHE_TIME]
        ELSE cache[e]]

Got(kinds) == pc = "listen" /\ recv.kind \in kinds

\* Mutant: the address that answered is not compared.
MutFound ==
    /\ Got({"reply"})
    /\ mac_addr' = recv.mac
    /\ cache' = Saved([ip |-> target, mac |-> recv.mac])
    /\ Return("ok")
    /\ UNCHANGED <<target, replies, others>>

Found ==
    /\ Got({"reply"})
    /\ recv.ip = target
    /\ mac_addr' = recv.mac
    /\ cache' = Saved(recv)
    /\ Return("ok")
    /\ UNCHANGED <<target, replies, others>>

\* Mutant: the wait starts over for the next attempt.
MutWrongHost ==
    /\ Got({"reply"})
    /\ recv.ip # target
    /\ pc' = "send"
    /\ timer' = TIMEOUT
    /\ UNCHANGED <<cache, target, n, recv, mac_addr, result, replies, others>>

\* Another host's late reply: asks again, which is not counted as an attempt.
WrongHost ==
    /\ Got({"reply"})
    /\ recv.ip # target
    /\ pc' = "send"
    /\ UNCHANGED <<cache, target, n, timer, recv, mac_addr, result, replies, others>>

\* Also what becomes of an attempt made with no time left to listen.
Fail ==
    /\ Got({"error"})
    /\ timer = 0
    /\ Return("error")
    /\ UNCHANGED <<cache, target, mac_addr, replies, others>>

\* The second time over would be reported as nobody answering.
TimeIsOver ==
    /\ Got({"timeout", "other"})
    /\ timer = 0
    /\ IF n = 1 THEN Return("nobody")
                ELSE n' = n + 1 /\ pc' = "send" /\ UNCHANGED <<timer, recv, result>>
    /\ UNCHANGED <<cache, target, mac_addr, replies, others>>

\* Mutant: an expired timer goes on below zero.
MutElapse(t) == t - 1

Elapse(t) == IF t > 0 THEN t - 1 ELSE 0

Tick ==
    /\ cache' = [e \in Entries |-> [cache[e] EXCEPT !.left = Elapse(@)]]
    /\ timer' = Elapse(timer)
    /\ UNCHANGED <<pc, target, n, recv, mac_addr, result, replies, others>>

Resolve == \E ip \in Ip : ResolveFromCache(ip) \/ ResolveFromNetwork(ip)

Work ==
    \/ SendRequest \/ SendFails
    \/ CallRecv \/ RecvReply \/ RecvOther \/ Discard \/ RecvNothing
    \/ Found \/ WrongHost \/ Fail \/ TimeIsOver

Next == Resolve \/ Work \/ Answer \/ OthersArrive \/ Tick

Spec == Init /\ [][Next]_avars

---------------------------------------------------------------------------
\* Between lookups, waits, expiries and saves, an address never has two live
\* entries: the search returns the first, the second would be an old answer
\* that comes back when the first expires.
OneLiveEntry ==
    \A e, f \in Entries :
        Live(e) /\ Live(f) /\ cache[e].ip = cache[f].ip => e = f

\* A call that succeeds returns a hardware address some host gave for the
\* address asked for, however late, and not the source of another frame.
AnswerIsTargets ==
    pc = "idle" /\ result = "ok" => [ip |-> target, mac |-> mac_addr] \in replies

\* A live entry stays what it is until its time is over.
LiveEntryIsKept ==
    [][\A e \in Entries : Live(e) /\ cache'[e] # cache[e] =>
         cache'[e] = [cache[e] EXCEPT !.left = @ - 1]]_avars

\* A resolution comes to an end, whoever answers, how often and about what, and
\* whatever it is handed that is no reply.  The only thing that keeps it for ever
\* is an endless flood of frames that eth_recv reads and drops.
EveryCallReturns == (pc # "idle" ~> pc = "idle") \/ []<><<Discard>>_avars

\* "2 intentos" (arp.c:100): each attempt leaves time for an answer.
AttemptsListen == pc = "listen" /\ n = 1 /\ recv.kind = "error" => timer > 0
=============================================================================
