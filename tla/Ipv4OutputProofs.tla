-------------------------- MODULE Ipv4OutputProofs --------------------------
(***************************************************************************)
(* What arp_resolve guarantees for every cache size, lifetime and number   *)
(* of hosts (an address never has two live entries, a live entry is not    *)
(* overwritten, what a successful call returns was said of the target),    *)
(* and what sending through it does: it drives the resolver only as Arp    *)
(* allows, and a frame goes to the address the next hop was resolved to.   *)
(***************************************************************************)
EXTENDS Ipv4Output, TLAPS

---------------------------------------------------------------------------
(* The resolver (Arp). *)

\* While a call waits for the network, entries only expire: none is live for
\* the address it was not found in the cache for.
Searching == pc # "idle" => Hits(target) = {}

\* What is in a live entry, and in a reply received, was said by some host.
Heard ==
    /\ \A e \in Entries :
           Live(e) => [ip |-> cache[e].ip, mac |-> cache[e].mac] \in replies
    /\ recv.kind = "reply" => [ip |-> recv.ip, mac |-> recv.mac] \in replies

IInv == TypeOK /\ Heard /\ Searching /\ OneLiveEntry /\ AnswerIsTargets

---------------------------------------------------------------------------
\* A saved reply keeps the type of the cache.
LEMMA SavedType ==
    ASSUME TypeOK, NEW r \in Frame
    PROVE  Saved(r) \in [Entries -> CacheEntry]
BY TimeAssumption DEF TypeOK, Saved, CacheEntry, Frame

\* Time runs down to zero and stays there.
LEMMA ElapseType ==
    ASSUME NEW b \in Nat, NEW t \in 0 .. b
    PROVE  Elapse(t) \in 0 .. b /\ (Elapse(t) > 0 => t > 0 /\ Elapse(t) = t - 1)
BY DEF Elapse

\* The initial state satisfies the invariant.
LEMMA InitIInv == Init => IInv
<1> SUFFICES ASSUME Init PROVE IInv
    OBVIOUS
<1>1. TypeOK
    BY TimeAssumption, OthersAssumption DEF Init, TypeOK, CacheEntry, Nothing
<1>2. \A e \in Entries : ~Live(e)
    BY DEF Init, Live
<1>3. Heard /\ Searching /\ OneLiveEntry /\ AnswerIsTargets
    BY <1>2 DEF Init, Heard, Searching, OneLiveEntry, AnswerIsTargets
<1> QED BY <1>1, <1>3 DEF IInv

\* Every step keeps the types.
LEMMA TypeStep == TypeOK /\ Heard /\ [Next]_avars => TypeOK'
<1> SUFFICES ASSUME TypeOK, Heard, [Next]_avars PROVE TypeOK'
    OBVIOUS
<1> USE TimeAssumption, OthersAssumption
<1>1. CASE Resolve
    <2>1. PICK ip \in Ip : ResolveFromCache(ip) \/ ResolveFromNetwork(ip)
        BY <1>1 DEF Resolve
    <2>2. CASE ResolveFromCache(ip)
        <3>1. PICK e \in Entries : Live(e) /\ mac_addr' = cache[e].mac
            BY <2>2 DEF ResolveFromCache, Hits
        <3>2. mac_addr' \in Mac
            BY <3>1 DEF Heard, TypeOK, Reply
        <3> QED BY <2>2, <3>2 DEF ResolveFromCache, TypeOK
    <2>3. CASE ResolveFromNetwork(ip)
        BY <2>3 DEF ResolveFromNetwork, TypeOK
    <2> QED BY <2>1, <2>2, <2>3
<1>2. CASE SendRequest
    BY <1>2 DEF SendRequest, TypeOK, Nothing
<1>3. CASE SendFails
    BY <1>3 DEF SendFails, Return, TypeOK, Nothing
<1>4. CASE CallRecv
    BY <1>4 DEF CallRecv, TypeOK
<1>5. CASE RecvReply
    BY <1>5 DEF RecvReply, TypeOK, Reply, Frame
<1>6. CASE RecvOther
    BY <1>6 DEF RecvOther, TypeOK, Nothing
<1>7. CASE RecvNothing
    BY <1>7 DEF RecvNothing, TypeOK, Nothing
<1>8. CASE Found
    <2>1. recv \in Frame
        BY <1>8 DEF Found, Got, TypeOK, Nothing
    <2>2. cache' \in [Entries -> CacheEntry]
        BY <1>8, <2>1, SavedType DEF Found
    <2> QED BY <1>8, <2>1, <2>2 DEF Found, Return, TypeOK, Frame, Nothing
<1>9. CASE WrongHost
    BY <1>9 DEF WrongHost, TypeOK
<1>10. CASE Fail
    BY <1>10 DEF Fail, Return, TypeOK, Nothing
<1>11. CASE TimeIsOver
    BY <1>11 DEF TimeIsOver, Return, TypeOK, Nothing
<1>12. CASE Answer
    BY <1>12 DEF Answer, TypeOK, Reply
<1>13. CASE OthersArrive \/ Discard
    BY <1>13 DEF OthersArrive, Discard, TypeOK
<1>14. CASE Tick
    <2>1. cache' \in [Entries -> CacheEntry]
        BY <1>14, ElapseType DEF Tick, TypeOK, CacheEntry
    <2> QED BY <1>14, <2>1, ElapseType DEF Tick, TypeOK
<1>15. CASE UNCHANGED avars
    BY <1>15 DEF avars, TypeOK
<1> QED BY <1>1, <1>2, <1>3, <1>4, <1>5, <1>6, <1>7, <1>8, <1>9, <1>10, <1>11,
           <1>12, <1>13, <1>14, <1>15 DEF Next, Work

---------------------------------------------------------------------------
\* Only saving a reply and the clock touch the cache, and only from these.
LEMMA CacheSteps ==
    ASSUME [Next]_avars
    PROVE  \/ Found
           \/ Tick
           \/ UNCHANGED cache
BY DEF Next, Work, Resolve, ResolveFromCache, ResolveFromNetwork, SendRequest,
       SendFails, CallRecv, RecvReply, RecvOther, Discard, RecvNothing, WrongHost, Fail,
       TimeIsOver, Answer, OthersArrive, avars

\* Replies are only added to.
LEMMA RepliesGrow ==
    ASSUME [Next]_avars PROVE replies \subseteq replies'
BY DEF Next, Work, Resolve, ResolveFromCache, ResolveFromNetwork, SendRequest,
       SendFails, CallRecv, RecvReply, RecvOther, Discard, RecvNothing, Found, WrongHost,
       Fail, TimeIsOver, Answer, OthersArrive, Tick, avars

\* After a tick the live entries were live before and are otherwise the same.
LEMMA TickKeepsEntries ==
    ASSUME TypeOK, Tick, NEW e \in Entries
    PROVE  /\ cache'[e].ip = cache[e].ip /\ cache'[e].mac = cache[e].mac
           /\ Live(e)' => Live(e) /\ cache'[e] = [cache[e] EXCEPT !.left = @ - 1]
<1>1. cache[e] \in CacheEntry
    BY DEF TypeOK
<1>2. cache'[e] = [cache[e] EXCEPT !.left = Elapse(cache[e].left)]
    BY DEF Tick
<1>3. cache[e].left \in 0 .. CACHE_TIME /\ CACHE_TIME \in Nat
    BY <1>1, TimeAssumption DEF CacheEntry
<1> QED BY <1>1, <1>2, <1>3, ElapseType DEF Live, CacheEntry

\* Saving writes the reply into one entry that was free and no other.
LEMMA SaveWritesFreeEntry ==
    ASSUME TypeOK, Found, NEW e \in Entries
    PROVE  \/ cache'[e] = cache[e]
           \/ /\ ~Live(e) /\ recv.kind = "reply" /\ recv.ip = target
              /\ cache'[e] = [ip |-> recv.ip, mac |-> recv.mac, left |-> CACHE_TIME]
              /\ \A f \in Entries \ {e} : cache'[f] = cache[f]
<1>1. Entries \subseteq Int
    BY DEF Entries
<1> QED BY <1>1 DEF Found, Got, Saved, Free

\* What is cached or received has been said.
LEMMA HeardStep == TypeOK /\ Heard /\ [Next]_avars => Heard'
<1> SUFFICES ASSUME TypeOK, Heard, [Next]_avars PROVE Heard'
    OBVIOUS
<1>1. ASSUME NEW e \in Entries, Live(e)'
      PROVE  [ip |-> cache'[e].ip, mac |-> cache'[e].mac] \in replies'
    <2>1. CASE Found
        <3>1. CASE cache'[e] = cache[e]
            BY <1>1, <3>1, RepliesGrow DEF Heard, Live
        <3>2. CASE cache'[e] # cache[e]
            BY <2>1, <3>2, SaveWritesFreeEntry, RepliesGrow DEF Heard
        <3> QED BY <3>1, <3>2
    <2>2. CASE Tick
        BY <1>1, <2>2, TickKeepsEntries, RepliesGrow DEF Heard
    <2>3. CASE UNCHANGED cache
        BY <1>1, <2>3, RepliesGrow DEF Heard, Live
    <2> QED BY <2>1, <2>2, <2>3, CacheSteps
<1>2. ASSUME recv'.kind = "reply"
      PROVE  [ip |-> recv'.ip, mac |-> recv'.mac] \in replies'
    <2>1. CASE RecvReply
        BY <2>1 DEF RecvReply, TypeOK, Reply
    <2>2. CASE UNCHANGED recv
        BY <1>2, <2>2, RepliesGrow DEF Heard
    <2>3. recv'.kind # "reply" \/ RecvReply \/ UNCHANGED recv
        BY DEF Next, Work, Resolve, ResolveFromCache, ResolveFromNetwork,
               SendRequest, SendFails, CallRecv, RecvOther, Discard, RecvNothing, Found,
               WrongHost, Fail, TimeIsOver, Answer, OthersArrive, Tick, Return, avars
    <2> QED BY <1>2, <2>1, <2>2, <2>3
<1> QED BY <1>1, <1>2 DEF Heard

\* No entry for the target comes to life while a call waits.
LEMMA SearchingStep == TypeOK /\ Searching /\ [Next]_avars => Searching'
<1> SUFFICES ASSUME TypeOK, Searching, [Next]_avars, pc' # "idle"
             PROVE  Hits(target)' = {}
    BY DEF Searching
<1>1. CASE Resolve
    BY <1>1 DEF Resolve, ResolveFromCache, ResolveFromNetwork, Hits, Live
<1>2. CASE Tick
    <2>1. Hits(target) = {} /\ target' = target
        BY <1>2 DEF Tick, Searching
    <2> QED BY <1>2, <2>1, TickKeepsEntries DEF Hits
<1>3. CASE ~Resolve /\ ~Tick
    <2>1. UNCHANGED <<cache, target>> /\ pc # "idle"
        BY <1>3 DEF Next, Work, SendRequest, SendFails, CallRecv, RecvReply,
                    RecvOther, Discard, RecvNothing, Found, WrongHost, Fail, TimeIsOver,
                    Answer, OthersArrive, Return, Got, avars
    <2> QED BY <2>1 DEF Searching, Hits, Live
<1> QED BY <1>1, <1>2, <1>3

\* Two live entries never come to hold one address.
LEMMA OneLiveEntryStep ==
    TypeOK /\ Searching /\ OneLiveEntry /\ [Next]_avars => OneLiveEntry'
<1> SUFFICES ASSUME TypeOK, Searching, OneLiveEntry, [Next]_avars,
                    NEW e \in Entries, NEW f \in Entries, Live(e)', Live(f)',
                    cache'[e].ip = cache'[f].ip
             PROVE  e = f
    BY DEF OneLiveEntry
<1>1. CASE Found
    <2>1. Hits(target) = {}
        BY <1>1 DEF Found, Got, Searching
    <2>2. CASE cache'[e] = cache[e] /\ cache'[f] = cache[f]
        BY <2>2 DEF OneLiveEntry, Live
    <2>3. CASE cache'[e] # cache[e]
        BY <1>1, <2>1, <2>3, SaveWritesFreeEntry DEF Hits, Live
    <2>4. CASE cache'[f] # cache[f]
        BY <1>1, <2>1, <2>4, SaveWritesFreeEntry DEF Hits, Live
    <2> QED BY <2>2, <2>3, <2>4
<1>2. CASE Tick
    BY <1>2, TickKeepsEntries DEF OneLiveEntry
<1>3. CASE UNCHANGED cache
    BY <1>3 DEF OneLiveEntry, Live
<1> QED BY <1>1, <1>2, <1>3, CacheSteps

\* A successful return hands over what was said of the target.
LEMMA AnswerStep ==
    TypeOK /\ Heard /\ AnswerIsTargets /\ [Next]_avars => AnswerIsTargets'
<1> SUFFICES ASSUME TypeOK, Heard, AnswerIsTargets, [Next]_avars,
                    pc' = "idle", result' = "ok"
             PROVE  [ip |-> target', mac |-> mac_addr'] \in replies'
    BY DEF AnswerIsTargets
<1>1. CASE Resolve
    BY <1>1 DEF Resolve, ResolveFromCache, ResolveFromNetwork, Hits, Heard
<1>2. CASE Found
    BY <1>2 DEF Found, Got, Heard
<1>3. CASE ~Resolve /\ ~Found
    <2>1. UNCHANGED <<target, mac_addr, pc, result>>
        BY <1>3 DEF Next, Work, SendRequest, SendFails, CallRecv, RecvReply,
                    RecvOther, Discard, RecvNothing, WrongHost, Fail, TimeIsOver, Answer,
                    OthersArrive, Tick, Return, avars
    <2> QED BY <2>1, RepliesGrow DEF AnswerIsTargets
<1> QED BY <1>1, <1>2, <1>3

---------------------------------------------------------------------------
\* The invariant holds in every reachable state.
LEMMA IInvHolds == Spec => []IInv
<1>1. IInv /\ [Next]_avars => IInv'
    BY TypeStep, HeardStep, SearchingStep, OneLiveEntryStep, AnswerStep DEF IInv
<1> QED BY <1>1, InitIInv, PTL DEF Spec

\* The resolver's state has the declared types, in particular the address it
\* returns is a hardware address even when it comes from the cache.
THEOREM ArpTypeCorrect == Spec => []TypeOK
<1>1. IInv => TypeOK
    BY DEF IInv
<1> QED BY <1>1, IInvHolds, PTL

\* No interleaving of calls, replies, expiries and saves leaves two live cache
\* entries for one address.
THEOREM AddressesHaveOneLiveEntry == Spec => []OneLiveEntry
<1>1. IInv => OneLiveEntry
    BY DEF IInv
<1> QED BY <1>1, IInvHolds, PTL

\* A call that succeeds, from the cache or from the network, returns what some
\* host said of the address asked for.
THEOREM AnswersAreTargets == Spec => []AnswerIsTargets
<1>1. IInv => AnswerIsTargets
    BY DEF IInv
<1> QED BY <1>1, IInvHolds, PTL

\* A live entry only grows older: nothing overwrites it before it expires, a
\* full cache included.
THEOREM LiveEntriesAreKept == Spec => LiveEntryIsKept
<1>1. ASSUME IInv, [Next]_avars, NEW e \in Entries, Live(e), cache'[e] # cache[e]
      PROVE  cache'[e] = [cache[e] EXCEPT !.left = @ - 1]
    <2>1. CASE Found
        BY <1>1, <2>1, SaveWritesFreeEntry DEF IInv
    <2>2. CASE Tick
        <3>1. cache[e] \in CacheEntry
            BY <1>1 DEF IInv, TypeOK
        <3>2. Elapse(cache[e].left) = cache[e].left - 1
            BY <1>1, <3>1 DEF Elapse, Live, CacheEntry
        <3> QED BY <2>2, <3>2 DEF Tick
    <2> QED BY <1>1, <2>1, <2>2, CacheSteps
<1>2. IInv /\ [Next]_avars =>
          [\A e \in Entries : Live(e) /\ cache'[e] # cache[e] =>
               cache'[e] = [cache[e] EXCEPT !.left = @ - 1]]_avars
    BY <1>1
<1> QED BY <1>2, IInvHolds, PTL DEF Spec, LiveEntryIsKept

---------------------------------------------------------------------------
(* Sending (Ipv4Output). *)

\* The resolution under way, or just over, is of the packet's next hop.
ResolvesNextHop ==
    status = "resolving" =>
        /\ dst \in Ip \ ({Own} \cup Broadcasts)
        /\ target = NextHop(dst)

\* The second attempt finds its time over and fails before it listens, so the
\* return value 0, which ipv4_send takes for a success, never comes.
LastAttemptIsCut ==
    /\ n = 1 /\ pc # "idle" =>
           timer = 0 /\ pc # "wait" /\ (pc = "listen" => recv.kind = "error")
    /\ result # "nobody"
    /\ status = "resolving" /\ pc = "idle" => result \in {"ok", "error"}

OInv == ResolvesNextHop /\ LastAttemptIsCut /\ FramesGoToNextHop

---------------------------------------------------------------------------
\* Every step of the sender is a step of the resolver or leaves it alone.
LEMMA OutputStepsResolver ==
    ASSUME OutputTypeOK, [ONext]_ovars PROVE [Next]_avars
<1>1. ASSUME NEW d \in Ip, gateway[d] # NULL PROVE NextHop(d) \in Ip
    BY <1>1 DEF OutputTypeOK, NextHop
<1>2. CASE CallResolve
    BY <1>1, <1>2 DEF CallResolve, Next, Resolve
<1>3. CASE ~CallResolve
    BY <1>3 DEF ONext, SendMulticast, SendWithoutRoute, SendSubscribed, Resolving,
                SendResolved, ResolveFailed, Resolved, Next, ovars
<1> QED BY <1>2, <1>3

LEMMA InitOutput == OInit => OutputTypeOK /\ IInv /\ OInv
<1> SUFFICES ASSUME OInit PROVE OutputTypeOK /\ IInv /\ OInv
    OBVIOUS
<1>1. IInv
    BY InitIInv DEF OInit
<1>2. OutputTypeOK
    BY <1>1, ForwardingAssumption DEF OInit, IInv, OutputTypeOK, Destination
<1>3. OInv
    BY DEF OInit, Init, OInv, ResolvesNextHop, LastAttemptIsCut, FramesGoToNextHop
<1> QED BY <1>1, <1>2, <1>3

\* The resolver's invariant survives whatever the sender does.
LEMMA ResolverStep == OutputTypeOK /\ IInv /\ [ONext]_ovars => IInv'
BY OutputStepsResolver, TypeStep, HeardStep, SearchingStep, OneLiveEntryStep,
   AnswerStep DEF IInv

LEMMA OutputTypeStep ==
    OutputTypeOK /\ IInv /\ [ONext]_ovars => OutputTypeOK'
<1> SUFFICES ASSUME OutputTypeOK, IInv, [ONext]_ovars PROVE OutputTypeOK'
    OBVIOUS
<1>1. TypeOK'
    BY ResolverStep DEF IInv
<1>2. CASE SendMulticast
    BY <1>1, <1>2 DEF SendMulticast, Transmit, EthSend, OutputTypeOK, Destination, Address
<1>3. CASE SendWithoutRoute
    BY <1>1, <1>3 DEF SendWithoutRoute, OutputTypeOK, Destination
<1>4. CASE SendSubscribed
    <2>1. PICK d \in {Own} \cup Broadcasts, mac \in Address :
             dst' = d /\ Transmit(d, mac)
        BY <1>4 DEF SendSubscribed, Address
    <2>2. d \in Ip
        BY OwnAssumption
    <2> QED BY <1>1, <1>4, <2>1, <2>2
            DEF SendSubscribed, Transmit, EthSend, OutputTypeOK, Destination
<1>5. CASE CallResolve
    BY <1>1, <1>5 DEF CallResolve, OutputTypeOK, Destination
<1>6. CASE Resolving
    BY <1>1, <1>6 DEF Resolving, outvars, OutputTypeOK
<1>7. CASE SendResolved
    BY <1>1, <1>7 DEF SendResolved, Resolved, Transmit, EthSend, OutputTypeOK, Address, TypeOK
<1>8. CASE ResolveFailed
    BY <1>1, <1>8 DEF ResolveFailed, Resolved, OutputTypeOK
<1>9. CASE UNCHANGED ovars
    BY <1>1, <1>9 DEF ovars, outvars, OutputTypeOK
<1> QED BY <1>2, <1>3, <1>4, <1>5, <1>6, <1>7, <1>8, <1>9 DEF ONext

\* The target is the next hop from the call until the frame is sent.
LEMMA ResolvesNextHopStep ==
    OutputTypeOK /\ ResolvesNextHop /\ [ONext]_ovars => ResolvesNextHop'
<1> SUFFICES ASSUME OutputTypeOK, ResolvesNextHop, [ONext]_ovars,
                    status' = "resolving"
             PROVE  dst' \in Ip \ ({Own} \cup Broadcasts) /\ target' = NextHop(dst)'
    BY DEF ResolvesNextHop
<1>1. CASE CallResolve
    BY <1>1 DEF CallResolve, ResolveFromCache, ResolveFromNetwork, NextHop
<1>2. CASE ~CallResolve
    <2>1. UNCHANGED <<status, dst, gateway, target>>
        BY <1>2 DEF ONext, SendMulticast, SendWithoutRoute, SendSubscribed,
                    Resolving, SendResolved, ResolveFailed, Resolved, Work, Answer,
                    OthersArrive, Tick, SendRequest, SendFails, CallRecv, RecvReply, RecvOther,
                    Discard, RecvNothing, Found, WrongHost, Fail, TimeIsOver, outvars,
                    avars, ovars
    <2> QED BY <2>1 DEF ResolvesNextHop, NextHop
<1> QED BY <1>1, <1>2

\* Once the time is over there is no way back to listening.
LEMMA LastAttemptStep ==
    OutputTypeOK /\ LastAttemptIsCut /\ [ONext]_ovars => LastAttemptIsCut'
<1> SUFFICES ASSUME OutputTypeOK, LastAttemptIsCut, [ONext]_ovars
             PROVE  LastAttemptIsCut'
    OBVIOUS
<1>1. CASE CallResolve
    BY <1>1 DEF CallResolve, ResolveFromCache, ResolveFromNetwork, LastAttemptIsCut
<1>2. CASE Resolving
    <2>1. CASE SendRequest \/ SendFails
        BY <1>2, <2>1 DEF Resolving, SendRequest, SendFails, Return, outvars,
                          LastAttemptIsCut
    <2>2. CASE CallRecv \/ RecvReply \/ RecvOther \/ Discard \/ RecvNothing
        BY <1>2, <2>2 DEF Resolving, CallRecv, RecvReply, RecvOther, Discard, RecvNothing,
                          outvars, LastAttemptIsCut
    <2>3. CASE Found \/ WrongHost \/ Fail
        BY <1>2, <2>3 DEF Resolving, Found, WrongHost, Fail, Got, Return, outvars,
                          LastAttemptIsCut
    <2>4. CASE TimeIsOver
        <3>1. n = 0 /\ n' = 1 /\ pc' = "send" /\ timer' = 0 /\ result' = result
            BY <2>4 DEF TimeIsOver, Got, LastAttemptIsCut, OutputTypeOK, TypeOK
        <3> QED BY <1>2, <3>1 DEF Resolving, outvars, LastAttemptIsCut
    <2>5. CASE Answer \/ OthersArrive \/ Tick
        BY <1>2, <2>5 DEF Resolving, Answer, OthersArrive, Tick, Elapse, outvars, LastAttemptIsCut
    <2> QED BY <1>2, <2>1, <2>2, <2>3, <2>4, <2>5 DEF Resolving, Work
<1>3. CASE ~CallResolve /\ ~Resolving
    <2>1. UNCHANGED avars /\ (status' = "resolving" => status = "resolving")
        BY <1>3 DEF ONext, SendMulticast, SendWithoutRoute, SendSubscribed,
                    SendResolved, ResolveFailed, Resolved, ovars, outvars
    <2> QED BY <2>1 DEF avars, LastAttemptIsCut
<1> QED BY <1>1, <1>2, <1>3

\* A frame for another host is added only with what the resolver returned.
LEMMA FramesStep ==
    ASSUME OutputTypeOK, IInv, OInv, [ONext]_ovars
    PROVE  FramesGoToNextHop'
<1>1. replies \subseteq replies'
    BY OutputStepsResolver, RepliesGrow
<1>2. gateway' = gateway
    BY DEF ONext, SendMulticast, SendWithoutRoute, SendSubscribed, CallResolve,
           Resolving, SendResolved, ResolveFailed, Resolved, outvars, ovars
<1>3. SUFFICES ASSUME NEW f \in frames', f.dst \in Ip \ ({Own} \cup Broadcasts)
               PROVE  [ip |-> NextHop(f.dst), mac |-> f.mac] \in replies'
    BY <1>2 DEF FramesGoToNextHop, NextHop
<1>4. CASE f \in frames
    BY <1>1, <1>3, <1>4 DEF OInv, FramesGoToNextHop, NextHop
<1>5. CASE f \notin frames
    <2>1. SendResolved /\ f = [dst |-> dst, mac |-> mac_addr]
        BY <1>3, <1>5, MulticastAssumption
        DEF ONext, SendMulticast, SendWithoutRoute, SendSubscribed, CallResolve,
            Resolving, SendResolved, ResolveFailed, Resolved, Transmit, EthSend, outvars,
            ovars
    <2>2. result = "ok" /\ pc = "idle" /\ target = NextHop(dst)
        BY <2>1 DEF SendResolved, Resolved, OInv, LastAttemptIsCut, ResolvesNextHop
    <2>3. [ip |-> target, mac |-> mac_addr] \in replies
        BY <2>2 DEF IInv, AnswerIsTargets
    <2> QED BY <1>1, <2>1, <2>2, <2>3
<1> QED BY <1>4, <1>5

LEMMA OutputInvHolds == OSpec => [](OutputTypeOK /\ IInv /\ OInv)
<1>1. OutputTypeOK /\ IInv /\ OInv /\ [ONext]_ovars
          => (OutputTypeOK /\ IInv /\ OInv)'
    BY ResolverStep, OutputTypeStep, ResolvesNextHopStep, LastAttemptStep,
       FramesStep DEF OInv
<1> QED BY <1>1, InitOutput, PTL DEF OSpec

---------------------------------------------------------------------------
\* The sender's state has the declared types.
THEOREM OutputTypeCorrect == OSpec => []OutputTypeOK
BY OutputInvHolds, PTL

\* ipv4_send uses the resolver as its specification says: the composed system
\* implements Arp.
THEOREM SenderImplementsArp == OSpec => Spec
<1>1. OutputTypeOK /\ [ONext]_ovars => [Next]_avars
    BY OutputStepsResolver
<1>2. OInit => Init
    BY DEF OInit
<1> QED BY <1>1, <1>2, OutputTypeCorrect, PTL DEF OSpec, Spec

\* Whatever the forwarding table, the cache and the network do, a frame for
\* another host carries an address given for its next hop.
THEOREM FramesReachNextHop == OSpec => []FramesGoToNextHop
<1>1. OInv => FramesGoToNextHop
    BY DEF OInv
<1> QED BY <1>1, OutputInvHolds, PTL
=============================================================================
