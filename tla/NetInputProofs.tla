--------------------------- MODULE NetInputProofs ---------------------------
(***************************************************************************)
(* The timers of the three receive loops agree, so a receive that gives up *)
(* has waited for the time it was asked to, and what the loops return is   *)
(* what arrived for us, in order, for every timeout and traffic.           *)
(***************************************************************************)
EXTENDS NetInput, SequenceTheorems, TLAPS

\* A callee's timer shows what its caller's shows: both were equal when it was
\* started, and one clock drives them.
TimersAgree ==
    /\ pc \in {"ipv4", "eth"} => ipv4_timer = udp_timer
    /\ pc = "eth" => eth_timer = ipv4_timer

\* What is left of the call's time and what has passed make up what was asked.
TimeIsKept ==
    pc # "app" =>
        /\ asked < 0 => udp_timer < 0
        /\ asked >= 0 => udp_timer >= 0 /\ waited + udp_timer >= asked

IInv == TypeOK /\ TimersAgree /\ TimeIsKept /\ GivesUpInTime

---------------------------------------------------------------------------
LEMMA ElapseType ==
    ASSUME NEW t \in Left
    PROVE  /\ Elapse(t) \in Left
           /\ t >= 0 => Elapse(t) >= 0 /\ Elapse(t) >= t - 1
           /\ t < 0 => Elapse(t) = t
BY WaitAssumption DEF Elapse, Left, INFINITE

\* A timer just started makes up the whole of what was asked.
LEMMA NoTimePassed == \A w, u, a \in Int : w = 0 /\ u = a => w + u >= a
OBVIOUS

LEMMA InitIInv == Init => IInv
BY WaitAssumption, QueueAssumption
   DEF Init, IInv, TypeOK, TimersAgree, TimeIsKept, GivesUpInTime, Left, INFINITE

\* Every step keeps the types.
LEMMA TypeStep == TypeOK /\ [Next]_nvars => TypeOK'
<1> SUFFICES ASSUME TypeOK, [Next]_nvars PROVE TypeOK'
    OBVIOUS
<1> USE WaitAssumption, QueueAssumption
<1>1. CASE UdpRecv
    <2>1. udp_timer' \in Left
        BY <1>1 DEF UdpRecv, Left
    <2> QED BY <1>1, <2>1 DEF UdpRecv, TypeOK
<1>2. CASE CallIpv4Recv \/ CallEthRecv
    BY <1>2 DEF CallIpv4Recv, CallEthRecv, TypeOK, history
<1>3. CASE Deliver \/ ReturnZero
    <2>1. queue # <<>> /\ queue' = Tail(queue) /\ queue \in Seq(Frames)
        BY <1>3 DEF Deliver, ReturnZero, RawRecv, TypeOK
    <2>2. /\ queue' \in Seq(Frames) /\ Head(queue) \in Frames
          /\ Len(queue') <= MaxQueue
        BY <2>1 DEF TypeOK
    <2>3. delivered' \in Seq(Frames)
        <3>1. CASE Deliver
            BY <2>2, <3>1 DEF Deliver, TypeOK
        <3>2. CASE ReturnZero
            BY <3>2 DEF ReturnZero, TypeOK
        <3> QED BY <1>3, <3>1, <3>2
    <2> QED BY <1>3, <2>2, <2>3 DEF Deliver, ReturnZero, RawRecv, TypeOK, timers
<1>4. CASE Discard
    BY <1>4 DEF Discard, RawRecv, Drop, TypeOK, timers
<1>5. CASE TimeOut \/ RecvError
    BY <1>5 DEF TimeOut, RecvError, TypeOK, timers, history
<1>6. CASE Arrive
    BY <1>6 DEF Arrive, TypeOK, timers
<1>7. CASE Tick
    BY <1>7, ElapseType DEF Tick, TypeOK
<1>8. CASE UNCHANGED nvars
    BY <1>8 DEF nvars, timers, history, TypeOK
<1> QED BY <1>1, <1>2, <1>3, <1>4, <1>5, <1>6, <1>7, <1>8 DEF Next, Receive

\* Every step keeps the timers in agreement and account of the time.
LEMMA TimeStep ==
    TypeOK /\ TimersAgree /\ TimeIsKept /\ [Next]_nvars
        => TimersAgree' /\ TimeIsKept'
<1> SUFFICES ASSUME TypeOK, TimersAgree, TimeIsKept, [Next]_nvars
             PROVE  TimersAgree' /\ TimeIsKept'
    OBVIOUS
<1>1. CASE UdpRecv
    <2>1. udp_timer' \in Int
        BY <1>1, WaitAssumption DEF UdpRecv, INFINITE
    <2>2. /\ pc' = "udp" /\ asked' = udp_timer'
          /\ asked' \in Int /\ waited' = 0 /\ waited' \in Int
        BY <1>1, <2>1 DEF UdpRecv
    <2>3. TimersAgree'
        BY <2>2 DEF TimersAgree
    <2>4. TimeIsKept'
        <3>1. asked' >= 0 => udp_timer' >= 0
            BY <2>2
        <3>2. waited' + udp_timer' >= asked'
            BY <2>1, <2>2, NoTimePassed
        <3>3. asked' < 0 => udp_timer' < 0
            BY <2>2
        <3> QED BY <3>1, <3>2, <3>3, Zenon DEF TimeIsKept
    <2> QED BY <2>3, <2>4
<1>2. CASE CallIpv4Recv \/ CallEthRecv
    BY <1>2 DEF CallIpv4Recv, CallEthRecv, TimersAgree, TimeIsKept, history
<1>3. CASE Deliver \/ ReturnZero \/ TimeOut \/ RecvError
    BY <1>3 DEF Deliver, ReturnZero, TimeOut, RecvError, TimersAgree, TimeIsKept
<1>4. CASE Discard
    BY <1>4 DEF Discard, RawRecv, Drop, TimersAgree, TimeIsKept, timers
<1>5. CASE Arrive \/ UNCHANGED nvars
    BY <1>5 DEF Arrive, TimersAgree, TimeIsKept, nvars, timers, history
<1>6. CASE Tick
    <2>1. TimersAgree'
        BY <1>6 DEF Tick, TimersAgree
    <2>2. ASSUME pc # "app", asked >= 0
          PROVE  udp_timer' >= 0 /\ waited' + udp_timer' >= asked
        <3>1. /\ udp_timer \in Int /\ udp_timer' \in Int
              /\ udp_timer' >= 0 /\ udp_timer' >= udp_timer - 1
            BY <1>6, <2>2, ElapseType, WaitAssumption
            DEF Tick, TimeIsKept, TypeOK, Left, INFINITE
        <3>2. asked \in Int /\ asked <= MaxWait /\ waited \in Nat /\ MaxWait \in Nat
            BY WaitAssumption DEF TypeOK, Left, INFINITE
        <3>3. CASE waited <= MaxWait
            BY <1>6, <2>2, <3>1, <3>2, <3>3 DEF Tick, TimeIsKept
        <3>4. CASE waited > MaxWait
            BY <1>6, <2>2, <3>1, <3>2, <3>4 DEF Tick
        <3> QED BY <3>2, <3>3, <3>4
    <2>3. TimeIsKept'
        BY <1>6, <2>2, ElapseType DEF Tick, TimeIsKept, TypeOK
    <2> QED BY <2>1, <2>3
<1> QED BY <1>1, <1>2, <1>3, <1>4, <1>5, <1>6 DEF Next, Receive

\* Giving up happens only with the call's own time over.
LEMMA GivesUpStep == IInv /\ [Next]_nvars => GivesUpInTime'
<1> SUFFICES ASSUME IInv, [Next]_nvars, pc' = "app", result' = "timeout"
             PROVE  asked' >= 0 /\ waited' >= asked'
    BY DEF GivesUpInTime
<1>1. /\ asked \in Int /\ asked <= MaxWait /\ waited \in Nat /\ MaxWait \in Nat
      /\ udp_timer \in Int
    BY WaitAssumption DEF IInv, TypeOK, Left, INFINITE
<1>2. CASE TimeOut
    <2>1. udp_timer = 0
        BY <1>2 DEF TimeOut, IInv, TimersAgree
    <2> QED BY <1>1, <1>2, <2>1 DEF TimeOut, IInv, TimeIsKept, history
<1>3. CASE ~TimeOut
    <2>1. pc = "app" /\ result = "timeout" /\ asked' = asked /\ waited' >= waited
        BY <1>1, <1>3 DEF Next, UdpRecv, Receive, CallIpv4Recv, CallEthRecv, Deliver,
            ReturnZero, Discard, RawRecv, Drop, RecvError, Arrive, Tick, nvars, history
    <2>2. waited' \in Int
        BY TypeStep DEF IInv, TypeOK
    <2> QED BY <1>1, <2>1, <2>2 DEF IInv, GivesUpInTime
<1> QED BY <1>2, <1>3

LEMMA IInvHolds == Spec => []IInv
<1>1. IInv /\ [Next]_nvars => IInv'
    BY TypeStep, TimeStep, GivesUpStep DEF IInv
<1> QED BY <1>1, InitIInv, PTL DEF Spec

---------------------------------------------------------------------------
\* The receive stack's state has the declared types.
THEOREM InputTypeCorrect == Spec => []TypeOK
<1>1. IInv => TypeOK
    BY DEF IInv
<1> QED BY <1>1, IInvHolds, PTL

\* No receive gives up before the time it was given is over, and one that was
\* given no limit never does: restarting the wait in three loops loses no time.
THEOREM ReceivesWaitTheirTime == Spec => []GivesUpInTime
<1>1. IInv => GivesUpInTime
    BY DEF IInv
<1> QED BY <1>1, IInvHolds, PTL

---------------------------------------------------------------------------
\* The queue is the tail of what arrived.
QueueIsTail ==
    /\ Len(queue) <= Len(arrived)
    /\ \A n \in 1 .. Len(queue) : queue[n] = arrived[Len(arrived) - Len(queue) + n]

OrderInv == QueueIsTail /\ DeliveredInOrder

\* What is for us passes every layer and has a length.
LEMMA OursAreDelivered ==
    ASSUME NEW f \in Frames, Ours(f) PROVE Accepted(f) /\ ~LengthIsZero(f)
BY DEF Ours, Accepted, EthAccepts, Ipv4Accepts, UdpAccepts, LengthIsZero

\* Reading a frame leaves the rest of the queue the tail.
LEMMA ReadKeepsTail ==
    ASSUME TypeOK, QueueIsTail, RawRecv
    PROVE  /\ QueueIsTail'
           /\ Read' = Read + 1
           /\ Head(queue) = arrived[Read + 1]
           /\ Head(queue) \in Frames
<1>1. queue \in Seq(Frames) /\ queue # <<>> /\ arrived \in Seq(Frames)
    BY DEF RawRecv, TypeOK
<1>2. /\ queue' = Tail(queue) /\ arrived' = arrived
      /\ Len(queue) \in Nat /\ Len(queue) >= 1 /\ Len(arrived) \in Nat
    BY <1>1 DEF RawRecv
<1>3. /\ Len(queue') = Len(queue) - 1
      /\ \A n \in 1 .. Len(queue') : queue'[n] = queue[n + 1]
      /\ Head(queue) = queue[1] /\ Head(queue) \in Frames
    BY <1>1, <1>2
<1>. PICK a, q \in Nat : a = Len(arrived) /\ q = Len(queue)
    BY <1>2
<1>4. Len(arrived') = a /\ Len(queue') = q - 1 /\ q >= 1
    BY <1>2, <1>3
<1>5. ASSUME NEW n \in 1 .. q - 1
      PROVE  queue'[n] = arrived'[Len(arrived') - Len(queue') + n]
    <2>1. n + 1 \in 1 .. q /\ a - q + (n + 1) = a - (q - 1) + n
        OBVIOUS
    <2>2. queue[n + 1] = arrived[a - q + (n + 1)]
        BY <2>1 DEF QueueIsTail
    <2> QED BY <1>2, <1>3, <1>4, <2>1, <2>2
<1>6. Head(queue) = arrived[Len(arrived) - Len(queue) + 1]
    <2>1. 1 \in 1 .. Len(queue)
        BY <1>2
    <2> QED BY <1>3, <2>1 DEF QueueIsTail
<1>7. Len(queue') <= Len(arrived')
    BY <1>4 DEF QueueIsTail
<1>8. Read' = Read + 1
    <2>1. a - (q - 1) = a - q + 1
        OBVIOUS
    <2> QED BY <1>4, <2>1 DEF Read
<1>9. QueueIsTail'
    BY <1>4, <1>5, <1>7 DEF QueueIsTail
<1> QED BY <1>3, <1>6, <1>8, <1>9 DEF Read

\* A frame read and not returned is not for us: what was returned still follows.
LEMMA SkipFollows ==
    ASSUME TypeOK, QueueIsTail, DeliveredInOrder, RawRecv,
           ~Ours(Head(queue)), UNCHANGED delivered
    PROVE  DeliveredInOrder'
<1> DEFINE read == Read
<1>1. /\ Read' = read + 1
      /\ Head(queue) = arrived[read + 1]
    BY ReadKeepsTail
<1>2. read \in Nat /\ arrived' = arrived
    BY DEF TypeOK, QueueIsTail, RawRecv, Read
<1>3. PICK at \in [DOMAIN delivered -> 1 .. read] : Follows(at, read)
    BY DEF DeliveredInOrder
<1>4. at \in [DOMAIN delivered -> 1 .. read + 1]
    BY <1>2, <1>3
<1>5. \A n \in 1 .. read + 1 : n \in 1 .. read \/ n = read + 1
    BY <1>2
<1> HIDE DEF read
<1>6. PICK next : next = read + 1
    OBVIOUS
<1>7. Follows(at, next)'
    BY <1>1, <1>2, <1>3, <1>5, <1>6 DEF Follows
<1>8. at \in [DOMAIN delivered' -> 1 .. next]
    BY <1>4, <1>6
<1> QED BY <1>1, <1>6, <1>7, <1>8 DEF DeliveredInOrder

\* A frame read and returned comes after those returned before.
LEMMA DeliverFollows ==
    ASSUME TypeOK, QueueIsTail, DeliveredInOrder, RawRecv,
           delivered' = Append(delivered, Head(queue))
    PROVE  DeliveredInOrder'
<1> DEFINE read == Read
           len == Len(delivered)
<1>1. /\ Read' = read + 1
      /\ Head(queue) = arrived[read + 1] /\ Head(queue) \in Frames
    BY ReadKeepsTail
<1>2. read \in Nat /\ arrived' = arrived
    BY DEF TypeOK, QueueIsTail, RawRecv, Read
<1>3. PICK at \in [DOMAIN delivered -> 1 .. read] : Follows(at, read)
    BY DEF DeliveredInOrder
<1>4. /\ len \in Nat /\ DOMAIN delivered = 1 .. len /\ DOMAIN delivered' = 1 .. len + 1
      /\ \A k \in 1 .. len : delivered'[k] = delivered[k]
      /\ delivered'[len + 1] = arrived[read + 1]
    BY <1>1 DEF TypeOK
<1> DEFINE ext == [k \in 1 .. len + 1 |-> IF k <= len THEN at[k] ELSE read + 1]
<1> HIDE DEF read, len
<1>5. /\ \A k \in 1 .. len : ext[k] = at[k] /\ at[k] \in 1 .. read
      /\ ext[len + 1] = read + 1
    BY <1>3, <1>4 DEF Follows
<1>6. \A k \in 1 .. len + 1 : k \in 1 .. len \/ k = len + 1
    BY <1>4
<1>7. ext \in [DOMAIN delivered' -> 1 .. read + 1]
    <2>1. \A k \in 1 .. len + 1 : ext[k] \in 1 .. read + 1
        BY <1>2, <1>5, <1>6
    <2> QED BY <1>4, <2>1
<1> HIDE DEF ext
<1>8. ASSUME NEW k \in DOMAIN delivered'
      PROVE  /\ delivered'[k] = arrived'[ext[k]]
             /\ \A h \in 1 .. k - 1 : ext[h] < ext[k]
    <2>1. CASE k \in 1 .. len
        <3>1. \A h \in 1 .. k - 1 : h \in 1 .. len
            BY <1>4, <2>1
        <3> QED BY <1>2, <1>3, <1>4, <1>5, <2>1, <3>1 DEF Follows
    <2>2. CASE k = len + 1
        <3>1. \A h \in 1 .. k - 1 : h \in 1 .. len
            BY <1>4, <2>2
        <3> QED BY <1>2, <1>4, <1>5, <2>2, <3>1
    <2> QED BY <1>4, <1>6, <1>8, <2>1, <2>2
<1>9. ASSUME NEW n \in 1 .. read + 1, Ours(arrived'[n])
      PROVE  \E k \in DOMAIN delivered' : ext[k] = n
    <2>1. CASE n \in 1 .. read
        <3>1. PICK k \in DOMAIN delivered : at[k] = n
            BY <1>2, <1>3, <1>9, <2>1 DEF Follows
        <3>2. k \in 1 .. len + 1 /\ ext[k] = n
            BY <1>4, <1>5, <3>1
        <3> QED BY <1>4, <3>2
    <2>2. CASE n = read + 1
        BY <1>4, <1>5, <2>2
    <2> QED BY <1>2, <1>9, <2>1, <2>2
<1>10. PICK next, f : next = read + 1 /\ f = ext
    OBVIOUS
<1>11. Follows(f, next)'
    BY <1>7, <1>8, <1>9, <1>10 DEF Follows
<1> QED BY <1>1, <1>7, <1>10, <1>11 DEF DeliveredInOrder

LEMMA OrderStep == TypeOK /\ OrderInv /\ [Next]_nvars => OrderInv'
<1> SUFFICES ASSUME TypeOK, OrderInv, [Next]_nvars PROVE OrderInv'
    OBVIOUS
<1> USE DEF OrderInv
<1>1. CASE Deliver
    BY <1>1, ReadKeepsTail, DeliverFollows DEF Deliver
<1>2. CASE ReturnZero \/ Discard
    <2>1. RawRecv /\ UNCHANGED delivered
        BY <1>2 DEF ReturnZero, Discard
    <2>2. ~Ours(Head(queue))
        BY <1>2, <2>1, ReadKeepsTail, OursAreDelivered DEF ReturnZero, Discard
    <2> QED BY <2>1, <2>2, ReadKeepsTail, SkipFollows
<1>3. CASE Arrive
    <2>1. PICK f \in Frames : queue' = Append(queue, f) /\ arrived' = Append(arrived, f)
        BY <1>3 DEF Arrive
    <2>2. queue \in Seq(Frames) /\ arrived \in Seq(Frames) /\ delivered' = delivered
        BY <1>3 DEF Arrive, TypeOK
    <2>3. /\ Len(queue) \in Nat /\ Len(arrived) \in Nat
          /\ Len(queue') = Len(queue) + 1 /\ Len(arrived') = Len(arrived) + 1
          /\ \A n \in 1 .. Len(queue) : queue'[n] = queue[n]
          /\ \A n \in 1 .. Len(arrived) : arrived'[n] = arrived[n]
          /\ queue'[Len(queue) + 1] = f /\ arrived'[Len(arrived) + 1] = f
        BY <2>1, <2>2
    <2>4. QueueIsTail'
        <3>1. ASSUME NEW n \in 1 .. Len(queue')
              PROVE  queue'[n] = arrived'[Len(arrived') - Len(queue') + n]
            <4>1. CASE n = Len(queue')
                <5>1. Len(arrived') - Len(queue') + n = Len(arrived) + 1
                    BY <2>3, <4>1
                <5> QED BY <2>3, <4>1, <5>1
            <4>2. CASE n \in 1 .. Len(queue)
                <5>1. /\ Len(arrived') - Len(queue') + n = Len(arrived) - Len(queue) + n
                      /\ Len(arrived) - Len(queue) + n \in 1 .. Len(arrived)
                    BY <2>3, <4>2 DEF QueueIsTail
                <5> QED BY <2>3, <4>2, <5>1 DEF QueueIsTail
            <4> QED BY <2>3, <4>1, <4>2
        <3> QED BY <2>3, <3>1 DEF QueueIsTail
    <2>5. Read' = Read
        BY <2>3 DEF Read
    <2>6. \A n \in 1 .. Read : arrived'[n] = arrived[n]
        BY <2>3 DEF Read
    <2>7. PICK read : read = Read
        OBVIOUS
    <2>8. PICK at \in [DOMAIN delivered -> 1 .. read] : Follows(at, read)
        BY <2>7 DEF DeliveredInOrder
    <2>9. \A k \in DOMAIN delivered : at[k] \in 1 .. read
        BY <2>8
    <2>10. Follows(at, read)'
        BY <2>2, <2>6, <2>7, <2>8, <2>9 DEF Follows
    <2> QED BY <2>2, <2>4, <2>5, <2>7, <2>8, <2>10 DEF DeliveredInOrder
<1>4. CASE UdpRecv \/ CallIpv4Recv \/ CallEthRecv \/ TimeOut \/ RecvError \/ Tick
           \/ UNCHANGED nvars
    BY <1>4 DEF UdpRecv, CallIpv4Recv, CallEthRecv, TimeOut, RecvError, Tick, nvars,
        history, QueueIsTail, DeliveredInOrder, Read, Follows
<1> QED BY <1>1, <1>2, <1>3, <1>4 DEF Next, Receive

LEMMA InitOrder == Init => OrderInv
<1> SUFFICES ASSUME Init PROVE OrderInv
    OBVIOUS
<1>1. queue = <<>> /\ arrived = <<>> /\ delivered = <<>>
    BY DEF Init
<1>2. DOMAIN delivered = {} /\ Len(arrived) = 0 /\ Len(queue) = 0
    BY <1>1
<1>3. Read = 0
    BY <1>2 DEF Read
<1>4. QueueIsTail
    BY <1>2 DEF QueueIsTail
<1>5. PICK at : at \in [{} -> 1 .. 0]
    <2>1. [k \in {} |-> k] \in [{} -> 1 .. 0]
        OBVIOUS
    <2> QED BY <2>1
<1>6. Follows(at, 0)
    BY <1>2 DEF Follows
<1> QED BY <1>2, <1>3, <1>4, <1>5, <1>6 DEF OrderInv, DeliveredInOrder

\* Three nested loops that drop and restart neither lose, repeat nor reorder a
\* datagram for us that got into the queue, whatever arrives and fails between.
THEOREM DatagramsComeInOrder == Spec => []DeliveredInOrder
<1>1. OrderInv => DeliveredInOrder
    BY DEF OrderInv
<1> QED BY <1>1, InitOrder, OrderStep, InputTypeCorrect, PTL DEF Spec
=============================================================================
