--------------------------- MODULE RipClientProofs ---------------------------
(***************************************************************************)
(* What send_rip_response puts into messages and what the client makes of  *)
(* them, for every table size, message size and counter the stack may have *)
(* held.  The copy loop keeps the places it has filled apart; one question *)
(* at a time is on its way, with the daemon or answered.                   *)
(***************************************************************************)
EXTENDS RipClient, FiniteSetTheorems, SequenceTheorems, TLAPS

---------------------------------------------------------------------------
(* Ranks. *)

StrictOrder(S, R) ==
    /\ \A x \in S : <<x, x>> \notin R
    /\ \A x, y, z \in S : <<x, y>> \in R /\ <<y, z>> \in R => <<x, z>> \in R
    /\ \A x, y \in S : x # y => <<x, y>> \in R \/ <<y, x>> \in R

RankIn(S, R) == [x \in S |-> Cardinality({y \in S : <<y, x>> \in R})]

\* rank numbers the n elements of S from 0 on, without gaps.
Numbers(rank, S, n) ==
    /\ \A x \in S : rank[x] \in 0 .. n - 1
    /\ \A x, y \in S : rank[x] = rank[y] => x = y
    /\ \A m \in 0 .. n - 1 : \E x \in S : rank[x] = m

\* In a finite set with a strict total order, the number of smaller elements
\* numbers the elements from 0 on without gaps.
LEMMA RankFacts ==
    ASSUME NEW S, IsFiniteSet(S), NEW R, StrictOrder(S, R)
    PROVE  Numbers(RankIn(S, R), S, Cardinality(S))
<1> DEFINE rank == RankIn(S, R)
<1> DEFINE Below(x) == {y \in S : <<y, x>> \in R}
<1>1. Cardinality(S) \in Nat
    BY FS_CardinalityType
<1>2. \A x \in S : IsFiniteSet(Below(x)) /\ rank[x] = Cardinality(Below(x)) /\ rank[x] \in Nat
    BY FS_Subset, FS_CardinalityType DEF RankIn
<1>3. ASSUME NEW T, NEW U, IsFiniteSet(T), U \subseteq T, U # T
      PROVE  Cardinality(U) < Cardinality(T)
    <2>1. Cardinality(U) <= Cardinality(T) /\ Cardinality(U) # Cardinality(T)
        BY <1>3, FS_Subset
    <2>2. Cardinality(T) \in Nat /\ Cardinality(U) \in Nat
        BY <1>3, FS_Subset, FS_CardinalityType
    <2> QED BY <2>1, <2>2
<1>4. ASSUME NEW x \in S PROVE rank[x] < Cardinality(S)
    <2>1. Below(x) \subseteq S /\ Below(x) # S
        BY DEF StrictOrder
    <2> HIDE DEF Below
    <2> QED BY <1>2, <1>3, <2>1
<1>5. ASSUME NEW x \in S, NEW y \in S, <<x, y>> \in R PROVE rank[x] < rank[y]
    <2>1. Below(x) \subseteq Below(y) /\ Below(x) # Below(y)
        BY <1>5 DEF StrictOrder
    <2> HIDE DEF Below
    <2> QED BY <1>2, <1>3, <2>1
<1> HIDE DEF Below
<1>6. /\ \A x, y \in S : rank[x] = rank[y] => x = y
      /\ \A x \in S : rank[x] \in 0 .. Cardinality(S) - 1
    <2>1. ASSUME NEW x \in S, NEW y \in S, x # y PROVE rank[x] # rank[y]
        <3>1. rank[x] \in Nat /\ rank[y] \in Nat
            BY <1>2
        <3>2. CASE <<x, y>> \in R
            BY <1>5, <3>1, <3>2
        <3>3. CASE <<y, x>> \in R
            BY <1>5, <3>1, <3>3
        <3> QED BY <2>1, <3>2, <3>3 DEF StrictOrder
    <2>2. ASSUME NEW x \in S PROVE rank[x] \in 0 .. Cardinality(S) - 1
        <3>1. rank[x] \in Nat /\ rank[x] < Cardinality(S)
            BY <1>2, <1>4
        <3> QED BY <1>1, <3>1
    <2> QED BY <2>1, <2>2
<1>7. ASSUME NEW n \in 0 .. Cardinality(S) - 1, \A x \in S : rank[x] # n PROVE FALSE
    <2> DEFINE Others == (0 .. Cardinality(S) - 1) \ {n}
    <2>1. /\ IsFiniteSet(0 .. Cardinality(S) - 1)
          /\ Cardinality(0 .. Cardinality(S) - 1) = Cardinality(S)
        BY <1>1, FS_Interval
    <2>2. IsFiniteSet(Others) /\ Cardinality(Others) = Cardinality(S) - 1
        BY <2>1, FS_RemoveElement
    <2>3. rank \in [S -> Others]
        <3>1. \A x \in S : rank[x] \in Others
            BY <1>6, <1>7
        <3> QED BY <3>1 DEF RankIn
    <2>4. \E x, y \in S : x # y /\ rank[x] = rank[y]
        BY <1>1, <2>2, <2>3, FS_PigeonHole
    <2> QED BY <1>6, <2>4
<1> QED BY <1>6, <1>7 DEF Numbers

---------------------------------------------------------------------------
(* Sending a table (RipSend). *)

\* The routes the copy loop has passed.
Passed(n) == {h \in Occupied : h < n}

Distinct == \A h, k \in Occupied : slots[h] = slots[k] => h = k

\* The filled places hold routes already passed, no route in two of them, and
\* there are no more of them than routes passed.
CopyInv ==
    pc = "copy" =>
        /\ num_entries >= RIP_ENTRIES
        /\ messages # <<>> => num_entries > RIP_ENTRIES
        /\ j <= Cardinality(Passed(i))
        /\ \A p \in 0 .. j - 1 : \E h \in Passed(i) : buffer[p] = slots[h]
        /\ Distinct => \A p, q \in 0 .. j - 1 : buffer[p] = buffer[q] => p = q

SendInv ==
    /\ pc \in {"listen", "start"} => i = 0 /\ j = 0 /\ messages = <<>>
    /\ CopyInv
    /\ SmallTableSentWhole
    /\ \A n \in DOMAIN messages : messages[n].size = num_entries
    /\ Len(messages) > 1 => num_entries > RIP_ENTRIES

\* Routes are numbered by the occupied slots before them.
LEMMA BeforeFacts ==
    /\ IsFiniteSet(Occupied) /\ num_entries \in 0 .. RIP_ROUTE_TABLE_SIZE
    /\ \A k \in Occupied : Before(k) \in 0 .. num_entries - 1
    /\ \A h, k \in Occupied : Before(h) = Before(k) => h = k
    /\ \A n \in 0 .. num_entries - 1 : \E k \in Occupied : Before(k) = n
<1>1. Occupied \subseteq Slots /\ \A k \in Occupied : k \in Int
    BY DEF Occupied, Slots
<1>2. IsFiniteSet(Slots) /\ Cardinality(Slots) = RIP_ROUTE_TABLE_SIZE
    BY SizeAssumption, FS_Interval DEF Slots
<1>3. IsFiniteSet(Occupied) /\ Cardinality(Occupied) \in 0 .. RIP_ROUTE_TABLE_SIZE
    BY <1>1, <1>2, FS_Subset, FS_CardinalityType
<1> DEFINE R == {p \in Occupied \X Occupied : p[1] < p[2]}
           rank == RankIn(Occupied, R)
<1>4. \A x, y \in Occupied : <<x, y>> \in R <=> x < y
    OBVIOUS
<1>5. \A x \in Occupied : rank[x] = Before(x)
    <2>1. ASSUME NEW x \in Occupied
          PROVE  {y \in Occupied : <<y, x>> \in R} = {y \in Occupied : y < x}
        BY <1>4
    <2> QED BY <2>1 DEF Before, RankIn
<1> HIDE DEF R
<1>6. StrictOrder(Occupied, R)
    BY <1>1, <1>4 DEF StrictOrder
<1>7. Numbers(rank, Occupied, Cardinality(Occupied))
    BY <1>3, <1>6, RankFacts
<1> HIDE DEF rank
<1> QED BY <1>3, <1>5, <1>7 DEF num_entries, Numbers

LEMMA PassedFacts ==
    ASSUME NEW n
    PROVE  /\ IsFiniteSet(Passed(n)) /\ Cardinality(Passed(n)) \in Nat
           /\ Cardinality(Passed(n)) <= num_entries
<1>1. Passed(n) \subseteq Occupied
    BY DEF Passed
<1> QED BY <1>1, BeforeFacts, FS_Subset, FS_CardinalityType DEF num_entries

\* Passing one more slot.
LEMMA PassOne ==
    ASSUME NEW n \in Slots
    PROVE  /\ Passed(n + 1) = IF n \in Occupied THEN Passed(n) \cup {n} ELSE Passed(n)
           /\ n \in Occupied =>
                  Cardinality(Passed(n + 1)) = Cardinality(Passed(n)) + 1
<1>1. \A h \in Occupied : h \in Int /\ (h < n + 1 <=> h < n \/ h = n)
    BY DEF Occupied, Slots
<1>2. Passed(n + 1) = IF n \in Occupied THEN Passed(n) \cup {n} ELSE Passed(n)
    BY <1>1 DEF Passed
<1>3. n \notin Passed(n)
    BY DEF Passed, Slots
<1> QED BY <1>2, <1>3, PassedFacts, FS_AddElement

\* create_rip_message on a table that fits: every route, and nothing else.
LEMMA LaidOutTold ==
    ASSUME num_entries <= RIP_ENTRIES, NEW b
    PROVE  Told([size |-> num_entries, entry |-> LaidOut(b)]) = {slots[k] : k \in Occupied}
<1> DEFINE told == {LaidOut(b)[p] : p \in {q \in Places : q < num_entries}}
<1>1. num_entries \in Nat /\ RIP_ENTRIES \in Nat
    BY BeforeFacts, SizeAssumption
<1>2. {q \in Places : q < num_entries} = 0 .. num_entries - 1
    BY <1>1 DEF Places
<1>3. ASSUME NEW p \in 0 .. num_entries - 1
      PROVE  \E k \in Occupied : Before(k) = p /\ LaidOut(b)[p] = slots[k]
    <2>1. \E k \in Occupied : Before(k) = p
        BY BeforeFacts
    <2>2. p \in Places
        BY <1>1 DEF Places
    <2> QED BY <2>1, <2>2 DEF LaidOut
<1>4. ASSUME NEW k \in Occupied
      PROVE  \E p \in 0 .. num_entries - 1 : LaidOut(b)[p] = slots[k]
    <2>1. Before(k) \in 0 .. num_entries - 1
        BY BeforeFacts
    <2>2. PICK h \in Occupied : Before(h) = Before(k) /\ LaidOut(b)[Before(k)] = slots[h]
        BY <1>3, <2>1
    <2> QED BY <2>1, <2>2, BeforeFacts
<1>5. told = {slots[k] : k \in Occupied}
    BY <1>2, <1>3, <1>4
<1>6. ~(num_entries > RIP_ENTRIES)
    BY <1>1
<1> QED BY <1>5, <1>6 DEF Told

LEMMA LaidOutType ==
    ASSUME SendTypeOK PROVE LaidOut(buffer) \in [Places -> Dest \cup {Old}]
<1>1. ASSUME NEW p \in Places, \E k \in Occupied : Before(k) = p
      PROVE  slots[CHOOSE k \in Occupied : Before(k) = p] \in Dest
    BY <1>1 DEF SendTypeOK, Tables, Occupied
<1> QED BY <1>1 DEF SendTypeOK, LaidOut

\* What is sent is a message.
LEMMA TransmitType ==
    ASSUME messages \in Seq(Message), NEW b \in [Places -> Dest \cup {Old}], Transmit(b)
    PROVE  /\ messages' \in Seq(Message)
           /\ Len(messages') = Len(messages) + 1
           /\ \A n \in DOMAIN messages : messages'[n] = messages[n]
           /\ DOMAIN messages' = DOMAIN messages \cup {Len(messages')}
           /\ messages'[Len(messages')] = [size |-> num_entries, entry |-> b]
<1> DEFINE m == [size |-> num_entries, entry |-> b]
<1>1. m \in Message
    BY BeforeFacts DEF Message
<1>2. messages' = Append(messages, m)
    BY DEF Transmit
<1> HIDE DEF m
<1>3. /\ messages' \in Seq(Message) /\ Len(messages') = Len(messages) + 1
      /\ Len(messages) \in Nat
      /\ DOMAIN messages = 1 .. Len(messages) /\ DOMAIN messages' = 1 .. Len(messages')
      /\ \A n \in 1 .. Len(messages) : messages'[n] = messages[n]
      /\ messages'[Len(messages')] = m
    BY <1>1, <1>2
<1>4. 1 .. Len(messages') = 1 .. Len(messages) \cup {Len(messages')}
    BY <1>3
<1> QED BY <1>3, <1>4 DEF m

LEMMA SendTypeStep == SendTypeOK /\ Next => SendTypeOK' /\ slots' = slots
<1> SUFFICES ASSUME SendTypeOK, Next PROVE SendTypeOK' /\ slots' = slots
    OBVIOUS
<1> USE SizeAssumption
<1>1. CASE SendSmall
    <2>1. LaidOut(buffer) \in [Places -> Dest \cup {Old}] /\ buffer' = LaidOut(buffer)
        BY <1>1, LaidOutType DEF SendSmall
    <2>2. messages' \in Seq(Message)
        BY <1>1, <2>1, TransmitType DEF SendSmall, SendTypeOK
    <2> QED BY <1>1, <2>1, <2>2 DEF SendSmall, SendTypeOK
<1>2. CASE StartCopying \/ FallOff
    BY <1>2 DEF StartCopying, FallOff, SendTypeOK
<1>3. CASE SkipEmptySlot
    BY <1>3 DEF SkipEmptySlot, SendTypeOK, Slots
<1>4. CASE SendLast \/ SendFull
    <2>1. messages' \in Seq(Message)
        BY <1>4, TransmitType DEF SendLast, SendFull, SendTypeOK
    <2>2. i' \in 0 .. RIP_ROUTE_TABLE_SIZE
        BY <1>4 DEF SendLast, SendFull, AtRoute, Occupied, Slots, SendTypeOK
    <2> QED BY <1>4, <2>1, <2>2 DEF SendLast, SendFull, SendTypeOK
<1>5. CASE CopyRoute
    <2>1. i \in Slots /\ slots[i] \in Dest /\ j \in Places
        BY <1>5 DEF CopyRoute, AtRoute, Occupied, SendTypeOK, Tables, Places
    <2>2. i' \in 0 .. RIP_ROUTE_TABLE_SIZE /\ j' \in 0 .. RIP_ENTRIES /\ counter' \in Int
        BY <1>5, <2>1 DEF CopyRoute, SendTypeOK, Slots
    <2>3. buffer' \in [Places -> Dest \cup {Old}]
        BY <1>5, <2>1 DEF CopyRoute, SendTypeOK
    <2> QED BY <1>5, <2>2, <2>3 DEF CopyRoute, SendTypeOK
<1> QED BY <1>1, <1>2, <1>3, <1>4, <1>5 DEF Next

\* With every place filled there is a route too many for one message.
LEMMA FullMeansMore ==
    ASSUME SendTypeOK, CopyInv, AtRoute, j >= RIP_ENTRIES
    PROVE  num_entries > RIP_ENTRIES
<1>1. i \in Slots /\ i \in Occupied /\ j <= Cardinality(Passed(i))
    BY DEF AtRoute, CopyInv, Occupied
<1>2. Cardinality(Passed(i + 1)) = Cardinality(Passed(i)) + 1
    BY <1>1, PassOne
<1>3. Cardinality(Passed(i)) \in Nat /\ Cardinality(Passed(i + 1)) <= num_entries
    BY PassedFacts
<1>4. num_entries \in Nat /\ j \in Nat /\ RIP_ENTRIES \in Nat
    BY BeforeFacts, SizeAssumption DEF SendTypeOK
<1> QED BY <1>1, <1>2, <1>3, <1>4

\* Copying a route keeps the filled places apart.
LEMMA CopyStep ==
    ASSUME SendTypeOK, CopyInv, CopyRoute
    PROVE  CopyInv'
<1>1. /\ pc = "copy" /\ i \in Occupied /\ i \in Slots /\ j < RIP_ENTRIES /\ j \in Nat
      /\ j \in Places /\ i \in Nat
    BY SizeAssumption DEF CopyRoute, AtRoute, SendTypeOK, Places, Occupied, Slots
<1>2. /\ buffer' = [buffer EXCEPT ![j] = slots[i]] /\ j' = j + 1 /\ i' = i + 1
      /\ slots' = slots /\ pc' = pc /\ messages' = messages
    BY DEF CopyRoute
<1>3. buffer'[j] = slots[i] /\ \A p \in 0 .. j - 1 : buffer'[p] = buffer[p]
    <2>1. \A p \in 0 .. j - 1 : p \in Places /\ p # j
        BY <1>1, SizeAssumption DEF Places
    <2> QED BY <1>1, <1>2, <2>1 DEF SendTypeOK
<1>4. /\ Passed(i + 1) = Passed(i) \cup {i}
      /\ Cardinality(Passed(i + 1)) = Cardinality(Passed(i)) + 1
      /\ Cardinality(Passed(i)) \in Nat
    BY <1>1, PassOne, PassedFacts
<1>5. Occupied' = Occupied /\ num_entries' = num_entries /\ Distinct' = Distinct
    BY <1>2 DEF Occupied, num_entries, Distinct
<1>6. Passed(i)' = Passed(i + 1)
    BY <1>2, <1>5 DEF Passed
<1>7. \A p \in 0 .. j' - 1 : p \in 0 .. j - 1 \/ p = j
    BY <1>1, <1>2
<1>8. /\ num_entries >= RIP_ENTRIES /\ (messages # <<>> => num_entries > RIP_ENTRIES)
      /\ j <= Cardinality(Passed(i))
      /\ \A p \in 0 .. j - 1 : \E h \in Passed(i) : buffer[p] = slots[h]
      /\ Distinct => \A p, q \in 0 .. j - 1 : buffer[p] = buffer[q] => p = q
    BY <1>1 DEF CopyInv
<1>9. \A p \in 0 .. j' - 1 : \E h \in Passed(i)' : buffer'[p] = slots'[h]
    BY <1>2, <1>3, <1>4, <1>6, <1>7, <1>8
<1>10. ASSUME Distinct, NEW p \in 0 .. j - 1 PROVE buffer'[p] # buffer'[j]
    <2>1. PICK h \in Passed(i) : buffer[p] = slots[h]
        BY <1>8
    <2>2. h \in Occupied /\ h # i
        BY <1>1, <2>1 DEF Passed, Occupied, Slots
    <2> QED BY <1>1, <1>3, <1>10, <2>1, <2>2 DEF Distinct
<1>11. Distinct => \A p, q \in 0 .. j' - 1 : buffer'[p] = buffer'[q] => p = q
    BY <1>3, <1>7, <1>8, <1>10
<1>12. j' <= Cardinality(Passed(i)')
    BY <1>1, <1>2, <1>4, <1>6, <1>8
<1> QED BY <1>2, <1>5, <1>8, <1>9, <1>11, <1>12 DEF CopyInv

\* While the table stays, so do the slots it occupies.
LEMMA SameSlots ==
    ASSUME slots' = slots
    PROVE  /\ Occupied' = Occupied /\ num_entries' = num_entries
           /\ Distinct' = Distinct
           /\ {slots'[k] : k \in Occupied'} = {slots[k] : k \in Occupied}
BY DEF Occupied, num_entries, Distinct

\* A message more of the table's size keeps the sizes.
LEMMA SizesStep ==
    ASSUME SendTypeOK, SendInv, slots' = slots, NEW b \in [Places -> Dest \cup {Old}],
           Transmit(b)
    PROVE  \A n \in DOMAIN messages' : messages'[n].size = num_entries'
<1>1. num_entries' = num_entries
    BY SameSlots
<1>2. messages \in Seq(Message) /\ \A n \in DOMAIN messages : messages[n].size = num_entries
    BY DEF SendTypeOK, SendInv
<1>3. /\ \A n \in DOMAIN messages : messages'[n] = messages[n]
      /\ DOMAIN messages' = DOMAIN messages \cup {Len(messages')}
      /\ messages'[Len(messages')] = [size |-> num_entries, entry |-> b]
    BY <1>2, TransmitType
<1>4. messages'[Len(messages')].size = num_entries
    BY <1>3
<1> QED BY <1>1, <1>2, <1>3, <1>4

LEMMA SendSmallStep ==
    ASSUME SendTypeOK, SendInv, SendSmall
    PROVE  SendInv'
<1>1. /\ pc = "start" /\ pc' = "returned" /\ slots' = slots
      /\ num_entries < RIP_ENTRIES /\ buffer' = LaidOut(buffer) /\ Transmit(buffer')
      /\ messages = <<>> /\ i' = i /\ j' = j
    BY DEF SendSmall, SendInv
<1>2. num_entries' = num_entries /\ num_entries <= RIP_ENTRIES
    BY <1>1, SameSlots, BeforeFacts, SizeAssumption
<1>3. buffer' \in [Places -> Dest \cup {Old}]
    BY <1>1, LaidOutType
<1>4. \A n \in DOMAIN messages' : messages'[n].size = num_entries'
    BY <1>1, <1>3, SizesStep
<1>5. /\ Len(messages') = 1
      /\ messages'[1] = [size |-> num_entries, entry |-> LaidOut(buffer)]
    <2>1. messages \in Seq(Message)
        BY DEF SendTypeOK
    <2> QED BY <1>1, <1>3, <2>1, TransmitType
<1>6. Told(messages'[1]) = {slots[k] : k \in Occupied}
    BY <1>2, <1>5, LaidOutTold
<1>7. SmallTableSentWhole'
    <2>1. Told(messages[1])' = Told(messages'[1])
        BY DEF Told
    <2>2. messages'[1].size = num_entries
        BY <1>5
    <2> QED BY <1>1, <1>2, <1>5, <1>6, <2>1, <2>2, SameSlots DEF SmallTableSentWhole
<1> QED BY <1>1, <1>4, <1>5, <1>7 DEF SendInv, CopyInv

\* A step elsewhere keeps the invariant.
LEMMA ElsewhereStep ==
    ASSUME SendInv, UNCHANGED svars
    PROVE  SendInv'
<1>1. UNCHANGED <<slots, pc, i, j, counter, buffer, messages>>
    BY DEF svars
<1>2. Occupied' = Occupied /\ num_entries' = num_entries /\ Distinct' = Distinct
    BY <1>1, SameSlots
<1>3. Passed(i)' = Passed(i) /\ Told(messages[1])' = Told(messages[1])
    BY <1>1, <1>2 DEF Passed, Told
<1> QED BY <1>1, <1>2, <1>3 DEF SendInv, CopyInv, SmallTableSentWhole

\* No step of send_rip_response breaks the invariant.
LEMMA SendStep == SendTypeOK /\ SendInv /\ Next => SendInv'
<1> SUFFICES ASSUME SendTypeOK, SendInv, Next PROVE SendInv'
    OBVIOUS
<1>1. slots' = slots /\ num_entries' = num_entries /\ Distinct' = Distinct
      /\ Occupied' = Occupied
    BY SendTypeStep, SameSlots
<1>2. num_entries \in Nat /\ RIP_ENTRIES \in Nat
    BY BeforeFacts, SizeAssumption
<1>3. CASE SendSmall
    BY <1>3, SendSmallStep
<1>4. CASE StartCopying
    <2>1. /\ pc = "start" /\ pc' = "copy" /\ i' = i /\ j' = j /\ messages' = messages
          /\ i = 0 /\ j = 0 /\ messages = <<>> /\ num_entries >= RIP_ENTRIES
        BY <1>4 DEF StartCopying, SendInv
    <2>2. 0 <= Cardinality(Passed(0)')
        <3>1. Passed(0)' = Passed(0)
            BY <1>1 DEF Passed
        <3> QED BY <3>1, PassedFacts
    <2>3. Passed(i)' = Passed(0)'
        BY <2>1 DEF Passed
    <2> QED BY <1>1, <2>1, <2>2, <2>3 DEF SendInv, CopyInv, SmallTableSentWhole
<1>5. CASE SkipEmptySlot
    <2>1. /\ pc = "copy" /\ pc' = "copy" /\ i' = i + 1 /\ j' = j /\ i \in Slots
          /\ i \notin Occupied /\ messages' = messages /\ buffer' = buffer
        BY <1>5 DEF SkipEmptySlot
    <2>2. Passed(i)' = Passed(i)
        <3>1. Passed(i)' = Passed(i + 1)
            BY <1>1, <2>1 DEF Passed
        <3> QED BY <2>1, <3>1, PassOne
    <2>3. CopyInv'
        BY <1>1, <2>1, <2>2 DEF SendInv, CopyInv
    <2> QED BY <1>1, <2>1, <2>3 DEF SendInv, SmallTableSentWhole
<1>6. CASE SendLast
    <2>1. /\ AtRoute /\ pc = "copy" /\ pc' = "returned" /\ buffer' = buffer
          /\ Transmit(buffer) /\ buffer \in [Places -> Dest \cup {Old}]
          /\ num_entries >= RIP_ENTRIES
        BY <1>6 DEF SendLast, AtRoute, SendTypeOK, SendInv, CopyInv
    <2>2. messages \in Seq(Message) /\ Len(messages') = Len(messages) + 1
        BY <2>1, TransmitType DEF SendTypeOK
    <2>3. Len(messages') > 1 => messages # <<>>
        BY <2>2
    <2>4. \A n \in DOMAIN messages' : messages'[n].size = num_entries'
        BY <1>1, <2>1, SizesStep
    <2>5. messages # <<>> => num_entries > RIP_ENTRIES
        BY <2>1 DEF SendInv, CopyInv
    <2>6. ~(num_entries' < RIP_ENTRIES)
        BY <1>1, <1>2, <2>1
    <2> QED BY <1>1, <2>1, <2>3, <2>4, <2>5, <2>6 DEF SendInv, CopyInv, SmallTableSentWhole
<1>7. CASE SendFull
    <2>1. /\ AtRoute /\ pc = "copy" /\ pc' = "copy" /\ buffer' = buffer
          /\ Transmit(buffer) /\ buffer \in [Places -> Dest \cup {Old}]
          /\ i' = i + 1 /\ j' = 0 /\ j >= RIP_ENTRIES
        BY <1>7 DEF SendFull, AtRoute, SendTypeOK
    <2>2. num_entries' > RIP_ENTRIES
        BY <1>1, <2>1, FullMeansMore DEF SendInv
    <2>3. \A n \in DOMAIN messages' : messages'[n].size = num_entries'
        BY <1>1, <2>1, SizesStep
    <2>4. 0 <= Cardinality(Passed(i)')
        <3>1. Passed(i)' = Passed(i + 1)
            BY <1>1, <2>1 DEF Passed
        <3> QED BY <3>1, PassedFacts
    <2>5. CopyInv'
        BY <1>1, <1>2, <2>1, <2>2, <2>4 DEF CopyInv
    <2> QED BY <2>1, <2>2, <2>3, <2>5 DEF SendInv, SmallTableSentWhole
<1>8. CASE CopyRoute
    <2>1. pc' = "copy" /\ messages' = messages
        BY <1>8 DEF CopyRoute, AtRoute
    <2> QED BY <1>1, <1>8, <2>1, CopyStep DEF SendInv, SmallTableSentWhole
<1>9. CASE FallOff
    <2>1. pc = "copy" /\ pc' = "returned" /\ messages' = messages
        BY <1>9 DEF FallOff
    <2>2. ~(num_entries' < RIP_ENTRIES)
        BY <1>1, <1>2, <2>1 DEF SendInv, CopyInv
    <2> QED BY <1>1, <2>1, <2>2 DEF SendInv, CopyInv, SmallTableSentWhole
<1> QED BY <1>3, <1>4, <1>5, <1>6, <1>7, <1>8, <1>9 DEF Next

\* A message sent with every place filled tells as many routes as there are
\* places, and is longer than that.
LEMMA FullStep ==
    ASSUME SendTypeOK, SendInv, Next, Distinct \/ num_entries <= RIP_ENTRIES,
           j >= RIP_ENTRIES, Len(messages') > Len(messages)
    PROVE  LET told == Told(messages'[Len(messages')]) IN
           /\ told \ {Past} \subseteq {slots[k] : k \in Occupied}
           /\ Cardinality(told \ {Past}) = RIP_ENTRIES
           /\ Past \in told
<1> DEFINE last == messages'[Len(messages')]
           fresh == {buffer[p] : p \in Places}
<1>1. num_entries \in Nat /\ RIP_ENTRIES \in Nat \ {0} /\ Len(messages) \in Nat
      /\ messages \in Seq(Message) /\ buffer \in [Places -> Dest \cup {Old}]
      /\ j \in 0 .. RIP_ENTRIES
    BY BeforeFacts, SizeAssumption DEF SendTypeOK
<1>2. SendLast \/ SendFull
    <2>1. ~SendSmall
        BY <1>1 DEF SendSmall, SendInv
    <2>2. ~(StartCopying \/ SkipEmptySlot \/ CopyRoute \/ FallOff)
        BY <1>1 DEF StartCopying, SkipEmptySlot, CopyRoute, FallOff
    <2> QED BY <2>1, <2>2 DEF Next
<1>3. AtRoute /\ Transmit(buffer) /\ pc = "copy"
    BY <1>2 DEF SendLast, SendFull, AtRoute
<1>4. num_entries > RIP_ENTRIES
    BY <1>3, FullMeansMore DEF SendInv
<1>5. Distinct /\ j = RIP_ENTRIES
    BY <1>1, <1>4
<1>6. last = [size |-> num_entries, entry |-> buffer]
    BY <1>1, <1>3, TransmitType
<1>7. Places = 0 .. j - 1 /\ {q \in Places : q < num_entries} = Places
    BY <1>1, <1>4, <1>5 DEF Places
<1>8. Told(last) = fresh \cup {Past} /\ Told(last) \ {Past} = fresh
    <2>1. Told(last) = fresh \cup {Past}
        BY <1>4, <1>6, <1>7 DEF Told
    <2>2. Past \notin fresh
        BY <1>1, PastAssumption
    <2> HIDE DEF last, fresh
    <2> QED BY <2>1, <2>2
<1>9. /\ \A p \in Places : \E h \in Passed(i) : buffer[p] = slots[h]
      /\ \A p, q \in Places : buffer[p] = buffer[q] => p = q
    BY <1>3, <1>5, <1>7 DEF SendInv, CopyInv
<1>10. fresh \subseteq {slots[k] : k \in Occupied}
    BY <1>9 DEF Passed
<1>11. Cardinality(fresh) = RIP_ENTRIES
    <2>1. IsFiniteSet(Places) /\ Cardinality(Places) = RIP_ENTRIES
        BY <1>1, FS_Interval DEF Places
    <2> DEFINE f == [p \in Places |-> buffer[p]]
    <2>2. f \in Bijection(Places, fresh)
        <3>1. f \in [Places -> fresh] /\ \A t \in fresh : \E p \in Places : f[p] = t
            OBVIOUS
        <3>2. \A p, q \in Places : f[p] = f[q] => p = q
            BY <1>9
        <3> HIDE DEF f, fresh
        <3> QED BY <3>1, <3>2 DEF Bijection, Injection, Surjection, IsInjective
    <2>3. ExistsBijection(Places, fresh)
        BY <2>2 DEF ExistsBijection
    <2> HIDE DEF fresh
    <2> QED BY <2>1, <2>3, FS_Bijection
<1> HIDE DEF last, fresh
<1>12. /\ Told(last) \ {Past} \subseteq {slots[k] : k \in Occupied}
       /\ Cardinality(Told(last) \ {Past}) = RIP_ENTRIES
       /\ Past \in Told(last)
    BY <1>8, <1>10, <1>11
<1> QED BY <1>12 DEF last

---------------------------------------------------------------------------
(* Answering a request for some destinations (table_to_send). *)

RibDistinct == \A h, k \in Slots : rib[h] # NULL /\ rib[h] = rib[k] => h = k

\* A list that fits in a message.
FitList(l) == \E n \in 1 .. RIP_ENTRIES : l \in [1 .. n -> Dest]

\* An entry of the request finds one route at most.
LEMMA FoundFacts ==
    ASSUME rib \in Tables, RibDistinct, NEW l, FitList(l)
    PROVE  /\ IsFiniteSet(Found(l))
           /\ Cardinality(Found(l)) \in 0 .. RIP_ENTRIES
           /\ \A p \in Found(l) : rib[p[1]] \in Dest
<1>1. PICK n \in 1 .. RIP_ENTRIES : l \in [1 .. n -> Dest]
    BY DEF FitList
<1>2. \A p \in Found(l) :
          /\ p = <<p[1], p[2]>> /\ p[1] \in Slots /\ p[2] \in 1 .. n
          /\ rib[p[1]] = l[p[2]] /\ rib[p[1]] \in Dest /\ rib[p[1]] # NULL
    BY <1>1, NullAssumption DEF Found
<1> DEFINE f == [p \in Found(l) |-> p[2]]
<1>3. f \in [Found(l) -> 1 .. n]
    BY <1>2
<1>4. ASSUME NEW p \in Found(l), NEW q \in Found(l), f[p] = f[q] PROVE p = q
    <2>1. p[2] = q[2]
        BY <1>4
    <2>2. p[1] = q[1]
        BY <1>2, <2>1 DEF RibDistinct
    <2> QED BY <1>2, <2>1, <2>2
<1>5. f \in Injection(Found(l), 1 .. n)
    <2> HIDE DEF f
    <2> QED BY <1>3, <1>4 DEF Injection, IsInjective
<1>6. IsFiniteSet(1 .. n) /\ Cardinality(1 .. n) = n
    BY FS_Interval
<1>7. IsFiniteSet(Found(l)) /\ Cardinality(Found(l)) <= n
    BY <1>5, <1>6, FS_Injection
<1>8. Cardinality(Found(l)) \in Nat
    BY <1>7, FS_CardinalityType
<1> QED BY <1>2, <1>7, <1>8, SizeAssumption

\* The loops over slots and entries number what they find.
LEMMA RanksNumber ==
    ASSUME rib \in Tables, RibDistinct, NEW l, FitList(l)
    PROVE  LET n == Cardinality(Found(l)) IN
           /\ \A p \in Found(l) : Rank(l, p) \in 0 .. n - 1
           /\ \A p, q \in Found(l) : Rank(l, p) = Rank(l, q) => p = q
           /\ \A m \in 0 .. n - 1 : \E p \in Found(l) : Rank(l, p) = m
<1> DEFINE S == Found(l)
           Before2(q, p) == q[1] < p[1] \/ (q[1] = p[1] /\ q[2] < p[2])
           R == {x \in S \X S : Before2(x[1], x[2])}
<1>1. \A p \in S : p = <<p[1], p[2]>> /\ p[1] \in Int /\ p[2] \in Int
    <2>1. PICK n \in 1 .. RIP_ENTRIES : l \in [1 .. n -> Dest]
        BY DEF FitList
    <2> QED BY <2>1 DEF Found, Slots
<1>2. \A p, q \in S : <<q, p>> \in R <=> Before2(q, p)
    OBVIOUS
<1>3. StrictOrder(S, R)
    <2> HIDE DEF R, S
    <2>1. \A x \in S : <<x, x>> \notin R
        BY <1>1, <1>2
    <2>2. \A x, y, z \in S : <<x, y>> \in R /\ <<y, z>> \in R => <<x, z>> \in R
        BY <1>1, <1>2
    <2>3. \A x, y \in S : x # y => <<x, y>> \in R \/ <<y, x>> \in R
        BY <1>1, <1>2
    <2> QED BY <2>1, <2>2, <2>3 DEF StrictOrder
<1>4. Numbers(RankIn(S, R), S, Cardinality(S))
    BY <1>3, FoundFacts, RankFacts
<1>5. ASSUME NEW p \in S PROVE RankIn(S, R)[p] = Rank(l, p)
    <2>1. {q \in S : <<q, p>> \in R} = {q \in S : Before2(q, p)}
        BY <1>2
    <2>2. RankIn(S, R)[p] = Cardinality({q \in S : <<q, p>> \in R})
        BY DEF RankIn
    <2> QED BY <2>1, <2>2 DEF Rank
<1> HIDE DEF R
<1> QED BY <1>4, <1>5 DEF Numbers

\* The table sent holds the routes asked for and known, each and no other, and
\* not more than a message takes.
LEMMA MatchesFacts ==
    ASSUME rib \in Tables, RibDistinct, NEW l, FitList(l)
    PROVE  /\ Matches(l) \in Tables
           /\ {Matches(l)[s] : s \in {k \in Slots : Matches(l)[k] # NULL}}
                  = ({rib[k] : k \in Slots} \ {NULL}) \cap {l[k] : k \in DOMAIN l}
           /\ IsFiniteSet({k \in Slots : Matches(l)[k] # NULL})
           /\ Cardinality({k \in Slots : Matches(l)[k] # NULL}) <= RIP_ENTRIES
<1> DEFINE n == Cardinality(Found(l))
           m == Matches(l)
           taken == {k \in Slots : m[k] # NULL}
<1>1. n \in Nat /\ n <= RIP_ENTRIES /\ 0 .. n - 1 \subseteq Slots
    BY FoundFacts, EntriesAssumption, SizeAssumption DEF Slots
<1>2. \A p \in Found(l) : rib[p[1]] \in Dest /\ rib[p[1]] # NULL
    BY FoundFacts, NullAssumption
<1>3. ASSUME NEW s \in Slots, s < n
      PROVE  \E p \in Found(l) : Rank(l, p) = s /\ m[s] = rib[p[1]]
    <2>1. s \in 0 .. n - 1
        BY <1>1, <1>3 DEF Slots
    <2>2. \E p \in Found(l) : Rank(l, p) = s
        BY <2>1, RanksNumber
    <2> QED BY <2>2 DEF Matches
<1>4. ASSUME NEW s \in Slots, ~(s < n) PROVE m[s] = NULL
    <2>1. ~\E p \in Found(l) : Rank(l, p) = s
        BY <1>1, <1>4, RanksNumber DEF Slots
    <2> QED BY <2>1 DEF Matches
<1>5. m = [s \in Slots |-> m[s]]
    BY DEF Matches
<1> HIDE DEF n, m
<1>6. taken = 0 .. n - 1
    <2>1. \A s \in Slots : s \in Nat
        BY SizeAssumption DEF Slots
    <2>2. \A s \in Slots : m[s] # NULL <=> s < n
        BY <1>2, <1>3, <1>4
    <2> QED BY <1>1, <2>1, <2>2
<1>7. m \in Tables
    <2>1. \A s \in Slots : m[s] \in Dest \cup {NULL}
        BY <1>2, <1>3, <1>4
    <2> QED BY <1>5, <2>1 DEF Tables
<1>8. IsFiniteSet(taken) /\ Cardinality(taken) <= RIP_ENTRIES
    <2>1. n - 1 \in Int
        BY <1>1
    <2>2. /\ IsFiniteSet(0 .. n - 1)
          /\ Cardinality(0 .. n - 1) = IF 0 > n - 1 THEN 0 ELSE n - 1 - 0 + 1
        BY <2>1, FS_Interval
    <2>3. Cardinality(0 .. n - 1) = n
        BY <1>1, <2>2
    <2> HIDE DEF taken
    <2> QED BY <1>1, <1>6, <2>2, <2>3
<1>9. ASSUME NEW s \in taken
      PROVE  m[s] \in ({rib[k] : k \in Slots} \ {NULL}) \cap {l[k] : k \in DOMAIN l}
    <2>1. s \in Slots /\ s < n
        BY <1>1, <1>6
    <2>2. PICK p \in Found(l) : m[s] = rib[p[1]]
        BY <1>3, <2>1
    <2>3. p[1] \in Slots /\ p[2] \in DOMAIN l /\ rib[p[1]] = l[p[2]]
        BY DEF Found
    <2> QED BY <1>2, <2>2, <2>3
<1>10. ASSUME NEW a \in Slots, NEW b \in DOMAIN l, rib[a] # NULL, rib[a] = l[b]
       PROVE  \E s \in taken : m[s] = rib[a]
    <2>1. PICK p \in Found(l) : p = <<a, b>>
        BY <1>10 DEF Found
    <2>2. Rank(l, p) \in 0 .. n - 1
        BY RanksNumber DEF n
    <2>3. PICK s \in taken : s = Rank(l, p) /\ s < n /\ s \in Slots
        BY <1>1, <1>6, <2>2
    <2>4. PICK q \in Found(l) : Rank(l, q) = s /\ m[s] = rib[q[1]]
        BY <1>3, <2>3
    <2>5. q = p
        BY <2>3, <2>4, RanksNumber
    <2> QED BY <2>1, <2>4, <2>5
<1>11. {m[s] : s \in taken}
           = ({rib[k] : k \in Slots} \ {NULL}) \cap {l[k] : k \in DOMAIN l}
    BY <1>9, <1>10
<1> QED BY <1>7, <1>8, <1>11 DEF m

---------------------------------------------------------------------------
(* The client and the daemon (RipClient). *)

Short == {Whole} \cup {Specific(l) : l \in {k \in Lists : FitList(k)}}

\* What the answer to the question answered last has to tell.
Expected ==
    IF asked.kind = "whole" THEN known
    ELSE known \cap {asked.dests[k] : k \in DOMAIN asked.dests}

\* No question asks for more than a message takes.
QuestionInv ==
    /\ requests \in Seq(Short \cup {Teach})
    /\ asked \in Short
    /\ cpc = "first" => Len(wanted) > RIP_ENTRIES

\* The table the daemon sends is the answer.
AnswerInv ==
    pc # "listen" =>
        /\ big <=> num_entries >= RIP_ENTRIES
        /\ {slots[k] : k \in Occupied} = Expected
        /\ Distinct \/ num_entries <= RIP_ENTRIES

\* The question the client waits for is on its way, at the daemon or answered.
OneQuestion ==
    cpc # "crashed" =>
        \/ ~Waiting /\ requests \in {<<>>, <<Teach>>} /\ pc = "listen" /\ answers = <<>>
        \/ /\ Waiting /\ requests \in {<<Question>>, <<Teach, Question>>}
           /\ pc = "listen" /\ answers = <<>>
        \/ Waiting /\ requests = <<>> /\ pc # "listen" /\ answers = <<>> /\ asked = Question
        \/ /\ Waiting /\ requests = <<>> /\ pc = "listen"
           /\ answers # <<>> => asked = Question

\* An answer the client can take is one message, and below the limit the right one.
OneAnswer ==
    cpc # "crashed" /\ answers # <<>> =>
        /\ Len(answers) > 1 => \A k \in DOMAIN answers : answers[k].size > RIP_ENTRIES
        /\ ~big => Len(answers) = 1 /\ Told(answers[1]) = Expected

ClientInv ==
    /\ CTypeOK /\ RibDistinct /\ QuestionInv
    /\ SendInv /\ AnswerInv /\ OneQuestion /\ OneAnswer /\ NobodyWaitsForNothing

LEMMA ListFacts ==
    ASSUME NEW l \in Lists
    PROVE  /\ l \in Seq(Dest) /\ Len(l) \in 1 .. MaxWanted /\ l \in [1 .. Len(l) -> Dest]
           /\ Len(l) <= RIP_ENTRIES => FitList(l)
<1>1. PICK n \in 1 .. MaxWanted : l \in [1 .. n -> Dest]
    BY DEF Lists
<1>2. l \in Seq(Dest)
    <2>1. n \in Nat
        BY WantedAssumption
    <2> QED BY <1>1, <2>1, SeqDef
<1>3. Len(l) = n
    <2>1. 1 .. Len(l) = 1 .. n /\ Len(l) \in Nat
        BY <1>1, <1>2, LenProperties
    <2>2. n \in Nat /\ n >= 1
        BY WantedAssumption
    <2>3. n \in 1 .. Len(l)
        BY <2>1, <2>2
    <2>4. Len(l) \in 1 .. n
        BY <2>1, <2>2, <2>3
    <2> QED BY <2>1, <2>2, <2>3, <2>4
<1> QED BY <1>1, <1>2, <1>3, SizeAssumption, WantedAssumption DEF FitList

LEMMA OneElementList ==
    ASSUME NEW l \in Lists, NEW n \in 1 .. Len(l)
    PROVE  <<l[n]>> \in Lists /\ FitList(<<l[n]>>)
<1>1. Len(l) \in 1 .. MaxWanted /\ l[n] \in Dest /\ 1 \in 1 .. MaxWanted
    BY ListFacts, WantedAssumption
<1>2. <<l[n]>> \in [1 .. 1 -> Dest] /\ 1 \in 1 .. RIP_ENTRIES
    BY <1>1, SizeAssumption
<1> QED BY <1>1, <1>2 DEF Lists, FitList

\* The three kinds of datagram are told apart.
LEMMA Kinds ==
    /\ Whole.kind = "whole" /\ Whole # Teach
    /\ \A l : Specific(l).kind = "specific" /\ Specific(l).dests = l /\ Specific(l) # Teach
    /\ Teach \notin Short
<1>1. Whole.kind = "whole" /\ Teach.kind = "teach"
    BY DEF Whole, Teach
<1>2. \A l : Specific(l).kind = "specific" /\ Specific(l).dests = l
    BY DEF Specific
<1> QED BY <1>1, <1>2 DEF Short

LEMMA InitStep == CInit => ClientInv
<1> SUFFICES ASSUME CInit PROVE ClientInv
    OBVIOUS
<1>1. /\ pc = "listen" /\ i = 0 /\ j = 0 /\ counter = 0 /\ messages = <<>>
      /\ slots = [k \in Slots |-> NULL] /\ rib = [k \in Slots |-> NULL]
      /\ buffer = [p \in Places |-> Old]
      /\ requests = <<>> /\ answers = <<>> /\ cpc = "menu" /\ asked = Whole
    BY DEF CInit, Idle
<1>2. CTypeOK
    <2>1. SendTypeOK
        BY <1>1, SizeAssumption DEF SendTypeOK, Tables
    <2>2. rib \in Tables /\ asked \in Questions
        BY <1>1 DEF Tables, Questions
    <2>3. requests \in Seq(Questions \cup {Teach}) /\ answers \in Seq(Message)
        BY <1>1
    <2>4. /\ option \in {"menu", "-X"} /\ wanted = <<>> /\ shown = {} /\ lost = FALSE
          /\ known = {} /\ big = FALSE
        BY DEF CInit
    <2> QED BY <1>1, <2>1, <2>2, <2>3, <2>4 DEF CTypeOK
<1>3. QuestionInv
    BY <1>1 DEF QuestionInv, Short
<1>4. SendInv
    BY <1>1 DEF SendInv, CopyInv, SmallTableSentWhole
<1> QED BY <1>1, <1>2, <1>3, <1>4
        DEF ClientInv, RibDistinct, AnswerInv, OneQuestion, OneAnswer, NobodyWaitsForNothing, Waiting

\* The answer begun is the one to the question read.
LEMMA StartStep ==
    ASSUME CTypeOK, RibDistinct, QuestionInv, StartAnswer
    PROVE  /\ asked' \in Short /\ known' \subseteq Dest /\ slots' \in Tables
           /\ AnswerInv'
<1> DEFINE q == Head(requests)
<1>1. q \in Short
    <2>1. requests \in Seq(Short \cup {Teach}) /\ requests # <<>> /\ q # Teach
        BY DEF QuestionInv, StartAnswer
    <2> QED BY <2>1, HeadTailProperties
<1>2. /\ asked' = q /\ known' = {rib[k] : k \in Slots} \ {NULL}
      /\ slots' = IF q.kind = "whole" THEN rib ELSE Matches(q.dests)
      /\ big' = (num_entries' >= RIP_ENTRIES) /\ pc' = "start"
    BY DEF StartAnswer
<1>3. rib \in Tables /\ known' \subseteq Dest
    BY <1>2 DEF CTypeOK, Tables
<1> HIDE DEF q
<1>4. num_entries' = Cardinality(Occupied') /\ Occupied' = {k \in Slots : slots'[k] # NULL}
    BY DEF num_entries, Occupied
<1>5. CASE q = Whole
    <2>1. slots' = rib
        BY <1>2, <1>5, Kinds
    <2>2. Distinct'
        BY <2>1, <1>4 DEF RibDistinct, Distinct, Occupied
    <2>3. {slots'[k] : k \in Occupied'} = Expected'
        BY <1>2, <1>4, <1>5, <2>1, Kinds DEF Expected
    <2> QED BY <1>1, <1>2, <1>3, <2>1, <2>2, <2>3 DEF AnswerInv
<1>6. CASE q # Whole
    <2>1. PICK l \in Lists : FitList(l) /\ q = Specific(l)
        BY <1>1, <1>6 DEF Short
    <2>2. q.kind = "specific" /\ q.dests = l
        BY <2>1, Kinds
    <2>3. slots' = Matches(l)
        BY <1>2, <2>2
    <2>4. /\ slots' \in Tables
          /\ {slots'[k] : k \in Occupied'} = known' \cap {l[k] : k \in DOMAIN l}
          /\ num_entries' <= RIP_ENTRIES
        <3>1. /\ Matches(l) \in Tables
              /\ {Matches(l)[s] : s \in {k \in Slots : Matches(l)[k] # NULL}}
                     = known' \cap {l[k] : k \in DOMAIN l}
              /\ Cardinality({k \in Slots : Matches(l)[k] # NULL}) <= RIP_ENTRIES
            BY <1>2, <1>3, <2>1, MatchesFacts
        <3>2. {k \in Slots : Matches(l)[k] # NULL} = Occupied'
            BY <1>4, <2>3
        <3> QED BY <1>4, <2>3, <3>1, <3>2
    <2>5. Expected' = known' \cap {l[k] : k \in DOMAIN l}
        BY <1>2, <2>2 DEF Expected
    <2> QED BY <1>1, <1>2, <1>3, <2>4, <2>5 DEF AnswerInv
<1> QED BY <1>5, <1>6

LEMMA ToldType ==
    \A m \in Message : m.size <= RIP_ENTRIES => Told(m) \subseteq Dest \cup {Old}
BY SizeAssumption DEF Told, Message

\* The first and the last part of a queue.
LEMMA QueueFacts ==
    ASSUME NEW S, NEW s \in Seq(S)
    PROVE  /\ \A e \in S : Append(s, e) \in Seq(S)
           /\ s # <<>> => Head(s) \in S /\ Tail(s) \in Seq(S)
BY HeadTailProperties, AppendProperties

\* What the client asks for is a question, and short enough.
LEMMA AskSpecificStep ==
    ASSUME CTypeOK, QuestionInv, AskSpecific
    PROVE  /\ wanted' \in Lists /\ cpc' \in {"wait", "first"}
           /\ cpc' = "first" => Len(wanted') > RIP_ENTRIES
           /\ option = "-X" /\ option' = option /\ cpc = "menu"
           /\ \E q \in Short \cap Questions : Ask(q) /\ Question' = q
<1>1. PICK list \in Lists :
          /\ wanted' = list
          /\ IF Len(list) <= RIP_ENTRIES
             THEN Ask(Specific(list)) /\ cpc' = "wait"
             ELSE Ask(Specific(<<list[1]>>)) /\ cpc' = "first"
    BY DEF AskSpecific
<1>2. Len(list) \in Nat /\ RIP_ENTRIES \in Nat /\ 1 \in 1 .. Len(list)
    BY ListFacts, WantedAssumption, SizeAssumption
<1>3. option = "-X" /\ option' = option /\ cpc = "menu"
    BY DEF AskSpecific
<1>4. CASE Len(list) <= RIP_ENTRIES
    <2>1. Specific(list) \in Short \cap Questions
        BY <1>4, ListFacts DEF Short, Questions
    <2>2. Question' = Specific(list)
        BY <1>1, <1>3, <1>4 DEF Question, Specific
    <2> QED BY <1>1, <1>3, <1>4, <2>1, <2>2
<1>5. CASE Len(list) > RIP_ENTRIES
    <2>1. Specific(<<list[1]>>) \in Short \cap Questions
        BY <1>2, OneElementList DEF Short, Questions
    <2>2. Question' = Specific(<<list[1]>>)
        <3>1. wanted' = list /\ cpc' = "first"
            BY <1>1, <1>2, <1>5
        <3>2. Question' = Specific(<<wanted'[1]>>)
            BY <3>1 DEF Question
        <3> QED BY <3>1, <3>2
    <2> QED BY <1>1, <1>2, <1>3, <1>5, <2>1, <2>2
<1> QED BY <1>2, <1>4, <1>5

LEMMA TakeFirstStep ==
    ASSUME CTypeOK, QuestionInv, TakeFirst
    PROVE  \E q \in Short \cap Questions : Ask(q) /\ Question' = q
<1> DEFINE q == Specific(<<wanted[RIP_ENTRIES + 1]>>)
<1>1. Len(wanted) > RIP_ENTRIES /\ Ask(q) /\ cpc' = "second" /\ wanted' = wanted
    BY DEF TakeFirst, Take, QuestionInv
<1>2. RIP_ENTRIES \in Nat
    BY SizeAssumption
<1>3. wanted \in Lists
    BY <1>1, <1>2 DEF CTypeOK
<1>4. Len(wanted) \in Nat
    BY <1>3, ListFacts
<1>5. RIP_ENTRIES + 1 \in 1 .. Len(wanted)
    BY <1>1, <1>2, <1>4
<1>6. q \in Short \cap Questions
    BY <1>3, <1>5, OneElementList DEF Short, Questions
<1>7. Question' = q
    <2>1. Question' = Specific(<<wanted'[RIP_ENTRIES + 1]>>)
        BY <1>1 DEF Question
    <2> QED BY <1>1, <2>1
<1> QED BY <1>1, <1>6, <1>7

LEMMA TypeStep ==
    ASSUME CTypeOK, RibDistinct, QuestionInv, CNext
    PROVE  CTypeOK'
<1>1. /\ SendTypeOK /\ rib \in Tables /\ requests \in Seq(Questions \cup {Teach})
      /\ answers \in Seq(Message)
    BY DEF CTypeOK
<1>2. ASSUME NEW q \in Questions \cup {Teach}, Ask(q)
      PROVE  requests' \in Seq(Questions \cup {Teach}) /\ lost' = FALSE
    BY <1>1, <1>2, QueueFacts DEF Ask
<1>3. requests # <<>> => Tail(requests) \in Seq(Questions \cup {Teach})
    BY <1>1, QueueFacts
<1>4. answers # <<>> => Head(answers) \in Message /\ Tail(answers) \in Seq(Message)
    BY <1>1, QueueFacts
<1>5. ASSUME UNCHANGED svars PROVE SendTypeOK'
    BY <1>1, <1>5 DEF svars, SendTypeOK
<1>6. CASE AskWhole
    <2>1. requests' \in Seq(Questions \cup {Teach}) /\ lost' = FALSE
        BY <1>2, <1>6 DEF AskWhole, Questions
    <2> QED BY <1>5, <1>6, <2>1 DEF AskWhole, CTypeOK
<1>7. CASE SendResponse
    <2>1. requests' \in Seq(Questions \cup {Teach}) /\ lost' = FALSE
        BY <1>2, <1>7 DEF SendResponse
    <2> QED BY <1>5, <1>7, <2>1 DEF SendResponse, CTypeOK, cvars
<1>8. CASE AskSpecific
    <2>1. requests' \in Seq(Questions \cup {Teach}) /\ lost' = FALSE
        BY <1>2, <1>8, AskSpecificStep
    <2>2. wanted' \in Lists /\ cpc' \in {"wait", "first"}
        BY <1>8, AskSpecificStep
    <2> QED BY <1>5, <1>8, <2>1, <2>2 DEF AskSpecific, CTypeOK
<1>9. ASSUME NEW place, Take(place)
      PROVE  /\ answers' \in Seq(Message) /\ shown' \subseteq Dest \cup {Old}
             /\ UNCHANGED <<svars, rib, option, wanted, asked, known, big>>
    BY <1>4, <1>9, ToldType DEF Take
<1>10. CASE TakeAnswer
    <2>1. requests' = requests /\ lost' = lost /\ cpc' \in {"menu", "ended"}
        BY <1>10 DEF TakeAnswer
    <2> QED BY <1>5, <1>9, <1>10, <2>1 DEF TakeAnswer, CTypeOK
<1>11. CASE TakeFirst
    <2>1. requests' \in Seq(Questions \cup {Teach}) /\ lost' = FALSE
        BY <1>2, <1>11, TakeFirstStep
    <2> QED BY <1>5, <1>9, <1>11, <2>1 DEF TakeFirst, CTypeOK
<1>12. CASE TakeSecond
    BY <1>5, <1>9, <1>12 DEF TakeSecond, CTypeOK
<1>13. CASE Crash \/ AskNothing
    BY <1>5, <1>13 DEF Crash, AskNothing, CTypeOK
<1>14. CASE LoseRequest
    BY <1>3, <1>5, <1>14 DEF LoseRequest, CTypeOK, cvars
<1>15. CASE LoseAnswer
    BY <1>4, <1>5, <1>15 DEF LoseAnswer, CTypeOK, cvars
<1>16. CASE TableChanges
    <2>1. rib' \in Tables
        BY <1>1, <1>16 DEF TableChanges, Tables
    <2> QED BY <1>5, <1>16, <2>1 DEF TableChanges, CTypeOK, cvars
<1>17. CASE StartAnswer
    <2>1. /\ asked' \in Short /\ known' \subseteq Dest /\ slots' \in Tables
          /\ requests' \in Seq(Questions \cup {Teach})
        BY <1>3, <1>17, StartStep DEF StartAnswer
    <2>2. asked' \in Questions
        BY <2>1 DEF Short, Questions
    <2>3. counter' \in Int /\ pc' = "start" /\ UNCHANGED <<i, j, buffer, messages>>
        BY <1>17, GarbageAssumption DEF StartAnswer
    <2>4. SendTypeOK'
        BY <1>1, <2>1, <2>3 DEF SendTypeOK
    <2>5. big' \in BOOLEAN
        BY <1>17 DEF StartAnswer
    <2> QED BY <1>17, <2>1, <2>2, <2>4, <2>5 DEF StartAnswer, CTypeOK, cvars
<1>18. CASE ReadResponse
    BY <1>3, <1>5, <1>18 DEF ReadResponse, CTypeOK, cvars
<1>19. CASE SendAnswer
    <2>1. SendTypeOK'
        BY <1>1, <1>19, SendTypeStep DEF SendAnswer
    <2> QED BY <1>19, <2>1 DEF SendAnswer, CTypeOK, cvars
<1>20. CASE EndAnswer
    <2>1. SendTypeOK'
        BY <1>20, SizeAssumption DEF EndAnswer, Listen, SendTypeOK, Tables
    <2>2. answers' \in Seq(Message)
        BY <1>1, <1>20, ConcatProperties DEF EndAnswer, SendTypeOK
    <2> QED BY <1>20, <2>1, <2>2 DEF EndAnswer, CTypeOK, cvars
<1> QED BY <1>6, <1>7, <1>8, <1>10, <1>11, <1>12, <1>13, <1>14, <1>15, <1>16, <1>17,
           <1>18, <1>19, <1>20 DEF CNext

\* The daemon's table holds a destination once.
LEMMA RibStep ==
    ASSUME CTypeOK, RibDistinct, CNext
    PROVE  RibDistinct'
<1>1. CASE TableChanges
    <2>1. rib \in Tables
        BY DEF CTypeOK
    <2>2. PICK k \in Slots :
              \/ rib' = [rib EXCEPT ![k] = NULL]
              \/ \E d \in Dest \ {rib[h] : h \in Slots} : rib' = [rib EXCEPT ![k] = d]
        BY <1>1 DEF TableChanges
    <2> QED BY <2>1, <2>2 DEF RibDistinct, Tables
<1>2. CASE rib' = rib
    BY <1>2 DEF RibDistinct
<1> QED BY <1>1, <1>2
        DEF CNext, AskWhole, SendResponse, AskSpecific, AskNothing, TakeAnswer, TakeFirst,
            TakeSecond, Take, Crash, LoseRequest, LoseAnswer, StartAnswer, ReadResponse, SendAnswer, EndAnswer

\* Questions stay short.
LEMMA QuestionStep ==
    ASSUME CTypeOK, RibDistinct, QuestionInv, CNext
    PROVE  QuestionInv'
<1>1. requests \in Seq(Short \cup {Teach}) /\ asked \in Short
    BY DEF QuestionInv
<1>2. ASSUME NEW q \in Short \cup {Teach}, Ask(q) PROVE requests' \in Seq(Short \cup {Teach})
    BY <1>1, <1>2, QueueFacts DEF Ask
<1>3. requests # <<>> => Tail(requests) \in Seq(Short \cup {Teach})
    BY <1>1, QueueFacts
<1>4. CASE AskWhole
    BY <1>2, <1>4 DEF AskWhole, QuestionInv, Short
<1>5. CASE SendResponse
    BY <1>2, <1>5 DEF SendResponse, QuestionInv, cvars
<1>6. CASE AskSpecific
    <2>1. requests' \in Seq(Short \cup {Teach}) /\ (cpc' = "first" => Len(wanted') > RIP_ENTRIES)
        BY <1>2, <1>6, AskSpecificStep
    <2> QED BY <1>1, <1>6, <2>1 DEF AskSpecific, QuestionInv
<1>7. CASE AskNothing \/ TakeAnswer \/ TakeSecond \/ Crash
    BY <1>7 DEF AskNothing, TakeAnswer, TakeSecond, Take, Crash, QuestionInv
<1>8. CASE TakeFirst
    <2>1. requests' \in Seq(Short \cup {Teach})
        BY <1>2, <1>8, TakeFirstStep
    <2> QED BY <1>1, <1>8, <2>1 DEF TakeFirst, Take, QuestionInv
<1>9. CASE LoseRequest \/ ReadResponse
    BY <1>3, <1>9 DEF LoseRequest, ReadResponse, QuestionInv, cvars
<1>10. CASE LoseAnswer \/ TableChanges \/ SendAnswer \/ EndAnswer
    BY <1>10 DEF LoseAnswer, TableChanges, SendAnswer, EndAnswer, QuestionInv, cvars
<1>11. CASE StartAnswer
    <2>1. asked' \in Short
        BY <1>11, StartStep
    <2> QED BY <1>3, <1>11, <2>1 DEF StartAnswer, QuestionInv, cvars
<1> QED BY <1>4, <1>5, <1>6, <1>7, <1>8, <1>9, <1>10, <1>11 DEF CNext

\* The message splitting keeps its invariant among the client's steps.
LEMMA ResponseStep ==
    ASSUME CTypeOK, SendInv, CNext
    PROVE  SendInv'
<1>1. CASE SendAnswer
    BY <1>1, SendStep DEF SendAnswer, CTypeOK
<1>2. CASE StartAnswer
    <2>1. pc' = "start" /\ i' = 0 /\ j' = 0 /\ messages' = <<>>
        BY <1>2 DEF StartAnswer, SendInv
    <2> QED BY <2>1 DEF SendInv, CopyInv, SmallTableSentWhole
<1>3. CASE EndAnswer
    <2>1. pc' = "listen" /\ i' = 0 /\ j' = 0 /\ messages' = <<>>
        BY <1>3 DEF EndAnswer, Listen
    <2> QED BY <2>1 DEF SendInv, CopyInv, SmallTableSentWhole
<1>4. CASE UNCHANGED svars
    BY <1>4, ElsewhereStep
<1> QED BY <1>1, <1>2, <1>3, <1>4
        DEF CNext, AskWhole, SendResponse, AskSpecific, AskNothing, TakeAnswer, TakeFirst,
            TakeSecond, Take, Crash, LoseRequest, LoseAnswer, TableChanges, ReadResponse

\* The table stays the answer while it is sent.
LEMMA AnswerStep ==
    ASSUME CTypeOK, RibDistinct, QuestionInv, AnswerInv, CNext
    PROVE  AnswerInv'
<1>1. CASE StartAnswer
    BY <1>1, StartStep
<1>2. CASE EndAnswer
    BY <1>2 DEF EndAnswer, Listen, AnswerInv
<1>3. CASE /\ slots' = slots /\ UNCHANGED <<asked, known, big>>
           /\ pc = "listen" => pc' = "listen"
    BY <1>3, SameSlots DEF AnswerInv, Expected
<1>4. CASE SendAnswer
    <2>1. slots' = slots /\ pc # "listen"
        BY <1>4, SendTypeStep DEF SendAnswer, CTypeOK, Next, SendSmall, StartCopying,
           SkipEmptySlot, SendLast, SendFull, CopyRoute, FallOff, AtRoute
    <2> QED BY <1>3, <1>4, <2>1 DEF SendAnswer
<1> QED BY <1>1, <1>2, <1>3, <1>4
        DEF CNext, AskWhole, SendResponse, AskSpecific, AskNothing, TakeAnswer, TakeFirst,
            TakeSecond, Take, Crash, LoseRequest, LoseAnswer, TableChanges, ReadResponse, svars

LEMMA ShortQueues ==
    ASSUME NEW t, NEW q
    PROVE  /\ Append(<<>>, q) = <<q>> /\ Append(<<t>>, q) = <<t, q>>
           /\ <<q>> # <<>> /\ Head(<<q>>) = q /\ Tail(<<q>>) = <<>>
           /\ <<t, q>> # <<>> /\ Head(<<t, q>>) = t /\ Tail(<<t, q>>) = <<q>>
<1>1. Append(<<>>, q) = <<q>>
    OBVIOUS
<1>2. Append(<<t>>, q) = <<t, q>>
    <2> DEFINE a == Append(<<t>>, q)
               b == <<t, q>>
    <2>1. <<t>> \in Seq({t, q}) /\ Len(<<t>>) = 1 /\ <<t>>[1] = t
        OBVIOUS
    <2>2. a \in Seq({t, q}) /\ Len(a) = 2 /\ a[1] = t /\ a[2] = q
        BY <2>1, AppendProperties
    <2>3. b \in Seq({t, q}) /\ Len(b) = 2 /\ b[1] = t /\ b[2] = q
        OBVIOUS
    <2> HIDE DEF a, b
    <2>4. \A k \in 1 .. Len(a) : a[k] = b[k]
        BY <2>2, <2>3
    <2>5. a = b
        BY <2>2, <2>3, <2>4, SeqEqual
    <2> QED BY <2>5 DEF a, b
<1>3. Tail(<<t, q>>) = <<q>>
    OBVIOUS
<1>4. Tail(<<q>>) = <<>>
    OBVIOUS
<1>5. <<q>> # <<>> /\ <<t, q>> # <<>> /\ Head(<<q>>) = q /\ Head(<<t, q>>) = t
    OBVIOUS
<1> QED BY <1>1, <1>2, <1>3, <1>4, <1>5

LEMMA QuestionIsAsked == Question # Teach
<1>1. \E l : Question = Whole \/ Question = Specific(l)
    BY DEF Question
<1> QED BY <1>1, Kinds

\* What the client waits for stays while the client does.
LEMMA SameQuestion ==
    /\ UNCHANGED cvars => Question' = Question /\ Waiting' = Waiting /\ cpc' = cpc
    /\ UNCHANGED <<asked, known>> => Expected' = Expected
BY DEF cvars, Question, Waiting, Expected

Exchange == OneQuestion /\ OneAnswer /\ NobodyWaitsForNothing

\* A client that waits for nothing asks.
LEMMA AskStep ==
    ASSUME Exchange, cpc = "menu", NEW q, Ask(q),
           pc' = pc, answers' = answers,
           \/ cpc' = "menu" /\ q = Teach /\ requests = <<>>
           \/ cpc' \in {"wait", "first"} /\ Question' = q
    PROVE  Exchange'
<1>1. ~Waiting /\ requests \in {<<>>, <<Teach>>} /\ pc = "listen" /\ answers = <<>>
    BY DEF Exchange, OneQuestion, Waiting
<1>2. requests' = Append(requests, q)
    BY DEF Ask
<1>3. requests' \in {<<q>>, <<Teach, q>>} /\ requests' # <<>>
      /\ (requests = <<>> => requests' = <<q>>)
    <2>1. Append(<<>>, q) = <<q>> /\ Append(<<Teach>>, q) = <<Teach, q>>
        BY ShortQueues
    <2>2. <<q>> # <<>> /\ <<Teach, q>> # <<>> /\ <<Teach>> # <<>>
        BY ShortQueues
    <2> QED BY <1>1, <1>2, <2>1, <2>2
<1> QED BY <1>1, <1>3 DEF Exchange, OneQuestion, OneAnswer, NobodyWaitsForNothing, Waiting

\* The client takes the only answer there is, and nothing else is on its way.
LEMMA TakeStep ==
    ASSUME CTypeOK, Exchange, NEW place \in {"wait", "first", "second"}, Take(place)
    PROVE  /\ Waiting /\ requests = <<>> /\ pc = "listen" /\ asked = Question
           /\ Len(answers) = 1 /\ answers' = <<>> /\ pc' = pc
           /\ ~big => shown' = Expected
<1>1. /\ cpc = place /\ Waiting /\ answers # <<>> /\ Head(answers).size <= RIP_ENTRIES
      /\ answers' = Tail(answers) /\ shown' = Told(Head(answers)) /\ pc' = pc
    BY DEF Take, Waiting, svars
<1>2. requests = <<>> /\ pc = "listen" /\ asked = Question
    BY <1>1 DEF Exchange, OneQuestion
<1>3. answers \in Seq(Message) /\ RIP_ENTRIES \in Nat
    BY SizeAssumption DEF CTypeOK
<1>4. /\ Head(answers) = answers[1] /\ 1 \in DOMAIN answers
      /\ Len(answers) \in Nat /\ Len(answers) >= 1 /\ answers[1].size \in Int
    <2>1. Len(answers) \in Nat /\ Len(answers) >= 1 /\ DOMAIN answers = 1 .. Len(answers)
        BY <1>1, <1>3, LenProperties, EmptySeq
    <2>2. 1 \in DOMAIN answers
        BY <2>1
    <2>3. Head(answers) = answers[1] /\ answers[1] \in Message
        BY <1>1, <1>3, <2>1, <2>2, HeadTailProperties, ElementOfSeq
    <2>4. answers[1].size \in Int
        BY <2>3 DEF Message
    <2> QED BY <2>1, <2>2, <2>3, <2>4
<1>5. Len(answers) = 1
    <2>1. Len(answers) > 1 => answers[1].size > RIP_ENTRIES
        BY <1>1, <1>4 DEF Exchange, OneAnswer
    <2>2. answers[1].size <= RIP_ENTRIES
        BY <1>1, <1>4
    <2>3. ~(answers[1].size > RIP_ENTRIES)
        BY <1>3, <1>4, <2>2
    <2>4. ~(Len(answers) > 1)
        BY <2>1, <2>3
    <2>5. Len(answers) \in Nat /\ Len(answers) >= 1
        BY <1>4
    <2>6. \A n \in Nat : n >= 1 /\ ~(n > 1) => n = 1
        OBVIOUS
    <2> QED BY <2>4, <2>5, <2>6
<1>6. answers' = <<>>
    BY <1>1, <1>3, <1>5
<1> QED BY <1>1, <1>2, <1>4, <1>5, <1>6 DEF Exchange, OneAnswer

\* What the daemon sends is the answer to the question it read.
LEMMA EndStep ==
    ASSUME CTypeOK, SendInv, AnswerInv, Exchange, EndAnswer
    PROVE  Exchange'
<1>1. pc = "returned" /\ pc' = "listen" /\ answers' = answers \o messages
      /\ UNCHANGED <<rib, requests, cvars, lost, asked, known, big>>
    BY DEF EndAnswer, Listen
<1>2. cpc # "crashed" => Waiting /\ requests = <<>> /\ answers = <<>> /\ asked = Question
    BY <1>1 DEF Exchange, OneQuestion
<1>3. messages \in Seq(Message)
    BY DEF CTypeOK, SendTypeOK
<1>4. cpc # "crashed" => answers' = messages
    BY <1>1, <1>2, <1>3
<1>5. OneQuestion'
    BY <1>1, <1>2, SameQuestion DEF OneQuestion
<1>6. ~big => Len(messages) = 1 /\ Told(messages[1]) = Expected
    <2>1. num_entries \in Nat /\ RIP_ENTRIES \in Nat
        BY BeforeFacts, SizeAssumption
    <2>2. /\ big <=> num_entries >= RIP_ENTRIES
          /\ {slots[k] : k \in Occupied} = Expected
        BY <1>1 DEF AnswerInv
    <2>3. ~big => num_entries < RIP_ENTRIES
        BY <2>1, <2>2
    <2> QED BY <1>1, <2>2, <2>3 DEF SendInv, SmallTableSentWhole
<1>7. Len(messages) > 1 => \A k \in DOMAIN messages : messages[k].size > RIP_ENTRIES
    BY DEF SendInv
<1>8. OneAnswer'
    <2>1. ASSUME cpc # "crashed", ~big PROVE Told(answers'[1]) = Expected'
        BY <1>1, <1>4, <1>6, <2>1, SameQuestion
    <2>2. Told(answers[1])' = Told(answers'[1])
        BY DEF Told
    <2> QED BY <1>1, <1>4, <1>6, <1>7, <2>1, <2>2, SameQuestion DEF OneAnswer
<1>9. NobodyWaitsForNothing'
    <2>1. Waiting => cpc # "crashed"
        BY DEF Waiting
    <2>2. ~big => messages # <<>>
        BY <1>6
    <2> QED BY <1>1, <1>4, <2>1, <2>2, SameQuestion DEF NobodyWaitsForNothing
<1> QED BY <1>5, <1>8, <1>9 DEF Exchange

\* Reading takes the question from the queue, or the response before it.
LEMMA ReadStep ==
    ASSUME Exchange, requests # <<>>
    PROVE  cpc # "crashed" =>
               /\ answers = <<>> /\ pc = "listen"
               /\ Head(requests) = Teach =>
                      \/ ~Waiting /\ Tail(requests) = <<>>
                      \/ Waiting /\ Tail(requests) = <<Question>>
               /\ Head(requests) # Teach =>
                      Waiting /\ Head(requests) = Question /\ Tail(requests) = <<>>
<1> SUFFICES ASSUME cpc # "crashed"
             PROVE  /\ answers = <<>> /\ pc = "listen"
                    /\ Head(requests) = Teach =>
                           \/ ~Waiting /\ Tail(requests) = <<>>
                           \/ Waiting /\ Tail(requests) = <<Question>>
                    /\ Head(requests) # Teach =>
                           Waiting /\ Head(requests) = Question /\ Tail(requests) = <<>>
    OBVIOUS
<1>1. /\ answers = <<>> /\ pc = "listen"
      /\ \/ ~Waiting /\ requests = <<Teach>>
         \/ Waiting /\ requests \in {<<Question>>, <<Teach, Question>>}
    BY DEF Exchange, OneQuestion
<1>2. CASE requests = <<Teach>>
    <2>1. Head(requests) = Teach /\ Tail(requests) = <<>>
        BY <1>2, ShortQueues
    <2>2. ~Waiting
        BY <1>1, <1>2, QuestionIsAsked
    <2> QED BY <1>1, <2>1, <2>2
<1>3. CASE Waiting /\ requests = <<Question>>
    <2>1. Head(requests) = Question /\ Tail(requests) = <<>>
        BY <1>3, ShortQueues
    <2> QED BY <1>1, <1>3, <2>1, QuestionIsAsked
<1>4. CASE Waiting /\ requests = <<Teach, Question>>
    <2>1. Head(requests) = Teach /\ Tail(requests) = <<Question>>
        BY <1>4, ShortQueues
    <2> QED BY <1>1, <1>4, <2>1
<1> QED BY <1>1, <1>2, <1>3, <1>4

\* Sending the messages of an answer neither begins nor ends it.
LEMMA SendingStays == Next => pc # "listen" /\ pc' # "listen"
BY DEF Next, SendSmall, StartCopying, SkipEmptySlot, SendLast, SendFull, CopyRoute, FallOff,
       AtRoute

LEMMA ExchangeStep ==
    ASSUME CTypeOK, QuestionInv, SendInv, AnswerInv, Exchange, CNext
    PROVE  Exchange'
<1>1. CASE AskWhole
    <2>1. Question' = Whole /\ cpc' = "wait" /\ cpc = "menu"
        BY <1>1 DEF AskWhole, Question
    <2> QED BY <1>1, <2>1, AskStep DEF AskWhole, svars
<1>2. CASE SendResponse
    BY <1>2, AskStep DEF SendResponse, svars, cvars
<1>3. CASE AskSpecific
    <2>1. PICK q : Ask(q) /\ Question' = q
        BY <1>3, AskSpecificStep
    <2>2. cpc = "menu" /\ cpc' \in {"wait", "first"} /\ pc' = pc /\ answers' = answers
        BY <1>3, AskSpecificStep DEF AskSpecific, svars
    <2> QED BY <2>1, <2>2, AskStep
<1>4. CASE TakeAnswer \/ TakeSecond
    <2>1. /\ requests = <<>> /\ pc = "listen" /\ answers' = <<>> /\ pc' = pc
        BY <1>4, TakeStep DEF TakeAnswer, TakeSecond
    <2>2. requests' = requests /\ cpc' \in {"menu", "ended"}
        BY <1>4 DEF TakeAnswer, TakeSecond
    <2> QED BY <2>1, <2>2 DEF Exchange, OneQuestion, OneAnswer, NobodyWaitsForNothing, Waiting
<1>5. CASE TakeFirst
    <2>1. /\ requests = <<>> /\ pc = "listen" /\ answers' = <<>> /\ pc' = pc
        BY <1>5, TakeStep DEF TakeFirst
    <2>2. PICK q : Ask(q) /\ Question' = q
        BY <1>5, TakeFirstStep
    <2>3. requests' = <<q>> /\ requests' # <<>>
        BY <2>1, <2>2, ShortQueues DEF Ask
    <2>4. cpc' = "second"
        BY <1>5 DEF TakeFirst
    <2> QED BY <2>1, <2>2, <2>3, <2>4
            DEF Exchange, OneQuestion, OneAnswer, NobodyWaitsForNothing, Waiting
<1>6. CASE Crash \/ AskNothing
    BY <1>6 DEF Crash, AskNothing, svars, Exchange, OneQuestion, OneAnswer, NobodyWaitsForNothing, Waiting
<1>7. CASE cpc = "crashed" /\ UNCHANGED cvars
    BY <1>7 DEF cvars, Exchange, OneQuestion, OneAnswer, NobodyWaitsForNothing, Waiting
<1>8. CASE cpc # "crashed" /\ LoseRequest
    <2>1. /\ requests # <<>> /\ requests' = Tail(requests) /\ lost' = TRUE /\ pc' = pc
          /\ answers' = answers /\ UNCHANGED cvars /\ asked' = asked
        BY <1>8 DEF LoseRequest, svars
    <2>2. Question' = Question /\ Waiting' = Waiting
        BY <2>1, SameQuestion
    <2> QED BY <1>8, <2>1, <2>2, ReadStep
            DEF Exchange, OneQuestion, OneAnswer, NobodyWaitsForNothing
<1>9. CASE cpc # "crashed" /\ LoseAnswer
    <2>1. /\ answers # <<>> /\ answers' = Tail(answers) /\ lost' = TRUE /\ pc' = pc
          /\ requests' = requests /\ UNCHANGED <<cvars, asked, known, big>>
        BY <1>9 DEF LoseAnswer, svars
    <2>2. Question' = Question /\ Waiting' = Waiting /\ Expected' = Expected /\ cpc' = cpc
        BY <2>1, SameQuestion
    <2>3. Waiting /\ requests = <<>> /\ pc = "listen" /\ asked = Question
        BY <1>9, <2>1 DEF Exchange, OneQuestion
    <2>4. answers \in Seq(Message)
        BY DEF CTypeOK
    <2>5. /\ answers' \in Seq(Message) /\ Len(answers') = Len(answers) - 1
          /\ Len(answers) \in Nat
          /\ \A k \in 1 .. Len(answers') : answers'[k] = answers[k + 1]
        BY <2>1, <2>4, HeadTailProperties, LenProperties
    <2>6. ASSUME ~big PROVE answers' = <<>>
        <3>1. Len(answers) = 1
            BY <1>9, <2>1, <2>6 DEF Exchange, OneAnswer
        <3>2. Len(answers') = 1 - 1
            BY <2>5, <3>1
        <3>3. Len(answers') \notin Nat \ {0}
            BY <3>2
        <3> QED BY <2>5, <3>3, EmptySeq
    <2>7. ASSUME Len(answers') > 1, NEW k \in DOMAIN answers'
          PROVE  answers'[k].size > RIP_ENTRIES
        <3>1. Len(answers) > 1 /\ DOMAIN answers = 1 .. Len(answers)
              /\ DOMAIN answers' = 1 .. Len(answers')
            BY <2>4, <2>5, <2>7, LenProperties
        <3>2. \A n \in DOMAIN answers : answers[n].size > RIP_ENTRIES
            BY <1>9, <2>1, <3>1 DEF Exchange, OneAnswer
        <3>3. k + 1 \in DOMAIN answers /\ answers'[k] = answers[k + 1]
            BY <2>5, <2>7, <3>1
        <3> QED BY <3>2, <3>3
    <2>8. OneAnswer'
        BY <2>1, <2>6, <2>7 DEF OneAnswer
    <2> QED BY <2>1, <2>2, <2>3, <2>8 DEF Exchange, OneQuestion, NobodyWaitsForNothing
<1>10. CASE cpc # "crashed" /\ TableChanges
    <2>1. UNCHANGED <<pc, requests, answers, cvars, lost, asked, known, big>>
        BY <1>10 DEF TableChanges, svars
    <2>2. /\ Question' = Question /\ Waiting' = Waiting /\ Expected' = Expected /\ cpc' = cpc
          /\ Told(answers[1])' = Told(answers[1])
        BY <2>1, SameQuestion DEF Told
    <2> QED BY <2>1, <2>2 DEF Exchange, OneQuestion, OneAnswer, NobodyWaitsForNothing
<1>11. CASE cpc # "crashed" /\ StartAnswer
    <2>1. /\ requests # <<>> /\ Head(requests) # Teach /\ requests' = Tail(requests)
          /\ asked' = Head(requests) /\ pc' = "start" /\ answers' = answers /\ UNCHANGED cvars
        BY <1>11 DEF StartAnswer
    <2>2. Question' = Question /\ Waiting' = Waiting
        BY <2>1, SameQuestion
    <2> QED BY <1>11, <2>1, <2>2, ReadStep
            DEF Exchange, OneQuestion, OneAnswer, NobodyWaitsForNothing
<1>12. CASE cpc # "crashed" /\ ReadResponse
    <2>1. /\ requests # <<>> /\ Head(requests) = Teach /\ requests' = Tail(requests)
          /\ UNCHANGED <<pc, answers, cvars>>
        BY <1>12 DEF ReadResponse, svars
    <2>2. Question' = Question /\ Waiting' = Waiting
        BY <2>1, SameQuestion
    <2>3. /\ answers = <<>> /\ pc = "listen"
          /\ \/ ~Waiting /\ requests' = <<>>
             \/ Waiting /\ requests' = <<Question>>
        BY <1>12, <2>1, ReadStep
    <2>4. <<Question>> # <<>>
        BY ShortQueues
    <2> QED BY <2>1, <2>2, <2>3, <2>4
            DEF Exchange, OneQuestion, OneAnswer, NobodyWaitsForNothing
<1>13. CASE cpc # "crashed" /\ SendAnswer
    <2>1. UNCHANGED <<requests, answers, cvars, lost, asked, known, big>>
          /\ pc # "listen" /\ pc' # "listen"
        BY <1>13, SendingStays DEF SendAnswer
    <2>2. Question' = Question /\ Waiting' = Waiting
        BY <2>1, SameQuestion
    <2> QED BY <1>13, <2>1, <2>2 DEF Exchange, OneQuestion, OneAnswer, NobodyWaitsForNothing
<1>14. CASE EndAnswer
    BY <1>14, EndStep
<1> QED BY <1>1, <1>2, <1>3, <1>4, <1>5, <1>6, <1>7, <1>8, <1>9, <1>10, <1>11, <1>12, <1>13,
           <1>14
        DEF CNext, LoseRequest, LoseAnswer, TableChanges, StartAnswer, ReadResponse, SendAnswer

\* Steps that change nothing keep everything.
LEMMA StutterStep ==
    ASSUME ClientInv, UNCHANGED cnvars
    PROVE  ClientInv'
<1>1. UNCHANGED <<slots, pc, i, j, counter, buffer, messages>>
    BY DEF cnvars, svars
<1>2. UNCHANGED <<rib, requests, answers, option, cpc, wanted, shown, lost, asked, known, big>>
    BY DEF cnvars, cvars
<1>3. CTypeOK'
    BY <1>1, <1>2 DEF ClientInv, CTypeOK, SendTypeOK
<1>4. /\ Occupied' = Occupied /\ num_entries' = num_entries /\ Distinct' = Distinct
      /\ Told(messages[1])' = Told(messages[1]) /\ Told(answers[1])' = Told(answers[1])
    BY <1>1, <1>2, SameSlots DEF Told
<1>5. Question' = Question /\ Waiting' = Waiting /\ Expected' = Expected /\ cpc' = cpc
    BY <1>2, SameQuestion DEF cvars
<1>6. SendInv'
    BY ElsewhereStep DEF ClientInv, cnvars, svars
<1>7. AnswerInv' /\ RibDistinct' /\ QuestionInv'
    BY <1>1, <1>2, <1>4, <1>5 DEF ClientInv, AnswerInv, RibDistinct, QuestionInv
<1>8. OneQuestion' /\ OneAnswer' /\ NobodyWaitsForNothing'
    BY <1>1, <1>2, <1>4, <1>5 DEF ClientInv, OneQuestion, OneAnswer, NobodyWaitsForNothing
<1> QED BY <1>3, <1>6, <1>7, <1>8 DEF ClientInv

\* The invariant the theorems about the client and the daemon rest on.
LEMMA ClientInvariant == CSpec => []ClientInv
<1>1. ClientInv /\ [CNext]_cnvars => ClientInv'
    <2>1. ClientInv /\ CNext => ClientInv'
        BY TypeStep, RibStep, QuestionStep, ResponseStep, AnswerStep, ExchangeStep
           DEF ClientInv, Exchange
    <2> QED BY <2>1, StutterStep
<1> QED BY InitStep, <1>1, PTL DEF CSpec

---------------------------------------------------------------------------
\* Every variable of the client, the network and the daemon keeps its type: the
\* copy loop stays inside the table and the message, and what is on its way is a
\* question, a response or a message.
THEOREM ClientTypeCorrect == CSpec => []CTypeOK
BY ClientInvariant, PTL DEF ClientInv

\* Between any steps of the client and the network, a table of fewer routes than
\* a message holds goes out in one message, with every route in it.
THEOREM SmallAnswersAreWhole == CSpec => []SmallTableSentWhole
<1>1. ClientInv => SmallTableSentWhole
    BY DEF ClientInv, SendInv
<1> QED BY <1>1, ClientInvariant, PTL

\* What a message sent because the buffer is full tells of the buffer are
\* RIP_ENTRIES different routes of the table, whatever the buffer held before;
\* beyond them it tells what lies behind the buffer.
THEOREM FullBuffersAreFresh == CSpec => FullBufferIsFresh
<1> DEFINE Fresh ==
        j >= RIP_ENTRIES /\ Len(messages') > Len(messages) =>
            LET told == Told(messages'[Len(messages')]) IN
            /\ told \ {Past} \subseteq {slots[k] : k \in Occupied}
            /\ Cardinality(told \ {Past}) = RIP_ENTRIES
            /\ Past \in told
<1>1. ASSUME ClientInv, CNext, j >= RIP_ENTRIES, Len(messages') > Len(messages) PROVE Fresh
    <2>1. messages \in Seq(Message) /\ Len(messages) \in Nat
        BY <1>1 DEF ClientInv, CTypeOK, SendTypeOK
    <2>2. messages' # messages
        BY <1>1, <2>1
    <2>3. messages' # <<>>
        BY <1>1, <2>1, EmptySeq
    <2>4. Next /\ pc # "listen"
        BY <1>1, <2>2, <2>3, SendingStays
           DEF CNext, AskWhole, SendResponse, AskSpecific, AskNothing, TakeAnswer, TakeFirst,
               TakeSecond, Take, Crash, LoseRequest, LoseAnswer, TableChanges, StartAnswer, ReadResponse,
               SendAnswer, EndAnswer, Listen, svars
    <2> QED BY <1>1, <2>4, FullStep DEF ClientInv, AnswerInv, CTypeOK
<1>2. ASSUME UNCHANGED cnvars, ClientInv PROVE ~(Len(messages') > Len(messages))
    <2>1. Len(messages) \in Nat /\ messages' = messages
        BY <1>2 DEF ClientInv, CTypeOK, SendTypeOK, cnvars, svars
    <2> QED BY <2>1
<1>3. ClientInv /\ [CNext]_cnvars => [Fresh]_svars
    BY <1>1, <1>2
<1> QED BY <1>3, ClientInvariant, PTL DEF CSpec, FullBufferIsFresh

\* Below the limit of a message, the answer taken is the only datagram under way
\* and says of the question asked last what the daemon knew when it answered.
THEOREM AnswersFitQuestions == CSpec => AnswerFitsQuestion
<1> DEFINE Fits ==
        Len(answers') < Len(answers) /\ cpc' # cpc /\ ~big =>
            /\ asked = Question
            /\ requests = <<>> /\ Len(answers) = 1
            /\ shown' = IF asked.kind = "whole" THEN known
                        ELSE known \cap {asked.dests[k] : k \in DOMAIN asked.dests}
<1>1. ASSUME ClientInv, CNext, Len(answers') < Len(answers), cpc' # cpc, ~big PROVE Fits
    <2>1. answers \in Seq(Message) /\ Len(answers) \in Nat
        BY <1>1 DEF ClientInv, CTypeOK
    <2>2. answers' # answers
        BY <1>1, <2>1
    <2>3. TakeAnswer \/ TakeFirst \/ TakeSecond
        BY <1>1, <2>2
           DEF CNext, AskWhole, SendResponse, AskSpecific, AskNothing, Crash, LoseRequest,
               LoseAnswer, TableChanges, StartAnswer, ReadResponse, SendAnswer, EndAnswer, cvars
    <2>4. \E place \in {"wait", "first", "second"} : Take(place)
        BY <2>3 DEF TakeAnswer, TakeFirst, TakeSecond
    <2> QED BY <1>1, <2>4, TakeStep DEF ClientInv, Exchange, Expected
<1>2. ASSUME UNCHANGED cnvars PROVE cpc' = cpc
    BY <1>2 DEF cnvars, cvars
<1>3. ClientInv /\ [CNext]_cnvars => [Fits]_cnvars
    BY <1>1, <1>2
<1> QED BY <1>3, ClientInvariant, PTL DEF CSpec, AnswerFitsQuestion

\* A client waits for ever only when a datagram was lost or the answer had as
\* many routes as a message holds.
THEOREM NobodyWaits == CSpec => []NobodyWaitsForNothing
BY ClientInvariant, PTL DEF ClientInv

---------------------------------------------------------------------------
\* send_rip_response alone, from any table and any counter: a small table is
\* sent whole.
THEOREM SmallTablesSentWhole == Spec => []SmallTableSentWhole
<1>1. Init => SendTypeOK /\ SendInv
    <2> SUFFICES ASSUME Init PROVE SendTypeOK /\ SendInv
        OBVIOUS
    <2>1. SendTypeOK
        BY SizeAssumption, GarbageAssumption DEF Init, SendTypeOK
    <2>2. SendInv
        BY DEF Init, SendInv, CopyInv, SmallTableSentWhole
    <2> QED BY <2>1, <2>2
<1>2. SendTypeOK /\ SendInv /\ [Next]_svars => (SendTypeOK /\ SendInv)'
    <2>1. ASSUME SendTypeOK, SendInv, UNCHANGED svars PROVE SendTypeOK' /\ SendInv'
        BY <2>1, ElsewhereStep DEF SendTypeOK, svars
    <2> QED BY <2>1, SendTypeStep, SendStep
<1>3. SendInv => SmallTableSentWhole
    BY DEF SendInv
<1> QED BY <1>1, <1>2, <1>3, PTL DEF Spec
=============================================================================
