------------------------------ MODULE RipSend ------------------------------
(***************************************************************************)
(* send_rip_response of src/rip_server/ripv2_server_files.c: how the       *)
(* routes of the table are laid out in the shared message buffer and when  *)
(* that buffer is sent.  Only the daemon's thread touches table and buffer *)
(* meanwhile, so the copy loop is the only thing that moves.  A route is   *)
(* its destination; Old stands for what an earlier message left behind     *)
(* and Past for what memory holds behind the buffer.                       *)
(***************************************************************************)
EXTENDS Integers, Sequences, FiniteSets

CONSTANTS
    Dest,                   \* destination addresses
    NULL,                   \* the empty slot
    Old,                    \* an entry of an earlier message
    Past,                   \* an entry read behind the buffer's last
    RIP_ROUTE_TABLE_SIZE,   \* 30 in the code
    RIP_ENTRIES,            \* entries of a rip_header, 25 in the code
    Garbage                 \* values the uninitialised counter may start from

ASSUME SizeAssumption == RIP_ROUTE_TABLE_SIZE \in Nat \ {0} /\ RIP_ENTRIES \in Nat \ {0}
ASSUME NullAssumption == NULL \notin Dest /\ Old \notin Dest
ASSUME PastAssumption == Past \notin Dest \cup {Old}
ASSUME GarbageAssumption == Garbage \subseteq Int

Slots == 0 .. RIP_ROUTE_TABLE_SIZE - 1
Places == 0 .. RIP_ENTRIES - 1

VARIABLES
    slots,      \* destination in each slot of the table
    pc,
    i, j,       \* slot looked at, place to write
    counter,    \* routes copied, from whatever the stack held
    buffer,     \* pointer->entry
    messages    \* sent: the number of entries and the buffer at that time

svars == <<slots, pc, i, j, counter, buffer, messages>>

Tables == [Slots -> Dest \cup {NULL}]
Message == [size: 0 .. RIP_ROUTE_TABLE_SIZE, entry: [Places -> Dest \cup {Old}]]

SendTypeOK ==
    /\ slots \in Tables
    /\ pc \in {"listen", "start", "copy", "returned"}    \* listen is RipClient's
    /\ i \in 0 .. RIP_ROUTE_TABLE_SIZE /\ j \in 0 .. RIP_ENTRIES
    /\ counter \in Int
    /\ buffer \in [Places -> Dest \cup {Old}]
    /\ messages \in Seq(Message)

Occupied == {k \in Slots : slots[k] # NULL}

\* table->num_entries, which RipServer shows to count the occupied slots.
num_entries == Cardinality(Occupied)

Before(k) == Cardinality({h \in Occupied : h < k})

\* The table holds a destination once.
Init ==
    /\ slots \in Tables
    /\ \A h, k \in Occupied : slots[h] = slots[k] => h = k
    /\ pc = "start"
    /\ i = 0 /\ j = 0
    /\ counter \in Garbage
    /\ buffer = [p \in Places |-> Old]
    /\ messages = <<>>

\* Mutant: the entry goes to the place of its slot.
MutLaidOut(b) == [p \in Places |->
    IF p \in Occupied THEN slots[p] ELSE b[p]]

\* create_rip_message: the routes, in slot order, from entry 0 on.
LaidOut(b) == [p \in Places |->
    IF \E k \in Occupied : Before(k) = p
    THEN slots[CHOOSE k \in Occupied : Before(k) = p]
    ELSE b[p]]

Transmit(b) == messages' = Append(messages, [size |-> num_entries, entry |-> b])

SendSmall ==
    /\ pc = "start"
    /\ num_entries < RIP_ENTRIES
    /\ buffer' = LaidOut(buffer)
    /\ Transmit(buffer')
    /\ pc' = "returned"
    /\ UNCHANGED <<slots, i, j, counter>>

StartCopying ==
    /\ pc = "start"
    /\ num_entries >= RIP_ENTRIES
    /\ pc' = "copy"
    /\ UNCHANGED <<slots, i, j, counter, buffer, messages>>

AtRoute == pc = "copy" /\ i \in Occupied

\* Mutant: the loop has no last slot.
MutSkipEmptySlot ==
    /\ pc = "copy"
    /\ i \notin Occupied
    /\ i' = i + 1
    /\ UNCHANGED <<slots, pc, j, counter, buffer, messages>>

SkipEmptySlot ==
    /\ pc = "copy"
    /\ i \in Slots \ Occupied
    /\ i' = i + 1
    /\ UNCHANGED <<slots, pc, j, counter, buffer, messages>>

\* The counter says everything has been copied.
SendLast ==
    /\ AtRoute
    /\ counter >= num_entries
    /\ Transmit(buffer)
    /\ pc' = "returned"
    /\ UNCHANGED <<slots, i, j, counter, buffer>>

\* The buffer is full: the route in slot i is not copied.
SendFull ==
    /\ AtRoute
    /\ counter < num_entries
    /\ j >= RIP_ENTRIES
    /\ Transmit(buffer)
    /\ j' = 0
    /\ i' = i + 1
    /\ UNCHANGED <<slots, pc, counter, buffer>>

\* Mutant: the place is advanced twice.
MutCopyRoute ==
    /\ AtRoute
    /\ counter < num_entries
    /\ j < RIP_ENTRIES
    /\ buffer' = [buffer EXCEPT ![j] = slots[i]]
    /\ j' = j + 2
    /\ counter' = counter + 1
    /\ i' = i + 1
    /\ UNCHANGED <<slots, pc, messages>>

CopyRoute ==
    /\ AtRoute
    /\ counter < num_entries
    /\ j < RIP_ENTRIES
    /\ buffer' = [buffer EXCEPT ![j] = slots[i]]
    /\ j' = j + 1
    /\ counter' = counter + 1
    /\ i' = i + 1
    /\ UNCHANGED <<slots, pc, messages>>

\* The loop ends without sending what it copied since the last message.
FallOff ==
    /\ pc = "copy"
    /\ i = RIP_ROUTE_TABLE_SIZE
    /\ pc' = "returned"
    /\ UNCHANGED <<slots, i, j, counter, buffer, messages>>

Next == SendSmall \/ StartCopying \/ SkipEmptySlot \/ SendLast \/ SendFull
        \/ CopyRoute \/ FallOff

Spec == Init /\ [][Next]_svars

---------------------------------------------------------------------------
\* What the receiver reads: rip_send copies as many entries as the size says,
\* from behind the buffer too when it says more than the buffer has.
Told(m) ==
    {m.entry[p] : p \in {q \in Places : q < m.size}}
        \cup (IF m.size > RIP_ENTRIES THEN {Past} ELSE {})

\* A table of fewer than 25 routes goes out in one message, every route once.
SmallTableSentWhole ==
    pc = "returned" /\ num_entries < RIP_ENTRIES =>
        /\ Len(messages) = 1
        /\ messages[1].size = num_entries
        /\ Told(messages[1]) = {slots[k] : k \in Occupied}

\* When the copy loop finds the buffer full it sends, of the buffer, as many
\* routes of the table as the buffer has places, none twice and none left from
\* an older message.  But the message is always longer than that: it goes out
\* with the size of the table, and what its last entries tell is whatever lies
\* behind the buffer.
FullBufferIsFresh ==
    [][j >= RIP_ENTRIES /\ Len(messages') > Len(messages) =>
         LET told == Told(messages'[Len(messages')]) IN
         /\ told \ {Past} \subseteq {slots[k] : k \in Occupied}
         /\ Cardinality(told \ {Past}) = RIP_ENTRIES
         /\ Past \in told]_svars

\* "SENDS MORE THAN 25": whatever the size of the table, each of its routes is
\* in one of the messages sent.
EveryRouteIsSent ==
    pc = "returned" =>
        \A k \in Occupied : \E n \in DOMAIN messages : slots[k] \in Told(messages[n])
=============================================================================
