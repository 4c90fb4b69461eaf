----------------------------- MODULE RipClient -----------------------------
(***************************************************************************)
(* The client of src/rip_client and the daemon's answers to it.  The       *)
(* client sends one question at a time over UDP and waits for its answer   *)
(* with an infinite timer; the daemon answers through send_rip_response    *)
(* (module RipSend) from a table that changes between two answers.         *)
(* Datagrams may be lost either way.                                       *)
(***************************************************************************)
EXTENDS RipSend

CONSTANT MaxWanted      \* entries the user may ask for, entry_array's 30 at most

ASSUME WantedAssumption == MaxWanted \in Nat
ASSUME EntriesAssumption == RIP_ENTRIES <= RIP_ROUTE_TABLE_SIZE

VARIABLES
    rib,        \* the daemon's table
    requests,   \* datagrams on their way to the daemon
    answers,    \* datagrams on their way to the client
    option,     \* how the client was started: menu, or -X for a list
    cpc,        \* the client's place in its loop
    wanted,     \* addresses the user has typed in
    shown,      \* the table the client prints
    lost,       \* a datagram of the current question has been lost
    asked,      \* the question the daemon answered last
    known,      \* the destinations it knew then
    big         \* that answer had as many routes as a message holds

cvars == <<option, cpc, wanted, shown>>
cnvars == <<svars, rib, requests, answers, cvars, lost, asked, known, big>>

Whole == [kind |-> "whole"]
Specific(dests) == [kind |-> "specific", dests |-> dests]
Teach == [kind |-> "teach"]

Lists == UNION {[1 .. n -> Dest] : n \in 1 .. MaxWanted}
Questions == {Whole} \cup {Specific(l) : l \in Lists}

CTypeOK ==
    /\ SendTypeOK
    /\ rib \in Tables
    /\ requests \in Seq(Questions \cup {Teach})
    /\ answers \in Seq(Message)
    /\ option \in {"menu", "-X"}
    /\ cpc \in {"menu", "wait", "first", "second", "ended", "crashed"}
    /\ wanted \in Lists \cup {<<>>}
    /\ shown \subseteq Dest \cup {Old}
    /\ lost \in BOOLEAN
    /\ asked \in Questions
    /\ known \subseteq Dest
    /\ big \in BOOLEAN

\* The shared buffer holds what it held and the copy loop's locals are gone.
Idle ==
    /\ pc = "listen"
    /\ slots = [k \in Slots |-> NULL]
    /\ i = 0 /\ j = 0 /\ counter = 0
    /\ buffer = [p \in Places |-> Old] /\ messages = <<>>

CInit ==
    /\ Idle
    /\ rib = [k \in Slots |-> NULL]
    /\ requests = <<>> /\ answers = <<>>
    /\ option \in {"menu", "-X"}
    /\ cpc = "menu" /\ wanted = <<>> /\ shown = {}
    /\ lost = FALSE
    /\ asked = Whole /\ known = {} /\ big = FALSE

---------------------------------------------------------------------------
(* The client. *)

Ask(q) == requests' = Append(requests, q) /\ lost' = FALSE

\* Mutant: the wait has a limit, after which the user is asked again.
MutAskWhole ==
    /\ option = "menu" /\ cpc \in {"menu", "wait"}
    /\ Len(requests) < 2
    /\ Ask(Whole)
    /\ cpc' = "wait"
    /\ UNCHANGED <<svars, rib, answers, option, wanted, shown, asked, known, big>>

\* Option 1: one entry of metric 16.
AskWhole ==
    /\ option = "menu" /\ cpc = "menu"
    /\ Ask(Whole)
    /\ cpc' = "wait"
    /\ UNCHANGED <<svars, rib, answers, option, wanted, shown, asked, known, big>>

\* Options 2 to 4: a response made up to try the daemon; nothing to wait for.
SendResponse ==
    /\ option = "menu" /\ cpc = "menu"
    /\ requests = <<>>
    /\ Ask(Teach)
    /\ UNCHANGED <<svars, rib, answers, cvars, asked, known, big>>

\* A list that fits in a message goes out whole; of a longer one only the
\* first entry of the first 25 does.
AskSpecific ==
    /\ option = "-X" /\ cpc = "menu"
    /\ \E list \in Lists :
        /\ wanted' = list
        /\ IF Len(list) <= RIP_ENTRIES
           THEN Ask(Specific(list)) /\ cpc' = "wait"
           ELSE Ask(Specific(<<list[1]>>)) /\ cpc' = "first"
    /\ UNCHANGED <<svars, rib, answers, option, shown, asked, known, big>>

\* No list to ask for: none wanted ends the client, and a first address that is
\* mistyped, or an address too many, is written outside the array of addresses.
\* A later one that is mistyped is written over the address before it, which
\* then stands for some address or other: any list is typed in anyway.
AskNothing ==
    /\ option = "-X" /\ cpc = "menu"
    /\ cpc' \in {"ended", "crashed"}
    /\ UNCHANGED <<svars, rib, requests, answers, option, wanted, shown, lost, asked, known, big>>

Take(place) ==
    /\ cpc = place
    /\ answers # <<>>
    /\ Head(answers).size <= RIP_ENTRIES
    /\ answers' = Tail(answers)
    /\ shown' = Told(Head(answers))
    /\ UNCHANGED <<svars, rib, option, wanted, asked, known, big>>

\* The answer is converted and printed; the menu comes again, a list ends it.
TakeAnswer ==
    /\ Take("wait")
    /\ cpc' = IF option = "menu" THEN "menu" ELSE "ended"
    /\ UNCHANGED <<requests, lost>>

\* The first entry beyond 25 is asked for next.
TakeFirst ==
    /\ Take("first")
    /\ Ask(Specific(<<wanted[RIP_ENTRIES + 1]>>))
    /\ cpc' = "second"

\* add_entries_table adds to the first answer, but the table printed is
\* converted anew from the second.
TakeSecond ==
    /\ Take("second")
    /\ cpc' = "ended"
    /\ UNCHANGED <<requests, lost>>

Waiting == cpc \in {"wait", "first", "second"}

\* An answer longer than the buffers of rip_recv overruns them, and a failed
\* receive is the length of a memcpy.
Crash ==
    /\ Waiting
    /\ answers # <<>> => Head(answers).size > RIP_ENTRIES
    /\ cpc' = "crashed"
    /\ UNCHANGED <<svars, rib, requests, answers, option, wanted, shown, lost, asked, known, big>>

---------------------------------------------------------------------------
(* The network. *)

LoseRequest ==
    /\ requests # <<>>
    /\ requests' = Tail(requests)
    /\ lost' = TRUE
    /\ UNCHANGED <<svars, rib, answers, cvars, asked, known, big>>

LoseAnswer ==
    /\ answers # <<>>
    /\ answers' = Tail(answers)
    /\ lost' = TRUE
    /\ UNCHANGED <<svars, rib, requests, cvars, asked, known, big>>

---------------------------------------------------------------------------
(* The daemon. *)

\* Its table between two requests: routes are learned and collected.
TableChanges ==
    /\ pc = "listen"
    /\ \E k \in Slots :
        \/ rib[k] # NULL /\ rib' = [rib EXCEPT ![k] = NULL]
        \/ /\ rib[k] = NULL
           /\ \E d \in Dest \ {rib[h] : h \in Slots} : rib' = [rib EXCEPT ![k] = d]
    /\ UNCHANGED <<svars, requests, answers, cvars, lost, asked, known, big>>

\* table_to_send: a route for every entry of the request that has its address.
Found(dests) == {p \in Slots \X DOMAIN dests : rib[p[1]] = dests[p[2]]}

\* How many the two loops, over slots and entries, find before p.
Rank(dests, p) ==
    Cardinality({q \in Found(dests) : q[1] < p[1] \/ (q[1] = p[1] /\ q[2] < p[2])})

Matches(dests) == [s \in Slots |->
    IF \E p \in Found(dests) : Rank(dests, p) = s
    THEN rib[(CHOOSE p \in Found(dests) : Rank(dests, p) = s)[1]]
    ELSE NULL]

\* The counter starts from whatever the stack held.
StartAnswer ==
    /\ pc = "listen"
    /\ requests # <<>>
    /\ Head(requests) # Teach
    /\ requests' = Tail(requests)
    /\ asked' = Head(requests)
    /\ known' = {rib[k] : k \in Slots} \ {NULL}
    /\ slots' = IF asked'.kind = "whole" THEN rib ELSE Matches(asked'.dests)
    /\ big' = (num_entries' >= RIP_ENTRIES)
    /\ counter' \in Garbage
    /\ pc' = "start"
    /\ UNCHANGED <<i, j, buffer, messages, rib, answers, cvars, lost>>

\* What a response changes is RipServer's matter; here any change may follow.
ReadResponse ==
    /\ pc = "listen"
    /\ requests # <<>>
    /\ Head(requests) = Teach
    /\ requests' = Tail(requests)
    /\ UNCHANGED <<svars, rib, answers, cvars, lost, asked, known, big>>

SendAnswer == Next /\ UNCHANGED <<rib, requests, answers, cvars, lost, asked, known, big>>

Listen ==
    /\ pc' = "listen"
    /\ slots' = [k \in Slots |-> NULL]
    /\ i' = 0 /\ j' = 0 /\ counter' = 0
    /\ buffer' = [p \in Places |-> Old] /\ messages' = <<>>

\* Mutant: a request nothing is known of is not answered.
MutEndAnswer ==
    /\ pc = "returned"
    /\ Listen
    /\ answers' = IF num_entries = 0 THEN answers ELSE answers \o messages
    /\ UNCHANGED <<rib, requests, cvars, lost, asked, known, big>>

EndAnswer ==
    /\ pc = "returned"
    /\ Listen
    /\ answers' = answers \o messages
    /\ UNCHANGED <<rib, requests, cvars, lost, asked, known, big>>

CNext ==
    \/ AskWhole \/ SendResponse \/ AskSpecific \/ AskNothing
    \/ TakeAnswer \/ TakeFirst \/ TakeSecond \/ Crash
    \/ LoseRequest \/ LoseAnswer
    \/ TableChanges \/ StartAnswer \/ ReadResponse \/ SendAnswer \/ EndAnswer

CSpec == CInit /\ [][CNext]_cnvars

---------------------------------------------------------------------------
\* The question the client waits for an answer to.
Question ==
    CASE cpc = "first" -> Specific(<<wanted[1]>>)
      [] cpc = "second" -> Specific(<<wanted[RIP_ENTRIES + 1]>>)
      [] option = "-X" /\ cpc \notin {"first", "second"} -> Specific(wanted)
      [] OTHER -> Whole

\* Below the limit of one message, the answer the client takes is the answer
\* to the question it asked last: what the daemon knew of it when it answered,
\* however often the table changed and whatever was lost.  Nothing in a datagram
\* says which question it answers; only the endless wait does.
AnswerFitsQuestion ==
    [][Len(answers') < Len(answers) /\ cpc' # cpc /\ ~big =>
         /\ asked = Question
         /\ requests = <<>> /\ Len(answers) = 1
         /\ shown' = IF asked.kind = "whole" THEN known
                     ELSE known \cap {asked.dests[k] : k \in DOMAIN asked.dests}]_cnvars

\* The client waits for nothing, hence for ever, only when a datagram was lost
\* or the answer had as many routes as a message holds.
NobodyWaitsForNothing ==
    Waiting /\ requests = <<>> /\ answers = <<>> /\ pc = "listen" =>
        lost \/ big
=============================================================================
