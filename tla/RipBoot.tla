------------------------------ MODULE RipBoot ------------------------------
(***************************************************************************)
(* How the daemon comes up: the forwarding table, the configuration and    *)
(* the interface behind udp_open, the RIP table from rip_table.txt and the *)
(* timers main sets, then the loop (RipServer) over an open stack whose    *)
(* forwarding table is searched for every packet (Ipv4Lookup).             *)
(***************************************************************************)
EXTENDS Ipv4Lookup, Sequences

CONSTANTS
    Dest, Router, RIP_ROUTE_TABLE_SIZE, RIP_INFINITY, TIMEOUT,
    FileLine,   \* well-formed lines of rip_table.txt
    Unset       \* what an allocated timer holds

Rip == INSTANCE RipTable

\* A route as rip_route_table_read leaves it.
RouteRead == [dest: Dest, next: Router, metric: Nat, time: {Unset}, garbage: BOOLEAN]

ASSUME RibSizeAssumption == RIP_ROUTE_TABLE_SIZE \in Nat \ {0}
ASSUME RibNullAssumption == NULL \notin RouteRead
ASSUME LineAssumption == FileLine \subseteq [dest: Dest, next: Router, metric: Nat]
ASSUME UnsetAssumption == Unset \notin Rip!TimeLeft(TIMEOUT)

VARIABLES
    stage,          \* how far the daemon has come
    fields,         \* configuration values read
    joined,         \* subscribed to 224.0.0.9
    rib,            \* the RIP table
    num_entries,
    K,              \* what rip_route_table_read returned
    lines           \* lines of rip_table.txt read so far

ribvars == <<rib, num_entries, K, lines>>
bootvars == <<lvars, stage, fields, joined, ribvars>>

Fields == {"Interface", "IPv4Address", "SubnetMask"}
Up == {"rip", "timers", "ready", "running"}

BootTypeOK ==
    /\ TypeOK
    /\ stage \in {"routes", "config", "interface", "exited", "crashed"} \cup Up
    /\ fields \subseteq Fields
    /\ joined \in BOOLEAN
    /\ \A s \in Rip!Occupied(rib) :
           rib[s].time \in {Unset, Rip!INFINITE_TIMER} /\ ~rib[s].garbage
    /\ num_entries \in -1 .. RIP_ROUTE_TABLE_SIZE
    /\ K \in -1 .. RIP_ROUTE_TABLE_SIZE
    /\ lines \in Seq(FileLine)

NoRoutes == [s \in Rip!Slots |-> NULL]

BootInit ==
    /\ Init
    /\ stage = "routes"
    /\ fields = {} /\ joined = FALSE
    /\ rib = NoRoutes /\ num_entries = 0 /\ K = 0 /\ lines = <<>>

---------------------------------------------------------------------------
(* initialize_rip: udp_open, ipv4_open and the subscription. *)

ReadForwarding ==
    /\ stage = "routes"
    /\ \/ ReadRoute /\ UNCHANGED stage
       \/ ReadAll /\ stage' = "config"
       \/ ReadFails /\ stage' = "exited"
    /\ UNCHANGED <<fields, joined, ribvars>>

\* A name and a value; a repeated name overwrites.
ConfigLine ==
    /\ stage = "config"
    /\ \E f \in Fields : fields' = fields \cup {f}
    /\ UNCHANGED <<lvars, stage, joined, ribvars>>

\* No file, a malformed line, an unknown name or an invalid address.
ConfigFails ==
    /\ stage = "config"
    /\ stage' = "exited"
    /\ UNCHANGED <<lvars, fields, joined, ribvars>>

\* Mutant: only malformed lines are errors.
MutConfigEnd ==
    /\ stage = "config"
    /\ stage' = "interface"
    /\ UNCHANGED <<lvars, fields, joined, ribvars>>

ConfigEnd ==
    /\ stage = "config"
    /\ stage' = IF fields = Fields THEN "interface" ELSE "exited"
    /\ UNCHANGED <<lvars, fields, joined, ribvars>>

\* The subscription comes after the interface and nothing is learned before it.
EthOpens ==
    /\ stage = "interface"
    /\ joined' = TRUE
    /\ num_entries' = 0
    /\ stage' = "rip"
    /\ UNCHANGED <<lvars, fields, rib, K, lines>>

EthFails ==
    /\ stage = "interface"
    /\ stage' = "exited"
    /\ UNCHANGED <<lvars, fields, joined, ribvars>>

---------------------------------------------------------------------------
(* rip_route_table_read and the timers of main. *)

RipLine ==
    /\ stage = "rip"
    /\ Rip!HasRoom(rib)
    /\ \E l \in FileLine :
        /\ rib' = Rip!Add(rib, [dest |-> l.dest, next |-> l.next, metric |-> l.metric,
                                time |-> Unset, garbage |-> FALSE])
        /\ lines' = Append(lines, l)
    /\ num_entries' = num_entries + 1
    /\ UNCHANGED <<lvars, stage, fields, joined, K>>

\* A line more than the table holds: rip_route_table_add uses routes[-1].
RipLineTooMany ==
    /\ stage = "rip"
    /\ ~Rip!HasRoom(rib)
    /\ stage' = "crashed"
    /\ UNCHANGED <<lvars, fields, joined, ribvars>>

Return(count) ==
    /\ stage = "rip"
    /\ stage' = "timers"
    /\ K' = count
    /\ UNCHANGED <<lvars, fields, joined, rib, lines>>

\* fopen fails before anything is counted.
RipNoFile == lines = <<>> /\ Return(-1) /\ UNCHANGED num_entries

\* A malformed line ends the reading; the routes read so far stay.
RipBadLine == Return(-1) /\ num_entries' = -1

\* Mutant: the read that meets the end of the file counts as a line.
MutRipEnd == Return(Len(lines)) /\ num_entries' = Len(lines) + 1

RipEnd == Return(Len(lines)) /\ num_entries' = Len(lines)

\* Mutant: the first route is left out.
MutSetTimers ==
    /\ stage = "timers"
    /\ rib' = [s \in Rip!Slots |->
           IF s \in 1 .. K - 1 THEN [rib[s] EXCEPT !.time = Rip!INFINITE_TIMER] ELSE rib[s]]
    /\ stage' = "ready"
    /\ UNCHANGED <<lvars, fields, joined, num_entries, K, lines>>

\* The first K slots get an infinite timer: none of them when K is -1.
SetTimers ==
    /\ stage = "timers"
    /\ rib' = [s \in Rip!Slots |->
           IF s < K THEN [rib[s] EXCEPT !.time = Rip!INFINITE_TIMER] ELSE rib[s]]
    /\ stage' = "ready"
    /\ UNCHANGED <<lvars, fields, joined, num_entries, K, lines>>

---------------------------------------------------------------------------
\* From here on the RIP table is RipServer's.
StartLoop ==
    /\ stage = "ready"
    /\ stage' = "running"
    /\ rib' = NoRoutes /\ num_entries' = 0 /\ K' = 0 /\ lines' = <<>>
    /\ UNCHANGED <<lvars, fields, joined>>

Forward ==
    /\ stage = "running"
    /\ StartSearch \/ SearchSlot \/ EndSearch
    /\ UNCHANGED <<stage, fields, joined, ribvars>>

BootNext ==
    \/ ReadForwarding
    \/ ConfigLine \/ ConfigFails \/ ConfigEnd
    \/ EthOpens \/ EthFails
    \/ RipLine \/ RipLineTooMany \/ RipNoFile \/ RipBadLine \/ RipEnd
    \/ SetTimers \/ StartLoop
    \/ Forward

BootSpec == BootInit /\ [][BootNext]_bootvars

---------------------------------------------------------------------------
\* Unless the file was malformed, which only the count of -1 tells, the loop
\* starts from the table RipServer starts from: every line in its place, counted
\* and never timing out, no timer left as it was allocated.
StartsFromWholeFile ==
    stage = "ready" /\ num_entries # -1 =>
        /\ num_entries = Len(lines)
        /\ rib = [s \in Rip!Slots |->
               IF s < Len(lines)
               THEN [dest |-> lines[s + 1].dest, next |-> lines[s + 1].next,
                     metric |-> lines[s + 1].metric,
                     time |-> Rip!INFINITE_TIMER, garbage |-> FALSE]
               ELSE NULL]

\* Every failure on the way ends the daemon: past the opening there is a route
\* to forward by, a complete configuration and the subscription to the group.
OnlyOpenStackRuns ==
    stage \in Up =>
        /\ \E s \in Slots : table[s] # NULL
        /\ pc \notin {"read", "failed"}
        /\ fields = Fields
        /\ joined
=============================================================================
