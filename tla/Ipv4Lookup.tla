----------------------------- MODULE Ipv4Lookup -----------------------------
(***************************************************************************)
(* The life of the forwarding table: ipv4_open fills it from a file and    *)
(* ipv4_send searches it with ipv4_route_table_lookup, one slot at a time, *)
(* for the route with the longest prefix.                                  *)
(***************************************************************************)
EXTENDS Ipv4RouteTable

VARIABLES
    table,
    pc,             \* reading the file, idle, searching, or given up
    addr,           \* the address looked up
    i,              \* the slot looked at
    best_route,
    best_prefix     \* best_route_prefix

lvars == <<table, pc, addr, i, best_route, best_prefix>>

TypeOK ==
    /\ table \in Table
    /\ pc \in {"read", "idle", "search", "failed"}
    /\ addr \in Address
    /\ i \in 0 .. IPv4_ROUTE_TABLE_SIZE
    /\ best_route \in Route \cup {NULL}
    /\ best_prefix \in -1 .. BITS

Init ==
    /\ table = [s \in Slots |-> NULL]
    /\ pc = "read"
    /\ addr = [b \in Bits |-> 0]
    /\ i = 0 /\ best_route = NULL /\ best_prefix = -1

\* A well-formed line of the file.
ReadRoute ==
    /\ pc = "read"
    /\ HasRoom(table)
    /\ \E r \in Route : table' = Add(table, r)
    /\ UNCHANGED <<pc, addr, i, best_route, best_prefix>>

\* A line too many, a malformed line, a file without routes, a bad configuration
\* or no interface: ipv4_open fails.
ReadFails ==
    /\ pc = "read"
    /\ pc' = "failed"
    /\ UNCHANGED <<table, addr, i, best_route, best_prefix>>

ReadAll ==
    /\ pc = "read"
    /\ \E s \in Slots : table[s] # NULL
    /\ pc' = "idle"
    /\ UNCHANGED <<table, addr, i, best_route, best_prefix>>

StartSearch ==
    /\ pc = "idle"
    /\ addr' \in Address
    /\ i' = 0
    /\ best_route' = NULL
    /\ best_prefix' = -1
    /\ pc' = "search"
    /\ UNCHANGED table

Better ==
    /\ best_route' = table[i]
    /\ best_prefix' = RouteLookup(table[i], addr)

\* Mutant: the last of two equal prefixes is kept.
MutImproves == table[i] # NULL /\ RouteLookup(table[i], addr) >= best_prefix

Improves == table[i] # NULL /\ RouteLookup(table[i], addr) > best_prefix

SearchSlot ==
    /\ pc = "search"
    /\ i \in Slots
    /\ \/ Improves /\ Better
       \/ ~Improves /\ UNCHANGED <<best_route, best_prefix>>
    /\ i' = i + 1
    /\ UNCHANGED <<table, pc, addr>>

\* Mutant: the loop counts once more before it ends.
MutEndSearch ==
    /\ pc = "search"
    /\ i = IPv4_ROUTE_TABLE_SIZE
    /\ pc' = "idle"
    /\ i' = i + 1
    /\ UNCHANGED <<table, addr, best_route, best_prefix>>

EndSearch ==
    /\ pc = "search"
    /\ i = IPv4_ROUTE_TABLE_SIZE
    /\ pc' = "idle"
    /\ UNCHANGED <<table, addr, i, best_route, best_prefix>>

Next == ReadRoute \/ ReadFails \/ ReadAll \/ StartSearch \/ SearchSlot \/ EndSearch

Spec == Init /\ [][Next]_lvars

---------------------------------------------------------------------------
\* What belongs to a subnet, said without the code's arithmetic: the bits under
\* the mask agree and the subnet has no others.
Belongs(a, route) ==
    /\ Contiguous(route.mask)
    /\ \A b \in Bits : route.subnet[b] = IF route.mask[b] = 1 THEN a[b] ELSE 0

Searched == pc = "idle" /\ i = IPv4_ROUTE_TABLE_SIZE

\* The search ends with a route of the table that contains the address and no
\* route that contains it has a longer mask; with none only if none contains it.
LongestMatch ==
    Searched =>
        /\ best_route = NULL => \A s \in Slots :
               table[s] # NULL => ~Belongs(addr, table[s])
        /\ best_route # NULL =>
               /\ Belongs(addr, best_route)
               /\ \E s \in Slots : table[s] = best_route
               /\ \A s \in Slots : table[s] # NULL /\ Belongs(addr, table[s]) =>
                      PrefixLength(table[s].mask) <= PrefixLength(best_route.mask)

\* Among the longest, the first line of the file wins.
FirstLineWins ==
    Searched /\ best_route # NULL =>
        \E s \in Slots :
            /\ table[s] = best_route
            /\ \A u \in Slots :
                   u < s /\ table[u] # NULL /\ Belongs(addr, table[u]) =>
                       PrefixLength(table[u].mask) < PrefixLength(best_route.mask)
=============================================================================
