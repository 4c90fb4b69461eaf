--------------------------- MODULE Ipv4RouteTable ---------------------------
(***************************************************************************)
(* The forwarding table of src/files/ipv4_route_table.c: routes in a fixed *)
(* array, and the match of one route.  Addresses are bit vectors, bit 0    *)
(* the most significant, because the match works on bits and masks.        *)
(***************************************************************************)
EXTENDS Integers, FiniteSets

CONSTANTS
    BITS,                   \* width of an address, 32 in the code
    Gateway,                \* gateway addresses, 0.0.0.0 included
    NULL,                   \* the empty slot
    IPv4_ROUTE_TABLE_SIZE   \* number of slots

ASSUME BitsAssumption == BITS \in Nat
ASSUME TableSizeAssumption == IPv4_ROUTE_TABLE_SIZE \in Nat \ {0}

Bits == 0 .. BITS - 1
Address == [Bits -> {0, 1}]
Route == [subnet: Address, mask: Address, gateway: Gateway]

ASSUME NullAssumption == NULL \notin Route

Slots == 0 .. IPv4_ROUTE_TABLE_SIZE - 1
Table == [Slots -> Route \cup {NULL}]

---------------------------------------------------------------------------
Masked(a, m) == [b \in Bits |-> a[b] * m[b]]

\* The masks the code knows by name: ones followed by zeros.
Contiguous(m) == \A b, c \in Bits : b < c /\ m[c] = 1 => m[b] = 1

PrefixLength(m) == Cardinality({b \in Bits : m[b] = 1})

\* Mutant: the address is compared unmasked.
MutRouteLookup(route, addr) ==
    IF addr = route.subnet /\ Contiguous(route.mask)
    THEN PrefixLength(route.mask) ELSE -1

\* ipv4_route_lookup: -1 unless the masked address is the subnet.
RouteLookup(route, addr) ==
    IF Masked(addr, route.mask) = route.subnet /\ Contiguous(route.mask)
    THEN PrefixLength(route.mask) ELSE -1

HasRoom(t) == \E s \in Slots : t[s] = NULL

\* ipv4_route_table_add on a table with room.
Add(t, route) ==
    LET free == CHOOSE s \in Slots :
                    t[s] = NULL /\ \A u \in Slots : t[u] = NULL => s <= u
    IN [t EXCEPT ![free] = route]
=============================================================================
