------------------------------ MODULE IpFilter ------------------------------
(***************************************************************************)
(* The networks a feed publishes (src/ipfilter.rs), over addresses of      *)
(* Width bits.  A network is an address and a prefix length; its address   *)
(* may have host bits, as in 10.0.0.5/8.                                   *)
(***************************************************************************)
EXTENDS Integers

CONSTANT Width      \* bits of an address
CONSTANT Excluded   \* [flag -> networks]: the RFC1918, BOGONS and LOOPBACK lists

ASSUME WidthAssumption == Width \in Nat

Addresses == [1..Width -> {0, 1}]
Networks == [addr : Addresses, len : 0..Width]

ASSUME ExcludedAssumption == \A flag \in DOMAIN Excluded : Excluded[flag] \subseteq Networks

\* IpNet::network: the first address of the network.
network(n) == [i \in 1..Width |-> IF i <= n.len THEN n.addr[i] ELSE 0]

\* IpNet::contains.
contains(n, a) == \A i \in 1..n.len : a[i] = n.addr[i]

Hosts(n) == {a \in Addresses : contains(n, a)}

\* Faulty: a network larger than the excluded one is let through.
OverlapsInside(n, excluded) == \E ex \in excluded : contains(ex, network(n))

overlaps_any(n, excluded) ==
    \E ex \in excluded : contains(ex, network(n)) \/ contains(n, network(ex))

Cover(nets) == UNION {Hosts(n) : n \in nets}

\* IpNet::aggregate: the largest networks that hold only addresses of nets.
aggregate(nets) ==
    LET cover  == Cover(nets)
        inside == {n \in Networks : n.addr = network(n) /\ Hosts(n) \subseteq cover}
    IN  {n \in inside : ~\E m \in inside : m.len < n.len /\ Hosts(n) \subseteq Hosts(m)}

filter_and_aggregate(nets, flags) ==
    aggregate({n \in nets : \A flag \in flags : ~overlaps_any(n, Excluded[flag])})

=============================================================================
