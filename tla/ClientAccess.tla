---------------------------- MODULE ClientAccess ----------------------------
(***************************************************************************)
(* Who a request comes from and whether bound_ips let it in: the part that *)
(* auth_middleware (src/middleware.rs) and serve_feed (src/feed.rs) share, *)
(* over the resolver (DnsCache) that both use twice, first for the names   *)
(* in TRUSTED_PROXIES, later for those in the bound_ips of the key or the  *)
(* endpoint.  The task of prime_with_grace uses it too.                    *)
(***************************************************************************)
EXTENDS DnsCache, Sequences

CONSTANTS
    Requests,
    Primer,             \* the task of prime_with_grace
    Arrivals,           \* [peer, forwarded, real_ip] a request may come with
    None,               \* a header that is missing
    TrustedNets,        \* TRUSTED_PROXIES given by address
    Hostnames,          \* TRUSTED_PROXIES given by name, in order
    BOOT_GRACE_PERIOD,  \* time between the two rounds of prime_with_grace
    Bounds              \* bound_ips of keys and endpoints: sequences of addresses and names

ASSUME TasksAssumption == Tasks = Requests \cup {Primer} /\ Primer \notin Requests
\* Without host names nothing is awaited before the row is read.
ASSUME HostnamesAssumption == Hostnames \in Seq(Names) \ {<< >>}
\* An entry that parses as an address is never taken for a name.
ASSUME BoundsAssumption ==
    /\ Addrs \cap Names = {}
    /\ Bounds \subseteq Seq(Addrs \cup Names)
    /\ TrustedNets \subseteq Addrs

VARIABLES
    primer,         \* where prime_with_grace is
    req             \* the request, as far as it has got

vars == <<dnsVars, primer, req>>

\* A request that has not arrived; afterwards its fields hold what it needs next.
Blank == [at |-> "new", arrival |-> None, trusted |-> {}, next |-> 0, client |-> None,
          entries |-> << >>, since |-> 0]

Init ==
    /\ DnsInit
    /\ primer = [at |-> "first", next |-> 1, failed |-> FALSE, since |-> 0]
    /\ req = [r \in Requests |-> Blank]

-----------------------------------------------------------------------------

\* Faulty: the headers are believed whoever the peer is.
ClientUnchecked(a, trusted) ==
    IF a.forwarded # << >> THEN a.forwarded[Len(a.forwarded)]
    ELSE IF a.real_ip # None THEN a.real_ip
    ELSE a.peer

\* The last forwarded address that is no proxy of ours, then X-Real-IP, then the peer.
resolve_client_ip(a, trusted) ==
    LET others == SelectSeq(a.forwarded, LAMBDA ip : ip \notin trusted)
    IN  IF a.peer \notin trusted THEN a.peer
        ELSE IF others # << >> THEN others[Len(others)]
        ELSE IF a.real_ip # None THEN a.real_ip
        ELSE a.peer

At(r, where) == req[r].at = where

Call(t, name, forced) == lookup' = [lookup EXCEPT ![t] = Called(name, forced)]

Leave(t) == lookup' = [lookup EXCEPT ![t] = NoLookup]

dnsRest == <<clock, dns, moves, named, cache, writer>>

\* `trusted_proxies.resolved().await` begins.
Arrive(r, a) ==
    /\ At(r, "new")
    /\ req' = [req EXCEPT ![r] = [Blank EXCEPT
                 !.at = "proxies", !.arrival = a, !.trusted = TrustedNets, !.next = 1,
                 !.since = clock]]
    /\ Call(r, Hostnames[1], FALSE)
    /\ UNCHANGED <<dnsRest, primer>>

\* One more host name is resolved; after the last, the client's address is known.
NextProxy(r) ==
    LET next    == req[r].next + 1
        trusted == req[r].trusted \cup lookup[r].addrs
    IN  /\ At(r, "proxies") /\ Inside(r, "done")
        /\ IF next <= Len(Hostnames)
           THEN /\ req' = [req EXCEPT ![r] = [@ EXCEPT !.trusted = trusted, !.next = next]]
                /\ Call(r, Hostnames[next], FALSE)
           ELSE /\ req' = [req EXCEPT ![r] = [Blank EXCEPT !.at = "row",
                             !.client = resolve_client_ip(req[r].arrival, trusted)]]
                /\ Leave(r)
        /\ UNCHANGED <<dnsRest, primer>>

\* The decision; what the request held is forgotten.
Allow(r) == [req EXCEPT ![r] = [Blank EXCEPT !.at = "allowed"]]
Forbid(r) == [req EXCEPT ![r] = [Blank EXCEPT !.at = "forbidden"]]

\* The key or the endpoint is read; empty bound_ips let everybody in.  (A value of
\* commas only is empty to auth_middleware; serve_feed lets nobody in with it.)
ReadRow(r, bound_ips) ==
    /\ At(r, "row")
    /\ req' = IF bound_ips = << >> THEN Allow(r)
              ELSE [req EXCEPT ![r] = [@ EXCEPT !.at = "bound", !.entries = bound_ips, !.next = 1]]
    /\ UNCHANGED <<dnsVars, primer>>

Entry(r) == req[r].entries[req[r].next]

NextEntry(r) ==
    IF req[r].next = Len(req[r].entries) THEN Forbid(r)
    ELSE [req EXCEPT ![r] = [@ EXCEPT !.next = req[r].next + 1]]

\* is_allowed at an entry that is an address.
CheckNetwork(r) ==
    /\ At(r, "bound") /\ Entry(r) \in Addrs
    /\ req' = IF Entry(r) = req[r].client THEN Allow(r) ELSE NextEntry(r)
    /\ UNCHANGED <<dnsVars, primer>>

\* is_allowed at an entry that is a name, before and after `dns.resolve(name).await`.
CallForEntry(r) ==
    /\ At(r, "bound") /\ Entry(r) \in Names
    /\ lookup[r] = NoLookup
    /\ Call(r, Entry(r), FALSE)
    /\ UNCHANGED <<dnsRest, primer, req>>

\* Faulty: a host name that does not resolve is taken for a match.
CheckNameOpen(r) ==
    /\ At(r, "bound") /\ Inside(r, "done")
    /\ req' = IF lookup[r].addrs = {} \/ req[r].client \in lookup[r].addrs
              THEN Allow(r) ELSE NextEntry(r)
    /\ Leave(r)
    /\ UNCHANGED <<dnsRest, primer>>

CheckName(r) ==
    /\ At(r, "bound") /\ Inside(r, "done")
    /\ req' = IF req[r].client \in lookup[r].addrs THEN Allow(r) ELSE NextEntry(r)
    /\ Leave(r)
    /\ UNCHANGED <<dnsRest, primer>>

\* The client hangs up while its request awaits the resolver, and the request is
\* dropped.  Anywhere else this would show to nobody.
HangUp(r) ==
    /\ lookup[r] # NoLookup /\ ~Inside(r, "done")
    /\ req' = [req EXCEPT ![r] = [Blank EXCEPT !.at = "gone"]]
    /\ Drop(r)
    /\ UNCHANGED <<primer>>

-----------------------------------------------------------------------------

Priming == primer.at \in {"first", "second"}

\* prime: force_resolve every host name in turn.
PrimeName ==
    /\ Priming /\ lookup[Primer] = NoLookup
    /\ Call(Primer, Hostnames[primer.next], TRUE)
    /\ UNCHANGED <<dnsRest, primer, req>>

\* After the last name: if one failed in the first round, a second one after the grace.
Primed ==
    LET failed == primer.failed \/ lookup[Primer].addrs = {}
    IN  /\ Priming /\ Inside(Primer, "done")
        /\ primer' = IF primer.next < Len(Hostnames)
                     THEN [primer EXCEPT !.next = @ + 1, !.failed = failed]
                     ELSE IF failed /\ primer.at = "first"
                     THEN [at |-> "sleep", next |-> 1, failed |-> FALSE, since |-> clock]
                     ELSE [at |-> "over", next |-> 1, failed |-> FALSE, since |-> 0]
        /\ Leave(Primer)
        /\ UNCHANGED <<dnsRest, req>>

GraceIsOver ==
    /\ primer.at = "sleep"
    /\ clock >= primer.since + BOOT_GRACE_PERIOD
    /\ primer' = [primer EXCEPT !.at = "second", !.since = 0]
    /\ UNCHANGED <<dnsVars, req>>

Next ==
    \/ Environment /\ UNCHANGED <<primer, req>>
    \/ \E t \in Tasks : Resolving(t) /\ UNCHANGED <<primer, req>>
    \/ \E r \in Requests :
          \/ \E a \in Arrivals : Arrive(r, a)
          \/ NextProxy(r)
          \/ \E bound_ips \in Bounds : ReadRow(r, bound_ips)
          \/ CheckNetwork(r) \/ CallForEntry(r) \/ CheckName(r)
          \/ HangUp(r)
    \/ PrimeName \/ Primed \/ GraceIsOver

Spec == Init /\ [][Next]_vars

-----------------------------------------------------------------------------

Recently(name, ip, since) ==
    named[name][ip] # -1 /\ named[name][ip] > since - POSITIVE_TTL - LookupTime

(* Forwarding headers are believed only from a proxy that is configured by address,
   or that a configured name resolved to shortly before the request arrived or
   since: neither a name that moved nor an outage of DNS keeps a peer trusted. *)
ForwardedNeedsTrust ==
    [][\A r \in Requests :
          LET peer == req[r].arrival.peer
          IN  At(r, "proxies") /\ At(r, "row")' /\ req'[r].client # peer =>
                 \/ peer \in TrustedNets
                 \/ \E i \in DOMAIN Hostnames : Recently(Hostnames[i], peer, req[r].since)]_vars

(* Only a client that bound_ips name gets through: by address, or by a host name that
   resolved to it a moment ago, when it is let in and not when it arrived.  A
   lookup that fails lets nobody in. *)
OnlyBoundClients ==
    [][\A r \in Requests : At(r, "bound") /\ At(r, "allowed")' =>
          \E i \in DOMAIN req[r].entries :
              LET entry == req[r].entries[i]
              IN  \/ entry = req[r].client
                  \/ entry \in Names /\ Recently(entry, req[r].client, clock)]_vars

=============================================================================
