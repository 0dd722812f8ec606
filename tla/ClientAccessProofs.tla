------------------------- MODULE ClientAccessProofs -------------------------
(***************************************************************************)
(* The resolver and the checks of a client's address, for any number of    *)
(* names, addresses and requests, any times to live and any lists of       *)
(* proxies and bound_ips: AnswersAreRecent, StoredInOrder,                 *)
(* ForwardedNeedsTrust and OnlyBoundClients.                               *)
(***************************************************************************)
EXTENDS ClientAccess, TLAPS

\* No address was a name's in the future, and those a name has now it has now.
NamedInTime ==
    \A n \in Names, a \in Addrs :
        /\ -1 <= named[n][a] /\ named[n][a] <= clock
        /\ a \in dns[n] => named[n][a] = clock

\* Every one of these addresses was the name's at this instant or later.
SaidSince(name, addrs, asked) == \A a \in addrs : named[name][a] >= asked

\* Whoever waits for DNS has the write lock, began no longer than LookupTime ago,
\* and after every answer that is cached.
AskInTime(t) ==
    /\ writer = t
    /\ lookup[t].asked \in Nat
    /\ lookup[t].asked <= clock /\ clock <= lookup[t].asked + LookupTime
    /\ SaidSince(lookup[t].name, lookup[t].addrs, lookup[t].asked)
    /\ \A n \in DOMAIN cache : cache[n].asked <= lookup[t].asked

\* An entry was stored no longer than LookupTime after DNS was asked for it.
EntryInTime(n) ==
    /\ cache[n].asked <= cache[n].attempted_at
    /\ cache[n].attempted_at <= cache[n].asked + LookupTime
    /\ cache[n].attempted_at <= clock
    /\ SaidSince(n, cache[n].addresses, cache[n].asked)

\* Whoever has an answer has a recent one.
AnswerInTime(t) ==
    /\ lookup[t].asked \in Nat
    /\ lookup[t].asked <= clock
    /\ clock < lookup[t].asked + Ttl(lookup[t].addrs) + LookupTime
    /\ SaidSince(lookup[t].name, lookup[t].addrs, lookup[t].asked)

AsksInTime    == \A t \in Tasks : Inside(t, "store") => AskInTime(t)
EntriesInTime == \A n \in DOMAIN cache : EntryInTime(n)
AnswersInTime == \A t \in Tasks : Inside(t, "done") => AnswerInTime(t)

\* The inductive invariant of the resolver.
DnsInv ==
    /\ DnsTypeOK
    /\ NamedInTime
    /\ AsksInTime
    /\ EntriesInTime
    /\ AnswersInTime

\* prime_with_grace knows which host name is next.
PrimerOK ==
    primer \in [at : {"first", "sleep", "second", "over"}, next : 1..Len(Hostnames),
                failed : BOOLEAN, since : Nat]

\* A request has the shape the code gives it.
Shaped(r) ==
    /\ DOMAIN req[r] = DOMAIN Blank
    /\ req[r].since \in Nat /\ req[r].since <= clock
    /\ At(r, "proxies") => req[r].next \in 1..Len(Hostnames)
    /\ At(r, "bound") =>
          req[r].entries \in Seq(Addrs \cup Names) /\ req[r].next \in 1..Len(req[r].entries)

\* It resolves the name it has got to, and none at any other time.
ResolvesItsName(r) ==
    /\ At(r, "proxies") /\ lookup[r] # NoLookup => lookup[r].name = Hostnames[req[r].next]
    /\ At(r, "bound") /\ lookup[r] # NoLookup => lookup[r].name = Entry(r)
    /\ ~At(r, "proxies") /\ ~At(r, "bound") => lookup[r] = NoLookup

\* A proxy is trusted by its address or by an answer that was recent when asked for.
TrustedSince(ip, since) ==
    \/ ip \in TrustedNets
    \/ ip \in Addrs /\ \E i \in DOMAIN Hostnames : Recently(Hostnames[i], ip, since)

TrustsRecent(r) ==
    At(r, "proxies") => \A ip \in req[r].trusted : TrustedSince(ip, req[r].since)

RequestOK(r) == Shaped(r) /\ ResolvesItsName(r) /\ TrustsRecent(r)

\* The inductive invariant of the requests, given that of the resolver.
AccessInv ==
    /\ PrimerOK
    /\ DOMAIN req = Requests
    /\ \A r \in Requests : RequestOK(r)

\* The resolver by itself, whoever its callers are: a task calls it when it is outside,
\* takes its answer with it, at once for another call perhaps, or is dropped at an await.
Calls(t) ==
    /\ lookup[t] = NoLookup \/ Inside(t, "done")
    /\ \E name \in Names, forced \in BOOLEAN : Call(t, name, forced)
    /\ UNCHANGED dnsRest
Leaves(t) == Inside(t, "done") /\ Leave(t) /\ UNCHANGED dnsRest
Drops(t) == lookup[t] # NoLookup /\ ~Inside(t, "done") /\ Drop(t)
DnsNext ==
    \/ Environment
    \/ \E t \in Tasks : Resolving(t) \/ Calls(t) \/ Leaves(t) \/ Drops(t)
DnsStep == [DnsNext]_dnsVars
DnsSpec == DnsInit /\ [][DnsNext]_dnsVars

-----------------------------------------------------------------------------
(* The resolver.                                                             *)

(* What a lookup holds. *)
LEMMA LookupFields ==
    ASSUME DnsTypeOK, NEW t \in Tasks, lookup[t] # NoLookup
    PROVE  /\ lookup[t] \in Lookup /\ lookup[t].name \in Names
           /\ lookup[t].forced \in BOOLEAN /\ lookup[t].addrs \in SUBSET Addrs
           /\ lookup[t].asked \in Int
<1>1. lookup[t] \in Lookup
  BY Zenon DEF DnsTypeOK
<1> QED BY <1>1, Zenon DEF Lookup

(* What an entry of the cache holds. *)
LEMMA EntryFields ==
    ASSUME DnsTypeOK, NEW n \in DOMAIN cache
    PROVE  /\ n \in Names /\ cache[n].addresses \in SUBSET Addrs
           /\ cache[n].attempted_at \in Nat /\ cache[n].asked \in Nat
<1>1. cache[n] \in [addresses : SUBSET Addrs, attempted_at : Nat, asked : Nat] /\ n \in Names
  BY Zenon DEF DnsTypeOK
<1> QED BY <1>1, Zenon

(* The step of one task changes its own lookup only. *)
LEMMA OneLookup ==
    ASSUME DnsTypeOK, NEW t \in Tasks, NEW l, l \in Lookup \cup {NoLookup},
           lookup' = [lookup EXCEPT ![t] = l]
    PROVE  /\ lookup'[t] = l
           /\ \A u \in Tasks : u # t => lookup'[u] = lookup[u]
           /\ lookup' \in [Tasks -> Lookup \cup {NoLookup}]
BY Zenon DEF DnsTypeOK

(* An answer is a lookup whose call has returned. *)
LEMMA ReturnEffect ==
    ASSUME DnsTypeOK, NEW t \in Tasks, lookup[t] # NoLookup,
           NEW addrs \in SUBSET Addrs, NEW asked \in Int, Return(t, addrs, asked)
    PROVE  /\ lookup'[t].at = "done" /\ lookup'[t].name = lookup[t].name
           /\ lookup'[t].addrs = addrs /\ lookup'[t].asked = asked
           /\ \A u \in Tasks : u # t => lookup'[u] = lookup[u]
           /\ lookup' \in [Tasks -> Lookup \cup {NoLookup}]
<1> DEFINE l == [lookup[t] EXCEPT !.at = "done", !.addrs = addrs, !.asked = asked]
<1>1. lookup[t] \in Lookup
  BY LookupFields, Zenon
<1>2. /\ l \in Lookup /\ l.at = "done" /\ l.name = lookup[t].name
      /\ l.addrs = addrs /\ l.asked = asked
  BY <1>1, Zenon DEF Lookup
<1>3. lookup' = [lookup EXCEPT ![t] = l]
  BY Zenon DEF Return
<1> HIDE DEF l
<1> QED BY <1>2, <1>3, OneLookup, Zenon

(* After Miss a task waits for the write lock. *)
LEMMA MissEffect ==
    ASSUME DnsTypeOK, NEW t \in Tasks, Miss(t)
    PROVE  /\ lookup'[t].at = "write" /\ lookup'[t].name = lookup[t].name
           /\ \A u \in Tasks : u # t => lookup'[u] = lookup[u]
           /\ lookup' \in [Tasks -> Lookup \cup {NoLookup}]
<1> DEFINE l == [lookup[t] EXCEPT !.at = "write"]
<1>1. lookup[t] \in Lookup
  BY LookupFields, Zenon DEF Miss, Inside
<1>2. l \in Lookup /\ l.at = "write" /\ l.name = lookup[t].name
  BY <1>1, Zenon DEF Lookup
<1>3. lookup' = [lookup EXCEPT ![t] = l]
  BY Zenon DEF Miss
<1> HIDE DEF l
<1> QED BY <1>2, <1>3, OneLookup, Zenon

(* After Ask the answer that DNS has now is on its way. *)
LEMMA AskEffect ==
    ASSUME DnsTypeOK, NEW t \in Tasks, Ask(t)
    PROVE  /\ lookup[t] # NoLookup /\ lookup'[t].at = "store" /\ lookup'[t].name = lookup[t].name
           /\ lookup'[t].addrs = dns[lookup[t].name] /\ lookup'[t].asked = clock
           /\ \A u \in Tasks : u # t => lookup'[u] = lookup[u]
           /\ lookup' \in [Tasks -> Lookup \cup {NoLookup}]
<1> DEFINE l == [lookup[t] EXCEPT !.at = "store", !.asked = clock, !.addrs = dns[lookup[t].name]]
<1>1. lookup[t] # NoLookup
  BY Zenon DEF Ask, Inside
<1>2. lookup[t] \in Lookup /\ lookup[t].name \in Names
  BY <1>1, LookupFields, Zenon
<1>3. dns[lookup[t].name] \in SUBSET Addrs /\ clock \in Int
  BY <1>2, AnswersAssumption DEF DnsTypeOK
<1>4. /\ l \in Lookup /\ l.at = "store" /\ l.name = lookup[t].name
      /\ l.addrs = dns[lookup[t].name] /\ l.asked = clock
  BY <1>2, <1>3, Zenon DEF Lookup
<1>5. lookup' = [lookup EXCEPT ![t] = l]
  BY Zenon DEF Ask
<1> HIDE DEF l
<1> QED BY <1>1, <1>4, <1>5, OneLookup, Zenon

(* Time and the history of the names only go forward, together. *)
LEMMA HistoryGrows ==
    ASSUME DnsTypeOK, NamedInTime, DnsStep
    PROVE  /\ NamedInTime'
           /\ clock' \in Nat /\ clock <= clock' /\ moves' \in Nat
           /\ dns' \in [Names -> DnsAnswers]
           /\ named' \in [Names -> [Addrs -> Int]]
           /\ \A n \in Names, a \in Addrs : named[n][a] <= named'[n][a]
<1>t. /\ clock \in Nat /\ moves \in Nat /\ dns \in [Names -> DnsAnswers]
      /\ named \in [Names -> [Addrs -> Int]]
      /\ \A n \in Names, a \in Addrs : named[n][a] \in Int
  BY Zenon DEF DnsTypeOK
<1>1. ASSUME NEW now \in Nat, NEW names \in [Names -> DnsAnswers], clock <= now,
             clock' = now, dns' = names, named' = NamedAt(now, names), moves' \in Nat,
             now = clock \/ names = dns
      PROVE  /\ NamedInTime' /\ named' \in [Names -> [Addrs -> Int]]
             /\ \A n \in Names, a \in Addrs : named[n][a] <= named'[n][a]
  <2>1. \A n \in Names, a \in Addrs :
           named'[n][a] = IF a \in names[n] THEN now ELSE named[n][a]
    BY <1>1, Zenon DEF NamedAt
  <2>2. named' \in [Names -> [Addrs -> Int]]
    BY <1>t, <1>1 DEF NamedAt
  <2>3. \A n \in Names, a \in Addrs : -1 <= named[n][a] /\ named[n][a] <= clock
    BY Zenon DEF NamedInTime
  <2>4. \A n \in Names, a \in Addrs : /\ named[n][a] <= named'[n][a]
                                      /\ -1 <= named'[n][a]
                                      /\ named'[n][a] <= now
                                      /\ a \in names[n] => named'[n][a] = now
    BY <1>t, <1>1, <2>1, <2>3
  <2> QED BY <1>1, <2>2, <2>4, Zenon DEF NamedInTime
<1>2. CASE DnsTick
  <2>1. /\ clock' = clock + 1 /\ dns' = dns /\ moves' = moves
        /\ named' = NamedAt(clock + 1, dns)
    BY <1>2, Zenon DEF DnsTick
  <2>2. clock + 1 \in Nat /\ clock <= clock + 1
    BY <1>t
  <2> QED BY <1>t, <1>1, <2>1, <2>2, Zenon
<1>3. ASSUME NEW name \in Names, NEW to \in DnsAnswers, Move(name, to)
      PROVE  /\ NamedInTime' /\ named' \in [Names -> [Addrs -> Int]]
             /\ \A n \in Names, a \in Addrs : named[n][a] <= named'[n][a]
             /\ clock' = clock /\ moves' \in Nat /\ dns' \in [Names -> DnsAnswers]
  <2>1. /\ clock' = clock /\ moves' = moves + 1 /\ named' = NamedAt(clock, dns')
        /\ dns' = [dns EXCEPT ![name] = to]
    BY <1>3, Zenon DEF Move
  <2>2. dns' \in [Names -> DnsAnswers] /\ moves' \in Nat /\ clock <= clock
    BY <1>t, <2>1
  <2> QED BY <1>t, <1>1, <2>1, <2>2, Zenon
<1>4. CASE UNCHANGED <<clock, dns, moves, named>>
  BY <1>t, <1>4 DEF NamedInTime
<1>5. ASSUME NEW t \in Tasks, Resolving(t) \/ Calls(t) \/ Leaves(t) \/ Drops(t)
      PROVE  UNCHANGED <<clock, dns, moves, named>>
  BY <1>5, Zenon DEF Resolving, Hit, Miss, Ask, Store, Drop, Calls, Leaves, Drops, dnsRest
<1>6. CASE UNCHANGED dnsVars
  BY <1>4, <1>6, Zenon DEF dnsVars
<1> QED BY <1>t, <1>2, <1>3, <1>4, <1>5, <1>6 DEF DnsStep, DnsNext, Environment

(* What was said at an instant or later stays so. *)
LEMMA SaidStays ==
    ASSUME DnsTypeOK, NamedInTime, DnsStep, NEW name \in Names, NEW addrs \in SUBSET Addrs,
           NEW asked \in Int, SaidSince(name, addrs, asked)
    PROVE  \A a \in addrs : named'[name][a] >= asked
<1>1. \A a \in addrs : /\ named[name][a] \in Int /\ named'[name][a] \in Int
                       /\ named[name][a] <= named'[name][a] /\ named[name][a] >= asked
  BY HistoryGrows DEF SaidSince, DnsTypeOK
<1> QED BY <1>1

(* Who waits goes on waiting in time, and who has an answer has a recent one, as
   long as the clock lets them. *)
LEMMA LookupCarries ==
    ASSUME DnsInv, DnsStep, NEW t \in Tasks, lookup'[t] = lookup[t], cache' = cache
    PROVE  /\ Inside(t, "store") /\ writer' = writer /\ clock' <= lookup[t].asked + LookupTime
                 => AskInTime(t)'
           /\ Inside(t, "done") /\ clock' = clock => AnswerInTime(t)'
<1>1. clock \in Nat /\ clock' \in Nat /\ clock <= clock' /\ DnsTypeOK /\ NamedInTime
  BY HistoryGrows, Zenon DEF DnsInv, DnsTypeOK
<1>2. ASSUME lookup[t] # NoLookup, SaidSince(lookup[t].name, lookup[t].addrs, lookup[t].asked)
      PROVE  SaidSince(lookup[t].name, lookup[t].addrs, lookup[t].asked)'
  <2>1. /\ lookup[t].name \in Names /\ lookup[t].addrs \in SUBSET Addrs /\ lookup[t].asked \in Int
    BY <1>1, <1>2, LookupFields, Zenon
  <2>2. \A a \in lookup[t].addrs : named'[lookup[t].name][a] >= lookup[t].asked
    BY <1>1, <1>2, <2>1, SaidStays, Zenon
  <2> QED BY <2>2, Zenon DEF SaidSince
<1>3. ASSUME Inside(t, "store"), writer' = writer, clock' <= lookup[t].asked + LookupTime
      PROVE  AskInTime(t)'
  <2>1. AskInTime(t) /\ lookup[t] # NoLookup
    BY <1>3, Zenon DEF DnsInv, AsksInTime, Inside
  <2>2. SaidSince(lookup[t].name, lookup[t].addrs, lookup[t].asked)'
    BY <1>2, <2>1, Zenon DEF AskInTime
  <2>3. lookup[t].asked \in Nat /\ lookup[t].asked <= clock'
    BY <1>1, <2>1 DEF AskInTime
  <2> QED BY <1>3, <2>1, <2>2, <2>3, Zenon DEF AskInTime
<1>4. ASSUME Inside(t, "done"), clock' = clock PROVE AnswerInTime(t)'
  <2>1. AnswerInTime(t) /\ lookup[t] # NoLookup
    BY <1>4, Zenon DEF DnsInv, AnswersInTime, Inside
  <2>2. SaidSince(lookup[t].name, lookup[t].addrs, lookup[t].asked)'
    BY <1>2, <2>1, Zenon DEF AnswerInTime
  <2> QED BY <1>4, <2>1, <2>2, Zenon DEF AnswerInTime, Ttl
<1> QED BY <1>3, <1>4, Zenon

(* Entries grow old, and nothing else happens to them. *)
LEMMA EntryCarries ==
    ASSUME DnsInv, DnsStep, NEW n \in DOMAIN cache, cache'[n] = cache[n]
    PROVE  EntryInTime(n)'
<1>1. clock \in Nat /\ clock' \in Nat /\ clock <= clock' /\ DnsTypeOK /\ NamedInTime
  BY HistoryGrows, Zenon DEF DnsInv, DnsTypeOK
<1>2. EntryInTime(n)
  BY Zenon DEF DnsInv, EntriesInTime
<1>3. /\ n \in Names /\ cache[n].addresses \in SUBSET Addrs
      /\ cache[n].attempted_at \in Nat /\ cache[n].asked \in Nat
  BY <1>1, EntryFields, Zenon
<1>4. \A a \in cache[n].addresses : named'[n][a] >= cache[n].asked
  BY <1>1, <1>2, <1>3, SaidStays DEF EntryInTime
<1>5. cache[n].attempted_at <= clock'
  BY <1>1, <1>2, <1>3 DEF EntryInTime
<1> QED BY <1>2, <1>4, <1>5, Zenon DEF EntryInTime, SaidSince

(* A step that leaves the cache and the clock alone, and of the lookups changes
   that of t at most, only has to answer for t. *)
LEMMA OneTaskSteps ==
    ASSUME DnsInv, DnsStep, NEW t \in Tasks, clock' = clock, cache' = cache,
           writer' \in Tasks \cup {NoTask}, lookup' \in [Tasks -> Lookup \cup {NoLookup}],
           \A u \in Tasks : u # t => lookup'[u] = lookup[u],
           writer' = writer \/ (\A u \in Tasks : u # t => ~Inside(u, "store")),
           Inside(t, "store")' => AskInTime(t)',
           Inside(t, "done")' => AnswerInTime(t)'
    PROVE  DnsInv'
<1>1. DnsTypeOK /\ NamedInTime
  BY Zenon DEF DnsInv
<1>2. DnsTypeOK' /\ NamedInTime'
  BY <1>1, HistoryGrows, Zenon DEF DnsTypeOK
<1>3. \A u \in Tasks : /\ Inside(u, "store") => clock' <= lookup[u].asked + LookupTime
                       /\ u # t => /\ Inside(u, "store")' <=> Inside(u, "store")
                                   /\ Inside(u, "done")' <=> Inside(u, "done")
  BY Zenon DEF DnsInv, AsksInTime, AskInTime, Inside
<1>4. AsksInTime'
  BY <1>3, LookupCarries, Zenon DEF AsksInTime
<1>5. AnswersInTime'
  BY <1>3, LookupCarries, Zenon DEF AnswersInTime
<1>6. EntriesInTime'
  BY EntryCarries, Zenon DEF EntriesInTime
<1> QED BY <1>2, <1>4, <1>5, <1>6, Zenon DEF DnsInv

(* Only one task waits for DNS, the writer. *)
LEMMA OneAsks ==
    ASSUME DnsInv, NEW t \in Tasks, Inside(t, "store")
    PROVE  writer = t
BY Zenon DEF DnsInv, AsksInTime, AskInTime

(* Every step of the resolver keeps answers, cached or not, in time. *)
LEMMA ResolverSteps == DnsInv /\ DnsStep => DnsInv'
<1> SUFFICES ASSUME DnsInv, DnsStep PROVE DnsInv'
  BY Zenon
<1>t. /\ DnsTypeOK /\ NamedInTime /\ clock \in Nat
      /\ lookup \in [Tasks -> Lookup \cup {NoLookup}] /\ writer \in Tasks \cup {NoTask}
  BY Zenon DEF DnsInv, DnsTypeOK
<1>1. CASE DnsTick
  <2>1. /\ clock' = clock + 1 /\ UNCHANGED <<cache, writer, lookup>>
        /\ \A t \in Tasks : /\ Inside(t, "store") => clock < lookup[t].asked + LookupTime
                            /\ ~Inside(t, "done")
    BY <1>1, Zenon DEF DnsTick
  <2>2. DnsTypeOK' /\ NamedInTime'
    BY <1>t, <2>1, HistoryGrows, Zenon DEF DnsTypeOK
  <2>3. \A t \in Tasks : Inside(t, "store") => clock' <= lookup[t].asked + LookupTime
    BY <1>t, <2>1, LookupAssumption DEF DnsInv, AsksInTime, AskInTime
  <2>4. \A t \in Tasks : /\ Inside(t, "store")' => Inside(t, "store")
                         /\ ~Inside(t, "done")'
    BY <2>1, Zenon DEF Inside
  <2>5. AsksInTime' /\ AnswersInTime'
    <3>1. ASSUME NEW t \in Tasks, Inside(t, "store") PROVE AskInTime(t)'
      <4>1. lookup'[t] = lookup[t] /\ cache' = cache /\ writer' = writer
        BY <2>1, Zenon
      <4> QED BY <2>3, <3>1, <4>1, LookupCarries, Zenon
    <3> QED BY <2>4, <3>1, Zenon DEF AsksInTime, AnswersInTime
  <2>6. EntriesInTime'
    BY <2>1, EntryCarries, Zenon DEF EntriesInTime
  <2> QED BY <2>2, <2>5, <2>6, Zenon DEF DnsInv
<1>2. ASSUME NEW t \in Tasks, UNCHANGED <<clock, cache, writer, lookup>> PROVE DnsInv'
  <2>1. /\ Inside(t, "store")' => AskInTime(t)'
        /\ Inside(t, "done")' => AnswerInTime(t)'
    <3>1. /\ Inside(t, "store")' => Inside(t, "store") /\ clock' <= lookup[t].asked + LookupTime
          /\ Inside(t, "done")' => Inside(t, "done")
      BY <1>2, Zenon DEF Inside, DnsInv, AsksInTime, AskInTime
    <3> QED BY <1>2, <3>1, LookupCarries, Zenon
  <2> QED BY <1>t, <1>2, <2>1, OneTaskSteps, Zenon
<1>3. ASSUME NEW t \in Tasks, Miss(t) PROVE DnsInv'
  <2>1. UNCHANGED <<clock, cache, writer>>
    BY <1>3, Zenon DEF Miss
  <2>2. ~Inside(t, "store")' /\ ~Inside(t, "done")'
    BY <1>t, <1>3, MissEffect, Zenon DEF Inside
  <2> QED BY <1>t, <1>3, <2>1, <2>2, MissEffect, OneTaskSteps, Zenon
<1>4. ASSUME NEW t \in Tasks, Ask(t) PROVE DnsInv'
  <2>1. UNCHANGED <<clock, cache, dns, named>> /\ writer = NoTask /\ writer' = t
    BY <1>4, Zenon DEF Ask
  <2>2. /\ lookup[t] # NoLookup /\ lookup'[t].at = "store" /\ lookup'[t].name = lookup[t].name
        /\ lookup'[t].addrs = dns[lookup[t].name] /\ lookup'[t].asked = clock
    BY <1>t, <1>4, AskEffect, Zenon
  <2>3. lookup[t].name \in Names /\ dns[lookup[t].name] \in SUBSET Addrs
    BY <1>t, <2>2, LookupFields, AnswersAssumption DEF DnsTypeOK
  <2>4. SaidSince(lookup[t].name, lookup[t].addrs, lookup[t].asked)'
    BY <1>t, <2>1, <2>2, <2>3 DEF SaidSince, NamedInTime
  <2>5. \A n \in DOMAIN cache : cache[n].asked <= clock
    BY <1>t, EntryFields DEF DnsInv, EntriesInTime, EntryInTime
  <2>6. AskInTime(t)'
    BY <1>t, <2>1, <2>2, <2>4, <2>5, LookupAssumption DEF AskInTime
  <2>7. \A u \in Tasks : ~Inside(u, "store")
    BY <2>1, OneAsks, NoTaskAssumption, Zenon
  <2>8. ~Inside(t, "done")'
    BY <2>2, Zenon DEF Inside
  <2> QED BY <1>t, <1>4, <2>1, <2>6, <2>7, <2>8, AskEffect, OneTaskSteps, Zenon
<1>5. ASSUME NEW t \in Tasks, Hit(t) PROVE DnsInv'
  <2> DEFINE n == lookup[t].name
  <2>1. /\ UNCHANGED <<clock, cache, writer, named>> /\ lookup[t] # NoLookup
        /\ n \in DOMAIN cache /\ clock - cache[n].attempted_at < Ttl(cache[n].addresses)
        /\ Return(t, cache[n].addresses, cache[n].asked)
    BY <1>5, Zenon DEF Hit, Fresh, Inside
  <2>2. /\ cache[n].addresses \in SUBSET Addrs
        /\ cache[n].attempted_at \in Nat /\ cache[n].asked \in Nat /\ cache[n].asked \in Int
    BY <1>t, <2>1, EntryFields, SMTT(30)
  <2>3. /\ lookup'[t].at = "done" /\ lookup'[t].name = n
        /\ lookup'[t].addrs = cache[n].addresses /\ lookup'[t].asked = cache[n].asked
        /\ \A u \in Tasks : u # t => lookup'[u] = lookup[u]
        /\ lookup' \in [Tasks -> Lookup \cup {NoLookup}]
    BY <1>t, <2>1, <2>2, ReturnEffect, Zenon
  <2>4. EntryInTime(n)
    BY <2>1, Zenon DEF DnsInv, EntriesInTime
  <2>5. /\ cache[n].asked <= clock
        /\ clock < cache[n].asked + Ttl(cache[n].addresses) + LookupTime
    BY <1>t, <2>1, <2>2, <2>4, TtlAssumption, LookupAssumption DEF EntryInTime, Ttl
  <2>6. AnswerInTime(t)'
    BY <2>1, <2>2, <2>3, <2>4, <2>5, Zenon DEF AnswerInTime, EntryInTime, SaidSince, Ttl
  <2>7. ~Inside(t, "store")'
    BY <2>3, Zenon DEF Inside
  <2> QED BY <1>t, <2>1, <2>3, <2>6, <2>7, OneTaskSteps, Zenon
<1>6. ASSUME NEW t \in Tasks, Store(t) PROVE DnsInv'
  <2>0. PICK n : n = lookup[t].name
    BY Zenon
  <2> DEFINE e == [addresses |-> lookup[t].addrs, attempted_at |-> clock, asked |-> lookup[t].asked]
  <2>1. /\ Inside(t, "store") /\ lookup[t] # NoLookup /\ UNCHANGED <<clock, dns, moves, named>>
        /\ cache' = [m \in DOMAIN cache \cup {n} |-> IF m = n THEN e ELSE cache[m]]
        /\ writer' = NoTask
        /\ Return(t, lookup[t].addrs, lookup[t].asked)
    BY <1>6, <2>0, Zenon DEF Store, Inside
  <2>2. AskInTime(t)
    BY <2>1, Zenon DEF DnsInv, AsksInTime
  <2>3. /\ n \in Names /\ lookup[t].addrs \in SUBSET Addrs
        /\ lookup[t].asked \in Nat /\ lookup[t].asked \in Int
    BY <1>t, <2>0, <2>1, <2>2, LookupFields, Zenon DEF AskInTime
  <2>4. /\ lookup'[t].at = "done" /\ lookup'[t].name = n
        /\ lookup'[t].addrs = lookup[t].addrs /\ lookup'[t].asked = lookup[t].asked
        /\ \A u \in Tasks : u # t => lookup'[u] = lookup[u]
        /\ lookup' \in [Tasks -> Lookup \cup {NoLookup}]
    BY <1>t, <2>0, <2>1, <2>3, ReturnEffect, Zenon
  <2>5. /\ DOMAIN cache' \subseteq Names
        /\ cache' \in [DOMAIN cache' -> [addresses : SUBSET Addrs, attempted_at : Nat, asked : Nat]]
    BY <1>t, <2>1, <2>3, Zenon DEF DnsTypeOK
  <2>6. DnsTypeOK' /\ NamedInTime'
    BY <1>t, <2>1, <2>4, <2>5, HistoryGrows, Zenon DEF DnsTypeOK
  <2>7. AsksInTime'
    <3>1. \A u \in Tasks : ~Inside(u, "store")'
      BY <2>1, <2>4, OneAsks, Zenon DEF Inside
    <3> QED BY <3>1, Zenon DEF AsksInTime
  <2>8. EntriesInTime'
    <3>1. cache'[n] = e /\ \A m \in DOMAIN cache' : m # n => m \in DOMAIN cache /\ cache'[m] = cache[m]
      BY <2>1, Zenon
    <3>2. EntryInTime(n)'
      BY <1>t, <2>0, <2>1, <2>2, <2>3, <3>1, LookupAssumption
         DEF EntryInTime, AskInTime, SaidSince
    <3> QED BY <3>1, <3>2, EntryCarries, Zenon DEF EntriesInTime
  <2>9. AnswersInTime'
    <3>1. AnswerInTime(t)'
      BY <1>t, <2>0, <2>1, <2>2, <2>3, <2>4, TtlAssumption, LookupAssumption, SMTT(30)
         DEF AnswerInTime, AskInTime, SaidSince, Ttl
    <3>2. ASSUME NEW u \in Tasks, u # t, Inside(u, "done")' PROVE AnswerInTime(u)'
      <4>1. lookup'[u] = lookup[u] /\ AnswerInTime(u)
        BY <2>4, <3>2, Zenon DEF DnsInv, AnswersInTime, Inside
      <4> QED BY <2>1, <4>1, Zenon DEF AnswerInTime, SaidSince, Ttl
    <3> QED BY <3>1, <3>2, Zenon DEF AnswersInTime
  <2> QED BY <2>6, <2>7, <2>8, <2>9, Zenon DEF DnsInv
<1>7. ASSUME NEW t \in Tasks, NEW l \in Lookup \cup {NoLookup},
             lookup' = [lookup EXCEPT ![t] = l], l = NoLookup \/ l.at \in {"read", "write"},
             UNCHANGED <<clock, cache>>,
             writer' = writer \/ (writer = t /\ writer' = NoTask)
      PROVE  DnsInv'
  <2>1. /\ lookup'[t] = l /\ \A u \in Tasks : u # t => lookup'[u] = lookup[u]
        /\ lookup' \in [Tasks -> Lookup \cup {NoLookup}]
    BY <1>t, <1>7, OneLookup, Zenon
  <2>2. ~Inside(t, "store")' /\ ~Inside(t, "done")'
    BY <1>7, <2>1, Zenon DEF Inside
  <2>3. writer' = writer \/ \A u \in Tasks : u # t => ~Inside(u, "store")
    BY <1>7, OneAsks, Zenon
  <2> QED BY <1>t, <1>7, <2>1, <2>2, <2>3, OneTaskSteps, Zenon
<1>8. ASSUME NEW t \in Tasks, Drops(t) \/ Leaves(t) PROVE DnsInv'
  BY <1>7, <1>8, Zenon DEF Drop, Drops, Leaves, Leave, dnsRest
<1>9. ASSUME NEW t \in Tasks, Calls(t) PROVE DnsInv'
  <2>1. PICK name \in Names, forced \in BOOLEAN : Call(t, name, forced) /\ UNCHANGED dnsRest
    BY <1>9, Zenon DEF Calls
  <2>2. Called(name, forced) \in Lookup /\ Called(name, forced).at \in {"read", "write"}
    BY DEF Called, Lookup
  <2> QED BY <1>7, <2>1, <2>2, Zenon DEF Call, dnsRest
<1>10. CASE Tasks = {} /\ UNCHANGED <<clock, cache, writer, lookup>>
  <2>1. DnsTypeOK' /\ NamedInTime'
    BY <1>t, <1>10, HistoryGrows, Zenon DEF DnsTypeOK
  <2>2. AsksInTime' /\ AnswersInTime'
    BY <1>10, Zenon DEF AsksInTime, AnswersInTime
  <2> QED BY <1>10, <2>1, <2>2, EntryCarries, Zenon DEF DnsInv, EntriesInTime
<1>11. ASSUME NEW name \in Names, NEW to \in DnsAnswers, Move(name, to)
       PROVE  UNCHANGED <<clock, cache, writer, lookup>>
  BY <1>11, Zenon DEF Move
<1>12. CASE UNCHANGED dnsVars
  BY <1>2, <1>10, <1>12, Zenon DEF dnsVars
<1> QED BY <1>1, <1>2, <1>3, <1>4, <1>5, <1>6, <1>8, <1>9, <1>10, <1>11, <1>12, Zenon
           DEF DnsStep, DnsNext, Environment, Resolving

-----------------------------------------------------------------------------
(* The requests.                                                             *)

(* The names in TRUSTED_PROXIES are names, and there is a first one. *)
LEMMA HostnamesAreNames ==
    /\ Len(Hostnames) \in Nat /\ 1 \in 1..Len(Hostnames) /\ DOMAIN Hostnames = 1..Len(Hostnames)
    /\ \A i \in 1..Len(Hostnames) : Hostnames[i] \in Names
BY HostnamesAssumption

(* Every step of the system is a step of the resolver, or none. *)
LEMMA StepsOfResolver == AccessInv /\ [Next]_vars => DnsStep
<1> SUFFICES ASSUME AccessInv, [Next]_vars PROVE DnsStep
  BY Zenon
<1>1. CASE Environment
  BY <1>1, Zenon DEF DnsStep, DnsNext
<1>2. ASSUME NEW t \in Tasks, Resolving(t) PROVE DnsStep
  BY <1>2, Zenon DEF DnsStep, DnsNext
<1>3. ASSUME NEW t \in Tasks, NEW name \in Names, NEW forced \in BOOLEAN,
             lookup[t] = NoLookup \/ Inside(t, "done"), Call(t, name, forced), UNCHANGED dnsRest
      PROVE  DnsStep
  BY <1>3, Zenon DEF DnsStep, DnsNext, Calls
<1>4. ASSUME NEW t \in Tasks, Inside(t, "done"), Leave(t), UNCHANGED dnsRest PROVE DnsStep
  BY <1>4, Zenon DEF DnsStep, DnsNext, Leaves
<1>5. ASSUME NEW r \in Requests, NEW a \in Arrivals, Arrive(r, a) PROVE DnsStep
  <2>1. lookup[r] = NoLookup
    <3>1. ~At(r, "proxies") /\ ~At(r, "bound")
      BY <1>5, Zenon DEF Arrive, At
    <3> QED BY <3>1, Zenon DEF AccessInv, RequestOK, ResolvesItsName
  <2> QED BY <1>3, <1>5, <2>1, HostnamesAreNames, TasksAssumption, Zenon DEF Arrive
<1>6. ASSUME NEW r \in Requests, NextProxy(r) PROVE DnsStep
  <2>1. req[r].next \in 1..Len(Hostnames)
    BY <1>6, Zenon DEF NextProxy, AccessInv, RequestOK, Shaped
  <2>2. req[r].next + 1 <= Len(Hostnames) => Hostnames[req[r].next + 1] \in Names
    BY <2>1, HostnamesAreNames
  <2> QED BY <1>3, <1>4, <1>6, <2>2, TasksAssumption, Zenon DEF NextProxy
<1>7. ASSUME UNCHANGED dnsVars PROVE DnsStep
  BY <1>7, Zenon DEF DnsStep
<1>8. ASSUME NEW r \in Requests, CallForEntry(r) PROVE DnsStep
  BY <1>3, <1>8, TasksAssumption, Zenon DEF CallForEntry
<1>9. ASSUME NEW r \in Requests, CheckName(r) PROVE DnsStep
  BY <1>4, <1>9, TasksAssumption, Zenon DEF CheckName
<1>10. ASSUME NEW r \in Requests, HangUp(r) PROVE DnsStep
  BY <1>10, TasksAssumption, Zenon DEF HangUp, Drops, DnsStep, DnsNext
<1>11. CASE PrimeName
  <2>1. Hostnames[primer.next] \in Names
    BY HostnamesAreNames, Zenon DEF AccessInv, PrimerOK
  <2> QED BY <1>3, <1>11, <2>1, TasksAssumption, Zenon DEF PrimeName
<1>12. CASE Primed
  BY <1>4, <1>12, TasksAssumption, Zenon DEF Primed
<1>13. ASSUME NEW r \in Requests, NEW b, ReadRow(r, b) \/ CheckNetwork(r)
       PROVE  UNCHANGED dnsVars
  BY <1>13, Zenon DEF ReadRow, CheckNetwork
<1>14. CASE GraceIsOver
  BY <1>7, <1>14, Zenon DEF GraceIsOver
<1>15. CASE UNCHANGED vars
  BY <1>7, <1>15, Zenon DEF vars
<1> QED BY <1>1, <1>2, <1>5, <1>6, <1>7, <1>8, <1>9, <1>10, <1>11, <1>12, <1>13, <1>14,
           <1>15, Zenon DEF Next

(* An answer was recent at any instant up to now. *)
LEMMA AnswersWereRecent ==
    ASSUME DnsInv, NEW t \in Tasks, Inside(t, "done"), NEW since \in Nat, since <= clock
    PROVE  /\ lookup[t].addrs \subseteq Addrs
           /\ \A ip \in lookup[t].addrs : Recently(lookup[t].name, ip, since)
<1>1. AnswerInTime(t) /\ lookup[t] # NoLookup /\ DnsTypeOK
  BY Zenon DEF DnsInv, AnswersInTime, Inside
<1>2. lookup[t].name \in Names /\ lookup[t].addrs \in SUBSET Addrs
  BY <1>1, LookupFields, Zenon
<1>3. ASSUME NEW ip \in lookup[t].addrs PROVE Recently(lookup[t].name, ip, since)
  <2>1. /\ lookup[t].asked \in Nat /\ clock < lookup[t].asked + POSITIVE_TTL + LookupTime
        /\ named[lookup[t].name][ip] >= lookup[t].asked
    BY <1>1, <1>3, Zenon DEF AnswerInTime, SaidSince, Ttl
  <2>2. clock \in Nat /\ named[lookup[t].name][ip] \in Int
    BY <1>1, <1>2, <1>3, Zenon DEF DnsTypeOK
  <2> QED BY <2>1, <2>2, TtlAssumption, LookupAssumption DEF Recently
<1> QED BY <1>2, <1>3, Zenon

(* Who was trusted stays so: a name's history only grows. *)
LEMMA TrustStays ==
    ASSUME DnsInv, DnsStep, NEW ip, NEW since \in Nat, TrustedSince(ip, since)
    PROVE  TrustedSince(ip, since)'
<1>1. ASSUME NEW name \in Names, ip \in Addrs, Recently(name, ip, since)
      PROVE  Recently(name, ip, since)'
  <2>1. /\ named[name][ip] \in Int /\ named'[name][ip] \in Int
        /\ -1 <= named[name][ip] /\ named[name][ip] <= named'[name][ip]
    BY <1>1, HistoryGrows DEF DnsInv, DnsTypeOK, NamedInTime
  <2> QED BY <1>1, <2>1, TtlAssumption, LookupAssumption DEF Recently
<1>2. CASE ip \in TrustedNets
  BY <1>2, Zenon DEF TrustedSince
<1>3. ASSUME ip \in Addrs, NEW i \in DOMAIN Hostnames, Recently(Hostnames[i], ip, since)
      PROVE  TrustedSince(ip, since)'
  <2>1. Hostnames[i] \in Names
    BY HostnamesAreNames, Zenon
  <2>2. Recently(Hostnames[i], ip, since)'
    BY <1>1, <1>3, <2>1, Zenon
  <2> QED BY <1>3, <2>2, Zenon DEF TrustedSince
<1> QED BY <1>2, <1>3, Zenon DEF TrustedSince

(* A request that a step leaves where it is, resolving what it resolved, stays right. *)
LEMMA KeptRequest ==
    ASSUME DnsInv, DnsStep, NEW r \in Requests, RequestOK(r), req'[r] = req[r],
           lookup'[r] # NoLookup => lookup[r] # NoLookup /\ lookup'[r].name = lookup[r].name
    PROVE  RequestOK(r)'
<1>1. clock \in Nat /\ clock' \in Nat /\ clock <= clock'
  BY HistoryGrows, Zenon DEF DnsInv, DnsTypeOK
<1>2. Shaped(r)'
  BY <1>1, SMTT(30) DEF RequestOK, Shaped, At
<1>3. ResolvesItsName(r)'
  BY Zenon DEF RequestOK, ResolvesItsName, At, Entry
<1>4. TrustsRecent(r)'
  <2> SUFFICES ASSUME At(r, "proxies"), NEW ip \in req[r].trusted
               PROVE  TrustedSince(ip, req[r].since)'
    BY Zenon DEF TrustsRecent, At
  <2>1. PICK since \in Nat : since = req[r].since
    BY Zenon DEF RequestOK, Shaped
  <2>2. TrustedSince(ip, since)
    BY <2>1, Zenon DEF RequestOK, TrustsRecent
  <2>3. TrustedSince(ip, since)'
    BY <2>2, TrustStays, Zenon
  <2> QED BY <2>1, <2>3, Zenon DEF TrustedSince, Recently
<1> QED BY <1>2, <1>3, <1>4, Zenon DEF RequestOK

(* A step of one request only has to answer for that one. *)
LEMMA OneRequest ==
    ASSUME DnsInv, DnsStep, AccessInv, NEW r \in Requests,
           primer' = primer, DOMAIN req' = Requests, RequestOK(r)',
           \A s \in Requests : s # r => req'[s] = req[s] /\ lookup'[s] = lookup[s]
    PROVE  AccessInv'
<1>1. \A s \in Requests : s # r => RequestOK(s)'
  BY KeptRequest, Zenon DEF AccessInv
<1> QED BY <1>1, Zenon DEF AccessInv, PrimerOK

(* What the resolver does for a task leaves the others alone, and the name as it is. *)
LEMMA ResolvingKeepsNames ==
    ASSUME DnsTypeOK, NEW t \in Tasks, Resolving(t), NEW u \in Tasks, lookup'[u] # NoLookup
    PROVE  lookup[u] # NoLookup /\ lookup'[u].name = lookup[u].name
<1>1. CASE Miss(t)
  BY <1>1, MissEffect, Zenon DEF Miss, Inside
<1>2. CASE Ask(t)
  BY <1>2, AskEffect, Zenon
<1>3. CASE Hit(t)
  <2>1. /\ lookup[t] # NoLookup /\ lookup[t].name \in DOMAIN cache
        /\ Return(t, cache[lookup[t].name].addresses, cache[lookup[t].name].asked)
    BY <1>3, Zenon DEF Hit, Fresh, Inside
  <2>2. /\ cache[lookup[t].name].addresses \in SUBSET Addrs
        /\ cache[lookup[t].name].asked \in Int
    BY <2>1, EntryFields
  <2> QED BY <2>1, <2>2, ReturnEffect, Zenon
<1>4. CASE Store(t)
  <2>1. lookup[t] # NoLookup /\ Return(t, lookup[t].addrs, lookup[t].asked)
    BY <1>4, Zenon DEF Store, Inside
  <2> QED BY <2>1, LookupFields, ReturnEffect, Zenon
<1> QED BY <1>1, <1>2, <1>3, <1>4, Zenon DEF Resolving

(* What a request becomes, and that the others stay. *)
LEMMA RequestUpdate ==
    ASSUME DOMAIN req = Requests, NEW r \in Requests, NEW q, req' = [req EXCEPT ![r] = q]
    PROVE  /\ req'[r] = q /\ DOMAIN req' = Requests
           /\ \A s \in Requests : s # r => req'[s] = req[s]
BY Zenon

(* A call begins a lookup of its name, and touches no other. *)
LEMMA CallEffect ==
    ASSUME DnsTypeOK, NEW t \in Tasks, NEW name, NEW forced, Call(t, name, forced)
    PROVE  /\ lookup'[t].name = name
           /\ \A u \in Tasks : u # t => lookup'[u] = lookup[u]
BY Zenon DEF Call, Called, DnsTypeOK

(* A task that leaves the resolver drops its own lookup and no other. *)
LEMMA LeaveEffect ==
    ASSUME DnsTypeOK, NEW t \in Tasks, Leave(t)
    PROVE  /\ lookup'[t] = NoLookup
           /\ \A u \in Tasks : u # t => lookup'[u] = lookup[u]
BY Zenon DEF Leave, DnsTypeOK

(* A request that is decided on, or given up, has nothing left to get wrong. *)
LEMMA OverIsRight ==
    ASSUME DnsTypeOK, DnsStep, NEW r \in Requests, clock' \in Nat,
           NEW at \in {"allowed", "forbidden", "gone"}, req'[r] = [Blank EXCEPT !.at = at],
           lookup'[r] = NoLookup
    PROVE  RequestOK(r)'
<1> DEFINE q == [Blank EXCEPT !.at = at]
<1>1. DOMAIN q = DOMAIN Blank /\ q.since = 0 /\ q.at = at
  BY Zenon DEF Blank
<1> HIDE DEF q
<1>2. req'[r] = q
  BY Zenon DEF q
<1>3. ~At(r, "proxies")' /\ ~At(r, "bound")'
  BY <1>1, <1>2, Zenon DEF At
<1>4. /\ DOMAIN req'[r] = DOMAIN Blank'
      /\ req'[r].since \in Nat /\ req'[r].since <= clock'
  BY <1>1, <1>2 DEF Blank
<1>5. Shaped(r)'
  BY <1>3, <1>4, Zenon DEF Shaped
<1> QED BY <1>3, <1>5, Zenon DEF RequestOK, ResolvesItsName, TrustsRecent

(* A request that arrives begins with the first host name. *)
LEMMA ArriveIsRight ==
    ASSUME DnsInv, DnsStep, AccessInv, NEW r \in Requests, NEW a \in Arrivals, Arrive(r, a)
    PROVE  AccessInv'
<1> DEFINE q == [Blank EXCEPT !.at = "proxies", !.arrival = a, !.trusted = TrustedNets,
                              !.next = 1, !.since = clock]
<1>t. r \in Tasks /\ DnsTypeOK /\ clock \in Nat /\ DOMAIN req = Requests
  BY TasksAssumption, Zenon DEF DnsInv, DnsTypeOK, AccessInv
<1>1. /\ DOMAIN q = DOMAIN Blank /\ q.at = "proxies" /\ q.next = 1 /\ q.since = clock
      /\ q.trusted = TrustedNets
  BY Zenon DEF Blank
<1>2. /\ req' = [req EXCEPT ![r] = q] /\ Call(r, Hostnames[1], FALSE)
      /\ clock' = clock /\ primer' = primer
  BY Zenon DEF Arrive, dnsRest
<1> HIDE DEF q
<1>3. /\ req'[r] = q /\ DOMAIN req' = Requests
      /\ \A s \in Requests : s # r => req'[s] = req[s]
  BY <1>t, <1>2, RequestUpdate, Zenon
<1>4. /\ lookup'[r].name = Hostnames[1]
      /\ \A s \in Requests : s # r => lookup'[s] = lookup[s]
  <2>1. /\ lookup'[r].name = Hostnames[1]
        /\ \A u \in Tasks : u # r => lookup'[u] = lookup[u]
    BY <1>t, <1>2, CallEffect, Zenon
  <2> QED BY <2>1, TasksAssumption, Zenon
<1>5. Shaped(r)'
  <2>1. DOMAIN Blank' = DOMAIN Blank
    BY Zenon DEF Blank
  <2> QED BY <1>t, <1>1, <1>2, <1>3, <2>1, HostnamesAreNames DEF Shaped, At
<1>6. ResolvesItsName(r)'
  BY <1>1, <1>3, <1>4, Zenon DEF ResolvesItsName, At
<1>7. TrustsRecent(r)'
  BY <1>1, <1>3, Zenon DEF TrustsRecent, TrustedSince
<1> QED BY <1>2, <1>3, <1>4, <1>5, <1>6, <1>7, OneRequest, Zenon DEF RequestOK

(* After each answer a request trusts what is in it, and resolves the next name. *)
LEMMA NextProxyIsRight ==
    ASSUME DnsInv, DnsStep, AccessInv, NEW r \in Requests, NextProxy(r)
    PROVE  AccessInv'
<1> DEFINE next    == req[r].next + 1
           trusted == req[r].trusted \cup lookup[r].addrs
           q == [req[r] EXCEPT !.trusted = trusted, !.next = next]
           done == [Blank EXCEPT !.at = "row",
                                 !.client = resolve_client_ip(req[r].arrival, trusted)]
<1>t. r \in Tasks /\ DnsTypeOK /\ clock \in Nat /\ DOMAIN req = Requests /\ RequestOK(r)
  BY TasksAssumption, Zenon DEF DnsInv, DnsTypeOK, AccessInv
<1>1. /\ At(r, "proxies") /\ Inside(r, "done") /\ lookup[r] # NoLookup
      /\ clock' = clock /\ named' = named /\ primer' = primer
  BY Zenon DEF NextProxy, Inside, dnsRest
<1>2. /\ DOMAIN req[r] = DOMAIN Blank /\ DOMAIN Blank' = DOMAIN Blank
      /\ req[r].since \in Nat /\ req[r].since <= clock
      /\ req[r].next \in 1..Len(Hostnames) /\ lookup[r].name = Hostnames[req[r].next]
  BY <1>t, <1>1, Zenon DEF RequestOK, Shaped, ResolvesItsName, Blank
<1>3. CASE next <= Len(Hostnames)
  <2>1. req' = [req EXCEPT ![r] = q] /\ Call(r, Hostnames[next], FALSE)
    BY <1>3, Zenon DEF NextProxy
  <2>2. /\ DOMAIN q = DOMAIN Blank /\ q.at = "proxies" /\ q.next = next
        /\ q.trusted = trusted /\ q.since = req[r].since
    BY <1>1, <1>2, Zenon DEF Blank, At
  <2>3. next \in 1..Len(Hostnames) /\ Hostnames[next] \in Names
    BY <1>2, <1>3, HostnamesAreNames
  <2> HIDE DEF q, next
  <2>4. /\ req'[r] = q /\ DOMAIN req' = Requests
        /\ \A s \in Requests : s # r => req'[s] = req[s]
    BY <1>t, <2>1, RequestUpdate, Zenon
  <2>5. /\ lookup'[r].name = Hostnames[next]
        /\ \A s \in Requests : s # r => lookup'[s] = lookup[s]
    <3>1. /\ lookup'[r].name = Hostnames[next]
          /\ \A u \in Tasks : u # r => lookup'[u] = lookup[u]
      BY <1>t, <2>1, CallEffect, Zenon
    <3> QED BY <3>1, TasksAssumption, Zenon
  <2>6. Shaped(r)'
    BY <1>1, <1>2, <2>2, <2>3, <2>4, Zenon DEF Shaped, At
  <2>7. ResolvesItsName(r)'
    BY <2>2, <2>4, <2>5, Zenon DEF ResolvesItsName, At
  <2>8. TrustsRecent(r)'
    <3>1. ASSUME NEW ip \in trusted PROVE TrustedSince(ip, req[r].since)
      <4>1. CASE ip \in req[r].trusted
        BY <1>t, <1>1, <4>1, Zenon DEF RequestOK, TrustsRecent
      <4>2. CASE ip \in lookup[r].addrs
        BY <1>t, <1>1, <1>2, <4>2, AnswersWereRecent, HostnamesAreNames, Zenon
           DEF TrustedSince
      <4> QED BY <3>1, <4>1, <4>2, Zenon
    <3> HIDE DEF trusted
    <3> QED BY <1>1, <2>2, <2>4, <3>1, Zenon DEF TrustsRecent, TrustedSince, Recently
  <2> QED BY <1>1, <2>4, <2>5, <2>6, <2>7, <2>8, OneRequest, Zenon DEF RequestOK
<1>4. CASE ~(next <= Len(Hostnames))
  <2>1. req' = [req EXCEPT ![r] = done] /\ Leave(r)
    BY <1>4, Zenon DEF NextProxy
  <2>2. DOMAIN done = DOMAIN Blank /\ done.at = "row" /\ done.since = 0
    BY Zenon DEF Blank
  <2> HIDE DEF done
  <2>3. /\ req'[r] = done /\ DOMAIN req' = Requests
        /\ \A s \in Requests : s # r => req'[s] = req[s]
    BY <1>t, <2>1, RequestUpdate, Zenon
  <2>4. /\ lookup'[r] = NoLookup
        /\ \A s \in Requests : s # r => lookup'[s] = lookup[s]
    BY <1>t, <2>1, LeaveEffect, TasksAssumption, Zenon
  <2>5. RequestOK(r)'
    <3>1. Shaped(r)'
      BY <1>t, <1>1, <1>2, <2>2, <2>3 DEF Shaped, At
    <3> QED BY <2>2, <2>3, <2>4, <3>1, Zenon DEF RequestOK, ResolvesItsName, TrustsRecent, At
  <2> QED BY <1>1, <2>3, <2>4, <2>5, OneRequest, Zenon
<1> QED BY <1>3, <1>4, Zenon

(* At an entry of bound_ips a request is let in, turned away, or goes on to the next. *)
LEMMA NextEntryIsRight ==
    ASSUME DnsInv, DnsStep, AccessInv, NEW r \in Requests, At(r, "bound"),
           req' = Allow(r) \/ req' = NextEntry(r),
           lookup'[r] = NoLookup, primer' = primer,
           \A u \in Tasks : u # r => lookup'[u] = lookup[u]
    PROVE  AccessInv'
<1>t. DnsTypeOK /\ clock \in Nat /\ clock' \in Nat /\ clock <= clock'
  BY HistoryGrows, Zenon DEF DnsInv, DnsTypeOK
<1>u. DOMAIN req = Requests /\ RequestOK(r) /\ r \in Tasks
  BY TasksAssumption, Zenon DEF AccessInv
<1>o. \A s \in Requests : s # r => lookup'[s] = lookup[s]
  BY TasksAssumption, Zenon
<1>1. ASSUME NEW at \in {"allowed", "forbidden", "gone"},
             req' = [req EXCEPT ![r] = [Blank EXCEPT !.at = at]]
      PROVE  AccessInv'
  <2>1. /\ req'[r] = [Blank EXCEPT !.at = at] /\ DOMAIN req' = Requests
        /\ \A s \in Requests : s # r => req'[s] = req[s]
    BY <1>u, <1>1, RequestUpdate, Zenon
  <2>2. RequestOK(r)'
    BY <1>t, <2>1, OverIsRight, Zenon
  <2> QED BY <1>o, <2>1, <2>2, OneRequest, Zenon
<1>2. CASE req' = NextEntry(r) /\ req[r].next # Len(req[r].entries)
  <2> DEFINE q == [req[r] EXCEPT !.next = req[r].next + 1]
  <2>1. req' = [req EXCEPT ![r] = q]
    BY <1>2, Zenon DEF NextEntry
  <2>2. /\ DOMAIN req[r] = DOMAIN Blank /\ DOMAIN Blank' = DOMAIN Blank
        /\ req[r].since \in Nat /\ req[r].since <= clock
        /\ req[r].entries \in Seq(Addrs \cup Names) /\ req[r].next \in 1..Len(req[r].entries)
    BY <1>u, Zenon DEF RequestOK, Shaped, Blank
  <2>3. /\ DOMAIN q = DOMAIN Blank /\ q.at = "bound" /\ q.next = req[r].next + 1
        /\ q.entries = req[r].entries /\ q.since = req[r].since
    BY <2>2, Zenon DEF Blank, At
  <2> HIDE DEF q
  <2>4. /\ req'[r] = q /\ DOMAIN req' = Requests
        /\ \A s \in Requests : s # r => req'[s] = req[s]
    BY <1>u, <2>1, RequestUpdate, Zenon
  <2>5. q.next \in 1..Len(q.entries)
    BY <1>2, <2>2, <2>3, SMTT(30)
  <2>6. Shaped(r)'
    BY <1>t, <2>2, <2>3, <2>4, <2>5, SMTT(30) DEF Shaped, At
  <2>7. RequestOK(r)'
    BY <2>3, <2>4, <2>6, Zenon DEF RequestOK, ResolvesItsName, TrustsRecent, At
  <2> QED BY <1>o, <2>4, <2>7, OneRequest, Zenon
<1>3. CASE req' = NextEntry(r) /\ req[r].next = Len(req[r].entries)
  BY <1>1, <1>3, Zenon DEF NextEntry, Forbid
<1>4. CASE req' = Allow(r)
  BY <1>1, <1>4, Zenon DEF Allow
<1> QED BY <1>2, <1>3, <1>4, Zenon

(* Reading the row lets the request in, or begins at the first entry of bound_ips. *)
LEMMA ReadRowIsRight ==
    ASSUME DnsInv, DnsStep, AccessInv, NEW r \in Requests, NEW bound_ips \in Bounds,
           ReadRow(r, bound_ips)
    PROVE  AccessInv'
<1>t. clock \in Nat /\ DOMAIN req = Requests /\ RequestOK(r) /\ r \in Tasks
  BY TasksAssumption, Zenon DEF DnsInv, DnsTypeOK, AccessInv
<1>0. /\ At(r, "row") /\ clock' = clock /\ lookup' = lookup /\ primer' = primer
      /\ bound_ips \in Seq(Addrs \cup Names)
  BY BoundsAssumption, Zenon DEF ReadRow, dnsVars
<1>l. lookup[r] = NoLookup /\ lookup'[r] = NoLookup
  <2>1. ~At(r, "proxies") /\ ~At(r, "bound")
    BY <1>0, Zenon DEF At
  <2> QED BY <1>t, <1>0, <2>1, Zenon DEF RequestOK, ResolvesItsName
<1>1. CASE bound_ips = << >>
  <2>1. req' = [req EXCEPT ![r] = [Blank EXCEPT !.at = "allowed"]]
    BY <1>1, Zenon DEF ReadRow, Allow
  <2>2. /\ req'[r] = [Blank EXCEPT !.at = "allowed"] /\ DOMAIN req' = Requests
        /\ \A s \in Requests : s # r => req'[s] = req[s]
    BY <1>t, <2>1, RequestUpdate, Zenon
  <2>3. RequestOK(r)'
    BY <1>t, <1>0, <1>l, <2>2, OverIsRight, Zenon DEF DnsInv
  <2> QED BY <1>0, <2>2, <2>3, OneRequest, Zenon
<1>2. CASE bound_ips # << >>
  <2> DEFINE q == [req[r] EXCEPT !.at = "bound", !.entries = bound_ips, !.next = 1]
  <2>1. req' = [req EXCEPT ![r] = q]
    BY <1>2, Zenon DEF ReadRow
  <2>2. /\ DOMAIN req[r] = DOMAIN Blank /\ DOMAIN Blank' = DOMAIN Blank
        /\ req[r].since \in Nat /\ req[r].since <= clock /\ lookup[r] = NoLookup
    BY <1>t, <1>0, <1>l, Zenon DEF RequestOK, Shaped, Blank
  <2>3. /\ DOMAIN q = DOMAIN Blank /\ q.at = "bound" /\ q.next = 1
        /\ q.entries = bound_ips /\ q.since = req[r].since
    BY <2>2, Zenon DEF Blank
  <2> HIDE DEF q
  <2>4. /\ req'[r] = q /\ DOMAIN req' = Requests
        /\ \A s \in Requests : s # r => req'[s] = req[s]
    BY <1>t, <2>1, RequestUpdate, Zenon
  <2>5. 1 \in 1..Len(bound_ips)
    BY <1>0, <1>2, SMTT(30)
  <2>6. Shaped(r)'
    BY <1>t, <1>0, <2>2, <2>3, <2>4, <2>5, Zenon DEF Shaped, At
  <2>7. RequestOK(r)'
    BY <1>0, <2>2, <2>3, <2>4, <2>6, Zenon DEF RequestOK, ResolvesItsName, TrustsRecent, At
  <2> QED BY <1>0, <2>4, <2>7, OneRequest, Zenon
<1> QED BY <1>1, <1>2, Zenon

(* prime_with_grace changes no request and always knows its next name. *)
LEMMA PrimerIsRight ==
    ASSUME DnsInv, DnsStep, AccessInv, PrimeName \/ Primed \/ GraceIsOver
    PROVE  AccessInv'
<1>t. /\ clock \in Nat /\ DnsTypeOK /\ PrimerOK /\ Primer \in Tasks
      /\ \A r \in Requests : r \in Tasks /\ r # Primer
  BY TasksAssumption, Zenon DEF DnsInv, DnsTypeOK, AccessInv
<1>1. req' = req /\ \A r \in Requests : lookup'[r] = lookup[r]
  BY <1>t, CallEffect, LeaveEffect, Zenon DEF PrimeName, Primed, GraceIsOver, dnsVars
<1>2. PrimerOK'
  <2>0. /\ primer.next \in 1..Len(Hostnames) /\ Len(Hostnames) \in Nat
        /\ 1 \in 1..Len(Hostnames) /\ primer.since \in Nat /\ primer.failed \in BOOLEAN
    BY <1>t, HostnamesAreNames, Zenon DEF PrimerOK
  <2>1. CASE PrimeName
    BY <1>t, <2>1, Zenon DEF PrimeName, PrimerOK
  <2>2. CASE GraceIsOver
    BY <1>t, <2>2, Zenon DEF GraceIsOver, PrimerOK
  <2>3. CASE Primed /\ primer.next < Len(Hostnames)
    <3>1. PICK f \in BOOLEAN : primer' = [primer EXCEPT !.next = @ + 1, !.failed = f]
      BY Zenon, <2>3 DEF Primed
    <3>2. primer.next + 1 \in 1..Len(Hostnames)
      BY <2>0, <2>3
    <3> QED BY <1>t, <3>1, <3>2, Zenon DEF PrimerOK
  <2>4. CASE Primed /\ ~(primer.next < Len(Hostnames))
    BY <1>t, <2>0, <2>4, Zenon DEF Primed, PrimerOK
  <2> QED BY <2>1, <2>2, <2>3, <2>4, Zenon
<1>3. \A r \in Requests : RequestOK(r)'
  BY <1>1, KeptRequest, Zenon DEF AccessInv
<1> QED BY <1>1, <1>2, <1>3, Zenon DEF AccessInv

(* Every step keeps the requests right. *)
LEMMA RequestSteps == DnsInv /\ AccessInv /\ [Next]_vars => AccessInv'
<1> SUFFICES ASSUME DnsInv, AccessInv, [Next]_vars PROVE AccessInv'
  BY Zenon
<1>t. DnsStep /\ DnsTypeOK /\ \A r \in Requests : r \in Tasks /\ RequestOK(r)
  BY StepsOfResolver, TasksAssumption, Zenon DEF DnsInv, AccessInv
<1>1. ASSUME UNCHANGED <<primer, req>>,
             \A r \in Requests : lookup'[r] # NoLookup =>
                lookup[r] # NoLookup /\ lookup'[r].name = lookup[r].name
      PROVE  AccessInv'
  <2>1. \A r \in Requests : RequestOK(r)'
    BY <1>t, <1>1, KeptRequest, Zenon
  <2> QED BY <1>1, <2>1, Zenon DEF AccessInv, PrimerOK
<1>2. CASE Environment /\ UNCHANGED <<primer, req>>
  <2>1. lookup' = lookup
    BY <1>2, Zenon DEF Environment, DnsTick, Move
  <2> QED BY <1>1, <1>2, <2>1, Zenon
<1>3. ASSUME NEW t \in Tasks, Resolving(t), UNCHANGED <<primer, req>> PROVE AccessInv'
  BY <1>t, <1>1, <1>3, ResolvingKeepsNames, Zenon
<1>4. ASSUME NEW r \in Requests, NEW a \in Arrivals, Arrive(r, a) PROVE AccessInv'
  BY <1>t, <1>4, ArriveIsRight, Zenon
<1>5. ASSUME NEW r \in Requests, NextProxy(r) PROVE AccessInv'
  BY <1>t, <1>5, NextProxyIsRight, Zenon
<1>6. ASSUME NEW r \in Requests, NEW b \in Bounds, ReadRow(r, b) PROVE AccessInv'
  BY <1>t, <1>6, ReadRowIsRight, Zenon
<1>7. ASSUME NEW r \in Requests, CheckNetwork(r) PROVE AccessInv'
  <2>1. /\ At(r, "bound") /\ Entry(r) \in Addrs /\ lookup' = lookup /\ primer' = primer
        /\ req' = Allow(r) \/ req' = NextEntry(r)
    BY <1>7, Zenon DEF CheckNetwork, dnsVars
  <2>2. lookup[r] = NoLookup
    <3>1. lookup[r] # NoLookup => lookup[r].name = Entry(r) /\ lookup[r].name \in Names
      BY <1>t, <2>1, LookupFields, Zenon DEF RequestOK, ResolvesItsName
    <3> QED BY <2>1, <3>1, BoundsAssumption, Zenon
  <2> QED BY <1>t, <2>1, <2>2, NextEntryIsRight, Zenon
<1>8. ASSUME NEW r \in Requests, CallForEntry(r) PROVE AccessInv'
  <2>1. /\ At(r, "bound") /\ Call(r, Entry(r), FALSE) /\ req' = req /\ primer' = primer
        /\ clock' = clock
    BY <1>8, Zenon DEF CallForEntry, dnsRest
  <2>2. /\ lookup'[r].name = Entry(r)
        /\ \A s \in Requests : s # r => lookup'[s] = lookup[s]
    BY <1>t, <2>1, CallEffect, Zenon
  <2>3. RequestOK(r)'
    BY <1>t, <2>1, <2>2, Zenon
       DEF RequestOK, Shaped, ResolvesItsName, TrustsRecent, At, Entry, Blank
  <2> QED BY <1>t, <2>1, <2>2, <2>3, OneRequest, Zenon DEF AccessInv
<1>9. ASSUME NEW r \in Requests, CheckName(r) PROVE AccessInv'
  <2>1. /\ At(r, "bound") /\ Leave(r) /\ primer' = primer
        /\ req' = Allow(r) \/ req' = NextEntry(r)
    BY <1>9, Zenon DEF CheckName
  <2> QED BY <1>t, <2>1, LeaveEffect, NextEntryIsRight, Zenon
<1>10. ASSUME NEW r \in Requests, HangUp(r) PROVE AccessInv'
  <2>1. /\ req' = [req EXCEPT ![r] = [Blank EXCEPT !.at = "gone"]] /\ Drop(r)
        /\ primer' = primer /\ clock' = clock
    BY <1>10, Zenon DEF HangUp, Drop
  <2>2. /\ req'[r] = [Blank EXCEPT !.at = "gone"] /\ DOMAIN req' = Requests
        /\ \A s \in Requests : s # r => req'[s] = req[s]
    BY <2>1, RequestUpdate, Zenon DEF AccessInv
  <2>3. lookup'[r] = NoLookup /\ \A s \in Requests : s # r => lookup'[s] = lookup[s]
    BY <1>t, <2>1, Zenon DEF Drop, DnsTypeOK
  <2>4. RequestOK(r)'
    BY <1>t, <2>1, <2>2, <2>3, OverIsRight, Zenon DEF DnsTypeOK
  <2> QED BY <1>t, <2>1, <2>2, <2>3, <2>4, OneRequest, Zenon
<1>11. CASE PrimeName \/ Primed \/ GraceIsOver
  BY <1>t, <1>11, PrimerIsRight, Zenon
<1>12. CASE UNCHANGED vars
  BY <1>1, <1>12, Zenon DEF vars, dnsVars
<1> QED BY <1>2, <1>3, <1>4, <1>5, <1>6, <1>7, <1>8, <1>9, <1>10, <1>11, <1>12, Zenon DEF Next

(* Nothing is cached and nobody resolves at the start. *)
LEMMA ResolverStarts == DnsInit => DnsInv
<1> SUFFICES ASSUME DnsInit PROVE DnsInv
  BY Zenon
<1>1. /\ clock = 0 /\ moves = 0 /\ dns \in [Names -> DnsAnswers] /\ DOMAIN cache = {}
      /\ writer = NoTask /\ lookup = [t \in Tasks |-> NoLookup]
      /\ named = [n \in Names |-> [a \in Addrs |-> IF a \in dns[n] THEN 0 ELSE -1]]
      /\ cache \in [DOMAIN cache -> [addresses : SUBSET Addrs, attempted_at : Nat, asked : Nat]]
  BY Zenon DEF DnsInit
<1>2. DnsTypeOK
  BY <1>1 DEF DnsTypeOK
<1>3. NamedInTime
  BY <1>1 DEF NamedInTime
<1>4. AsksInTime /\ EntriesInTime /\ AnswersInTime
  BY <1>1, Zenon DEF AsksInTime, EntriesInTime, AnswersInTime, Inside
<1> QED BY <1>2, <1>3, <1>4, Zenon DEF DnsInv

(* Nobody is trusted at the start. *)
LEMMA StartIsRight == Init => DnsInv /\ AccessInv
<1> SUFFICES ASSUME Init PROVE DnsInv /\ AccessInv
  BY Zenon
<1>1. /\ DnsInit /\ req = [r \in Requests |-> Blank]
      /\ primer = [at |-> "first", next |-> 1, failed |-> FALSE, since |-> 0]
  BY Zenon DEF Init
<1>2. clock = 0 /\ lookup = [t \in Tasks |-> NoLookup]
  BY <1>1, Zenon DEF DnsInit
<1>3. PrimerOK
  BY <1>1, HostnamesAreNames, Zenon DEF PrimerOK
<1>4. ASSUME NEW r \in Requests PROVE RequestOK(r)
  <2>1. req[r] = Blank /\ Blank.at = "new" /\ Blank.since = 0
    BY <1>1, Zenon DEF Blank
  <2>2. ~At(r, "proxies") /\ ~At(r, "bound") /\ lookup[r] = NoLookup
    BY <1>2, <2>1, TasksAssumption, Zenon DEF At
  <2>3. Shaped(r)
    BY <1>2, <2>1, <2>2 DEF Shaped
  <2> QED BY <2>2, <2>3, Zenon DEF RequestOK, ResolvesItsName, TrustsRecent
<1> QED BY <1>1, <1>3, <1>4, ResolverStarts, Zenon DEF AccessInv

(* The resolver's invariant holds of the resolver by itself, whoever its callers are. *)
THEOREM ResolverInvariant == DnsSpec => []DnsInv
BY ResolverStarts, ResolverSteps, PTL DEF DnsSpec, DnsStep

(* The resolver's and the requests' invariants hold throughout. *)
THEOREM AccessInvariant == Spec => [](DnsInv /\ AccessInv)
<1>1. Init => DnsInv /\ AccessInv
  BY StartIsRight, Zenon
<1>2. DnsInv /\ AccessInv /\ [Next]_vars => (DnsInv /\ AccessInv)'
  BY StepsOfResolver, ResolverSteps, RequestSteps, Zenon
<1> QED BY <1>1, <1>2, PTL DEF Spec

(* Requests and the boot task use the resolver as any task may: auth_middleware,
   serve_feed and prime_with_grace call resolve and force_resolve one at a time, and
   each of their steps is one of the resolver's or none to it. *)
THEOREM AccessUsesTheResolver == Spec => DnsSpec
<1>1. Init => DnsInit
  BY Zenon DEF Init
<1>2. AccessInv /\ [Next]_vars => [DnsNext]_dnsVars
  BY StepsOfResolver, Zenon DEF DnsStep
<1> QED BY <1>1, <1>2, AccessInvariant, PTL DEF Spec, DnsSpec

(* Whatever resolve and force_resolve return, DNS said so less than the answer's time
   to live and one lookup ago, however long the task waited for the locks and
   whichever of them it found the answer under. *)
THEOREM ResolverIsRecent == DnsSpec => []AnswersAreRecent
<1>1. DnsInv => AnswersAreRecent
  <2> SUFFICES ASSUME DnsInv PROVE AnswersAreRecent
    BY Zenon
  <2>1. DnsTypeOK /\ clock \in Nat
    BY Zenon DEF DnsInv, DnsTypeOK
  <2>2. \A t \in Tasks : Inside(t, "done") =>
           clock - lookup[t].asked < Ttl(lookup[t].addrs) + LookupTime
    BY <2>1, TtlAssumption, LookupAssumption DEF DnsInv, AnswersInTime, AnswerInTime, Ttl
  <2> QED BY <2>1, <2>2, Zenon DEF AnswersAreRecent
<1> QED BY <1>1, ResolverInvariant, PTL

(* refresh_locked never replaces an answer by one that DNS gave earlier: it asks
   under the write lock, so that what is cached was asked for before. *)
THEOREM ResolverAdvances == DnsSpec => StoredInOrder
<1>1. DnsInv /\ [DnsNext]_dnsVars
         => [\A n \in DOMAIN cache : cache'[n].asked >= cache[n].asked]_dnsVars
  <2> SUFFICES ASSUME DnsInv, [DnsNext]_dnsVars, NEW n \in DOMAIN cache
               PROVE  cache'[n].asked >= cache[n].asked
    BY Zenon
  <2>1. DnsStep /\ cache[n].asked \in Nat
    BY EntryFields, Zenon DEF DnsInv, DnsStep
  <2>2. ASSUME NEW t \in Tasks, Store(t) PROVE cache'[n].asked >= cache[n].asked
    <3>1. AskInTime(t)
      BY <2>2, Zenon DEF DnsInv, AsksInTime, Store
    <3>2. cache'[n] = cache[n] \/ cache'[n].asked = lookup[t].asked
      BY <2>2, Zenon DEF Store
    <3> QED BY <2>1, <3>1, <3>2, SMTT(30) DEF AskInTime
  <2>3. cache' = cache \/ \E t \in Tasks : Store(t)
    BY <2>1, Zenon
       DEF DnsStep, DnsNext, Environment, DnsTick, Move, Resolving, Hit, Miss, Ask, Drop, Calls,
                Leaves, Drops, Call, Leave,
                dnsRest, dnsVars
  <2> QED BY <2>1, <2>2, <2>3
<1> QED BY <1>1, ResolverInvariant, PTL DEF DnsSpec, StoredInOrder

(* The resolver's promises, of the answers that auth_middleware, serve_feed and
   prime_with_grace get. *)
THEOREM AnswersStayRecent == Spec => []AnswersAreRecent
BY AccessUsesTheResolver, ResolverIsRecent, PTL

(* And of the entries that they have it store. *)
THEOREM EntriesAdvance == Spec => StoredInOrder
BY AccessUsesTheResolver, ResolverAdvances, PTL

(* A request moves by its own steps only. *)
LEMMA OwnSteps ==
    ASSUME AccessInv, [Next]_vars, NEW r \in Requests, req'[r] # req[r]
    PROVE  \/ \E a \in Arrivals : Arrive(r, a)
           \/ \E b \in Bounds : ReadRow(r, b)
           \/ NextProxy(r) \/ CheckNetwork(r) \/ CheckName(r) \/ HangUp(r)
<1>1. ASSUME NEW s \in Requests, s # r, NEW q, req' = [req EXCEPT ![s] = q] PROVE FALSE
  BY <1>1, RequestUpdate, Zenon DEF AccessInv
<1>2. ASSUME req' = req PROVE FALSE
  BY <1>2, Zenon
<1>3. ASSUME NEW s \in Requests, s # r PROVE ~\E a \in Arrivals : Arrive(s, a)
  BY <1>1, <1>3, Zenon DEF Arrive
<1>4. ASSUME NEW s \in Requests, s # r PROVE ~NextProxy(s)
  BY <1>1, <1>4, Zenon DEF NextProxy
<1>5. ASSUME NEW s \in Requests, s # r PROVE ~\E b \in Bounds : ReadRow(s, b)
  BY <1>1, <1>5, Zenon DEF ReadRow, Allow
<1>6. ASSUME NEW s \in Requests, s # r PROVE ~CheckNetwork(s) /\ ~CheckName(s)
  BY <1>1, <1>6, Zenon DEF CheckNetwork, CheckName, Allow, NextEntry, Forbid
<1>7. ASSUME NEW s \in Requests, s # r PROVE ~HangUp(s)
  BY <1>1, <1>7, Zenon DEF HangUp
<1>8. \A s \in Requests : ~CallForEntry(s)
  BY <1>2, Zenon DEF CallForEntry
<1>9. ~PrimeName /\ ~Primed /\ ~GraceIsOver /\ ~UNCHANGED <<primer, req>> /\ ~UNCHANGED vars
  BY <1>2, Zenon DEF PrimeName, Primed, GraceIsOver, vars
<1> QED BY <1>3, <1>4, <1>5, <1>6, <1>7, <1>8, <1>9, Zenon DEF Next

(* Forwarding headers are believed only from a proxy configured by address, or that
   a configured name resolved to shortly before the request arrived or since: what
   resolved() gathers over several awaits is recent when resolve_client_ip uses it. *)
THEOREM HeadersNeedATrustedPeer == Spec => ForwardedNeedsTrust
<1>1. DnsInv /\ AccessInv /\ [Next]_vars
         => [\A r \in Requests :
               LET peer == req[r].arrival.peer
               IN  At(r, "proxies") /\ At(r, "row")' /\ req'[r].client # peer =>
                      \/ peer \in TrustedNets
                      \/ \E i \in DOMAIN Hostnames :
                            Recently(Hostnames[i], peer, req[r].since)]_vars
  <2> SUFFICES ASSUME DnsInv, AccessInv, [Next]_vars, NEW r \in Requests,
                      At(r, "proxies"), At(r, "row")', req'[r].client # req[r].arrival.peer
               PROVE  TrustedSince(req[r].arrival.peer, req[r].since)
    BY Zenon DEF TrustedSince
  <2> DEFINE peer == req[r].arrival.peer
             trusted == req[r].trusted \cup lookup[r].addrs
  <2>t. r \in Tasks /\ RequestOK(r) /\ DOMAIN req = Requests
    BY TasksAssumption, Zenon DEF AccessInv
  <2>1. NextProxy(r)
    <3>1. req'[r] # req[r] /\ req[r].at = "proxies" /\ req'[r].at = "row"
      BY Zenon DEF At
    <3>2. ASSUME NEW at \in {"allowed", "forbidden", "gone"},
                 req' = [req EXCEPT ![r] = [Blank EXCEPT !.at = at]]
          PROVE  FALSE
      BY <2>t, <3>1, <3>2, Zenon DEF Blank
    <3>3. ~HangUp(r)
      BY <3>2, Zenon DEF HangUp
    <3>4. ~CheckNetwork(r) /\ ~CheckName(r)
      BY <3>1, Zenon DEF CheckNetwork, CheckName, At
    <3>5. ~(\E a \in Arrivals : Arrive(r, a)) /\ ~(\E b \in Bounds : ReadRow(r, b))
      BY <3>1, Zenon DEF Arrive, ReadRow, At
    <3> QED BY <3>1, <3>3, <3>4, <3>5, OwnSteps, Zenon
  <2>2. /\ Inside(r, "done") /\ lookup[r] # NoLookup /\ req[r].since \in Nat
        /\ req[r].since <= clock /\ req[r].next \in 1..Len(Hostnames)
        /\ lookup[r].name = Hostnames[req[r].next]
    BY <2>t, <2>1, Zenon DEF NextProxy, Inside, RequestOK, Shaped, ResolvesItsName
  <2>3. req'[r].client = resolve_client_ip(req[r].arrival, trusted)
    <3>1. ~(req[r].next + 1 <= Len(Hostnames))
      <4> DEFINE q == [req[r] EXCEPT !.trusted = trusted, !.next = req[r].next + 1]
      <4>1. q.at = "proxies"
        BY <2>t, Zenon DEF RequestOK, Shaped, Blank, At
      <4> HIDE DEF q
      <4>2. req[r].next + 1 <= Len(Hostnames) => req' = [req EXCEPT ![r] = q]
        BY <2>1, Zenon DEF NextProxy, q
      <4> QED BY <2>t, <4>1, <4>2, Zenon DEF At
    <3> DEFINE c == resolve_client_ip(req[r].arrival, trusted)
               q == [Blank EXCEPT !.at = "row", !.client = c]
    <3>2. req' = [req EXCEPT ![r] = q]
      BY <2>1, <3>1, Zenon DEF NextProxy
    <3> HIDE DEF c
    <3>3. q.client = c
      BY Zenon DEF Blank
    <3> HIDE DEF q
    <3> QED BY <2>t, <3>2, <3>3, Zenon DEF c
  <2>4. peer \in trusted
    BY <2>3, Zenon DEF resolve_client_ip
  <2>5. CASE peer \in req[r].trusted
    BY <2>t, <2>5, Zenon DEF RequestOK, TrustsRecent
  <2>6. CASE peer \in lookup[r].addrs
    BY <2>t, <2>2, <2>6, AnswersWereRecent, HostnamesAreNames, Zenon DEF TrustedSince
  <2> QED BY <2>4, <2>5, <2>6, Zenon
<1> QED BY <1>1, AccessInvariant, PTL DEF Spec, ForwardedNeedsTrust

(* is_allowed lets in only a client that bound_ips name, by address or by a host name
   that resolved to it a moment before it is let in; a failed lookup lets nobody in. *)
THEOREM OnlyBoundGetIn == Spec => OnlyBoundClients
<1>1. DnsInv /\ AccessInv /\ [Next]_vars
         => [\A r \in Requests : At(r, "bound") /\ At(r, "allowed")' =>
               \E i \in DOMAIN req[r].entries :
                  LET entry == req[r].entries[i]
                  IN  \/ entry = req[r].client
                      \/ entry \in Names /\ Recently(entry, req[r].client, clock)]_vars
  <2> SUFFICES ASSUME DnsInv, AccessInv, [Next]_vars, NEW r \in Requests,
                      At(r, "bound"), At(r, "allowed")'
               PROVE  \/ Entry(r) = req[r].client
                      \/ Entry(r) \in Names /\ Recently(Entry(r), req[r].client, clock)
    <3>1. ASSUME AccessInv, NEW r \in Requests, At(r, "bound")
          PROVE  req[r].next \in DOMAIN req[r].entries
      <4>1. Shaped(r)
        BY <3>1, Zenon DEF AccessInv, RequestOK
      <4>2. req[r].entries \in Seq(Addrs \cup Names) /\ req[r].next \in 1..Len(req[r].entries)
        BY <3>1, <4>1, Zenon DEF Shaped
      <4> QED BY <4>2
    <3> QED BY <3>1, Zenon DEF Entry
  <2>t. /\ r \in Tasks /\ RequestOK(r) /\ DOMAIN req = Requests /\ clock \in Nat
        /\ DOMAIN req[r] = DOMAIN Blank
    BY TasksAssumption, Zenon DEF AccessInv, DnsInv, DnsTypeOK, RequestOK, Shaped
  <2>1. req'[r] # req[r] /\ req[r].at = "bound" /\ req'[r].at = "allowed"
    BY Zenon DEF At
  <2>2. ASSUME NEW at \in {"forbidden", "gone"},
               req' = [req EXCEPT ![r] = [Blank EXCEPT !.at = at]]
        PROVE  FALSE
    BY <2>t, <2>1, <2>2, Zenon DEF Blank
  <2>3. req' # NextEntry(r)
    <3> DEFINE q == [req[r] EXCEPT !.next = req[r].next + 1]
    <3>1. q.at = "bound"
      BY <2>t, <2>1, Zenon DEF Blank
    <3> HIDE DEF q
    <3>2. req' # [req EXCEPT ![r] = q]
      BY <2>t, <2>1, <3>1, Zenon
    <3>3. NextEntry(r) = Forbid(r) \/ NextEntry(r) = [req EXCEPT ![r] = q]
      BY Zenon DEF NextEntry, q
    <3> QED BY <2>2, <3>2, <3>3, Zenon DEF Forbid
  <2>4. CheckNetwork(r) \/ CheckName(r)
    <3>1. ~HangUp(r)
      BY <2>2, Zenon DEF HangUp
    <3>2. ~(\E a \in Arrivals : Arrive(r, a)) /\ ~(\E b \in Bounds : ReadRow(r, b))
      BY <2>1, Zenon DEF Arrive, ReadRow, At
    <3>3. ~NextProxy(r)
      BY <2>1, Zenon DEF NextProxy, At
    <3> QED BY <2>1, <3>1, <3>2, <3>3, OwnSteps, Zenon
  <2>5. CASE CheckNetwork(r)
    BY <2>3, <2>5, Zenon DEF CheckNetwork
  <2>6. CASE CheckName(r)
    <3>1. /\ req[r].client \in lookup[r].addrs /\ Inside(r, "done") /\ lookup[r] # NoLookup
      BY <2>3, <2>6, Zenon DEF CheckName, Inside
    <3>2. lookup[r].name = Entry(r) /\ lookup[r].name \in Names
      BY <2>t, <3>1, LookupFields, Zenon DEF DnsInv, RequestOK, ResolvesItsName
    <3>3. Recently(lookup[r].name, req[r].client, clock)
      <4>1. clock <= clock
        BY <2>t
      <4> QED BY <2>t, <3>1, <4>1, AnswersWereRecent, Zenon
    <3> QED BY <3>2, <3>3, Zenon DEF Recently
  <2> QED BY <2>4, <2>5, <2>6, Zenon
<1> QED BY <1>1, AccessInvariant, PTL DEF Spec, OnlyBoundClients

=============================================================================
