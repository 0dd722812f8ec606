------------------------------ MODULE DnsCache ------------------------------
(***************************************************************************)
(* DnsResolver (src/dns_cache.rs): what host names resolved to, kept for a *)
(* while, shared by every request and by the task that primes it at boot.  *)
(* A task looks under the read lock first; if it finds nothing fresh it    *)
(* waits for the write lock, looks again, and holds the lock while it asks *)
(* DNS.  The lock is granted in any order here.                            *)
(***************************************************************************)
EXTENDS Integers

CONSTANTS
    Names,          \* host names
    Addrs,          \* addresses: of clients, of proxies, of what names resolve to
    DnsAnswers,     \* what a name may resolve to: sets of addresses, {} is a failure
    Tasks,          \* tasks that may be inside the resolver
    POSITIVE_TTL,   \* how long an answer is reused
    NEGATIVE_TTL,   \* how long a failure is
    LookupTime,     \* bound: how long an answer of DNS takes to arrive
    MaxTime,        \* bound: the last instant the clock reaches
    MaxMoves,       \* bound: changes of what a name resolves to
    NoTask,         \* nobody holds the write lock
    NoLookup        \* a task outside the resolver

ASSUME TtlAssumption == POSITIVE_TTL \in Nat \ {0} /\ NEGATIVE_TTL \in Nat \ {0}
ASSUME LookupAssumption == LookupTime \in Nat
ASSUME AnswersAssumption == DnsAnswers \subseteq SUBSET Addrs
ASSUME NoTaskAssumption == NoTask \notin Tasks

VARIABLES
    clock,      \* the monotonic clock
    dns,        \* external: the addresses of each name now; none when it does not resolve
    moves,      \* changes of dns
    named,      \* history: when each address was last one of a name's
    cache,      \* DnsResolver::cache
    writer,     \* the task that holds the write lock
    lookup      \* where each task is inside resolve or force_resolve

dnsVars == <<clock, dns, moves, named, cache, writer, lookup>>

Lookup == [name : Names, forced : BOOLEAN, at : {"read", "write", "store", "done"},
           addrs : SUBSET Addrs, asked : Int]

\* The call of resolve, or of force_resolve, which begins at the write lock.
Called(name, forced) ==
    [name |-> name, forced |-> forced, at |-> IF forced THEN "write" ELSE "read",
     addrs |-> {}, asked |-> -1]

DnsInit ==
    /\ clock = 0
    /\ dns \in [Names -> DnsAnswers]
    /\ moves = 0
    /\ named = [n \in Names |-> [a \in Addrs |-> IF a \in dns[n] THEN 0 ELSE -1]]
    /\ cache = [n \in {} |-> {}]
    /\ writer = NoTask
    /\ lookup = [t \in Tasks |-> NoLookup]

\* What the histories say after a change to `now` and `names`.
NamedAt(now, names) ==
    [n \in Names |-> [a \in Addrs |-> IF a \in names[n] THEN now ELSE named[n][a]]]

Inside(t, where) == lookup[t] # NoLookup /\ lookup[t].at = where

\* Time passes, but not while an answer of DNS is overdue, nor for a task that has
\* its addresses and awaits nothing.
DnsTick ==
    /\ clock < MaxTime
    /\ \A t \in Tasks : /\ Inside(t, "store") => clock < lookup[t].asked + LookupTime
                        /\ ~Inside(t, "done")
    /\ clock' = clock + 1
    /\ named' = NamedAt(clock + 1, dns)
    /\ UNCHANGED <<dns, moves, cache, writer, lookup>>

\* A name moves to other addresses, or stops resolving.
Move(name, to) ==
    /\ moves < MaxMoves
    /\ dns[name] # to
    /\ moves' = moves + 1
    /\ dns' = [dns EXCEPT ![name] = to]
    /\ named' = NamedAt(clock, dns')
    /\ UNCHANGED <<clock, cache, writer, lookup>>

Ttl(addrs) == IF addrs # {} THEN POSITIVE_TTL ELSE NEGATIVE_TTL

\* Faulty: every answer is kept for the longer time.
FreshOneTtl(name) ==
    name \in DOMAIN cache /\ clock - cache[name].attempted_at < POSITIVE_TTL

\* The name has an entry and is_fresh says it may be reused.
Fresh(name) ==
    name \in DOMAIN cache /\ clock - cache[name].attempted_at < Ttl(cache[name].addresses)

\* The call of t returns the addresses that DNS gave at the instant `asked`.
Return(t, addrs, asked) ==
    lookup' = [lookup EXCEPT ![t] = [@ EXCEPT !.at = "done", !.addrs = addrs, !.asked = asked]]

\* A fresh entry, under the read lock or, for a task that waited, the write lock.
Hit(t) ==
    LET name == lookup[t].name
    IN  /\ Inside(t, "read") \/ (Inside(t, "write") /\ ~lookup[t].forced)
        /\ writer = NoTask
        /\ Fresh(name)
        /\ Return(t, cache[name].addresses, cache[name].asked)
        /\ UNCHANGED <<clock, dns, moves, named, cache, writer>>

Miss(t) ==
    /\ Inside(t, "read")
    /\ writer = NoTask
    /\ ~Fresh(lookup[t].name)
    /\ lookup' = [lookup EXCEPT ![t] = [@ EXCEPT !.at = "write"]]
    /\ UNCHANGED <<clock, dns, moves, named, cache, writer>>

\* Faulty: the lock is given back before DNS is asked.
AskUnlocked(t) ==
    /\ Inside(t, "write")
    /\ writer = NoTask
    /\ lookup[t].forced \/ ~Fresh(lookup[t].name)
    /\ lookup' = [lookup EXCEPT ![t] = [@ EXCEPT !.at = "store", !.asked = clock,
                                                 !.addrs = dns[lookup[t].name]]]
    /\ UNCHANGED <<clock, dns, moves, named, cache, writer>>

\* The task has the write lock; lookup_hostname asks DNS, whose answer is on its way.
\* (To have the lock earlier than the answer only keeps the others out for longer.)
Ask(t) ==
    /\ Inside(t, "write")
    /\ writer = NoTask
    /\ lookup[t].forced \/ ~Fresh(lookup[t].name)
    /\ writer' = t
    /\ lookup' = [lookup EXCEPT ![t] = [@ EXCEPT !.at = "store", !.asked = clock,
                                                 !.addrs = dns[lookup[t].name]]]
    /\ UNCHANGED <<clock, dns, moves, named, cache>>

\* The rest of refresh_locked.
Store(t) ==
    LET name  == lookup[t].name
        entry == [addresses |-> lookup[t].addrs, attempted_at |-> clock, asked |-> lookup[t].asked]
    IN  /\ Inside(t, "store")
        /\ cache' = [n \in DOMAIN cache \cup {name} |-> IF n = name THEN entry ELSE cache[n]]
        /\ writer' = NoTask
        /\ Return(t, lookup[t].addrs, lookup[t].asked)
        /\ UNCHANGED <<clock, dns, moves, named>>

\* The task is dropped at an await, and with it the lock.
Drop(t) ==
    /\ lookup' = [lookup EXCEPT ![t] = NoLookup]
    /\ writer' = IF writer = t THEN NoTask ELSE writer
    /\ UNCHANGED <<clock, dns, moves, named, cache>>

Resolving(t) == Hit(t) \/ Miss(t) \/ Ask(t) \/ Store(t)

Environment ==
    \/ DnsTick
    \/ \E name \in Names, to \in DnsAnswers : Move(name, to)

-----------------------------------------------------------------------------

DnsTypeOK ==
    /\ clock \in Nat /\ moves \in Nat
    /\ dns \in [Names -> DnsAnswers]
    /\ named \in [Names -> [Addrs -> Int]]
    /\ DOMAIN cache \subseteq Names
    /\ cache \in [DOMAIN cache -> [addresses : SUBSET Addrs, attempted_at : Nat, asked : Nat]]
    /\ writer \in Tasks \cup {NoTask}
    /\ lookup \in [Tasks -> Lookup \cup {NoLookup}]

(* The resolver's state is well formed, and whatever resolve returns, DNS said so a
   moment ago: less than the TTL of such an answer before, and the time the answer
   took to arrive, however long the task itself waited for the locks. *)
AnswersAreRecent ==
    /\ DnsTypeOK
    /\ \A t \in Tasks : Inside(t, "done") =>
          clock - lookup[t].asked < Ttl(lookup[t].addrs) + LookupTime

(* Answers do not go back in time: an entry is only ever replaced by an answer that
   DNS gave no earlier, although tasks ask at the same time, because
   refresh_locked keeps the write lock while it asks. *)
StoredInOrder ==
    [][\A n \in DOMAIN cache : cache'[n].asked >= cache[n].asked]_dnsVars

=============================================================================
