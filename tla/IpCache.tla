------------------------------ MODULE IpCache ------------------------------
(***************************************************************************)
(* The in-memory IP cache (src/cache.rs) as pure operators: what one write *)
(* lock section of apply_full, apply_diff or evict makes of the cache, and *)
(* what a read lock section of full_sync_due returns.                      *)
(* A batch is the sequence of rows Vault listed; each row is the state of  *)
(* one address within one group, so an address may occur more than once.   *)
(* IpCacheLoop shows that the loops over a batch compute these operators.  *)
(***************************************************************************)
EXTENDS Integers, Sequences, FiniteSets

CONSTANTS
    Addrs,      \* target_address strings Vault may list
    Parseable,  \* those parse_target_address accepts
    None        \* Option::None

ASSUME ParseableAssumption == Parseable \subseteq Addrs
ASSUME NoneAssumption == None \notin Nat

Time == Nat
Stamp == Time \cup {None}

\* VaultRecord
Row == [target_address : Addrs, last_seen_at : Time, is_deleted : BOOLEAN]

\* The map of CachedRecords: the last_seen_at of each address cached, else None.
Records == [Addrs -> Stamp]

\* EndpointCache
EndpointCache ==
    [records : Records, last_synced_at : Stamp, last_full_sync_at : Stamp]

\* EndpointCache::default()
DefaultEntry ==
    [records |-> [a \in Addrs |-> None], last_synced_at |-> None, last_full_sync_at |-> None]

NewestOf(S) == CHOOSE t \in S : \A u \in S : u <= t

\* The running maximum of the loops: Option::map_or(seen, |m| m.max(seen)).
Newest(stamp, seen) ==
    LET all == seen \cup ({stamp} \ {None})
    IN  IF all = {} THEN None ELSE NewestOf(all)

\* Where a batch has a live row for a that parses, and where it has one or a
\* tombstone: the rows apply_full, respectively apply_diff, acts on.
LivePositions(batch, a) ==
    {i \in DOMAIN batch :
        batch[i].target_address = a /\ ~batch[i].is_deleted /\ a \in Parseable}
Positions(batch, a) ==
    {i \in DOMAIN batch :
        batch[i].target_address = a /\ (batch[i].is_deleted \/ a \in Parseable)}

\* records.clear(), then an insert per live row: the last one of an address wins.
FullRecords(batch) ==
    [a \in Addrs |->
        IF LivePositions(batch, a) = {} THEN None
        ELSE batch[NewestOf(LivePositions(batch, a))].last_seen_at]

\* What a row leaves for its address: nothing, if it is a tombstone.
Upsert(row) == IF row.is_deleted THEN None ELSE row.last_seen_at

\* An insert per live row, a remove per tombstone: the last row of an address
\* wins, and an address no row is for keeps what it had.
DiffRecords(old, batch) ==
    [a \in Addrs |->
        IF Positions(batch, a) = {} THEN old[a]
        ELSE Upsert(batch[NewestOf(Positions(batch, a))])]

\* The last_seen_at values each loop takes into its running maximum: a full
\* sync skips tombstones and unparseable rows first, a differential does not.
FullSeen(batch) ==
    {batch[i].last_seen_at :
        i \in {j \in DOMAIN batch : ~batch[j].is_deleted /\ batch[j].target_address \in Parseable}}
DiffSeen(batch) == {batch[i].last_seen_at : i \in DOMAIN batch}

-----------------------------------------------------------------------------
(* The cache: a function from the endpoint ids that have an entry. *)

EmptyCache == [id \in {} |-> DefaultEntry]

\* guard.entry(id).or_default()
EntryOf(cache, id) == IF id \in DOMAIN cache THEN cache[id] ELSE DefaultEntry

Put(cache, id, entry) ==
    [i \in DOMAIN cache \cup {id} |-> IF i = id THEN entry ELSE cache[i]]

apply_full(cache, id, batch, now) ==
    Put(cache, id,
        [records           |-> FullRecords(batch),
         last_synced_at    |-> Newest(EntryOf(cache, id).last_synced_at, FullSeen(batch)),
         last_full_sync_at |-> now])

apply_diff(cache, id, batch) ==
    LET entry == EntryOf(cache, id)
    IN  Put(cache, id,
            [records           |-> DiffRecords(entry.records, batch),
             last_synced_at    |-> Newest(entry.last_synced_at, DiffSeen(batch)),
             last_full_sync_at |-> entry.last_full_sync_at])

evict(cache, id) == [i \in DOMAIN cache \ {id} |-> cache[i]]

\* Faulty: an endpoint without an entry is left to the differential sync.
FullDueUnlessMissing(cache, id, interval, now) ==
    /\ id \in DOMAIN cache
    /\ cache[id].last_full_sync_at # None
    /\ now - cache[id].last_full_sync_at >= interval

\* Faulty: the first full sync is the last.
FullDueOnce(cache, id, interval, now) == EntryOf(cache, id).last_full_sync_at = None

full_sync_due(cache, id, interval, now) ==
    LET at == EntryOf(cache, id).last_full_sync_at
    IN  at # None => now - at >= interval

=============================================================================
