---------------------------- MODULE IpCacheLoop ----------------------------
(***************************************************************************)
(* The loops of apply_full and apply_diff (src/cache.rs), one iteration    *)
(* per step, checked against what IpCache says they compute: the map and   *)
(* the maximum are always those of the rows taken so far, so at the end    *)
(* they are FullRecords, DiffRecords and Newest of the batch.              *)
(***************************************************************************)
EXTENDS IpCache

CONSTANTS
    Batches,    \* batches Vault may answer with
    Entries     \* entries the cache may hold before

ASSUME BatchAssumption == Batches \subseteq Seq(Row)
ASSUME EntryAssumption == Entries \subseteq EndpointCache

VARIABLES
    full,           \* apply_full rather than apply_diff
    batch, entry,   \* the arguments
    taken,          \* rows consumed
    records,        \* entry.records while the loop runs
    max_last_seen   \* the running maximum

loopVars == <<full, batch, entry, taken, records, max_last_seen>>

LoopInit ==
    /\ full \in BOOLEAN
    /\ batch \in Batches
    /\ entry \in Entries
    /\ taken = 0
    /\ records = IF full THEN DefaultEntry.records ELSE entry.records
    /\ max_last_seen = entry.last_synced_at

\* max_last_seen.map_or(seen, |m| m.max(seen))
Later(m, seen) == IF m = None \/ m < seen THEN seen ELSE m

Consume ==
    /\ taken < Len(batch)
    /\ taken' = taken + 1
    /\ UNCHANGED <<full, batch, entry>>

\* Faulty: rows parse_target_address rejects are inserted as they are.
FullIterationUnparsed ==
    LET row == batch[taken + 1]
    IN  /\ full
        /\ Consume
        /\ records' = IF row.is_deleted THEN records
                      ELSE [records EXCEPT ![row.target_address] = row.last_seen_at]
        /\ max_last_seen' = IF row.is_deleted THEN max_last_seen
                            ELSE Later(max_last_seen, row.last_seen_at)

FullIteration ==
    LET row  == batch[taken + 1]
        skip == row.is_deleted \/ row.target_address \notin Parseable
    IN  /\ full
        /\ Consume
        /\ records' = IF skip THEN records
                      ELSE [records EXCEPT ![row.target_address] = row.last_seen_at]
        /\ max_last_seen' = IF skip THEN max_last_seen
                            ELSE Later(max_last_seen, row.last_seen_at)

\* Faulty: a tombstone removes nothing.
DiffIterationKeepingDeleted ==
    LET row  == batch[taken + 1]
        skip == row.is_deleted \/ row.target_address \notin Parseable
    IN  /\ ~full
        /\ Consume
        /\ max_last_seen' = Later(max_last_seen, row.last_seen_at)
        /\ records' = IF skip THEN records
                      ELSE [records EXCEPT ![row.target_address] = Upsert(row)]

DiffIteration ==
    LET row  == batch[taken + 1]
        skip == ~row.is_deleted /\ row.target_address \notin Parseable
    IN  /\ ~full
        /\ Consume
        /\ max_last_seen' = Later(max_last_seen, row.last_seen_at)
        /\ records' = IF skip THEN records
                      ELSE [records EXCEPT ![row.target_address] = Upsert(row)]

LoopNext == FullIteration \/ DiffIteration

LoopSpec == LoopInit /\ [][LoopNext]_loopVars

-----------------------------------------------------------------------------

(* The loops keep the entry well formed: a stamp is a time or absent. *)
LoopTypeOK ==
    /\ full \in BOOLEAN
    /\ batch \in Seq(Row)
    /\ entry \in EndpointCache
    /\ taken \in 0..Len(batch)
    /\ records \in Records
    /\ max_last_seen \in Stamp

Consumed == SubSeq(batch, 1, taken)

(* apply_full's loop leaves exactly FullRecords and Newest of the rows it has
   consumed: a later live row of an address overwrites an earlier one, and a
   tombstone or an unparseable row neither counts nor moves the maximum. *)
FullLoopCorrect ==
    full => /\ records = FullRecords(Consumed)
            /\ max_last_seen = Newest(entry.last_synced_at, FullSeen(Consumed))

(* apply_diff's loop leaves exactly DiffRecords and Newest of the rows it has
   consumed: the last row of an address decides whether it stays. *)
DiffLoopCorrect ==
    ~full => /\ records = DiffRecords(entry.records, Consumed)
             /\ max_last_seen = Newest(entry.last_synced_at, DiffSeen(Consumed))

=============================================================================
