-------------------------- MODULE SyncWorkerProofs --------------------------
(***************************************************************************)
(* What the operators of the IP cache return, for batches of any length:   *)
(* the newest of a batch exists, and apply_full, apply_diff and evict map  *)
(* caches to caches; the loops of apply_full and apply_diff compute        *)
(* FullRecords, DiffRecords and Newest over any set of addresses.          *)
(*                                                                         *)
(* Then the refresh protocol for any number of endpoints, groups and       *)
(* addresses, and without a bound on time, changes, edits or restarts      *)
(* other than the constants': type correctness, FullBeforeDiff,            *)
(* BootPopulates, CursorAdvances, EditsSurviveSync and DriftHasACause.     *)
(***************************************************************************)
EXTENDS SyncWorker, IpCacheLoop, WellFoundedInduction, TLAPS

(* The least-number principle, for sets: every proof by induction below is a
   proof about the least exception. *)
LEMMA LeastNat ==
    ASSUME NEW T \in SUBSET Nat, T # {}
    PROVE  \E m \in T : \A k \in T : m <= k
<1>1. \E m \in T : \A k \in T : ~(<<k, m>> \in OpToRel(<, Nat))
  BY WFMin, NatLessThanWellFounded, Zenon
<1>2. PICK m \in T : \A k \in T : ~(<<k, m>> \in OpToRel(<, Nat))
  BY <1>1, Zenon
<1>3. \A k \in T : ~(k < m)
  BY <1>2, Zenon DEF OpToRel
<1> QED BY <1>3

(* Some position of a nonempty set of positions holds the greatest value: the
   loops over a batch have a maximum to find. *)
LEMMA MaximumExists ==
    ASSUME NEW n \in Nat, NEW s \in [1..n -> Nat], NEW P \in SUBSET (1..n), P # {}
    PROVE  \E i \in P : \A j \in P : s[j] <= s[i]
<1> DEFINE Has(k) == \A Q \in SUBSET (1..k) : Q # {} => \E i \in Q : \A j \in Q : s[j] <= s[i]
           Bad == {k \in 0..n : ~Has(k)}
<1>1. SUFFICES Bad = {}
  <2>1. n \in 0..n
    OBVIOUS
  <2>2. n \notin Bad
    <3> HIDE DEF Bad
    <3> QED BY <1>1, Zenon
  <2>3. Has(n)
    BY <2>1, <2>2, Zenon
  <2> QED BY <2>3, Zenon
<1>2. SUFFICES ASSUME Bad # {} PROVE FALSE
  BY Zenon
<1>3. PICK k \in Bad : \A l \in Bad : k <= l
  <2>1. Bad \in SUBSET Nat
    OBVIOUS
  <2> HIDE DEF Bad
  <2> QED BY <1>2, <2>1, LeastNat, Zenon
<1>4. k \in 0..n /\ ~Has(k)
  BY Zenon
<1>5. k # 0
  <2>1. 1..0 = {}
    OBVIOUS
  <2>2. Has(0)
    BY <2>1, Zenon
  <2> HIDE DEF Has
  <2> QED BY <1>4, <2>2, Zenon
<1>6. Has(k - 1)
  <2>1. k - 1 \in 0..n /\ ~(k <= k - 1)
    BY <1>4, <1>5
  <2> QED BY <1>3, <2>1, Zenon
<1>7. PICK Q \in SUBSET (1..k) : Q # {} /\ ~(\E i \in Q : \A j \in Q : s[j] <= s[i])
  BY <1>4, Zenon
<1>8. Q \ {k} \in SUBSET (1..(k - 1))
  BY <1>4, <1>5
<1>9. \A j \in Q : s[j] \in Nat
  BY <1>4
<1>10. CASE Q \ {k} = {}
  <2>1. Q = {k}
    BY <1>7, <1>10, Zenon
  <2>2. s[k] <= s[k]
    BY <1>9, <2>1
  <2> QED BY <1>7, <2>1, <2>2, Zenon
<1>11. CASE Q \ {k} # {}
  <2>1. PICK i \in Q \ {k} : \A j \in Q \ {k} : s[j] <= s[i]
    BY <1>6, <1>8, <1>11, Zenon
  <2>2. CASE k \in Q /\ s[k] > s[i]
    <3>1. \A j \in Q : s[j] <= s[k]
      BY <1>9, <2>1, <2>2, SMTT(30)
    <3> QED BY <1>7, <2>2, <3>1, Zenon
  <2>3. CASE ~(k \in Q /\ s[k] > s[i])
    <3>1. \A j \in Q : s[j] <= s[i]
      BY <1>9, <2>1, <2>3
    <3> QED BY <1>7, <2>1, <3>1, Zenon
  <2> QED BY <2>2, <2>3, Zenon
<1> QED BY <1>10, <1>11, Zenon

(* The last position of a nonempty set of positions. *)
LEMMA NewestPosition ==
    ASSUME NEW n \in Nat, NEW P \in SUBSET (1..n), P # {}
    PROVE  NewestOf(P) \in P /\ \A j \in P : j <= NewestOf(P)
<1>1. [i \in 1..n |-> i] \in [1..n -> Nat]
  OBVIOUS
<1>2. \E i \in P : \A j \in P : [h \in 1..n |-> h][j] <= [h \in 1..n |-> h][i]
  BY <1>1, MaximumExists, Zenon
<1>3. \E i \in P : \A j \in P : j <= i
  BY <1>2, Zenon
<1> QED BY <1>3, Zenon DEF NewestOf

(* The newest value at a nonempty set of positions. *)
LEMMA NewestValue ==
    ASSUME NEW n \in Nat, NEW s \in [1..n -> Nat], NEW P \in SUBSET (1..n), P # {},
           NEW V, V = {s[i] : i \in P}
    PROVE  NewestOf(V) \in V /\ \A v \in V : v <= NewestOf(V)
<1>1. \E i \in P : \A j \in P : s[j] <= s[i]
  BY MaximumExists, Zenon
<1>2. \E t \in V : \A u \in V : u <= t
  BY <1>1, Zenon
<1> QED BY <1>2, Zenon DEF NewestOf

(* NewestOf is the only upper bound a set has among its members. *)
LEMMA NewestOfIs ==
    ASSUME NEW V \in SUBSET Nat, NEW t \in V, \A u \in V : u <= t
    PROVE  NewestOf(V) = t
<1> DEFINE c == NewestOf(V)
<1>1. c \in V /\ \A u \in V : u <= c
  BY Zenon DEF NewestOf
<1>2. c <= t /\ t <= c /\ c \in Nat /\ t \in Nat
  BY <1>1, Zenon
<1> QED BY <1>2

\* What Newest takes the greatest of.
Candidates(stamp, seen) == seen \cup ({stamp} \ {None})

(* Newest is the greatest of the old stamp and of the values at some positions,
   or None if there is neither. *)
LEMMA NewestIsGreatest ==
    ASSUME NEW stamp \in Stamp,
           NEW n \in Nat, NEW s \in [1..n -> Nat], NEW P \in SUBSET (1..n),
           NEW seen, seen = {s[i] : i \in P}
    PROVE  /\ Candidates(stamp, seen) \subseteq Nat
           /\ Candidates(stamp, seen) = {} => Newest(stamp, seen) = None
           /\ Candidates(stamp, seen) # {} =>
                 /\ Newest(stamp, seen) \in Candidates(stamp, seen)
                 /\ \A u \in Candidates(stamp, seen) : u <= Newest(stamp, seen)
<1> DEFINE all == Candidates(stamp, seen)
<1>0. all = seen \cup ({stamp} \ {None})
  BY Zenon DEF Candidates
<1> HIDE DEF all
<1>1. seen \subseteq Nat
  BY Zenon
<1>2. all \subseteq Nat
  BY <1>0, <1>1, Zenon DEF Stamp, Time
<1>3. all = {} => Newest(stamp, seen) = None
  BY <1>0, Zenon DEF Newest
<1>4. ASSUME all # {} PROVE \E t \in all : \A u \in all : u <= t
  <2>1. CASE P = {}
    <3>1. seen = {}
      BY <2>1, Zenon
    <3>2. all = {stamp} /\ stamp \in Nat
      BY <1>0, <1>2, <1>4, <3>1, Zenon
    <3>3. stamp <= stamp
      BY <3>2
    <3>4. stamp \in all /\ \A u \in all : u <= stamp
      BY <3>2, <3>3, Zenon
    <3> QED BY <3>4, Zenon
  <2>2. CASE P # {}
    <3>1. PICK i \in P : \A j \in P : s[j] <= s[i]
      BY <2>2, MaximumExists, Zenon
    <3>2. s[i] \in seen /\ s[i] \in Nat /\ \A u \in seen : u <= s[i]
      BY <3>1, Zenon
    <3>3. CASE stamp = None
      <4>1. all = seen
        BY <1>0, <3>3, Zenon
      <4> QED BY <3>2, <4>1, Zenon
    <3>4. CASE stamp # None
      <4>1. stamp \in Nat /\ all = seen \cup {stamp}
        BY <1>0, <3>4, Zenon DEF Stamp, Time
      <4>2. CASE stamp <= s[i]
        <5>1. s[i] \in all /\ \A u \in all : u <= s[i]
          BY <3>2, <4>1, <4>2, Zenon
        <5> QED BY <5>1, Zenon
      <4>3. CASE ~(stamp <= s[i])
        <5>1. \A u \in seen : u <= stamp
          BY <1>1, <3>2, <4>1, <4>3, SMTT(30)
        <5>2. stamp \in all /\ stamp <= stamp
          BY <4>1
        <5>3. \A u \in all : u <= stamp
          BY <4>1, <5>1, <5>2, Zenon
        <5> QED BY <5>2, <5>3, Zenon
      <4> QED BY <4>2, <4>3, Zenon
    <3> QED BY <3>3, <3>4, Zenon
  <2> QED BY <2>1, <2>2, Zenon
<1>5. ASSUME all # {}
      PROVE  Newest(stamp, seen) \in all /\ \A u \in all : u <= Newest(stamp, seen)
  <2>1. Newest(stamp, seen) = NewestOf(all)
    BY <1>0, <1>5, Zenon DEF Newest
  <2> QED BY <1>4, <1>5, <2>1, Zenon DEF NewestOf
<1> QED BY <1>2, <1>3, <1>5, Zenon DEF all

-----------------------------------------------------------------------------
(* The rows of a batch. *)

\* The last_seen_at column of a batch.
Column(b) == [i \in 1..Len(b) |-> b[i].last_seen_at]

(* A batch is a sequence of rows whose last_seen_at column holds times. *)
LEMMA BatchColumn ==
    ASSUME NEW b \in Seq(Row)
    PROVE  /\ Len(b) \in Nat /\ DOMAIN b = 1..Len(b)
           /\ Column(b) \in [1..Len(b) -> Nat]
           /\ \A i \in 1..Len(b) : b[i] \in Row /\ Column(b)[i] = b[i].last_seen_at
<1>1. Len(b) \in Nat /\ DOMAIN b = 1..Len(b)
  OBVIOUS
<1>2. \A i \in 1..Len(b) : b[i] \in Row
  OBVIOUS
<1>3. \A i \in 1..Len(b) : b[i].last_seen_at \in Nat
  BY <1>2, Zenon DEF Row, Time
<1> QED BY <1>1, <1>2, <1>3, Zenon DEF Column

(* The values the loops of apply_full and apply_diff take into their maximum. *)
LEMMA SeenColumn ==
    ASSUME NEW b \in Seq(Row)
    PROVE  /\ \E P \in SUBSET (1..Len(b)) : FullSeen(b) = {Column(b)[i] : i \in P}
           /\ \E P \in SUBSET (1..Len(b)) : DiffSeen(b) = {Column(b)[i] : i \in P}
<1> DEFINE P == {j \in DOMAIN b : ~b[j].is_deleted /\ b[j].target_address \in Parseable}
<1>1. P \in SUBSET (1..Len(b)) /\ FullSeen(b) = {Column(b)[i] : i \in P}
  <2>1. P \subseteq 1..Len(b) /\ \A i \in P : Column(b)[i] = b[i].last_seen_at
    BY BatchColumn, Zenon
  <2>2. FullSeen(b) = {b[i].last_seen_at : i \in P}
    BY Zenon DEF FullSeen
  <2> HIDE DEF P
  <2> QED BY <2>1, <2>2, Zenon
<1>2. DiffSeen(b) = {Column(b)[i] : i \in 1..Len(b)}
  <2>1. DiffSeen(b) = {b[i].last_seen_at : i \in 1..Len(b)}
    BY BatchColumn, Zenon DEF DiffSeen
  <2>2. \A i \in 1..Len(b) : Column(b)[i] = b[i].last_seen_at
    BY BatchColumn, Zenon
  <2> QED BY <2>1, <2>2, Zenon
<1> QED BY <1>1, <1>2, Zenon

(* The maximum apply_full and apply_diff store is a time, or still None. *)
LEMMA SyncedStamp ==
    ASSUME NEW stamp \in Stamp, NEW b \in Seq(Row)
    PROVE  Newest(stamp, FullSeen(b)) \in Stamp /\ Newest(stamp, DiffSeen(b)) \in Stamp
<1>1. ASSUME NEW seen, NEW P \in SUBSET (1..Len(b)), seen = {Column(b)[i] : i \in P}
      PROVE  Newest(stamp, seen) \in Stamp
  <2>1. Len(b) \in Nat /\ Column(b) \in [1..Len(b) -> Nat]
    BY BatchColumn, Zenon
  <2>2. /\ Candidates(stamp, seen) \subseteq Nat
        /\ Candidates(stamp, seen) = {} => Newest(stamp, seen) = None
        /\ Candidates(stamp, seen) # {} => Newest(stamp, seen) \in Candidates(stamp, seen)
    BY <1>1, <2>1, NewestIsGreatest, ZenonT(60)
  <2> QED BY <2>2, Zenon DEF Stamp, Time
<1> QED BY <1>1, SeenColumn, Zenon

(* The maps apply_full and apply_diff leave are maps of CachedRecords. *)
LEMMA SyncedRecords ==
    ASSUME NEW old \in Records, NEW b \in Seq(Row)
    PROVE  FullRecords(b) \in Records /\ DiffRecords(old, b) \in Records
<1>1. ASSUME NEW a \in Addrs, LivePositions(b, a) # {}
      PROVE  b[NewestOf(LivePositions(b, a))].last_seen_at \in Stamp
  <2>1. LivePositions(b, a) \in SUBSET (1..Len(b))
    BY BatchColumn, Zenon DEF LivePositions
  <2>2. NewestOf(LivePositions(b, a)) \in 1..Len(b)
    BY <1>1, <2>1, BatchColumn, NewestPosition, Zenon
  <2> QED BY <2>2, BatchColumn, Zenon DEF Row, Stamp
<1>2. ASSUME NEW a \in Addrs, Positions(b, a) # {}
      PROVE  Upsert(b[NewestOf(Positions(b, a))]) \in Stamp
  <2>1. Positions(b, a) \in SUBSET (1..Len(b))
    BY BatchColumn, Zenon DEF Positions
  <2>2. NewestOf(Positions(b, a)) \in 1..Len(b)
    BY <1>2, <2>1, BatchColumn, NewestPosition, Zenon
  <2> QED BY <2>2, BatchColumn, Zenon DEF Row, Stamp, Upsert
<1>3. None \in Stamp
  BY Zenon DEF Stamp
<1>4. FullRecords(b) \in Records
  BY <1>1, <1>3, Zenon DEF FullRecords, Records
<1>5. DiffRecords(old, b) \in Records
  BY <1>2, Zenon DEF DiffRecords, Records
<1> QED BY <1>4, <1>5, Zenon

(* entry().or_default() yields a well-formed entry. *)
LEMMA EntryType ==
    ASSUME NEW c, NEW id, id \in DOMAIN c => c[id] \in EndpointCache
    PROVE  EntryOf(c, id) \in EndpointCache
<1>1. DefaultEntry \in EndpointCache
  BY Zenon DEF DefaultEntry, EndpointCache, Records, Stamp
<1> QED BY <1>1, Zenon DEF EntryOf

(* An entry apply_full or apply_diff leaves is an EndpointCache. *)
LEMMA SyncedEntry ==
    ASSUME NEW c, NEW id, NEW b \in Seq(Row), NEW at \in Time,
           id \in DOMAIN c => c[id] \in EndpointCache
    PROVE  /\ apply_full(c, id, b, at)[id] \in EndpointCache
           /\ apply_diff(c, id, b)[id] \in EndpointCache
<1> DEFINE e == EntryOf(c, id)
<1>1. e \in EndpointCache
  BY EntryType, Zenon
<1>2. e.records \in Records /\ e.last_synced_at \in Stamp /\ e.last_full_sync_at \in Stamp
  BY <1>1, Zenon DEF EndpointCache
<1>3. /\ FullRecords(b) \in Records /\ DiffRecords(e.records, b) \in Records
      /\ Newest(e.last_synced_at, FullSeen(b)) \in Stamp
      /\ Newest(e.last_synced_at, DiffSeen(b)) \in Stamp
  BY <1>2, SyncedRecords, SyncedStamp, Zenon
<1>4. at \in Stamp
  BY Zenon DEF Stamp
<1> HIDE DEF e
<1>5. /\ [records |-> FullRecords(b), last_synced_at |-> Newest(e.last_synced_at, FullSeen(b)),
          last_full_sync_at |-> at] \in EndpointCache
      /\ [records |-> DiffRecords(e.records, b),
          last_synced_at |-> Newest(e.last_synced_at, DiffSeen(b)),
          last_full_sync_at |-> e.last_full_sync_at] \in EndpointCache
  BY <1>2, <1>3, <1>4, Zenon DEF EndpointCache
<1>6. \A v : Put(c, id, v)[id] = v
  BY Zenon DEF Put
<1> QED BY <1>5, <1>6, Zenon DEF apply_full, apply_diff, e

-----------------------------------------------------------------------------
(* The loops of apply_full and apply_diff.                                   *)

\* The rows a loop has consumed before iteration k + 1, and after it.
Before(b, k) == SubSeq(b, 1, k)
After(b, k) == SubSeq(b, 1, k + 1)

(* One iteration consumes one row and changes no earlier one. *)
LEMMA OneMoreRow ==
    ASSUME NEW b \in Seq(Row), NEW k \in 0..(Len(b) - 1)
    PROVE  /\ k \in Nat /\ b[k + 1] \in Row
           /\ Before(b, k) \in Seq(Row) /\ Len(Before(b, k)) = k
           /\ After(b, k) \in Seq(Row) /\ Len(After(b, k)) = k + 1
           /\ After(b, k)[k + 1] = b[k + 1]
           /\ \A h \in 1..k : After(b, k)[h] = Before(b, k)[h]
           /\ DOMAIN Before(b, k) = 1..k
           /\ DOMAIN After(b, k) = 1..k \cup {k + 1}
           /\ k + 1 \notin 1..k
<1>1. k \in Nat /\ k + 1 \in 1..Len(b) /\ Len(b) \in Nat
  OBVIOUS
<1>2. b[k + 1] \in Row
  BY <1>1
<1>3. /\ Before(b, k) \in Seq(Row) /\ Len(Before(b, k)) = k
      /\ \A h \in 1..k : Before(b, k)[h] = b[h]
  BY <1>1 DEF Before
<1>4. /\ After(b, k) \in Seq(Row) /\ Len(After(b, k)) = k + 1
      /\ \A h \in 1..(k + 1) : After(b, k)[h] = b[h]
  BY <1>1 DEF After
<1>5. DOMAIN Before(b, k) = 1..k /\ DOMAIN After(b, k) = 1..(k + 1)
  BY <1>3, <1>4
<1>6. 1..(k + 1) = 1..k \cup {k + 1} /\ k + 1 \notin 1..k
  BY <1>1
<1> QED BY <1>1, <1>2, <1>3, <1>4, <1>5, <1>6, Zenon

(* A position after all others is the newest. *)
LEMMA LastIsNewest ==
    ASSUME NEW k \in Nat, NEW S \in SUBSET (1..k)
    PROVE  NewestOf(S \cup {k + 1}) = k + 1
<1>1. S \cup {k + 1} \in SUBSET Nat /\ k + 1 \in S \cup {k + 1}
  OBVIOUS
<1>2. \A u \in S \cup {k + 1} : u <= k + 1
  OBVIOUS
<1> QED BY <1>1, <1>2, NewestOfIs, Zenon

(* One iteration of apply_full: insert the row, or skip it. *)
LEMMA FullRecordsStep ==
    ASSUME NEW b \in Seq(Row), NEW k \in 0..(Len(b) - 1),
           NEW row, row = b[k + 1]
    PROVE  FullRecords(After(b, k)) =
              IF row.is_deleted \/ row.target_address \notin Parseable
              THEN FullRecords(Before(b, k))
              ELSE [FullRecords(Before(b, k)) EXCEPT ![row.target_address] = row.last_seen_at]
<1> DEFINE c == Before(b, k)
           d == After(b, k)
           skip == row.is_deleted \/ row.target_address \notin Parseable
<1>0. /\ k \in Nat /\ row \in Row /\ d[k + 1] = row
      /\ \A h \in 1..k : d[h] = c[h]
      /\ DOMAIN c = 1..k /\ DOMAIN d = 1..k \cup {k + 1} /\ k + 1 \notin 1..k
      /\ c \in Seq(Row)
  BY OneMoreRow, Zenon
<1>1. row.target_address \in Addrs /\ row.is_deleted \in BOOLEAN
  BY <1>0, Zenon DEF Row
<1> HIDE DEF c, d
<1>2. ASSUME NEW a \in Addrs, skip \/ a # row.target_address
      PROVE  /\ LivePositions(d, a) = LivePositions(c, a)
             /\ FullRecords(d)[a] = FullRecords(c)[a]
  <2>1. LivePositions(d, a) = LivePositions(c, a)
    BY <1>0, <1>2, Zenon DEF LivePositions
  <2>2. LivePositions(c, a) \in SUBSET (1..k)
    BY <1>0, Zenon DEF LivePositions
  <2>3. LivePositions(c, a) # {} => NewestOf(LivePositions(c, a)) \in 1..k
    BY <1>0, <2>2, NewestPosition, Zenon
  <2> QED BY <1>0, <2>1, <2>3, Zenon DEF FullRecords
<1>3. ASSUME ~skip PROVE FullRecords(d)[row.target_address] = row.last_seen_at
  <2> DEFINE a == row.target_address
  <2>1. LivePositions(d, a) = LivePositions(c, a) \cup {k + 1}
    BY <1>0, <1>3, Zenon DEF LivePositions
  <2>2. LivePositions(c, a) \in SUBSET (1..k)
    BY <1>0, Zenon DEF LivePositions
  <2>3. NewestOf(LivePositions(d, a)) = k + 1
    BY <1>0, <2>1, <2>2, LastIsNewest, Zenon
  <2> QED BY <1>0, <1>1, <2>1, <2>3, Zenon DEF FullRecords
<1>4. FullRecords(c) = [a \in Addrs |-> FullRecords(c)[a]]
      /\ FullRecords(d) = [a \in Addrs |-> FullRecords(d)[a]]
  BY Zenon DEF FullRecords
<1>5. CASE skip
  <2>1. \A a \in Addrs : FullRecords(d)[a] = FullRecords(c)[a]
    BY <1>2, <1>5, Zenon
  <2> HIDE DEF skip
  <2> QED BY <1>4, <1>5, <2>1, Zenon DEF c, d, skip
<1>6. CASE ~skip
  <2>1. \A a \in Addrs : FullRecords(d)[a] =
           [FullRecords(c) EXCEPT ![row.target_address] = row.last_seen_at][a]
    BY <1>1, <1>2, <1>3, <1>4, <1>6, Zenon
  <2>2. FullRecords(d) = [FullRecords(c) EXCEPT ![row.target_address] = row.last_seen_at]
    BY <1>4, <2>1, Zenon
  <2> QED BY <1>6, <2>2, Zenon DEF c, d
<1> QED BY <1>5, <1>6, Zenon

(* One iteration of apply_diff: insert the row, remove its address, or skip. *)
LEMMA DiffRecordsStep ==
    ASSUME NEW old \in Records, NEW b \in Seq(Row), NEW k \in 0..(Len(b) - 1),
           NEW row, row = b[k + 1]
    PROVE  DiffRecords(old, After(b, k)) =
              IF ~row.is_deleted /\ row.target_address \notin Parseable
              THEN DiffRecords(old, Before(b, k))
              ELSE [DiffRecords(old, Before(b, k)) EXCEPT ![row.target_address] = Upsert(row)]
<1> DEFINE c == Before(b, k)
           d == After(b, k)
           skip == ~row.is_deleted /\ row.target_address \notin Parseable
<1>0. /\ k \in Nat /\ row \in Row /\ d[k + 1] = row
      /\ \A h \in 1..k : d[h] = c[h]
      /\ DOMAIN c = 1..k /\ DOMAIN d = 1..k \cup {k + 1} /\ k + 1 \notin 1..k
      /\ c \in Seq(Row)
  BY OneMoreRow, Zenon
<1>1. row.target_address \in Addrs /\ row.is_deleted \in BOOLEAN
  BY <1>0, Zenon DEF Row
<1> HIDE DEF c, d
<1>2. ASSUME NEW a \in Addrs, skip \/ a # row.target_address
      PROVE  DiffRecords(old, d)[a] = DiffRecords(old, c)[a]
  <2>1. Positions(d, a) = Positions(c, a)
    BY <1>0, <1>2, Zenon DEF Positions
  <2>2. Positions(c, a) \in SUBSET (1..k)
    BY <1>0, Zenon DEF Positions
  <2>3. Positions(c, a) # {} => NewestOf(Positions(c, a)) \in 1..k
    BY <1>0, <2>2, NewestPosition, Zenon
  <2> QED BY <1>0, <2>1, <2>3, Zenon DEF DiffRecords
<1>3. ASSUME ~skip PROVE DiffRecords(old, d)[row.target_address] = Upsert(row)
  <2> DEFINE a == row.target_address
  <2>1. Positions(d, a) = Positions(c, a) \cup {k + 1}
    BY <1>0, <1>3, Zenon DEF Positions
  <2>2. Positions(c, a) \in SUBSET (1..k)
    BY <1>0, Zenon DEF Positions
  <2>3. NewestOf(Positions(d, a)) = k + 1
    BY <1>0, <2>1, <2>2, LastIsNewest, Zenon
  <2> QED BY <1>0, <1>1, <2>1, <2>3, Zenon DEF DiffRecords
<1>4. DiffRecords(old, c) = [a \in Addrs |-> DiffRecords(old, c)[a]]
      /\ DiffRecords(old, d) = [a \in Addrs |-> DiffRecords(old, d)[a]]
  BY Zenon DEF DiffRecords
<1>5. CASE skip
  <2>1. \A a \in Addrs : DiffRecords(old, d)[a] = DiffRecords(old, c)[a]
    BY <1>2, <1>5, Zenon
  <2> HIDE DEF skip
  <2> QED BY <1>4, <1>5, <2>1, Zenon DEF c, d, skip
<1>6. CASE ~skip
  <2>1. \A a \in Addrs : DiffRecords(old, d)[a] =
           [DiffRecords(old, c) EXCEPT ![row.target_address] = Upsert(row)][a]
    BY <1>1, <1>2, <1>3, <1>4, <1>6, Zenon
  <2>2. DiffRecords(old, d) = [DiffRecords(old, c) EXCEPT ![row.target_address] = Upsert(row)]
    BY <1>4, <2>1, Zenon
  <2> QED BY <1>6, <2>2, Zenon DEF c, d
<1> QED BY <1>5, <1>6, Zenon

(* The running maximum: Later of the newest so far and one more value is the
   newest of them all. *)
LEMMA LaterIsNewest ==
    ASSUME NEW stamp \in Stamp, NEW seen \in SUBSET Nat, NEW v \in Nat,
           Candidates(stamp, seen) = {} => Newest(stamp, seen) = None,
           Candidates(stamp, seen) # {} =>
              /\ Newest(stamp, seen) \in Candidates(stamp, seen)
              /\ \A u \in Candidates(stamp, seen) : u <= Newest(stamp, seen)
    PROVE  Newest(stamp, seen \cup {v}) = Later(Newest(stamp, seen), v)
<1> DEFINE all == Candidates(stamp, seen)
           m == Newest(stamp, seen)
           more == all \cup {v}
<1>0. all \subseteq Nat /\ None \notin Nat
  BY NoneAssumption, Zenon DEF Candidates, Stamp, Time
<1>1. Candidates(stamp, seen \cup {v}) = more
  BY Zenon DEF Candidates
<1>2. Newest(stamp, seen \cup {v}) = NewestOf(more)
  BY <1>1, Zenon DEF Newest, Candidates
<1> HIDE DEF all, m
<1>3. CASE all = {}
  <2>1. m = None /\ more = {v} /\ v <= v
    BY <1>3 DEF all, m
  <2>2. NewestOf(more) = v
    BY <2>1, NewestOfIs, Zenon
  <2> QED BY <1>2, <2>1, <2>2, Zenon DEF Later, m
<1>4. CASE all # {}
  <2>1. m \in all /\ m \in Nat /\ m # None /\ \A u \in all : u <= m
    BY <1>0, <1>4, Zenon DEF all, m
  <2>2. more \in SUBSET Nat
    BY <1>0, Zenon
  <2>3. CASE m < v
    <3>1. v \in more /\ \A u \in more : u <= v
      BY <1>0, <2>1, <2>3
    <3>2. NewestOf(more) = v
      BY <2>2, <3>1, NewestOfIs, Zenon
    <3> QED BY <1>2, <2>1, <2>3, <3>2, Zenon DEF Later, m
  <2>4. CASE ~(m < v)
    <3>1. m \in more /\ \A u \in more : u <= m
      BY <1>0, <2>1, <2>4
    <3>2. NewestOf(more) = m
      BY <2>2, <3>1, NewestOfIs, Zenon
    <3> QED BY <1>2, <2>1, <2>4, <3>2, Zenon DEF Later, m
  <2> QED BY <2>3, <2>4, Zenon
<1> QED BY <1>3, <1>4, Zenon

(* The maximum of either loop after one more row. *)
LEMMA SeenStep ==
    ASSUME NEW stamp \in Stamp, NEW b \in Seq(Row), NEW k \in 0..(Len(b) - 1),
           NEW row, row = b[k + 1]
    PROVE  /\ Newest(stamp, FullSeen(After(b, k))) =
                 IF row.is_deleted \/ row.target_address \notin Parseable
                 THEN Newest(stamp, FullSeen(Before(b, k)))
                 ELSE Later(Newest(stamp, FullSeen(Before(b, k))), row.last_seen_at)
           /\ Newest(stamp, DiffSeen(After(b, k))) =
                 Later(Newest(stamp, DiffSeen(Before(b, k))), row.last_seen_at)
<1> DEFINE c == Before(b, k)
           d == After(b, k)
           skip == row.is_deleted \/ row.target_address \notin Parseable
<1>0. /\ k \in Nat /\ row \in Row /\ d[k + 1] = row
      /\ \A h \in 1..k : d[h] = c[h]
      /\ DOMAIN c = 1..k /\ DOMAIN d = 1..k \cup {k + 1} /\ k + 1 \notin 1..k
      /\ c \in Seq(Row) /\ d \in Seq(Row)
  BY OneMoreRow, Zenon
<1>1. row.last_seen_at \in Nat
  BY <1>0, Zenon DEF Row, Time
<1> HIDE DEF c, d
<1>2. skip => FullSeen(d) = FullSeen(c)
  BY <1>0 DEF FullSeen
<1>3. ~skip => FullSeen(d) = FullSeen(c) \cup {row.last_seen_at}
  BY <1>0 DEF FullSeen
<1>4. DiffSeen(d) = DiffSeen(c) \cup {row.last_seen_at}
  BY <1>0 DEF DiffSeen
<1>5. ASSUME NEW seen, NEW P \in SUBSET (1..Len(c)), seen = {Column(c)[h] : h \in P}
      PROVE  Newest(stamp, seen \cup {row.last_seen_at}) = Later(Newest(stamp, seen), row.last_seen_at)
  <2>1. Len(c) \in Nat /\ Column(c) \in [1..Len(c) -> Nat]
    BY <1>0, BatchColumn, Zenon
  <2>2. /\ Candidates(stamp, seen) = {} => Newest(stamp, seen) = None
        /\ Candidates(stamp, seen) # {} =>
              /\ Newest(stamp, seen) \in Candidates(stamp, seen)
              /\ \A u \in Candidates(stamp, seen) : u <= Newest(stamp, seen)
    BY <1>5, <2>1, NewestIsGreatest, Zenon
  <2>3. seen \in SUBSET Nat
    BY <1>5, <2>1, Zenon
  <2> QED BY <1>1, <2>2, <2>3, LaterIsNewest, Zenon
<1>6. /\ \E P \in SUBSET (1..Len(c)) : FullSeen(c) = {Column(c)[h] : h \in P}
      /\ \E P \in SUBSET (1..Len(c)) : DiffSeen(c) = {Column(c)[h] : h \in P}
  BY <1>0, SeenColumn, Zenon
<1>7. /\ Newest(stamp, FullSeen(c) \cup {row.last_seen_at})
            = Later(Newest(stamp, FullSeen(c)), row.last_seen_at)
      /\ Newest(stamp, DiffSeen(c) \cup {row.last_seen_at})
            = Later(Newest(stamp, DiffSeen(c)), row.last_seen_at)
  BY <1>5, <1>6, Zenon
<1>8. Newest(stamp, FullSeen(d)) =
         IF skip THEN Newest(stamp, FullSeen(c))
                 ELSE Later(Newest(stamp, FullSeen(c)), row.last_seen_at)
  <2> HIDE DEF skip
  <2> QED BY <1>2, <1>3, <1>7, Zenon
<1>9. Newest(stamp, DiffSeen(d)) = Later(Newest(stamp, DiffSeen(c)), row.last_seen_at)
  BY <1>4, <1>7, Zenon
<1> QED BY <1>8, <1>9, Zenon DEF c, d

-----------------------------------------------------------------------------

\* The invariant: what the loops have accumulated is what IpCache says of the
\* rows consumed so far.
LoopInv == LoopTypeOK /\ FullLoopCorrect /\ DiffLoopCorrect

(* Before the first row, the loops hold what the reference gives for no rows. *)
LEMMA LoopStarts == LoopInit => LoopInv
<1> SUFFICES ASSUME LoopInit PROVE LoopInv
  BY Zenon
<1>1. /\ full \in BOOLEAN /\ batch \in Seq(Row) /\ entry \in EndpointCache /\ taken = 0
      /\ records = IF full THEN DefaultEntry.records ELSE entry.records
      /\ max_last_seen = entry.last_synced_at
  BY BatchAssumption, EntryAssumption, Zenon DEF LoopInit
<1>2. /\ entry.records \in Records /\ entry.last_synced_at \in Stamp
      /\ DefaultEntry.records \in Records
      /\ DefaultEntry.records = [a \in Addrs |-> None]
  BY <1>1, Zenon DEF EndpointCache, DefaultEntry, Records, Stamp
<1>3. LoopTypeOK
  BY <1>1, <1>2 DEF LoopTypeOK
<1>4. Consumed = << >> /\ DOMAIN Consumed = {}
  BY <1>1 DEF Consumed
<1>5. \A a \in Addrs : LivePositions(Consumed, a) = {} /\ Positions(Consumed, a) = {}
  BY <1>4, Zenon DEF LivePositions, Positions
<1>6. FullSeen(Consumed) = {} /\ DiffSeen(Consumed) = {}
  BY <1>4, Zenon DEF FullSeen, DiffSeen
<1>7. FullRecords(Consumed) = [a \in Addrs |-> None]
  BY <1>5, Zenon DEF FullRecords
<1>8. DiffRecords(entry.records, Consumed) = entry.records
  BY <1>2, <1>5, Zenon DEF DiffRecords, Records
<1>9. Newest(entry.last_synced_at, {}) = entry.last_synced_at
  <2>1. CASE entry.last_synced_at = None
    BY <2>1, Zenon DEF Newest
  <2>2. CASE entry.last_synced_at # None
    <3>1. entry.last_synced_at \in Nat
      BY <1>2, <2>2, Zenon DEF Stamp, Time
    <3>2. {} \cup ({entry.last_synced_at} \ {None}) = {entry.last_synced_at}
      BY <2>2, Zenon
    <3>3. NewestOf({entry.last_synced_at}) = entry.last_synced_at
      BY <3>1, NewestOfIs
    <3> QED BY <3>2, <3>3, Zenon DEF Newest
  <2> QED BY <2>1, <2>2, Zenon
<1>10. FullLoopCorrect
  BY <1>1, <1>2, <1>6, <1>7, <1>9, Zenon DEF FullLoopCorrect
<1>11. DiffLoopCorrect
  BY <1>1, <1>6, <1>8, <1>9, Zenon DEF DiffLoopCorrect
<1> QED BY <1>3, <1>10, <1>11, Zenon DEF LoopInv

(* Each iteration keeps the accumulated map and maximum those of the rows it
   has consumed. *)
LEMMA LoopContinues == LoopInv /\ [LoopNext]_loopVars => LoopInv'
<1> SUFFICES ASSUME LoopInv, [LoopNext]_loopVars PROVE LoopInv'
  BY Zenon
<1> DEFINE row == batch[taken + 1]
<1>t. /\ full \in BOOLEAN /\ batch \in Seq(Row) /\ entry \in EndpointCache
      /\ taken \in 0..Len(batch) /\ records \in Records /\ max_last_seen \in Stamp
      /\ entry.records \in Records /\ entry.last_synced_at \in Stamp
  BY Zenon DEF LoopInv, LoopTypeOK, EndpointCache
<1>c. ASSUME Consume
      PROVE  /\ taken \in 0..(Len(batch) - 1) /\ row \in Row
             /\ taken' \in 0..Len(batch') /\ Len(batch) \in Nat
             /\ full' = full /\ batch' = batch /\ entry' = entry
             /\ Consumed = Before(batch, taken) /\ Consumed' = After(batch, taken)
             /\ Consumed' \in Seq(Row)
  <2>1. Len(batch) \in Nat /\ taken < Len(batch) /\ taken' = taken + 1
    BY <1>t, <1>c DEF Consume
  <2>2. taken \in 0..(Len(batch) - 1) /\ taken' \in 0..Len(batch)
    BY <1>t, <2>1
  <2>3. full' = full /\ batch' = batch /\ entry' = entry
    BY <1>c, Zenon DEF Consume
  <2>4. Consumed = Before(batch, taken) /\ Consumed' = After(batch, taken)
    BY <2>1, <2>3, Zenon DEF Consumed, Before, After
  <2> QED BY <1>t, <2>1, <2>2, <2>3, <2>4, OneMoreRow, Zenon
<1>1. ASSUME FullIteration PROVE LoopInv'
  <2> DEFINE skip == row.is_deleted \/ row.target_address \notin Parseable
  <2>1. /\ full /\ Consume
        /\ records' = IF skip THEN records
                      ELSE [records EXCEPT ![row.target_address] = row.last_seen_at]
        /\ max_last_seen' = IF skip THEN max_last_seen ELSE Later(max_last_seen, row.last_seen_at)
    BY <1>1, Zenon DEF FullIteration
  <2>2. /\ records = FullRecords(Before(batch, taken))
        /\ max_last_seen = Newest(entry.last_synced_at, FullSeen(Before(batch, taken)))
    BY <1>c, <2>1, Zenon DEF LoopInv, FullLoopCorrect
  <2>3. records' = FullRecords(After(batch, taken))
    BY <1>t, <1>c, <2>1, <2>2, FullRecordsStep, ZenonT(60)
  <2>4. max_last_seen' = Newest(entry.last_synced_at, FullSeen(After(batch, taken)))
    BY <1>t, <1>c, <2>1, <2>2, SeenStep, ZenonT(60)
  <2>5. FullLoopCorrect' /\ DiffLoopCorrect'
    BY <1>c, <2>1, <2>3, <2>4, Zenon DEF FullLoopCorrect, DiffLoopCorrect
  <2>6. records' \in Records /\ max_last_seen' \in Stamp
    BY <1>t, <1>c, <2>1, <2>3, <2>4, SyncedRecords, SyncedStamp, ZenonT(60)
  <2>7. LoopTypeOK'
    BY <1>t, <1>c, <2>1, <2>6, Zenon DEF LoopTypeOK
  <2> QED BY <2>5, <2>7, Zenon DEF LoopInv
<1>2. ASSUME DiffIteration PROVE LoopInv'
  <2> DEFINE skip == ~row.is_deleted /\ row.target_address \notin Parseable
  <2>1. /\ ~full /\ Consume
        /\ records' = IF skip THEN records
                      ELSE [records EXCEPT ![row.target_address] = Upsert(row)]
        /\ max_last_seen' = Later(max_last_seen, row.last_seen_at)
    BY <1>2, Zenon DEF DiffIteration
  <2>2. /\ records = DiffRecords(entry.records, Before(batch, taken))
        /\ max_last_seen = Newest(entry.last_synced_at, DiffSeen(Before(batch, taken)))
    BY <1>c, <2>1, Zenon DEF LoopInv, DiffLoopCorrect
  <2>3. records' = DiffRecords(entry.records, After(batch, taken))
    <3>1. entry.records \in Records /\ batch \in Seq(Row) /\ taken \in 0..(Len(batch) - 1)
      BY <1>t, <1>c, <2>1, Zenon
    <3>2. DiffRecords(entry.records, After(batch, taken)) =
             IF skip THEN DiffRecords(entry.records, Before(batch, taken))
             ELSE [DiffRecords(entry.records, Before(batch, taken)) EXCEPT ![row.target_address] = Upsert(row)]
      BY <3>1, DiffRecordsStep, SMTT(30)
    <3> HIDE DEF row, skip
    <3> QED BY <2>1, <2>2, <3>2, Zenon
  <2>4. max_last_seen' = Newest(entry.last_synced_at, DiffSeen(After(batch, taken)))
    BY <1>t, <1>c, <2>1, <2>2, SeenStep, SMTT(30)
  <2>5. FullLoopCorrect' /\ DiffLoopCorrect'
    BY <1>c, <2>1, <2>3, <2>4, SMTT(30) DEF FullLoopCorrect, DiffLoopCorrect
  <2>6. records' \in Records /\ max_last_seen' \in Stamp
    BY <1>t, <1>c, <2>1, <2>3, <2>4, SyncedRecords, SyncedStamp, ZenonT(60)
  <2>7. LoopTypeOK'
    BY <1>t, <1>c, <2>1, <2>6, Zenon DEF LoopTypeOK
  <2> QED BY <2>5, <2>7, Zenon DEF LoopInv
<1>3. CASE UNCHANGED loopVars
  BY <1>3, Zenon DEF loopVars, LoopInv, LoopTypeOK, FullLoopCorrect, DiffLoopCorrect, Consumed
<1> QED BY <1>1, <1>2, <1>3, Zenon DEF LoopNext

(* For every batch and every entry, apply_full's loop computes FullRecords and
   the maximum of the live rows that parse. *)
THEOREM FullLoopIsCorrect == LoopSpec => []FullLoopCorrect
<1>1. LoopInv => FullLoopCorrect
  BY Zenon DEF LoopInv
<1> QED BY <1>1, LoopStarts, LoopContinues, PTL DEF LoopSpec

(* For every batch and every entry, apply_diff's loop computes DiffRecords and
   the maximum of all rows. *)
THEOREM DiffLoopIsCorrect == LoopSpec => []DiffLoopCorrect
<1>1. LoopInv => DiffLoopCorrect
  BY Zenon DEF LoopInv
<1> QED BY <1>1, LoopStarts, LoopContinues, PTL DEF LoopSpec

-----------------------------------------------------------------------------
(* The refresh protocol.                                                     *)

Busy == {"fetch", "apply", "mark"}

\* The worker holds a job exactly while it is inside sync_endpoint.
JobInHand == job # NoJob <=> pc \in Busy

\* An id is used once: whatever mentions an id mentions one that was created, and
\* a row that is being evicted does not come back.
IdsUsedOnce ==
    /\ DOMAIN endpoints \subseteq created
    /\ DOMAIN cache \subseteq created
    /\ DOMAIN todo \subseteq created
    /\ evicting \subseteq created
    /\ evicting \cap DOMAIN endpoints = {}
    /\ job # NoJob => job.id \in created

\* A differential is under way only for an entry that exists, unless its endpoint
\* has been deleted meanwhile.
DiffHasEntry ==
    job # NoJob /\ ~job.full /\ job.id \in DOMAIN endpoints => job.id \in DOMAIN cache

\* While the boot pass runs, an endpoint without an entry is still to be visited,
\* is being fetched, or has failed.
BootVisitsAll ==
    phase = "boot" /\ pc # "pass" =>
        \A id \in DOMAIN endpoints \ DOMAIN cache :
            \/ id \in waiting
            \/ id \in DOMAIN todo
            \/ pc \in {"fetch", "apply"} /\ job.full /\ job.id = id

\* No cursor is ahead of the clock.
CursorsPast ==
    \A id \in DOMAIN endpoints :
        endpoints[id].last_synced_at # None => endpoints[id].last_synced_at <= now

\* The inductive invariant.
IInv ==
    /\ TypeOK
    /\ JobInHand
    /\ IdsUsedOnce
    /\ DiffHasEntry
    /\ FullBeforeDiff
    /\ BootVisitsAll
    /\ BootPopulates
    /\ CursorsPast

-----------------------------------------------------------------------------

(* Whatever Vault answers is a sequence of rows. *)
LEMMA ListingsAreBatches ==
    ASSUME TypeOK, NEW groups, NEW since, NEW b \in Listings(groups, since)
    PROVE  b \in Seq(Row)
<1> DEFINE S == Selected(groups, since)
<1>1. S \subseteq DOMAIN vault /\ DOMAIN vault \subseteq Groups \X Addrs
  BY Zenon DEF Selected, TypeOK
<1>2. S \in SUBSET (Groups \X Addrs)
  BY <1>1, Zenon
<1>3. Cardinality(S) \in Nat
  <2> HIDE DEF S
  <2> QED BY <1>2, FiniteAssumption, Zenon
<1>4. \A m \in S : RowAt(m) \in Row
  <2> SUFFICES ASSUME NEW m \in S PROVE RowAt(m) \in Row
    BY Zenon
  <2>1. m \in DOMAIN vault /\ m \in Groups \X Addrs
    BY <1>1, Zenon
  <2>2. m[2] \in Addrs
    BY <2>1, Zenon
  <2>3. vault[m] \in [last_seen_at : Time, is_deleted : BOOLEAN]
    BY <2>1, Zenon DEF TypeOK
  <2> QED BY <2>2, <2>3, Zenon DEF RowAt, Row
<1>5. PICK s \in Bijection(1..Cardinality(S), S) : b = [i \in DOMAIN s |-> RowAt(s[i])]
  BY Zenon DEF Listings
<1>6. s \in [1..Cardinality(S) -> S]
  BY <1>5, Zenon DEF Bijection, Injection
<1> HIDE DEF S
<1>7. b \in [1..Cardinality(S) -> Row]
  BY <1>4, <1>5, <1>6, ZenonT(60)
<1> QED BY <1>3, <1>7

(* The rows, jobs and cache entries every step leaves are well formed, and the
   worker has a job exactly while it is inside sync_endpoint. *)
LEMMA TypesPreserved == TypeOK /\ JobInHand /\ [Next]_vars => TypeOK' /\ JobInHand'
<1> SUFFICES ASSUME TypeOK, JobInHand, [Next]_vars PROVE TypeOK' /\ JobInHand'
  BY Zenon
<1> USE NoJobAssumption DEF IsTable, JobInHand, Busy
<1>t. /\ now \in Nat /\ now \in Time /\ now \in Stamp
      /\ DOMAIN vault \subseteq Groups \X Addrs
      /\ vault \in [DOMAIN vault -> [last_seen_at : Time, is_deleted : BOOLEAN]]
      /\ DOMAIN endpoints \subseteq Endpoints /\ endpoints \in [DOMAIN endpoints -> EndpointRow]
      /\ DOMAIN cache \subseteq Endpoints /\ cache \in [DOMAIN cache -> EndpointCache]
      /\ DOMAIN todo \subseteq Endpoints /\ todo \in [DOMAIN todo -> EndpointRow]
      /\ drift \in [Endpoints -> SUBSET Addrs]
      /\ None \in Stamp
  BY Zenon DEF TypeOK, Stamp, Time
<1>j. ASSUME pc \in Busy
      PROVE  /\ job \in Job /\ job.id \in Endpoints /\ job.groups \in GroupLists
             /\ job.since \in Stamp /\ job.full \in BOOLEAN
             /\ job.batch \in Seq(Row) /\ job.contested \in SUBSET Addrs
  <2>1. job \in Job
    BY <1>j, Zenon DEF TypeOK
  <2> QED BY <2>1, Zenon DEF Job
<1>b. ASSUME NEW what \in {"changes", "edits", "restarts"}, NEW bound, Spend(what, bound)
      PROVE  budget' \in [{"changes", "edits", "restarts"} -> Nat]
  BY <1>b DEF Spend, TypeOK
<1>n. NoRows \in [DOMAIN NoRows -> EndpointRow] /\ DOMAIN NoRows = {}
  BY Zenon DEF NoRows
<1>1. ASSUME Tick PROVE TypeOK' /\ JobInHand'
  BY <1>1 DEF TypeOK, Tick, dbVars, workerVars, history
<1>2. ASSUME NEW g \in Groups, NEW a \in Addrs,
             Observe(g, a) \/ SoftDelete(g, a) \/ HardDelete(g, a)
      PROVE  TypeOK' /\ JobInHand'
  <2>1. /\ DOMAIN vault' \subseteq Groups \X Addrs
        /\ vault' \in [DOMAIN vault' -> [last_seen_at : Time, is_deleted : BOOLEAN]]
    <3>1. <<g, a>> \in Groups \X Addrs
      BY Zenon
    <3>2. [last_seen_at |-> now, is_deleted |-> FALSE] \in [last_seen_at : Time, is_deleted : BOOLEAN]
          /\ [last_seen_at |-> now, is_deleted |-> TRUE] \in [last_seen_at : Time, is_deleted : BOOLEAN]
      BY <1>t, Zenon
    <3>3. CASE Observe(g, a)
      BY <1>t, <3>1, <3>2, <3>3, Zenon DEF Observe
    <3>4. CASE SoftDelete(g, a)
      BY <1>t, <3>1, <3>2, <3>4, Zenon DEF SoftDelete
    <3>5. CASE HardDelete(g, a)
      BY <1>t, <3>1, <3>2, <3>5, Zenon DEF HardDelete
    <3> QED BY <1>2, <3>3, <3>4, <3>5, Zenon
  <2>2. /\ Changed(a)
        /\ drift' = drift \/ drift' = [id \in Endpoints |-> drift[id] \cup {a}]
        /\ waiting' = waiting
    BY <1>2, Zenon DEF Observe, SoftDelete, HardDelete
  <2>3. drift' \in [Endpoints -> SUBSET Addrs]
    BY <1>t, <2>2
  <2>4. budget' \in [{"changes", "edits", "restarts"} -> Nat] /\ late' \in SUBSET Addrs
    BY <1>b, <2>2, ZenonT(60) DEF Changed, TypeOK
  <2> QED BY <2>1, <2>2, <2>3, <2>4, Zenon DEF TypeOK, Changed, dbVars, workerVars
<1>3. ASSUME ListEndpoints PROVE TypeOK' /\ JobInHand'
  BY <1>3, Zenon DEF TypeOK, ListEndpoints, dbVars, history
<1>4. ASSUME ListFails PROVE TypeOK' /\ JobInHand'
  <2>1. waiting' \in SUBSET Endpoints
    BY <1>4, <1>t, Zenon DEF TypeOK, ListFails
  <2> QED BY <1>4, <1>n, <2>1, Zenon DEF TypeOK, ListFails, dbVars
<1>5. ASSUME EndPass PROVE TypeOK' /\ JobInHand'
  BY <1>5, Zenon DEF TypeOK, EndPass, dbVars, history
<1>6. ASSUME Wake PROVE TypeOK' /\ JobInHand'
  BY <1>6, Zenon DEF TypeOK, Wake, dbVars, history
<1>v. ASSUME NEW id \in Endpoints, Visit(id)
      PROVE  /\ DOMAIN todo' \subseteq Endpoints /\ todo' \in [DOMAIN todo' -> EndpointRow]
             /\ todo[id].vault_groups \in GroupLists /\ todo[id].last_synced_at \in Stamp
             /\ \A since \in Stamp, all \in BOOLEAN : Request(id, since, all) \in Job
  <2>1. todo[id] \in EndpointRow
    BY <1>t, <1>v, Zenon DEF Visit
  <2>2. todo[id].vault_groups \in GroupLists /\ todo[id].last_synced_at \in Stamp
    BY <2>1, Zenon DEF EndpointRow
  <2>3. << >> \in Seq(Row)
    OBVIOUS
  <2>4. \A since \in Stamp, all \in BOOLEAN : Request(id, since, all) \in Job
    BY <2>2, <2>3, Zenon DEF Request, Job
  <2> QED BY <1>t, <1>v, <2>2, <2>4, ZenonT(60) DEF Visit
<1>7. ASSUME NEW id \in Endpoints, StartFull(id) PROVE TypeOK' /\ JobInHand'
  <2>1. Visit(id) /\ job' = Request(id, None, TRUE)
    BY <1>7, Zenon DEF StartFull
  <2>2. job' \in Job
    BY <1>t, <1>v, <2>1, Zenon
  <2> QED BY <1>7, <1>v, <2>1, <2>2, ZenonT(60) DEF TypeOK, StartFull, dbVars, history
<1>8. ASSUME NEW id \in Endpoints, StartDiff(id) PROVE TypeOK' /\ JobInHand'
  <2>1. Visit(id) /\ job' = Request(id, todo[id].last_synced_at, FALSE)
    BY <1>8 DEF StartDiff
  <2>2. job' \in Job
    BY <1>t, <1>v, <2>1, Zenon
  <2> QED BY <1>8, <1>v, <2>1, <2>2, ZenonT(60) DEF TypeOK, StartDiff, dbVars, history
<1>9. ASSUME NEW id \in Endpoints, SkipNotDue(id) PROVE TypeOK' /\ JobInHand'
  BY <1>9, <1>v, ZenonT(60) DEF TypeOK, SkipNotDue, dbVars, history
<1>10. ASSUME NEW id \in Endpoints, VaultAnswers(id) PROVE TypeOK' /\ JobInHand'
  <2>1. PICK b \in Listings(job.groups, job.since) :
           job' = [job EXCEPT !.batch = b, !.contested = Contested(job.groups)]
    BY <1>10, Zenon DEF VaultAnswers
  <2>2. pc \in Busy
    BY <1>10, Zenon DEF VaultAnswers
  <2>3. b \in Seq(Row) /\ Contested(job.groups) \in SUBSET Addrs
    BY ListingsAreBatches DEF Contested
  <2>4. job' \in Job
    BY <1>j, <2>1, <2>2, <2>3, Zenon DEF Job
  <2> QED BY <1>10, <2>2, <2>4, ZenonT(60) DEF TypeOK, VaultAnswers, dbVars, history
<1>11. ASSUME VaultErrs PROVE TypeOK' /\ JobInHand'
  <2>1. waiting' \in SUBSET Endpoints
    BY <1>11, <1>j, ZenonT(60) DEF TypeOK, VaultErrs
  <2> QED BY <1>11, <2>1, ZenonT(60) DEF TypeOK, VaultErrs, dbVars
<1>c. ASSUME pc \in Busy, NEW d \in SUBSET Addrs, NEW f, f = [drift EXCEPT ![job.id] = d]
      PROVE  f \in [Endpoints -> SUBSET Addrs]
  BY <1>c, <1>j, <1>t, ZenonT(60)
<1>12. ASSUME ApplyFull PROVE TypeOK' /\ JobInHand'
  <2>1. pc \in Busy /\ cache' = apply_full(cache, job.id, job.batch, now)
    BY <1>12, Zenon DEF ApplyFull
  <2>2. /\ DOMAIN cache' = DOMAIN cache \cup {job.id}
        /\ cache'[job.id] \in EndpointCache
        /\ \A i \in DOMAIN cache \ {job.id} : cache'[i] = cache[i]
    <3>1. /\ job.batch \in Seq(Row) /\ now \in Time
          /\ job.id \in DOMAIN cache => cache[job.id] \in EndpointCache
      BY <1>j, <1>t, <2>1, ZenonT(60)
    <3>2. apply_full(cache, job.id, job.batch, now)[job.id] \in EndpointCache
      BY <3>1, SyncedEntry, Zenon
    <3>3. /\ DOMAIN apply_full(cache, job.id, job.batch, now) = DOMAIN cache \cup {job.id}
          /\ \A i \in DOMAIN cache \ {job.id} : apply_full(cache, job.id, job.batch, now)[i] = cache[i]
      BY Zenon DEF apply_full, Put
    <3> QED BY <2>1, <3>2, <3>3, ZenonT(60)
  <2>3. cache' = [i \in DOMAIN cache' |-> cache'[i]]
    BY <2>1, ZenonT(60) DEF apply_full, Put
  <2>4. DOMAIN cache' \subseteq Endpoints /\ cache' \in [DOMAIN cache' -> EndpointCache]
    BY <1>j, <1>t, <2>1, <2>2, <2>3, ZenonT(60)
  <2>5. drift' \in [Endpoints -> SUBSET Addrs]
    BY <1>12, <1>c, <2>1, ZenonT(60) DEF ApplyFull, TypeOK
  <2> QED BY <1>12, <2>1, <2>4, <2>5, ZenonT(60) DEF TypeOK, ApplyFull, dbVars
<1>13. ASSUME ApplyDiff PROVE TypeOK' /\ JobInHand'
  <2>1. pc \in Busy /\ cache' = apply_diff(cache, job.id, job.batch)
    BY <1>13, Zenon DEF ApplyDiff
  <2>2. /\ DOMAIN cache' = DOMAIN cache \cup {job.id}
        /\ cache'[job.id] \in EndpointCache
        /\ \A i \in DOMAIN cache \ {job.id} : cache'[i] = cache[i]
    <3>1. /\ job.batch \in Seq(Row) /\ now \in Time
          /\ job.id \in DOMAIN cache => cache[job.id] \in EndpointCache
      BY <1>j, <1>t, <2>1, Zenon
    <3>2. apply_diff(cache, job.id, job.batch)[job.id] \in EndpointCache
      BY <3>1, SyncedEntry, Zenon
    <3>3. /\ DOMAIN apply_diff(cache, job.id, job.batch) = DOMAIN cache \cup {job.id}
          /\ \A i \in DOMAIN cache \ {job.id} : apply_diff(cache, job.id, job.batch)[i] = cache[i]
      BY Zenon DEF apply_diff, Put
    <3> QED BY <2>1, <3>2, <3>3, ZenonT(60)
  <2>3. cache' = [i \in DOMAIN cache' |-> cache'[i]]
    BY <2>1, Zenon DEF apply_diff, Put
  <2>4. DOMAIN cache' \subseteq Endpoints /\ cache' \in [DOMAIN cache' -> EndpointCache]
    BY <1>j, <1>t, <2>1, <2>2, <2>3, ZenonT(60)
  <2>5. drift[job.id] \cup job.contested \cup Unreported \in SUBSET Addrs
    BY <1>j, <1>t, <2>1, ZenonT(60) DEF Unreported
  <2>6. drift' \in [Endpoints -> SUBSET Addrs]
    BY <1>13, <1>c, <2>1, <2>5, ZenonT(60) DEF ApplyDiff
  <2> QED BY <1>13, <2>1, <2>4, <2>6, ZenonT(60) DEF TypeOK, ApplyDiff, dbVars
<1>14. ASSUME MarkSynced PROVE TypeOK' /\ JobInHand'
  <2>1. pc \in Busy /\ job.id \in DOMAIN endpoints
    BY <1>14, Zenon DEF MarkSynced, MarkDone
  <2>2. drift' \in [Endpoints -> SUBSET Addrs]
    BY <1>14, <1>j, <1>t, <2>1, ZenonT(60) DEF MarkSynced, MarkDone, TypeOK
  <2>3. endpoints' \in [DOMAIN endpoints -> EndpointRow]
    BY <1>14, <1>t, <2>1, ZenonT(60) DEF MarkSynced, EndpointRow
  <2> QED BY <1>14, <1>t, <2>2, <2>3, ZenonT(60) DEF TypeOK, MarkSynced, MarkDone
<1>15. ASSUME MarkFails PROVE TypeOK' /\ JobInHand'
  BY <1>15, Zenon DEF TypeOK, MarkFails, dbVars
<1>16. ASSUME BootTimeout PROVE TypeOK' /\ JobInHand'
  <2>1. waiting' \in SUBSET Endpoints
    BY <1>16, <1>t, ZenonT(60) DEF TypeOK, BootTimeout
  <2> QED BY <1>16, <1>n, <2>1, ZenonT(60) DEF TypeOK, BootTimeout, dbVars
<1>17. ASSUME NEW id \in Endpoints, NEW groups \in GroupLists, NEW ttl \in Ttls,
              create_endpoint(id, groups, ttl)
       PROVE  TypeOK' /\ JobInHand'
  <2>1. Row0(groups, ttl) \in EndpointRow
    BY <1>t DEF Row0, EndpointRow
  <2>2. DOMAIN endpoints' \subseteq Endpoints /\ endpoints' \in [DOMAIN endpoints' -> EndpointRow]
    BY <1>17, <1>t, <2>1, ZenonT(60) DEF create_endpoint
  <2> QED BY <1>17, <2>2, ZenonT(60) DEF TypeOK, create_endpoint, workerVars
<1>18. ASSUME NEW id \in Endpoints, NEW groups \in GroupLists, NEW ttl \in Ttls,
              update_endpoint(id, groups, ttl)
       PROVE  TypeOK' /\ JobInHand'
  <2>1. endpoints' \in [DOMAIN endpoints -> EndpointRow]
    BY <1>18, <1>t DEF update_endpoint, EndpointRow
  <2>2. budget' \in [{"changes", "edits", "restarts"} -> Nat]
    BY <1>18, <1>b, Zenon DEF update_endpoint
  <2>3. drift' \in [Endpoints -> SUBSET Addrs]
    BY <1>18, <1>t, Zenon DEF update_endpoint
  <2> QED BY <1>18, <1>t, <2>1, <2>2, <2>3, ZenonT(60) DEF TypeOK, update_endpoint, workerVars
<1>19. ASSUME NEW id \in Endpoints, delete_endpoint(id) PROVE TypeOK' /\ JobInHand'
  <2>1. DOMAIN endpoints' \subseteq Endpoints /\ endpoints' \in [DOMAIN endpoints' -> EndpointRow]
    BY <1>19, <1>t, ZenonT(60) DEF delete_endpoint
  <2> QED BY <1>19, <2>1, ZenonT(60) DEF TypeOK, delete_endpoint, workerVars, history
<1>20. ASSUME NEW id \in Endpoints, EvictDeleted(id) PROVE TypeOK' /\ JobInHand'
  <2>1. DOMAIN cache' \subseteq Endpoints /\ cache' \in [DOMAIN cache' -> EndpointCache]
    BY <1>20, <1>t DEF EvictDeleted, evict
  <2> QED BY <1>20, <2>1, ZenonT(60) DEF TypeOK, EvictDeleted, workerVars, history
<1>21. ASSUME Restart PROVE TypeOK' /\ JobInHand'
  <2>1. DOMAIN EmptyCache = {} /\ EmptyCache \in [DOMAIN EmptyCache -> EndpointCache]
    BY Zenon DEF EmptyCache
  <2>2. budget' \in [{"changes", "edits", "restarts"} -> Nat]
    BY <1>21, <1>b, ZenonT(60) DEF Restart
  <2> QED BY <1>21, <1>n, <2>1, <2>2, ZenonT(60) DEF TypeOK, Restart
<1>22. CASE UNCHANGED vars
  BY <1>22, ZenonT(60) DEF TypeOK, vars, dbVars, workerVars, history
<1> QED BY <1>1, <1>2, <1>3, <1>4, <1>5, <1>6, <1>7, <1>8, <1>9, <1>10, <1>11, <1>12, <1>13,
           <1>14, <1>15, <1>16, <1>17, <1>18, <1>19, <1>20, <1>21, <1>22, ZenonT(60)
        DEF Next, VaultStep, AdminStep, SyncStep

-----------------------------------------------------------------------------

(* Once an id is deleted it is gone: no row, job or pass resurrects it. *)
LEMMA IdsPreserved == IInv /\ [Next]_vars => IdsUsedOnce'
<1> SUFFICES ASSUME IInv, [Next]_vars PROVE IdsUsedOnce'
  BY Zenon
<1>0. TypeOK /\ JobInHand /\ IdsUsedOnce
  BY Zenon DEF IInv
<1> USE <1>0 DEF IdsUsedOnce, JobInHand, Busy
<1>1. ASSUME Tick PROVE IdsUsedOnce'
  BY <1>1, Zenon DEF Tick, dbVars, workerVars
<1>2. ASSUME NEW g \in Groups, NEW a \in Addrs,
             Observe(g, a) \/ SoftDelete(g, a) \/ HardDelete(g, a)
      PROVE  IdsUsedOnce'
  BY <1>2, Zenon DEF Observe, SoftDelete, HardDelete, Changed, dbVars, workerVars
<1>3. ASSUME ListEndpoints PROVE IdsUsedOnce'
  BY <1>3, Zenon DEF ListEndpoints, dbVars
<1>4. ASSUME ListFails PROVE IdsUsedOnce'
  BY <1>4, Zenon DEF ListFails, NoRows, dbVars
<1>5. ASSUME EndPass \/ Wake PROVE IdsUsedOnce'
  BY <1>5, Zenon DEF EndPass, Wake, dbVars
<1>6. ASSUME NEW id \in Endpoints, StartFull(id) \/ StartDiff(id) PROVE IdsUsedOnce'
  <2>1. id \in DOMAIN todo /\ DOMAIN todo' = DOMAIN todo \ {id} /\ job'.id = id
    BY <1>6 DEF StartFull, StartDiff, Visit, Request
  <2>2. endpoints' = endpoints /\ created' = created /\ evicting' = evicting /\ cache' = cache
    BY <1>6, Zenon DEF StartFull, StartDiff, dbVars
  <2> QED BY <2>1, <2>2, ZenonT(60)
<1>7. ASSUME NEW id \in Endpoints, SkipNotDue(id) PROVE IdsUsedOnce'
  BY <1>7, Zenon DEF SkipNotDue, Visit, dbVars
<1>8. ASSUME NEW id \in Endpoints, VaultAnswers(id) PROVE IdsUsedOnce'
  <2>1. job # NoJob /\ job \in Job
    BY <1>8, Zenon DEF VaultAnswers, TypeOK
  <2>2. job'.id = job.id
    BY <1>8, <2>1, Zenon DEF VaultAnswers, Job
  <2> QED BY <1>8, <2>1, <2>2, Zenon DEF VaultAnswers, dbVars
<1>9. ASSUME VaultErrs \/ MarkFails PROVE IdsUsedOnce'
  BY <1>9, Zenon DEF VaultErrs, MarkFails, dbVars
<1>10. ASSUME ApplyFull \/ ApplyDiff PROVE IdsUsedOnce'
  <2>1. DOMAIN cache' = DOMAIN cache \cup {job.id} /\ job # NoJob
    BY <1>10, Zenon DEF ApplyFull, ApplyDiff, apply_full, apply_diff, Put
  <2> QED BY <1>10, <2>1, Zenon DEF ApplyFull, ApplyDiff, dbVars
<1>11. ASSUME MarkSynced PROVE IdsUsedOnce'
  BY <1>11, Zenon DEF MarkSynced, MarkDone
<1>12. ASSUME BootTimeout PROVE IdsUsedOnce'
  BY <1>12, Zenon DEF BootTimeout, NoRows, dbVars
<1>13. ASSUME NEW id \in Endpoints, NEW groups \in GroupLists, NEW ttl \in Ttls,
              create_endpoint(id, groups, ttl)
       PROVE  IdsUsedOnce'
  BY <1>13, Zenon DEF create_endpoint, workerVars
<1>14. ASSUME NEW id \in Endpoints, NEW groups \in GroupLists, NEW ttl \in Ttls,
              update_endpoint(id, groups, ttl)
       PROVE  IdsUsedOnce'
  BY <1>14, Zenon DEF update_endpoint, workerVars
<1>15. ASSUME NEW id \in Endpoints, delete_endpoint(id) PROVE IdsUsedOnce'
  BY <1>15, Zenon DEF delete_endpoint, workerVars
<1>16. ASSUME NEW id \in Endpoints, EvictDeleted(id) PROVE IdsUsedOnce'
  BY <1>16, Zenon DEF EvictDeleted, evict, workerVars
<1>17. ASSUME Restart PROVE IdsUsedOnce'
  BY <1>17, Zenon DEF Restart, EmptyCache, NoRows
<1>18. CASE UNCHANGED vars
  BY <1>18, ZenonT(60) DEF vars, dbVars, workerVars
<1> QED BY <1>1, <1>2, <1>3, <1>4, <1>5, <1>6, <1>7, <1>8, <1>9, <1>10, <1>11, <1>12, <1>13,
           <1>14, <1>15, <1>16, <1>17, <1>18, ZenonT(60)
        DEF Next, VaultStep, AdminStep, SyncStep

(* A differential sync finds an entry a full sync filled, or its endpoint is
   gone: an entry of a live endpoint disappears only when the process does. *)
LEMMA EntriesPreserved == IInv /\ [Next]_vars => DiffHasEntry' /\ FullBeforeDiff'
<1> SUFFICES ASSUME IInv, [Next]_vars PROVE DiffHasEntry' /\ FullBeforeDiff'
  BY Zenon
<1>0. TypeOK /\ JobInHand /\ IdsUsedOnce /\ DiffHasEntry /\ FullBeforeDiff
  BY Zenon DEF IInv
<1> USE <1>0 DEF DiffHasEntry, FullBeforeDiff
<1>j. ASSUME pc \in Busy
      PROVE  job # NoJob /\ job \in Job /\ job.id \in created
  BY <1>j, Zenon DEF TypeOK, JobInHand, IdsUsedOnce
<1>1. ASSUME endpoints' = endpoints, cache' = cache, job' = job \/ job' = NoJob
      PROVE  DiffHasEntry' /\ FullBeforeDiff'
  BY <1>1, Zenon
<1>2. ASSUME NEW id \in Endpoints, StartFull(id) PROVE DiffHasEntry' /\ FullBeforeDiff'
  <2>1. job'.full = TRUE /\ endpoints' = endpoints /\ cache' = cache
    BY <1>2, Zenon DEF StartFull, Request, dbVars
  <2> QED BY <2>1, Zenon
<1>3. ASSUME NEW id \in Endpoints, StartDiff(id) PROVE DiffHasEntry' /\ FullBeforeDiff'
  <2>1. job'.id = id /\ endpoints' = endpoints /\ cache' = cache
    BY <1>3, Zenon DEF StartDiff, Request, dbVars
  <2>2. id \in DOMAIN cache
    BY <1>3, Zenon DEF StartDiff, full_sync_due, EntryOf, DefaultEntry
  <2> QED BY <2>1, <2>2, Zenon
<1>4. ASSUME NEW id \in Endpoints, VaultAnswers(id) PROVE DiffHasEntry' /\ FullBeforeDiff'
  <2>1. job # NoJob /\ job \in Job
    BY <1>4, <1>j, Zenon DEF VaultAnswers, Busy
  <2>2. job'.id = job.id /\ job'.full = job.full /\ endpoints' = endpoints /\ cache' = cache
    BY <1>4, <2>1, Zenon DEF VaultAnswers, Job, dbVars
  <2> QED BY <2>1, <2>2, Zenon
<1>5. ASSUME ApplyFull PROVE DiffHasEntry' /\ FullBeforeDiff'
  <2>1. pc \in Busy /\ endpoints' = endpoints /\ job' = job
    BY <1>5, Zenon DEF ApplyFull, Busy, dbVars
  <2>2. cache' = apply_full(cache, job.id, job.batch, now)
    BY <1>5, Zenon DEF ApplyFull
  <2>3. /\ DOMAIN cache' = DOMAIN cache \cup {job.id}
        /\ \A i \in DOMAIN cache \ {job.id} : cache'[i] = cache[i]
    BY <2>2, Zenon DEF apply_full, Put
  <2>4. cache'[job.id].last_full_sync_at = now
    BY <2>2, Zenon DEF apply_full, Put
  <2>5. now # None
    BY NoneAssumption, Zenon DEF TypeOK
  <2> QED BY <2>1, <2>3, <2>4, <2>5, Zenon
<1>6. ASSUME ApplyDiff PROVE DiffHasEntry' /\ FullBeforeDiff'
  <2>1. pc \in Busy /\ endpoints' = endpoints /\ job' = job /\ ~job.full
    BY <1>6, Zenon DEF ApplyDiff, Busy, dbVars
  <2>2. cache' = apply_diff(cache, job.id, job.batch)
    BY <1>6, Zenon DEF ApplyDiff
  <2>3. /\ DOMAIN cache' = DOMAIN cache \cup {job.id}
        /\ \A i \in DOMAIN cache \ {job.id} : cache'[i] = cache[i]
    BY <2>2, Zenon DEF apply_diff, Put
  <2>4. cache'[job.id].last_full_sync_at = EntryOf(cache, job.id).last_full_sync_at
    BY <2>2, Zenon DEF apply_diff, Put
  <2>5. job.id \in DOMAIN endpoints =>
           job.id \in DOMAIN cache /\ cache[job.id].last_full_sync_at # None
    BY <1>j, <2>1, Zenon
  <2>6. job.id \in DOMAIN endpoints => cache'[job.id].last_full_sync_at # None
    BY <2>4, <2>5, Zenon DEF EntryOf
  <2> QED BY <2>1, <2>3, <2>6, Zenon
<1>7. ASSUME MarkSynced PROVE DiffHasEntry' /\ FullBeforeDiff'
  <2>1. DOMAIN endpoints' = DOMAIN endpoints /\ cache' = cache /\ job' = NoJob
    BY <1>7, Zenon DEF MarkSynced, MarkDone
  <2> QED BY <2>1, Zenon
<1>8. ASSUME NEW id \in Endpoints, NEW groups \in GroupLists, NEW ttl \in Ttls,
             create_endpoint(id, groups, ttl)
      PROVE  DiffHasEntry' /\ FullBeforeDiff'
  <2>1. /\ DOMAIN endpoints' = DOMAIN endpoints \cup {id} /\ id \notin created
        /\ cache' = cache /\ job' = job
    BY <1>8, Zenon DEF create_endpoint, workerVars
  <2>2. id \notin DOMAIN cache /\ (job # NoJob => job.id # id)
    BY <2>1, Zenon DEF IdsUsedOnce
  <2> QED BY <2>1, <2>2, Zenon
<1>9. ASSUME NEW id \in Endpoints, NEW groups \in GroupLists, NEW ttl \in Ttls,
             update_endpoint(id, groups, ttl)
      PROVE  DiffHasEntry' /\ FullBeforeDiff'
  <2>1. DOMAIN endpoints' = DOMAIN endpoints /\ cache' = cache /\ job' = job
    BY <1>9, Zenon DEF update_endpoint, workerVars
  <2> QED BY <2>1, Zenon
<1>10. ASSUME NEW id \in Endpoints, delete_endpoint(id) PROVE DiffHasEntry' /\ FullBeforeDiff'
  <2>1. DOMAIN endpoints' = DOMAIN endpoints \ {id} /\ cache' = cache /\ job' = job
    BY <1>10, Zenon DEF delete_endpoint, workerVars
  <2> QED BY <2>1, Zenon
<1>11. ASSUME NEW id \in Endpoints, EvictDeleted(id) PROVE DiffHasEntry' /\ FullBeforeDiff'
  <2>1. /\ id \notin DOMAIN endpoints /\ endpoints' = endpoints /\ job' = job
        /\ DOMAIN cache' = DOMAIN cache \ {id}
        /\ \A i \in DOMAIN cache \ {id} : cache'[i] = cache[i]
    BY <1>11, Zenon DEF EvictDeleted, evict, workerVars, IdsUsedOnce
  <2> QED BY <2>1, Zenon
<1>12. ASSUME Restart PROVE DiffHasEntry' /\ FullBeforeDiff'
  BY <1>12, Zenon DEF Restart, EmptyCache
<1>13. ASSUME Tick \/ ListEndpoints \/ ListFails \/ EndPass \/ Wake \/ VaultErrs \/ MarkFails
              \/ BootTimeout \/ (\E id \in Endpoints : SkipNotDue(id)) \/ UNCHANGED vars
       PROVE  DiffHasEntry' /\ FullBeforeDiff'
  <2>1. endpoints' = endpoints /\ cache' = cache /\ (job' = job \/ job' = NoJob)
    BY <1>13, Zenon
       DEF Tick, ListEndpoints, ListFails, EndPass, Wake, VaultErrs, MarkFails, BootTimeout,
                 SkipNotDue, vars, dbVars, workerVars
  <2> QED BY <1>1, <2>1, Zenon
<1>14. ASSUME NEW g \in Groups, NEW a \in Addrs,
              Observe(g, a) \/ SoftDelete(g, a) \/ HardDelete(g, a)
       PROVE  DiffHasEntry' /\ FullBeforeDiff'
  <2>1. endpoints' = endpoints /\ cache' = cache /\ job' = job
    BY <1>14, ZenonT(60) DEF Observe, SoftDelete, HardDelete, Changed, dbVars, workerVars
  <2> QED BY <1>1, <2>1, ZenonT(60)
<1> QED BY <1>2, <1>3, <1>4, <1>5, <1>6, <1>7, <1>8, <1>9, <1>10, <1>11, <1>12, <1>13, <1>14,
           ZenonT(60)
        DEF Next, VaultStep, AdminStep, SyncStep

(* The boot pass accounts for every endpoint, and afterwards the only endpoints
   without an entry are the ones in waiting. *)
LEMMA BootPreserved == IInv /\ [Next]_vars => BootVisitsAll' /\ BootPopulates'
<1> SUFFICES ASSUME IInv, [Next]_vars PROVE BootVisitsAll' /\ BootPopulates'
  BY Zenon
<1>0. TypeOK /\ JobInHand /\ IdsUsedOnce /\ BootVisitsAll /\ BootPopulates
  BY Zenon DEF IInv
<1> DEFINE Bare == DOMAIN endpoints \ DOMAIN cache
<1>p. phase \in {"boot", "serving"}
  BY <1>0, Zenon DEF TypeOK
<1> USE <1>0, <1>p DEF BootVisitsAll, BootPopulates
<1>1. ASSUME Bare' \subseteq Bare, waiting \subseteq waiting', phase' = phase, pc' = pc,
             todo' = todo, job' = job
      PROVE  BootVisitsAll' /\ BootPopulates'
  BY <1>1, Zenon
<1>2. ASSUME ListEndpoints PROVE BootVisitsAll' /\ BootPopulates'
  BY <1>2, Zenon DEF ListEndpoints, dbVars, history
<1>3. ASSUME ListFails \/ BootTimeout PROVE BootVisitsAll' /\ BootPopulates'
  <2>1. Bare' \subseteq waiting'
    BY <1>3, Zenon DEF ListFails, BootTimeout, dbVars
  <2> QED BY <2>1, Zenon
<1>4. ASSUME EndPass PROVE BootVisitsAll' /\ BootPopulates'
  <2>1. pc = "next" /\ DOMAIN todo = {} /\ phase' = "serving"
        /\ endpoints' = endpoints /\ cache' = cache /\ waiting' = waiting
    BY <1>4, Zenon DEF EndPass, NoRows, dbVars, history
  <2> QED BY <2>1, Zenon
<1>5. ASSUME Wake PROVE BootVisitsAll' /\ BootPopulates'
  <2>1. pc' = "pass" /\ phase' = phase
        /\ endpoints' = endpoints /\ cache' = cache /\ waiting' = waiting
    BY <1>5, Zenon DEF Wake, dbVars, history
  <2> QED BY <2>1, Zenon
<1>6. ASSUME NEW id \in Endpoints, StartFull(id) PROVE BootVisitsAll' /\ BootPopulates'
  <2>1. /\ pc = "next" /\ pc' = "fetch" /\ DOMAIN todo' = DOMAIN todo \ {id}
        /\ job'.id = id /\ job'.full = TRUE /\ phase' = phase
        /\ endpoints' = endpoints /\ cache' = cache /\ waiting' = waiting
    BY <1>6, Zenon DEF StartFull, Visit, Request, dbVars, history
  <2> QED BY <2>1, Zenon
<1>7. ASSUME NEW id \in Endpoints, StartDiff(id) \/ SkipNotDue(id)
      PROVE  BootVisitsAll' /\ BootPopulates'
  <2>1. /\ pc = "next" /\ DOMAIN todo' = DOMAIN todo \ {id} /\ phase' = phase
        /\ endpoints' = endpoints /\ cache' = cache /\ waiting' = waiting
    BY <1>7, Zenon DEF StartDiff, SkipNotDue, Visit, dbVars, history
  <2>2. id \in DOMAIN cache
    BY <1>7, Zenon DEF StartDiff, SkipNotDue, full_sync_due, EntryOf, DefaultEntry
  <2> QED BY <2>1, <2>2, Zenon
<1>8. ASSUME NEW id \in Endpoints, VaultAnswers(id) PROVE BootVisitsAll' /\ BootPopulates'
  <2>1. pc = "fetch" /\ job # NoJob
    BY <1>8, Zenon DEF VaultAnswers, JobInHand, Busy
  <2>2. job \in Job
    BY <2>1, Zenon DEF TypeOK
  <2>3. /\ job'.id = job.id /\ job'.full = job.full /\ pc' = "apply"
        /\ endpoints' = endpoints /\ cache' = cache /\ waiting' = waiting
        /\ todo' = todo /\ phase' = phase
    BY <1>8, <2>2, Zenon DEF VaultAnswers, Job, dbVars, history
  <2> QED BY <2>1, <2>3, Zenon
<1>9. ASSUME VaultErrs PROVE BootVisitsAll' /\ BootPopulates'
  <2>1. /\ pc = "fetch" /\ pc' = "next" /\ waiting' = waiting \cup ({job.id} \ DOMAIN cache)
        /\ endpoints' = endpoints /\ cache' = cache /\ todo' = todo /\ phase' = phase
    BY <1>9, Zenon DEF VaultErrs, dbVars
  <2> QED BY <2>1, Zenon
<1>10. ASSUME ApplyFull PROVE BootVisitsAll' /\ BootPopulates'
  <2>1. /\ pc = "apply" /\ pc' = "mark" /\ waiting' = waiting \ {job.id}
        /\ DOMAIN cache' = DOMAIN cache \cup {job.id}
        /\ endpoints' = endpoints /\ todo' = todo /\ phase' = phase
    BY <1>10, Zenon DEF ApplyFull, apply_full, Put, dbVars
  <2> QED BY <2>1, Zenon
<1>11. ASSUME ApplyDiff PROVE BootVisitsAll' /\ BootPopulates'
  <2>1. /\ pc = "apply" /\ pc' = "mark" /\ waiting' = waiting /\ ~job.full
        /\ DOMAIN cache' = DOMAIN cache \cup {job.id}
        /\ endpoints' = endpoints /\ todo' = todo /\ phase' = phase
    BY <1>11, Zenon DEF ApplyDiff, apply_diff, Put, dbVars
  <2> QED BY <2>1, Zenon
<1>12. ASSUME MarkSynced \/ MarkFails PROVE BootVisitsAll' /\ BootPopulates'
  <2>1. /\ pc = "mark" /\ pc' = "next" /\ waiting' = waiting
        /\ DOMAIN endpoints' = DOMAIN endpoints /\ cache' = cache
        /\ todo' = todo /\ phase' = phase
    BY <1>12, Zenon DEF MarkSynced, MarkDone, MarkFails, dbVars
  <2> QED BY <2>1, Zenon
<1>13. ASSUME NEW id \in Endpoints, NEW groups \in GroupLists, NEW ttl \in Ttls,
              create_endpoint(id, groups, ttl)
       PROVE  BootVisitsAll' /\ BootPopulates'
  <2>1. /\ phase = "serving" /\ phase' = phase /\ waiting' = waiting \cup {id}
        /\ DOMAIN endpoints' = DOMAIN endpoints \cup {id} /\ cache' = cache
    BY <1>13, Zenon DEF create_endpoint, workerVars
  <2> QED BY <2>1, Zenon
<1>14. ASSUME NEW id \in Endpoints, NEW groups \in GroupLists, NEW ttl \in Ttls,
              update_endpoint(id, groups, ttl)
       PROVE  BootVisitsAll' /\ BootPopulates'
  <2>1. DOMAIN endpoints' = DOMAIN endpoints /\ cache' = cache /\ waiting' = waiting
        /\ phase' = phase /\ pc' = pc /\ todo' = todo /\ job' = job
    BY <1>14, Zenon DEF update_endpoint, workerVars
  <2> QED BY <1>1, <2>1, Zenon
<1>15. ASSUME NEW id \in Endpoints, delete_endpoint(id) PROVE BootVisitsAll' /\ BootPopulates'
  <2>1. DOMAIN endpoints' = DOMAIN endpoints \ {id} /\ cache' = cache /\ waiting' = waiting
        /\ phase' = phase /\ pc' = pc /\ todo' = todo /\ job' = job
    BY <1>15, Zenon DEF delete_endpoint, workerVars, history
  <2> QED BY <1>1, <2>1, Zenon
<1>16. ASSUME NEW id \in Endpoints, EvictDeleted(id) PROVE BootVisitsAll' /\ BootPopulates'
  <2>1. /\ id \notin DOMAIN endpoints /\ endpoints' = endpoints /\ waiting' = waiting
        /\ DOMAIN cache' = DOMAIN cache \ {id}
        /\ phase' = phase /\ pc' = pc /\ todo' = todo /\ job' = job
    BY <1>16, Zenon DEF EvictDeleted, evict, workerVars, history, IdsUsedOnce
  <2> QED BY <1>1, <2>1, Zenon
<1>17. ASSUME Restart PROVE BootVisitsAll' /\ BootPopulates'
  BY <1>17, Zenon DEF Restart
<1>18. ASSUME Tick \/ UNCHANGED vars PROVE BootVisitsAll' /\ BootPopulates'
  <2>1. endpoints' = endpoints /\ cache' = cache /\ waiting' = waiting
        /\ phase' = phase /\ pc' = pc /\ todo' = todo /\ job' = job
    BY <1>18, Zenon DEF Tick, vars, dbVars, workerVars, history
  <2> QED BY <1>1, <2>1, Zenon
<1>19. ASSUME NEW g \in Groups, NEW a \in Addrs,
              Observe(g, a) \/ SoftDelete(g, a) \/ HardDelete(g, a)
       PROVE  BootVisitsAll' /\ BootPopulates'
  <2>1. endpoints' = endpoints /\ cache' = cache /\ waiting' = waiting
        /\ phase' = phase /\ pc' = pc /\ todo' = todo /\ job' = job
    BY <1>19, Zenon DEF Observe, SoftDelete, HardDelete, Changed, dbVars, workerVars
  <2> QED BY <1>1, <2>1, Zenon
<1> QED BY <1>2, <1>3, <1>4, <1>5, <1>6, <1>7, <1>8, <1>9, <1>10, <1>11, <1>12, <1>13, <1>14,
           <1>15, <1>16, <1>17, <1>18, <1>19, ZenonT(60)
        DEF Next, VaultStep, AdminStep, SyncStep

(* What a step may do to a row: nothing, stamp it with the time it is, or, if the
   step is an edit, change the columns other than the cursor. *)
LEMMA RowSteps ==
    ASSUME IInv, [Next]_vars
    PROVE  /\ now' \in Nat /\ now <= now'
           /\ \A id \in DOMAIN endpoints' \ DOMAIN endpoints : endpoints'[id].last_synced_at = None
           /\ \A id \in DOMAIN endpoints \cap DOMAIN endpoints' :
                 \/ endpoints'[id] = endpoints[id]
                 \/ endpoints'[id] = [endpoints[id] EXCEPT !.last_synced_at = now]
                 \/ /\ budget'.edits > budget.edits
                    /\ endpoints'[id].last_synced_at = endpoints[id].last_synced_at
<1> DEFINE Goal == /\ now' \in Nat /\ now <= now'
                   /\ \A id \in DOMAIN endpoints' \ DOMAIN endpoints :
                         endpoints'[id].last_synced_at = None
                   /\ \A id \in DOMAIN endpoints \cap DOMAIN endpoints' :
                         \/ endpoints'[id] = endpoints[id]
                         \/ endpoints'[id] = [endpoints[id] EXCEPT !.last_synced_at = now]
                         \/ /\ budget'.edits > budget.edits
                            /\ endpoints'[id].last_synced_at = endpoints[id].last_synced_at
<1>t. /\ now \in Nat /\ now <= now /\ now + 1 \in Nat /\ now <= now + 1
      /\ endpoints \in [DOMAIN endpoints -> EndpointRow]
      /\ budget \in [{"changes", "edits", "restarts"} -> Nat]
  BY DEF IInv, TypeOK, IsTable
<1>1. ASSUME Tick PROVE Goal
  BY <1>1, <1>t, Zenon DEF Tick, dbVars
<1>2. ASSUME NEW id \in Endpoints, NEW groups \in GroupLists, NEW ttl \in Ttls,
             create_endpoint(id, groups, ttl)
      PROVE  Goal
  <2>1. id \notin DOMAIN endpoints
    BY <1>2, Zenon DEF create_endpoint, IInv, IdsUsedOnce
  <2>2. /\ now' = now /\ DOMAIN endpoints' = DOMAIN endpoints \cup {id}
        /\ endpoints'[id] = Row0(groups, ttl)
        /\ \A i \in DOMAIN endpoints : endpoints'[i] = endpoints[i]
    BY <1>2, <2>1, Zenon DEF create_endpoint
  <2> QED BY <1>t, <2>1, <2>2 DEF Row0
<1>3. ASSUME NEW id \in Endpoints, NEW groups \in GroupLists, NEW ttl \in Ttls,
             update_endpoint(id, groups, ttl)
      PROVE  Goal
  <2>1. /\ now' = now /\ budget'.edits = budget.edits + 1
        /\ id \in DOMAIN endpoints
        /\ endpoints' = [endpoints EXCEPT ![id].vault_groups = groups, ![id].ttl_seconds = ttl]
    BY <1>3, <1>t, Zenon DEF update_endpoint, Spend
  <2>2. budget'.edits > budget.edits
    BY <1>t, <2>1
  <2>3. /\ DOMAIN endpoints' = DOMAIN endpoints
        /\ \A i \in DOMAIN endpoints \ {id} : endpoints'[i] = endpoints[i]
    BY <1>t, <2>1, Zenon
  <2>4. endpoints'[id].last_synced_at = endpoints[id].last_synced_at
    BY <1>t, <2>1, Zenon DEF EndpointRow
  <2> QED BY <1>t, <2>1, <2>2, <2>3, <2>4, Zenon
<1>4. ASSUME NEW id \in Endpoints, delete_endpoint(id) PROVE Goal
  <2>1. /\ now' = now /\ DOMAIN endpoints' = DOMAIN endpoints \ {id}
        /\ \A i \in DOMAIN endpoints' : endpoints'[i] = endpoints[i]
    BY <1>4, Zenon DEF delete_endpoint
  <2> QED BY <1>t, <2>1, Zenon
<1>5. ASSUME MarkSynced PROVE Goal
  <2>1. now' = now /\ job.id \in DOMAIN endpoints
        /\ endpoints' = [endpoints EXCEPT ![job.id].last_synced_at = now]
    BY <1>5, Zenon DEF MarkSynced, MarkDone
  <2>2. /\ DOMAIN endpoints' = DOMAIN endpoints
        /\ \A i \in DOMAIN endpoints \ {job.id} : endpoints'[i] = endpoints[i]
        /\ endpoints'[job.id] = [endpoints[job.id] EXCEPT !.last_synced_at = now]
    BY <1>t, <2>1, Zenon
  <2> QED BY <1>t, <2>1, <2>2, Zenon
<1>6. ASSUME now' = now, endpoints' = endpoints PROVE Goal
  BY <1>6, <1>t, Zenon
<1>7. ASSUME \/ ListEndpoints \/ ListFails \/ EndPass \/ Wake \/ VaultErrs \/ ApplyFull \/ ApplyDiff
             \/ MarkFails \/ BootTimeout \/ Restart \/ UNCHANGED vars
      PROVE  Goal
  <2>1. now' = now /\ endpoints' = endpoints
    BY <1>7, Zenon
       DEF ListEndpoints, ListFails, EndPass, Wake, VaultErrs, ApplyFull, ApplyDiff,
                MarkFails, BootTimeout, Restart, vars, dbVars
  <2> QED BY <1>6, <2>1, Zenon
<1>8. ASSUME NEW id \in Endpoints,
             StartFull(id) \/ StartDiff(id) \/ SkipNotDue(id) \/ VaultAnswers(id) \/ EvictDeleted(id)
      PROVE  Goal
  <2>1. now' = now /\ endpoints' = endpoints
    BY <1>8, Zenon DEF StartFull, StartDiff, SkipNotDue, VaultAnswers, EvictDeleted, dbVars
  <2> QED BY <1>6, <2>1, Zenon
<1>9. ASSUME NEW g \in Groups, NEW a \in Addrs,
             Observe(g, a) \/ SoftDelete(g, a) \/ HardDelete(g, a)
      PROVE  Goal
  <2>1. now' = now /\ endpoints' = endpoints
    BY <1>9, Zenon DEF Observe, SoftDelete, HardDelete, Changed, dbVars
  <2> QED BY <1>6, <2>1, Zenon
<1> HIDE DEF Goal
<1>10. Goal
  BY <1>1, <1>2, <1>3, <1>4, <1>5, <1>7, <1>8, <1>9, ZenonT(60)
     DEF Next, VaultStep, AdminStep, SyncStep
<1> QED BY <1>10, Zenon DEF Goal

(* No step writes a cursor ahead of the clock. *)
LEMMA CursorsPreserved == IInv /\ [Next]_vars => CursorsPast'
<1> SUFFICES ASSUME IInv, [Next]_vars, NEW id \in DOMAIN endpoints',
                    endpoints'[id].last_synced_at # None
             PROVE  endpoints'[id].last_synced_at <= now'
  BY Zenon DEF CursorsPast
<1>1. now \in Nat /\ now' \in Nat /\ now <= now' /\ id \in DOMAIN endpoints
  BY RowSteps, Zenon DEF IInv, TypeOK
<1>2. endpoints[id] \in EndpointRow
  BY <1>1, Zenon DEF IInv, TypeOK, IsTable
<1>3. endpoints'[id].last_synced_at \in {endpoints[id].last_synced_at, now}
  BY <1>1, <1>2, RowSteps, ZenonT(60) DEF EndpointRow
<1>4. endpoints[id].last_synced_at # None =>
         endpoints[id].last_synced_at \in Nat /\ endpoints[id].last_synced_at <= now
  BY <1>1, <1>2, Zenon DEF IInv, CursorsPast, EndpointRow, Stamp, Time
<1> QED BY <1>1, <1>3, <1>4, SMTT(30)

-----------------------------------------------------------------------------

(* The process starts with no job, no entry and no pass under way. *)
LEMMA InitIsInductive == Init => IInv
<1> SUFFICES ASSUME Init PROVE IInv
  BY Zenon
<1>1. /\ now = 0 /\ cache = EmptyCache /\ phase = "boot" /\ pc = "pass" /\ todo = NoRows
      /\ listed_at = 0 /\ job = NoJob /\ evicting = {} /\ late = {}
      /\ drift = [id \in Endpoints |-> {}] /\ waiting = {}
      /\ budget = [changes |-> 0, edits |-> 0, restarts |-> 0]
      /\ created = DOMAIN endpoints
  BY Zenon DEF Init
<1>2. /\ DOMAIN vault \subseteq Groups \X Addrs
      /\ vault \in [DOMAIN vault -> [last_seen_at : Time, is_deleted : BOOLEAN]]
  BY DEF Init, Time
<1>3. PICK E \in SUBSET Endpoints : \E gs \in [E -> GroupLists], ttl \in [E -> Ttls] :
         endpoints = [id \in E |-> Row0(gs[id], ttl[id])]
  BY Zenon DEF Init
<1>4. PICK gs \in [E -> GroupLists], ttl \in [E -> Ttls] :
         endpoints = [id \in E |-> Row0(gs[id], ttl[id])]
  BY <1>3, Zenon
<1>5. DOMAIN endpoints = E /\ \A id \in E : endpoints[id] = Row0(gs[id], ttl[id])
  BY <1>4, Zenon
<1>6. \A id \in E : Row0(gs[id], ttl[id]) \in EndpointRow
  BY <1>4, Zenon DEF Row0, EndpointRow, Stamp
<1>7. DOMAIN endpoints \subseteq Endpoints /\ endpoints \in [DOMAIN endpoints -> EndpointRow]
  BY <1>4, <1>5, <1>6, Zenon
<1>8. /\ DOMAIN EmptyCache = {} /\ EmptyCache \in [DOMAIN EmptyCache -> EndpointCache]
      /\ DOMAIN NoRows = {} /\ NoRows \in [DOMAIN NoRows -> EndpointRow]
  BY Zenon DEF EmptyCache, NoRows
<1>9. budget \in [{"changes", "edits", "restarts"} -> Nat]
  BY <1>1
<1>10. TypeOK
  BY <1>1, <1>2, <1>7, <1>8, <1>9, Zenon DEF TypeOK, IsTable
<1>11. JobInHand /\ DiffHasEntry
  BY <1>1, Zenon DEF JobInHand, DiffHasEntry, Busy
<1>12. IdsUsedOnce
  BY <1>1, <1>8, Zenon DEF IdsUsedOnce
<1>13. FullBeforeDiff /\ BootVisitsAll /\ BootPopulates
  BY <1>1, <1>8, ZenonT(60) DEF FullBeforeDiff, BootVisitsAll, BootPopulates
<1>14. CursorsPast
  BY <1>5 DEF CursorsPast, Row0
<1> QED BY <1>10, <1>11, <1>12, <1>13, <1>14, ZenonT(60) DEF IInv

(* The inductive invariant of the refresh protocol. *)
THEOREM Invariance == Spec => []IInv
<1>1. IInv /\ [Next]_vars => IInv'
  BY TypesPreserved, IdsPreserved, EntriesPreserved, BootPreserved, CursorsPreserved, Zenon
     DEF IInv
<1> QED BY <1>1, InitIsInductive, PTL DEF Spec

(* Type correctness, for any number of endpoints, groups and addresses. *)
THEOREM TypeCorrect == Spec => []TypeOK
<1>1. IInv => TypeOK
  BY Zenon DEF IInv
<1> QED BY <1>1, Invariance, PTL

(* No differential sync ever fills an entry of a live endpoint that no full sync
   filled before it. *)
THEOREM FullComesFirst == Spec => []FullBeforeDiff
<1>1. IInv => FullBeforeDiff
  BY Zenon DEF IInv
<1> QED BY <1>1, Invariance, PTL

(* Once the listener is open, only endpoints created since, or whose sync failed
   or ran out of time, are without an entry. *)
THEOREM BootIsComplete == Spec => []BootPopulates
<1>1. IInv => BootPopulates
  BY Zenon DEF IInv
<1> QED BY <1>1, Invariance, PTL

(* A row's cursor never moves back. *)
THEOREM CursorsNeverMoveBack == Spec => CursorAdvances
<1> DEFINE A == \A id \in DOMAIN endpoints \cap DOMAIN endpoints' :
                   endpoints[id].last_synced_at # None =>
                      /\ endpoints'[id].last_synced_at # None
                      /\ endpoints'[id].last_synced_at >= endpoints[id].last_synced_at
<1>1. IInv /\ [Next]_vars => A
  <2> SUFFICES ASSUME IInv, [Next]_vars, NEW id \in DOMAIN endpoints \cap DOMAIN endpoints',
                      endpoints[id].last_synced_at # None
               PROVE  /\ endpoints'[id].last_synced_at # None
                      /\ endpoints'[id].last_synced_at >= endpoints[id].last_synced_at
    BY Zenon
  <2>1. endpoints[id] \in EndpointRow /\ now \in Nat
    BY Zenon DEF IInv, TypeOK, IsTable
  <2>2. endpoints[id].last_synced_at \in Nat /\ endpoints[id].last_synced_at <= now
    BY <2>1, Zenon DEF IInv, CursorsPast, EndpointRow, Stamp, Time
  <2>3. endpoints'[id].last_synced_at \in {endpoints[id].last_synced_at, now}
    BY <2>1, RowSteps, Zenon DEF EndpointRow
  <2> QED BY <2>1, <2>2, <2>3, NoneAssumption, SMTT(30)
<1> HIDE DEF A
<1>2. Spec => [][A]_vars
  BY <1>1, Invariance, PTL DEF Spec
<1> QED BY <1>2, Zenon DEF CursorAdvances, A

(* A sync never undoes an admin's edit of a row. *)
THEOREM EditsAreKept == Spec => EditsSurviveSync
<1> DEFINE A == \A id \in DOMAIN endpoints \cap DOMAIN endpoints' :
                   \/ budget'.edits > budget.edits
                   \/ /\ endpoints'[id].vault_groups = endpoints[id].vault_groups
                      /\ endpoints'[id].ttl_seconds = endpoints[id].ttl_seconds
<1>1. IInv /\ [Next]_vars => A
  <2> SUFFICES ASSUME IInv, [Next]_vars, NEW id \in DOMAIN endpoints \cap DOMAIN endpoints'
               PROVE  \/ budget'.edits > budget.edits
                      \/ /\ endpoints'[id].vault_groups = endpoints[id].vault_groups
                         /\ endpoints'[id].ttl_seconds = endpoints[id].ttl_seconds
    BY Zenon
  <2>1. endpoints[id] \in EndpointRow
    BY Zenon DEF IInv, TypeOK, IsTable
  <2> QED BY <2>1, RowSteps, Zenon DEF EndpointRow
<1> HIDE DEF A
<1>2. Spec => [][A]_vars
  BY <1>1, Invariance, PTL DEF Spec
<1> QED BY <1>2, Zenon DEF EditsSurviveSync, A

-----------------------------------------------------------------------------
(* The reckoning of drift.                                                   *)

\* The request of the row being synced is the one its row calls for: mark_synced
\* is the only writer of the cursor, and an edit of the groups leaves everything
\* in drift.
JobIsCurrent ==
    pc \in {"fetch", "apply"} =>
        /\ job.full => job.since = None
        /\ job.id \in DOMAIN endpoints =>
              /\ ~job.full => job.since = endpoints[job.id].last_synced_at
              /\ job.groups = endpoints[job.id].vault_groups \/ drift[job.id] = Addrs

\* The same of the rows still to be visited, which do not include the job's.
TodoIsCurrent ==
    /\ pc \in Busy => job.id \notin DOMAIN todo
    /\ \A id \in DOMAIN todo \cap DOMAIN endpoints :
          /\ todo[id].last_synced_at = endpoints[id].last_synced_at
          /\ todo[id].vault_groups = endpoints[id].vault_groups \/ drift[id] = Addrs

\* The batch in hand is what Vault would answer now, except for addresses that
\* changed since it answered; so is the set of contested addresses.
BatchIsCurrent ==
    pc = "apply" =>
        /\ \A i \in DOMAIN job.batch :
              job.batch[i].target_address \notin late =>
                 \E m \in Selected(job.groups, job.since) : RowAt(m) = job.batch[i]
        /\ \A m \in Selected(job.groups, job.since) :
              m[2] \notin late => \E i \in DOMAIN job.batch : job.batch[i] = RowAt(m)
        /\ \A a \in Addrs \ (late \cup job.contested) : \A g, h \in job.groups :
              <<g, a>> \in DOMAIN vault /\ <<h, a>> \in DOMAIN vault => g = h

\* What a differential sync reports will be reported again until the row is
\* stamped, unless a hard delete removes it.
NewsIsRepeated ==
    pc = "apply" /\ ~job.full /\ job.since # None /\ job.id \in DOMAIN endpoints =>
        \A a \in Addrs :
            Positions(job.batch, a) # {} =>
               a \in drift[job.id] \/ \E m \in Selected(job.groups, job.since) : m[2] = a

\* An entry just refreshed disagrees with Vault about nothing but what changed
\* since the answer and what is in drift: the cursor may move to now.
AppliedIsFresh ==
    pc = "mark" /\ job.id \in DOMAIN endpoints \cap DOMAIN cache =>
        \A a \in Parseable : Stale(job.id, a) => a \in late \cup drift[job.id]

\* DriftHasACause, for endpoints being synced too.
EntriesCatchUp ==
    \A id \in DOMAIN endpoints \cap DOMAIN cache :
        endpoints[id].last_synced_at # None =>
            \A a \in Parseable : Stale(id, a) => WillBeReported(id, a) \/ a \in drift[id]

\* What the proof of DriftHasACause adds to the inductive invariant.
DriftInv ==
    /\ JobIsCurrent
    /\ TodoIsCurrent
    /\ BatchIsCurrent
    /\ NewsIsRepeated
    /\ AppliedIsFresh
    /\ EntriesCatchUp

-----------------------------------------------------------------------------
(* What a change in Vault leaves alone.                                      *)

(* A change of one membership: every other one is as it was, an observation or a
   soft delete stamps it with the time it is, and a hard delete puts the address
   into every drift. *)
LEMMA VaultMoves ==
    ASSUME TypeOK, NEW g \in Groups, NEW a \in Addrs,
           Observe(g, a) \/ SoftDelete(g, a) \/ HardDelete(g, a)
    PROVE  /\ \A m : m # <<g, a>> => (m \in DOMAIN vault' <=> m \in DOMAIN vault)
           /\ \A m \in DOMAIN vault : m # <<g, a>> => vault'[m] = vault[m]
           /\ \A id \in Endpoints : drift[id] \subseteq drift'[id]
           /\ \/ \A id \in Endpoints : a \in drift'[id]
              \/ <<g, a>> \in DOMAIN vault' /\ vault'[<<g, a>>].last_seen_at = now
           /\ pc \in {"apply", "mark"} => late' = late \cup {a}
           /\ now' = now /\ endpoints' = endpoints /\ cache' = cache /\ pc' = pc
           /\ todo' = todo /\ job' = job
<1>1. /\ pc \in {"apply", "mark"} => late' = late \cup {a}
      /\ now' = now /\ endpoints' = endpoints /\ cache' = cache /\ pc' = pc
      /\ todo' = todo /\ job' = job
  <2>1. Changed(a)
    BY Zenon DEF Observe, SoftDelete, HardDelete
  <2> QED BY <2>1, Zenon DEF Changed, dbVars, workerVars
<1>2. CASE Observe(g, a)
  BY <1>1, <1>2, Zenon DEF Observe
<1>3. CASE SoftDelete(g, a)
  <2>1. /\ <<g, a>> \in DOMAIN vault /\ drift' = drift
        /\ vault' = [vault EXCEPT ![<<g, a>>] = [last_seen_at |-> now, is_deleted |-> TRUE]]
    BY <1>3, Zenon DEF SoftDelete
  <2>2. vault \in [DOMAIN vault -> [last_seen_at : Time, is_deleted : BOOLEAN]]
    BY Zenon DEF TypeOK
  <2> QED BY <1>1, <2>1, <2>2, Zenon
<1>4. CASE HardDelete(g, a)
  BY <1>1, <1>4, Zenon DEF HardDelete
<1> QED BY <1>2, <1>3, <1>4, Zenon

(* A membership that is not the one changed is selected, and listed, as before. *)
LEMMA OthersSelected ==
    ASSUME TypeOK, NEW g \in Groups, NEW a \in Addrs,
           Observe(g, a) \/ SoftDelete(g, a) \/ HardDelete(g, a),
           NEW groups, NEW since, NEW m, m # <<g, a>>
    PROVE  /\ m \in Selected(groups, since)' <=> m \in Selected(groups, since)
           /\ m \in DOMAIN vault => RowAt(m)' = RowAt(m)
<1>1. /\ m \in DOMAIN vault' <=> m \in DOMAIN vault
      /\ m \in DOMAIN vault => vault'[m] = vault[m]
  BY VaultMoves, Zenon
<1> QED BY <1>1, Zenon DEF Selected, RowAt

(* Whatever was selected since a time in the past still is, unless the address
   is in every drift. *)
LEMMA StaysSelected ==
    ASSUME TypeOK, NEW g \in Groups, NEW a \in Addrs,
           Observe(g, a) \/ SoftDelete(g, a) \/ HardDelete(g, a),
           NEW groups, NEW since \in Nat, since <= now,
           NEW m \in Selected(groups, since)
    PROVE  m \in Selected(groups, since)' \/ \A id \in Endpoints : m[2] \in drift'[id]
<1>1. CASE m # <<g, a>>
  BY <1>1, OthersSelected, Zenon
<1>2. CASE m = <<g, a>>
  <2>1. m[2] = a /\ m[1] \in groups
    BY <1>2, Zenon DEF Selected
  <2>2. since # None /\ now >= since
    BY NoneAssumption DEF TypeOK
  <2>3. \/ \A id \in Endpoints : a \in drift'[id]
        \/ m \in DOMAIN vault' /\ vault'[m].last_seen_at = now
    BY <1>2, VaultMoves, Zenon
  <2> QED BY <2>1, <2>2, <2>3, Zenon DEF Selected
<1> QED BY <1>1, <1>2, Zenon

(* An address and a list of groups the changed membership is not of are seen as
   before. *)
LEMMA OthersSeen ==
    ASSUME TypeOK, NEW g \in Groups, NEW a \in Addrs,
           Observe(g, a) \/ SoftDelete(g, a) \/ HardDelete(g, a),
           NEW id \in DOMAIN endpoints, NEW b,
           b # a \/ g \notin endpoints[id].vault_groups
    PROVE  Stale(id, b)' <=> Stale(id, b)
<1>1. endpoints' = endpoints /\ cache' = cache
  BY VaultMoves, Zenon
<1>2. \A h \in endpoints[id].vault_groups :
         /\ <<h, b>> \in DOMAIN vault' <=> <<h, b>> \in DOMAIN vault
         /\ <<h, b>> \in DOMAIN vault => vault'[<<h, b>>] = vault[<<h, b>>]
  <2> SUFFICES ASSUME NEW h \in endpoints[id].vault_groups
               PROVE  /\ <<h, b>> \in DOMAIN vault' <=> <<h, b>> \in DOMAIN vault
                      /\ <<h, b>> \in DOMAIN vault => vault'[<<h, b>>] = vault[<<h, b>>]
    BY Zenon
  <2>1. <<h, b>> # <<g, a>>
    OBVIOUS
  <2> QED BY <2>1, VaultMoves, Zenon
<1>3. LiveSeen(id, b)' = LiveSeen(id, b)
  <2> DEFINE H == {h \in endpoints[id].vault_groups :
                      <<h, b>> \in DOMAIN vault /\ ~vault[<<h, b>>].is_deleted}
  <2>1. H' = H
    BY <1>1, <1>2, Zenon
  <2>2. \A h \in H : vault'[<<h, b>>] = vault[<<h, b>>]
    BY <1>2, Zenon
  <2>3. LiveSeen(id, b) = {vault[<<h, b>>].last_seen_at : h \in H}
    BY Zenon DEF LiveSeen
  <2>4. LiveSeen(id, b)' = {vault'[<<h, b>>].last_seen_at : h \in H'}
    BY Zenon DEF LiveSeen
  <2> HIDE DEF H
  <2> QED BY <2>1, <2>2, <2>3, <2>4, Zenon
<1> QED BY <1>1, <1>3, Zenon DEF Stale

(* A change in Vault: what the cache has of the address becomes stale, but the
   next differential sync will report it, or it is one of the causes of drift. *)
LEMMA VaultKeepsDrift ==
    ASSUME IInv, DriftInv, NEW g \in Groups, NEW a \in Addrs,
           Observe(g, a) \/ SoftDelete(g, a) \/ HardDelete(g, a)
    PROVE  DriftInv'
<1>t. TypeOK /\ IdsUsedOnce /\ CursorsPast /\ JobInHand
  BY Zenon DEF IInv
<1>1. /\ endpoints' = endpoints /\ cache' = cache /\ pc' = pc /\ todo' = todo /\ job' = job
      /\ now' = now
      /\ pc \in {"apply", "mark"} => late' = late \cup {a}
      /\ \A id \in Endpoints : drift[id] \subseteq drift'[id]
  BY <1>t, VaultMoves, Zenon
<1>2. \A id \in Endpoints : drift[id] = Addrs => drift'[id] = Addrs
  <2>1. drift' \in [Endpoints -> SUBSET Addrs]
    BY <1>t, TypesPreserved, Zenon DEF Next, VaultStep, TypeOK
  <2> QED BY <1>1, <2>1, Zenon
<1>3. DOMAIN endpoints \subseteq Endpoints /\ (pc \in Busy => job \in Job /\ job.id \in Endpoints)
  <2>1. pc \in Busy => job \in Job
    BY <1>t, Zenon DEF TypeOK, JobInHand
  <2> QED BY <1>t, <2>1, Zenon DEF TypeOK, IsTable, Job
<1>c. \A id \in DOMAIN endpoints : endpoints[id].last_synced_at # None =>
         endpoints[id].last_synced_at \in Nat /\ endpoints[id].last_synced_at <= now
  <2>1. \A id \in DOMAIN endpoints : endpoints[id] \in EndpointRow
    BY <1>t, Zenon DEF TypeOK, IsTable
  <2> QED BY <1>t, <2>1, Zenon DEF CursorsPast, EndpointRow, Stamp, Time
<1>s. \A m \in DOMAIN vault \cup DOMAIN vault' : m[2] # a => m # <<g, a>>
  OBVIOUS
<1>4. JobIsCurrent'
  BY <1>1, <1>2, <1>3, Zenon DEF DriftInv, JobIsCurrent, Busy
<1>5. TodoIsCurrent'
  BY <1>1, <1>2, <1>3, Zenon DEF DriftInv, TodoIsCurrent
<1>6. BatchIsCurrent'
  <2> SUFFICES ASSUME pc = "apply"
               PROVE  BatchIsCurrent'
    BY <1>1, Zenon DEF BatchIsCurrent
  <2> PICK j : j = job
    BY Zenon
  <2>1. late' = late \cup {a} /\ job = j /\ job' = j
    BY <1>1, Zenon
  <2>2. ASSUME NEW i \in DOMAIN j.batch, j.batch[i].target_address \notin late'
        PROVE  \E m \in Selected(j.groups, j.since)' : RowAt(m)' = j.batch[i]
    <3>1. PICK m \in Selected(j.groups, j.since) : RowAt(m) = j.batch[i]
      BY <2>1, <2>2, Zenon DEF DriftInv, BatchIsCurrent
    <3>0. RowAt(m).target_address = m[2]
      BY Zenon DEF RowAt
    <3>2. m[2] # a /\ m \in DOMAIN vault
      BY <2>1, <2>2, <3>0, <3>1, Zenon DEF Selected
    <3>3. m # <<g, a>>
      BY <1>s, <3>2, Zenon
    <3>4. m \in Selected(j.groups, j.since)' /\ RowAt(m)' = RowAt(m)
      BY <1>t, <3>1, <3>2, <3>3, OthersSelected, Zenon
    <3> QED BY <3>1, <3>4, Zenon
  <2>3. ASSUME NEW m \in Selected(j.groups, j.since)', m[2] \notin late'
        PROVE  \E i \in DOMAIN j.batch : j.batch[i] = RowAt(m)'
    <3>1. m[2] # a /\ m[2] \notin late /\ m \in DOMAIN vault'
      BY <2>1, <2>3, Zenon DEF Selected
    <3>2. m # <<g, a>>
      BY <1>s, <3>1, Zenon
    <3>3. m \in Selected(j.groups, j.since) /\ (m \in DOMAIN vault => RowAt(m)' = RowAt(m))
      BY <1>t, <2>3, <3>2, OthersSelected, Zenon
    <3>4. m \in DOMAIN vault
      BY <3>3, Zenon DEF Selected
    <3> QED BY <2>1, <3>1, <3>3, <3>4, Zenon DEF DriftInv, BatchIsCurrent
  <2>4. ASSUME NEW b \in Addrs \ (late' \cup j.contested), NEW h1 \in j.groups, NEW h2 \in j.groups,
               <<h1, b>> \in DOMAIN vault', <<h2, b>> \in DOMAIN vault'
        PROVE  h1 = h2
    <3>1. b \in Addrs \ (late \cup j.contested) /\ b # a
      BY <2>1, <2>4, Zenon
    <3>2. <<h1, b>> # <<g, a>> /\ <<h2, b>> # <<g, a>>
      BY <3>1, Zenon
    <3>3. <<h1, b>> \in DOMAIN vault /\ <<h2, b>> \in DOMAIN vault
      BY <1>t, <2>4, <3>2, VaultMoves, Zenon
    <3> QED BY <2>1, <3>1, <3>3, Zenon DEF DriftInv, BatchIsCurrent
  <2>5. /\ \A i \in DOMAIN j.batch : j.batch[i].target_address \notin late' =>
              \E m \in Selected(j.groups, j.since)' : RowAt(m)' = j.batch[i]
        /\ \A m \in Selected(j.groups, j.since)' : m[2] \notin late' =>
              \E i \in DOMAIN j.batch : j.batch[i] = RowAt(m)'
        /\ \A b \in Addrs \ (late' \cup j.contested) : \A h1, h2 \in j.groups :
              <<h1, b>> \in DOMAIN vault' /\ <<h2, b>> \in DOMAIN vault' => h1 = h2
    BY <2>2, <2>3, <2>4, Zenon
  <2>6. Selected(job.groups, job.since)' = Selected(j.groups, j.since)'
    BY <2>1 DEF Selected
  <2> QED BY <2>1, <2>5, <2>6 DEF BatchIsCurrent
<1>7. NewsIsRepeated'
  <2> PICK j : j = job
    BY Zenon
  <2>1. job = j /\ job' = j
    BY <1>1, Zenon
  <2> SUFFICES ASSUME pc = "apply", ~j.full, j.since # None, j.id \in DOMAIN endpoints,
                      NEW b \in Addrs, Positions(j.batch, b) # {}
               PROVE  b \in drift'[j.id] \/ \E m \in Selected(j.groups, j.since)' : m[2] = b
    BY <1>1, <2>1, Zenon DEF NewsIsRepeated
  <2>2. b \in drift[j.id] \/ \E m \in Selected(j.groups, j.since) : m[2] = b
    BY <2>1, Zenon DEF DriftInv, NewsIsRepeated
  <2>3. j.since = endpoints[j.id].last_synced_at
    BY <2>1, Zenon DEF DriftInv, JobIsCurrent
  <2>4. j.id \in Endpoints /\ j.since \in Nat /\ j.since <= now
    BY <1>3, <1>c, <2>3, Zenon
  <2>5. ASSUME NEW m \in Selected(j.groups, j.since), m[2] = b
        PROVE  b \in drift'[j.id] \/ \E n \in Selected(j.groups, j.since)' : n[2] = b
    BY <1>t, <2>4, <2>5, StaysSelected, Zenon
  <2> QED BY <1>1, <2>2, <2>4, <2>5, Zenon
<1>8. AppliedIsFresh'
  <2> PICK j : j = job
    BY Zenon
  <2>1. job = j /\ job' = j
    BY <1>1, Zenon
  <2> SUFFICES ASSUME pc = "mark", j.id \in DOMAIN endpoints \cap DOMAIN cache,
                      NEW b \in Parseable, Stale(j.id, b)'
               PROVE  b \in late' \cup drift'[j.id]
    BY <1>1, <2>1, Zenon DEF AppliedIsFresh
  <2>2. late' = late \cup {a} /\ drift[j.id] \subseteq drift'[j.id]
    BY <1>1, <1>3, Zenon
  <2>3. CASE b = a
    BY <2>2, <2>3, Zenon
  <2>4. CASE b # a
    <3>1. Stale(j.id, b)
      BY <1>t, <2>4, OthersSeen, Zenon
    <3> QED BY <2>1, <2>2, <3>1, Zenon DEF DriftInv, AppliedIsFresh
  <2> QED BY <2>3, <2>4, Zenon
<1>9. EntriesCatchUp'
  <2> SUFFICES ASSUME NEW id \in DOMAIN endpoints \cap DOMAIN cache,
                      endpoints[id].last_synced_at # None,
                      NEW b \in Parseable, Stale(id, b)', b \notin drift'[id]
               PROVE  WillBeReported(id, b)'
    BY <1>1, Zenon DEF EntriesCatchUp
  <2> PICK gs : gs = endpoints[id].vault_groups
    BY Zenon
  <2> PICK c : c = endpoints[id].last_synced_at
    BY Zenon
  <2>1. c \in Nat /\ c <= now /\ c # None /\ id \in Endpoints
    BY <1>3, <1>c, Zenon
  <2>2. WillBeReported(id, b)' <=> \E m \in Selected(gs, c)' : m[2] = b
    BY <1>1, Zenon DEF WillBeReported
  <2>3. CASE b = a /\ g \in gs
    <3>1. <<g, a>> \in DOMAIN vault' /\ vault'[<<g, a>>].last_seen_at = now
      BY <1>t, <2>1, <2>3, VaultMoves, Zenon
    <3>2. now >= c
      BY <1>t, <2>1 DEF TypeOK
    <3>3. <<g, a>> \in Selected(gs, c)' /\ <<g, a>>[2] = b
      BY <2>1, <2>3, <3>1, <3>2, Zenon DEF Selected
    <3> QED BY <2>2, <3>3, Zenon
  <2>4. CASE b # a \/ g \notin gs
    <3>1. Stale(id, b)
      BY <1>t, <2>4, OthersSeen, Zenon
    <3>2. b \notin drift[id]
      BY <1>1, <2>1, Zenon
    <3>3. PICK m \in Selected(gs, c) : m[2] = b
      BY <3>1, <3>2, Zenon DEF DriftInv, EntriesCatchUp, WillBeReported
    <3>4. m \in Selected(gs, c)'
      BY <1>t, <2>1, <3>3, StaysSelected, Zenon
    <3> QED BY <2>2, <3>3, <3>4, Zenon
  <2> QED BY <2>3, <2>4, Zenon
<1> QED BY <1>4, <1>5, <1>6, <1>7, <1>8, <1>9, Zenon DEF DriftInv

(* What the cache, the rows and Vault say of an endpoint does not change while
   they do not. *)
LEMMA SameVerdicts ==
    ASSUME vault' = vault, NEW id, NEW a, cache'[id] = cache[id],
           endpoints'[id].vault_groups = endpoints[id].vault_groups
    PROVE  /\ Stale(id, a)' <=> Stale(id, a)
           /\ endpoints'[id].last_synced_at = endpoints[id].last_synced_at =>
                 (WillBeReported(id, a)' <=> WillBeReported(id, a))
<1>1. LiveSeen(id, a)' = LiveSeen(id, a)
  BY Zenon DEF LiveSeen
<1>2. Stale(id, a)' <=> Stale(id, a)
  BY <1>1, Zenon DEF Stale
<1>3. ASSUME endpoints'[id].last_synced_at = endpoints[id].last_synced_at
      PROVE  Selected(endpoints[id].vault_groups, endpoints[id].last_synced_at)' =
                Selected(endpoints[id].vault_groups, endpoints[id].last_synced_at)
  BY <1>3 DEF Selected
<1> QED BY <1>2, <1>3, Zenon DEF WillBeReported

(* An endpoint whose groups, cursor and entry do not change still catches up, and
   so does one that has everything in drift. *)
LEMMA StillCatchesUp ==
    ASSUME DriftInv, vault' = vault,
           NEW id \in DOMAIN endpoints \cap DOMAIN cache, cache'[id] = cache[id],
           endpoints'[id].last_synced_at = endpoints[id].last_synced_at,
           endpoints[id].last_synced_at # None,
           drift[id] \subseteq drift'[id],
           endpoints'[id].vault_groups = endpoints[id].vault_groups \/ drift'[id] = Addrs,
           NEW a \in Parseable, Stale(id, a)'
    PROVE  WillBeReported(id, a)' \/ a \in drift'[id]
<1>1. CASE drift'[id] = Addrs
  BY <1>1, ParseableAssumption, Zenon
<1>2. CASE endpoints'[id].vault_groups = endpoints[id].vault_groups
  <2>1. Stale(id, a) /\ (WillBeReported(id, a) => WillBeReported(id, a)')
    BY <1>2, SameVerdicts, Zenon
  <2>2. WillBeReported(id, a) \/ a \in drift[id]
    BY <2>1, Zenon DEF DriftInv, EntriesCatchUp
  <2> QED BY <2>1, <2>2, Zenon
<1> QED BY <1>1, <1>2, Zenon

(* A step that changes neither Vault, rows, entries nor drift, and does not get
   to an answer or beyond, has only the request and the rows to visit to keep. *)
LEMMA QuietSteps ==
    ASSUME IInv, DriftInv, vault' = vault, endpoints' = endpoints, cache' = cache, drift' = drift,
           pc' \notin {"apply", "mark"}, JobIsCurrent', TodoIsCurrent'
    PROVE  DriftInv'
<1>1. EntriesCatchUp'
  BY StillCatchesUp, Zenon DEF EntriesCatchUp
<1> QED BY <1>1, Zenon DEF DriftInv, BatchIsCurrent, NewsIsRepeated, AppliedIsFresh

(* The steps of a pass between two endpoints, and the ones that give up. *)
LEMMA PassKeepsDrift ==
    ASSUME IInv, DriftInv,
           \/ ListEndpoints \/ ListFails \/ EndPass \/ Wake \/ VaultErrs \/ MarkFails \/ BootTimeout
    PROVE  DriftInv'
<1>1. vault' = vault /\ endpoints' = endpoints /\ cache' = cache /\ drift' = drift
  BY Zenon DEF ListEndpoints, ListFails, EndPass, Wake, VaultErrs, MarkFails, BootTimeout,
               dbVars, history
<1>2. pc' \in {"pass", "next", "sleep"}
  BY Zenon DEF ListEndpoints, ListFails, EndPass, Wake, VaultErrs, MarkFails, BootTimeout
<1>3. pc' \notin Busy /\ pc' \notin {"apply", "mark"} /\ pc' \notin {"fetch", "apply"}
  BY <1>2, Zenon DEF Busy
<1>4. JobIsCurrent'
  BY <1>3, Zenon DEF JobIsCurrent
<1>5. todo' = todo \/ todo' = endpoints \/ DOMAIN todo' = {}
  BY Zenon DEF ListEndpoints, ListFails, EndPass, Wake, VaultErrs, MarkFails, BootTimeout, NoRows
<1>6. TodoIsCurrent'
  BY <1>1, <1>3, <1>5, Zenon DEF DriftInv, TodoIsCurrent
<1> QED BY <1>1, <1>3, <1>4, <1>6, QuietSteps, Zenon

(* The visit of a row: the request is made from the row as it was listed, which
   is the row as it is but for an edit. *)
LEMMA VisitKeepsDrift ==
    ASSUME IInv, DriftInv, NEW id \in Endpoints, StartFull(id) \/ StartDiff(id) \/ SkipNotDue(id)
    PROVE  DriftInv'
<1>1. vault' = vault /\ endpoints' = endpoints /\ cache' = cache /\ drift' = drift
  BY Zenon DEF StartFull, StartDiff, SkipNotDue, dbVars, history
<1>2. /\ pc = "next" /\ id \in DOMAIN todo
      /\ DOMAIN todo' = DOMAIN todo \ {id} /\ \A i \in DOMAIN todo' : todo'[i] = todo[i]
  BY Zenon DEF StartFull, StartDiff, SkipNotDue, Visit
<1>3. \A i \in DOMAIN todo \cap DOMAIN endpoints :
         /\ todo[i].last_synced_at = endpoints[i].last_synced_at
         /\ todo[i].vault_groups = endpoints[i].vault_groups \/ drift[i] = Addrs
  BY Zenon DEF DriftInv, TodoIsCurrent
<1>4. CASE SkipNotDue(id)
  <2>1. pc' = "next"
    BY <1>2, <1>4, Zenon DEF SkipNotDue
  <2>2. JobIsCurrent'
    BY <2>1, Zenon DEF JobIsCurrent
  <2>3. TodoIsCurrent'
    BY <1>1, <1>2, <1>3, <2>1, Zenon DEF TodoIsCurrent, Busy
  <2> QED BY <1>1, <2>1, <2>2, <2>3, QuietSteps, Zenon
<1>5. CASE StartFull(id) \/ StartDiff(id)
  <2>1. /\ pc' = "fetch" /\ job'.id = id /\ job'.groups = todo[id].vault_groups
        /\ \/ job'.full = TRUE /\ job'.since = None
           \/ job'.full = FALSE /\ job'.since = todo[id].last_synced_at
    BY <1>5 DEF StartFull, StartDiff, Request
  <2>2. JobIsCurrent'
    BY <1>1, <1>2, <1>3, <2>1, Zenon DEF JobIsCurrent
  <2>3. TodoIsCurrent'
    BY <1>1, <1>2, <1>3, <2>1, Zenon DEF TodoIsCurrent
  <2> QED BY <1>1, <2>1, <2>2, <2>3, QuietSteps, Zenon
<1> QED BY <1>4, <1>5, Zenon

(* Vault's answer is, when it is given, what Vault has. *)
LEMMA AnswerKeepsDrift ==
    ASSUME IInv, DriftInv, NEW id \in Endpoints, VaultAnswers(id)
    PROVE  DriftInv'
<1>1. /\ vault' = vault /\ endpoints' = endpoints /\ cache' = cache /\ drift' = drift
      /\ todo' = todo /\ late' = late /\ pc = "fetch" /\ pc' = "apply"
  BY Zenon DEF VaultAnswers, dbVars, history
<1>t. TypeOK /\ JobInHand
  BY Zenon DEF IInv
<1>2. job \in Job
  BY <1>1, <1>t, Zenon DEF TypeOK, JobInHand, Busy
<1> PICK gs : gs = job.groups
  BY Zenon
<1> PICK since : since = job.since
  BY Zenon
<1>3. PICK b \in Listings(gs, since) :
         job' = [job EXCEPT !.batch = b, !.contested = Contested(gs)]
  BY Zenon DEF VaultAnswers
<1>4. /\ job'.id = job.id /\ job'.groups = gs /\ job'.since = since /\ job'.full = job.full
      /\ job'.batch = b /\ job'.contested = Contested(gs)
  BY <1>2, <1>3, Zenon DEF Job
<1>5. JobIsCurrent' /\ TodoIsCurrent'
  BY <1>1, <1>4, Zenon DEF DriftInv, JobIsCurrent, TodoIsCurrent, Busy
<1>6. EntriesCatchUp'
  BY <1>1, StillCatchesUp, Zenon DEF EntriesCatchUp
<1>7. /\ \A i \in DOMAIN b : \E m \in Selected(gs, since) : RowAt(m) = b[i]
      /\ \A m \in Selected(gs, since) : \E i \in DOMAIN b : b[i] = RowAt(m)
  <2> DEFINE S == Selected(gs, since)
  <2>1. PICK s \in Bijection(1..Cardinality(S), S) : b = [i \in DOMAIN s |-> RowAt(s[i])]
    BY Zenon DEF Listings
  <2>2. DOMAIN s = 1..Cardinality(S) /\ DOMAIN b = DOMAIN s
        /\ \A i \in DOMAIN s : s[i] \in S /\ b[i] = RowAt(s[i])
    BY <2>1, Zenon DEF Bijection, Injection
  <2>3. \A m \in S : \E i \in DOMAIN s : s[i] = m
    BY <2>1, <2>2, Zenon DEF Bijection, Surjection
  <2> HIDE DEF S
  <2>4. /\ \A i \in DOMAIN b : \E m \in S : RowAt(m) = b[i]
        /\ \A m \in S : \E i \in DOMAIN b : b[i] = RowAt(m)
    BY <2>2, <2>3, Zenon
  <2> QED BY <2>4, Zenon DEF S
<1>8. /\ Selected(gs, since)' = Selected(gs, since)
      /\ \A m : RowAt(m)' = RowAt(m)
      /\ Selected(job.groups, job.since)' = Selected(gs, since)'
  <2>1. Selected(gs, since)' = Selected(gs, since)
    BY <1>1, Zenon DEF Selected
  <2>2. \A m : RowAt(m)' = RowAt(m)
    BY <1>1, Zenon DEF RowAt
  <2>3. Selected(job.groups, job.since)' = Selected(gs, since)'
    BY <1>4, Zenon DEF Selected
  <2> QED BY <2>1, <2>2, <2>3, Zenon
<1>9. \A a \in Addrs \ Contested(gs) : \A g, h \in gs :
         <<g, a>> \in DOMAIN vault /\ <<h, a>> \in DOMAIN vault => g = h
  BY SMTT(30) DEF Contested
<1>10. BatchIsCurrent'
  BY <1>1, <1>4, <1>7, <1>8, <1>9 DEF BatchIsCurrent
<1>11. NewsIsRepeated'
  <2>1. ASSUME NEW a \in Addrs, Positions(b, a) # {}
        PROVE  \E m \in Selected(gs, since) : m[2] = a
    <3>1. PICK i \in DOMAIN b : b[i].target_address = a
      BY <2>1, Zenon DEF Positions
    <3>2. PICK m \in Selected(gs, since) : RowAt(m) = b[i]
      BY <1>7, Zenon
    <3>3. RowAt(m).target_address = m[2]
      BY Zenon DEF RowAt
    <3> QED BY <3>1, <3>2, <3>3, Zenon
  <2>2. Selected(job.groups, job.since)' = Selected(gs, since)
    BY <1>8, Zenon
  <2>3. \A a \in Addrs : Positions(job'.batch, a) # {} =>
           \E m \in Selected(job.groups, job.since)' : m[2] = a
    BY <1>4, <2>1, <2>2, Zenon
  <2> QED BY <2>3, Zenon DEF NewsIsRepeated
<1>12. AppliedIsFresh'
  BY <1>1, Zenon DEF AppliedIsFresh
<1> QED BY <1>5, <1>6, <1>10, <1>11, <1>12, Zenon DEF DriftInv

-----------------------------------------------------------------------------
(* Applying an answer.                                                       *)

\* What a record must be for the cache not to be stale about its address.
Agrees(record, seen) == IF record = None THEN seen = {} ELSE record \in seen

(* LiveSeen in terms of memberships. *)
LEMMA SeenIsListed ==
    ASSUME TypeOK, NEW id \in DOMAIN endpoints, NEW a,
           NEW groups, groups = endpoints[id].vault_groups
    PROVE  /\ \A m \in DOMAIN vault :
                 m[1] \in groups /\ m[2] = a /\ ~vault[m].is_deleted =>
                    vault[m].last_seen_at \in LiveSeen(id, a)
           /\ \A t \in LiveSeen(id, a) : \E g \in groups :
                 <<g, a>> \in DOMAIN vault /\ ~vault[<<g, a>>].is_deleted
                 /\ t = vault[<<g, a>>].last_seen_at
<1>1. ASSUME NEW m \in DOMAIN vault, m[1] \in groups, m[2] = a, ~vault[m].is_deleted
      PROVE  vault[m].last_seen_at \in LiveSeen(id, a)
  <2>1. m \in Groups \X Addrs
    BY Zenon DEF TypeOK
  <2>2. PICK g \in Groups : m = <<g, a>>
    BY <1>1, <2>1
  <2>3. g \in groups
    BY <1>1, <2>2
  <2> QED BY <1>1, <2>2, <2>3, Zenon DEF LiveSeen
<1> QED BY <1>1, Zenon DEF LiveSeen

(* A row of the batch at some position of an address. *)
LEMMA BatchRow ==
    ASSUME IInv, DriftInv, pc = "apply", NEW a \in Addrs \ late,
           NEW P, P \subseteq DOMAIN job.batch, P # {},
           \A i \in P : job.batch[i].target_address = a
    PROVE  /\ NewestOf(P) \in P
           /\ \E m \in Selected(job.groups, job.since) :
                 m[2] = a /\ RowAt(m) = job.batch[NewestOf(P)]
           /\ job.batch[NewestOf(P)].last_seen_at \in Nat
<1>1. job \in Job
  BY Zenon DEF IInv, TypeOK, JobInHand, Busy
<1>2. PICK b \in Seq(Row) : b = job.batch
  BY <1>1, Zenon DEF Job
<1>3. Len(b) \in Nat /\ DOMAIN b = 1..Len(b) /\ \A i \in 1..Len(b) : b[i] \in Row
  BY BatchColumn, Zenon
<1>4. P \in SUBSET (1..Len(b))
  BY <1>2, <1>3, Zenon
<1>5. NewestOf(P) \in P
  BY <1>3, <1>4, NewestPosition, Zenon
<1>6. PICK p \in P : p = NewestOf(P)
  BY <1>5, Zenon
<1>7. b[p].target_address = a /\ b[p].last_seen_at \in Nat
  BY <1>2, <1>3, <1>4, Zenon DEF Row, Time
<1>8. PICK m \in Selected(job.groups, job.since) : RowAt(m) = b[p]
  BY <1>2, <1>7, Zenon DEF DriftInv, BatchIsCurrent
<1>9. RowAt(m).target_address = m[2]
  BY Zenon DEF RowAt
<1>10. m[2] = a
  BY <1>7, <1>8, <1>9, Zenon
<1> QED BY <1>2, <1>5, <1>6, <1>7, <1>8, <1>10, Zenon

(* After apply_full the entry agrees with Vault about every address that did not
   change since the answer. *)
LEMMA FullIsFresh ==
    ASSUME IInv, DriftInv, pc = "apply", job.full, GroupsCurrent, NEW a \in Parseable \ late
    PROVE  Agrees(FullRecords(job.batch)[a], LiveSeen(job.id, a))
<1>t. TypeOK /\ job.since = None /\ a \in Addrs \ late
  BY ParseableAssumption, Zenon DEF IInv, DriftInv, JobIsCurrent
<1>g. job.id \in DOMAIN endpoints /\ job.groups = endpoints[job.id].vault_groups
  BY Zenon DEF GroupsCurrent
<1> DEFINE P == LivePositions(job.batch, a)
<1>1. /\ P \subseteq DOMAIN job.batch
      /\ \A i \in P : job.batch[i].target_address = a /\ ~job.batch[i].is_deleted
  BY Zenon DEF LivePositions
<1>2. FullRecords(job.batch)[a] =
         IF P = {} THEN None ELSE job.batch[NewestOf(P)].last_seen_at
  BY <1>t, Zenon DEF FullRecords
<1>3. CASE P = {}
  <2>1. ASSUME NEW x \in LiveSeen(job.id, a) PROVE FALSE
    <3>1. PICK g \in job.groups : <<g, a>> \in DOMAIN vault /\ ~vault[<<g, a>>].is_deleted
      BY <1>t, <1>g, SeenIsListed, Zenon
    <3>2. PICK m : m = <<g, a>>
      BY Zenon
    <3>3. m[1] = g /\ m[2] = a
      BY <3>2, Zenon
    <3>4. m \in Selected(job.groups, job.since)
      BY <1>t, <3>1, <3>2, <3>3, Zenon DEF Selected
    <3>5. PICK i \in DOMAIN job.batch : job.batch[i] = RowAt(m)
      BY <1>t, <3>3, <3>4, Zenon DEF DriftInv, BatchIsCurrent
    <3>6. RowAt(m).target_address = a /\ RowAt(m).is_deleted = vault[m].is_deleted
      BY <3>3, Zenon DEF RowAt
    <3>7. i \in P
      BY <3>1, <3>2, <3>5, <3>6, Zenon DEF LivePositions
    <3> QED BY <1>3, <3>7, Zenon
  <2>2. LiveSeen(job.id, a) = {}
    BY <2>1, Zenon
  <2> QED BY <1>2, <1>3, <2>2, Zenon DEF Agrees
<1>4. CASE P # {}
  <2>1. /\ NewestOf(P) \in P
        /\ \E m \in Selected(job.groups, job.since) :
              m[2] = a /\ RowAt(m) = job.batch[NewestOf(P)]
        /\ job.batch[NewestOf(P)].last_seen_at \in Nat
    <3> HIDE DEF P
    <3> QED BY <1>t, <1>1, <1>4, BatchRow, Zenon
  <2>2. PICK m \in Selected(job.groups, job.since) :
           m[2] = a /\ RowAt(m) = job.batch[NewestOf(P)]
    BY <2>1, Zenon
  <2>3. m \in DOMAIN vault /\ m[1] \in job.groups /\ ~vault[m].is_deleted
    BY <1>t, Zenon DEF Selected
  <2>4. RowAt(m).last_seen_at = vault[m].last_seen_at
    BY Zenon DEF RowAt
  <2>5. vault[m].last_seen_at \in LiveSeen(job.id, a)
    BY <1>t, <1>g, <2>2, <2>3, SeenIsListed, Zenon
  <2>6. FullRecords(job.batch)[a] = vault[m].last_seen_at
    BY <1>2, <1>4, <2>2, <2>4, Zenon
  <2>7. vault[m].last_seen_at # None
    BY <2>1, <2>2, <2>4, NoneAssumption, Zenon
  <2> QED BY <2>5, <2>6, <2>7, Zenon DEF Agrees
<1> QED BY <1>3, <1>4, Zenon

(* After apply_diff the entry agrees with Vault about every address that did not
   change since the answer and is not in drift: the batch has its only
   membership, or nothing changed since the cursor. *)
LEMMA DiffIsFresh ==
    ASSUME IInv, DriftInv, pc = "apply", ~job.full, GroupsCurrent, job.id \in DOMAIN cache,
           NEW a \in Parseable \ late,
           a \notin drift[job.id] \cup job.contested \cup Unreported
    PROVE  Agrees(DiffRecords(cache[job.id].records, job.batch)[a], LiveSeen(job.id, a))
<1>t. TypeOK /\ a \in Addrs \ late
  BY ParseableAssumption, Zenon DEF IInv
<1>g. job.id \in DOMAIN endpoints /\ job.groups = endpoints[job.id].vault_groups
  BY Zenon DEF GroupsCurrent
<1>s. job.since = endpoints[job.id].last_synced_at
  BY <1>g, Zenon DEF DriftInv, JobIsCurrent
<1> DEFINE P == Positions(job.batch, a)
<1>1. P \subseteq DOMAIN job.batch /\ \A i \in P : job.batch[i].target_address = a
  BY Zenon DEF Positions
<1>2. DiffRecords(cache[job.id].records, job.batch)[a] =
         IF P = {} THEN cache[job.id].records[a] ELSE Upsert(job.batch[NewestOf(P)])
  BY <1>t, Zenon DEF DiffRecords
<1>3. CASE P = {}
  <2>1. job.since # None
    BY <1>t, <1>3, Zenon DEF Unreported
  <2>2. ASSUME NEW m \in Selected(job.groups, job.since), m[2] = a PROVE FALSE
    <3>1. PICK i \in DOMAIN job.batch : job.batch[i] = RowAt(m)
      BY <1>t, <2>2, Zenon DEF DriftInv, BatchIsCurrent
    <3>2. RowAt(m).target_address = a
      BY <2>2, Zenon DEF RowAt
    <3>3. i \in P
      BY <3>1, <3>2, Zenon DEF Positions
    <3> QED BY <1>3, <3>3, Zenon
  <2>3. ~WillBeReported(job.id, a)
    BY <1>g, <1>s, <2>2, Zenon DEF WillBeReported
  <2>4. ~Stale(job.id, a)
    BY <1>g, <1>s, <2>1, <2>3, Zenon DEF DriftInv, EntriesCatchUp
  <2> QED BY <1>2, <1>3, <2>4, Zenon DEF Stale, Agrees
<1>4. CASE P # {}
  <2>1. /\ NewestOf(P) \in P
        /\ \E m \in Selected(job.groups, job.since) :
              m[2] = a /\ RowAt(m) = job.batch[NewestOf(P)]
        /\ job.batch[NewestOf(P)].last_seen_at \in Nat
    <3> HIDE DEF P
    <3> QED BY <1>t, <1>1, <1>4, BatchRow, Zenon
  <2>2. PICK m \in Selected(job.groups, job.since) :
           m[2] = a /\ RowAt(m) = job.batch[NewestOf(P)]
    BY <2>1, Zenon
  <2>3. m \in DOMAIN vault /\ m[1] \in job.groups
    BY Zenon DEF Selected
  <2>4. RowAt(m).last_seen_at = vault[m].last_seen_at /\ RowAt(m).is_deleted = vault[m].is_deleted
    BY Zenon DEF RowAt
  <2>5. DiffRecords(cache[job.id].records, job.batch)[a] =
           IF vault[m].is_deleted THEN None ELSE vault[m].last_seen_at
    BY <1>2, <1>4, <2>2, <2>4, Zenon DEF Upsert
  <2>6. vault[m].last_seen_at # None
    BY <2>1, <2>2, <2>4, NoneAssumption, Zenon
  <2>7. CASE ~vault[m].is_deleted
    <3>1. vault[m].last_seen_at \in LiveSeen(job.id, a)
      BY <1>t, <1>g, <2>2, <2>3, <2>7, SeenIsListed, Zenon
    <3> QED BY <2>5, <2>6, <2>7, <3>1, Zenon DEF Agrees
  <2>8. CASE vault[m].is_deleted
    <3>1. ASSUME NEW x \in LiveSeen(job.id, a) PROVE FALSE
      <4>1. PICK g \in job.groups : <<g, a>> \in DOMAIN vault /\ ~vault[<<g, a>>].is_deleted
        BY <1>t, <1>g, SeenIsListed, Zenon
      <4>2. m \in Groups \X Addrs
        BY <1>t, <2>3, Zenon DEF TypeOK
      <4>3. PICK h \in Groups : m = <<h, a>>
        BY <2>2, <4>2
      <4>4. h \in job.groups
        BY <2>3, <4>3, Zenon
      <4>5. g = h
        BY <1>t, <2>3, <4>1, <4>3, <4>4, Zenon DEF DriftInv, BatchIsCurrent
      <4> QED BY <2>8, <4>1, <4>3, <4>5, Zenon
    <3>2. LiveSeen(job.id, a) = {}
      BY <3>1, Zenon
    <3> QED BY <2>5, <2>8, <3>2, Zenon DEF Agrees
  <2> QED BY <2>7, <2>8, Zenon
<1> QED BY <1>3, <1>4, Zenon

(* apply_full and apply_diff: the entry they leave is stale only about addresses
   that changed since the answer or are in drift, and if the row is never
   stamped the next differential sync reports the rest again. *)
LEMMA ApplyKeepsDrift ==
    ASSUME IInv, DriftInv, ApplyFull \/ ApplyDiff
    PROVE  DriftInv'
<1>t. TypeOK /\ JobInHand /\ DiffHasEntry
  BY Zenon DEF IInv
<1>1. /\ vault' = vault /\ endpoints' = endpoints /\ todo' = todo /\ job' = job /\ late' = late
      /\ pc = "apply" /\ pc' = "mark"
  BY Zenon DEF ApplyFull, ApplyDiff, dbVars
<1>2. job # NoJob /\ job \in Job
  BY <1>t, <1>1, Zenon DEF TypeOK, JobInHand, Busy
<1> PICK id : id = job.id
  BY Zenon
<1>3. /\ id \in Endpoints /\ job.contested \in SUBSET Addrs /\ late \in SUBSET Addrs
      /\ drift \in [Endpoints -> SUBSET Addrs]
  BY <1>t, <1>2, Zenon DEF TypeOK, Job
<1>4. DOMAIN cache' = DOMAIN cache \cup {id} /\ \A i \in DOMAIN cache \ {id} : cache'[i] = cache[i]
  BY Zenon DEF ApplyFull, ApplyDiff, apply_full, apply_diff, Put
<1>5. \A i \in Endpoints \ {id} : drift'[i] = drift[i]
  BY <1>3, Zenon DEF ApplyFull, ApplyDiff
<1>6. JobIsCurrent' /\ BatchIsCurrent' /\ NewsIsRepeated'
  BY <1>1, Zenon DEF JobIsCurrent, BatchIsCurrent, NewsIsRepeated
<1>7. TodoIsCurrent'
  <2>1. id \notin DOMAIN todo /\ DOMAIN todo \subseteq Endpoints
    BY <1>t, <1>1, Zenon DEF DriftInv, TodoIsCurrent, Busy, TypeOK, IsTable
  <2>2. \A i \in DOMAIN todo : drift'[i] = drift[i]
    BY <1>5, <2>1, Zenon
  <2> QED BY <1>1, <2>1, <2>2, Zenon DEF DriftInv, TodoIsCurrent
<1>8. \A a : Stale(id, a)' <=> ~Agrees(cache'[id].records[a], LiveSeen(id, a))
  <2>1. \A a : LiveSeen(id, a)' = LiveSeen(id, a)
    BY <1>1, Zenon DEF LiveSeen
  <2> QED BY <2>1, Zenon DEF Stale, Agrees
<1>9. ASSUME ApplyFull, id \in DOMAIN endpoints, NEW a \in Parseable, Stale(id, a)'
      PROVE  a \in drift'[id]
  <2>1. /\ job.full /\ cache' = apply_full(cache, id, job.batch, now)
        /\ drift' = [drift EXCEPT ![id] = IF GroupsCurrent THEN late ELSE Addrs]
    BY <1>9, Zenon DEF ApplyFull
  <2>2. cache'[id].records = FullRecords(job.batch)
    BY <2>1, Zenon DEF apply_full, Put
  <2>3. drift'[id] = IF GroupsCurrent THEN late ELSE Addrs
    BY <1>3, <2>1, Zenon
  <2>4. CASE ~GroupsCurrent
    BY <2>3, <2>4, ParseableAssumption, Zenon
  <2>5. CASE GroupsCurrent /\ a \notin late
    <3>1. Agrees(FullRecords(job.batch)[a], LiveSeen(id, a))
      BY <1>1, <2>1, <2>5, FullIsFresh, Zenon
    <3> QED BY <1>8, <1>9, <2>2, <3>1, Zenon
  <2> QED BY <2>3, <2>4, <2>5, Zenon
<1>10. ASSUME ApplyDiff, id \in DOMAIN endpoints, NEW a \in Parseable, Stale(id, a)', a \notin drift'[id]
       PROVE  a \in late /\ (endpoints[id].last_synced_at # None => WillBeReported(id, a)')
  <2>1. /\ ~job.full /\ cache' = apply_diff(cache, id, job.batch)
        /\ drift' = [drift EXCEPT ![id] = @ \cup job.contested \cup Unreported]
    BY <1>10, Zenon DEF ApplyDiff
  <2>2. id \in DOMAIN cache
    BY <1>t, <1>2, <1>10, <2>1, Zenon DEF DiffHasEntry
  <2>3. cache'[id].records = DiffRecords(cache[id].records, job.batch)
    BY <2>1, <2>2, Zenon DEF apply_diff, Put, EntryOf
  <2>4. drift'[id] = drift[id] \cup job.contested \cup Unreported
    BY <1>3, <2>1, Zenon
  <2>5. a \in Addrs /\ a \notin drift[id] \cup job.contested \cup Unreported
    BY <1>10, <2>4, ParseableAssumption, Zenon
  <2>6. GroupsCurrent /\ job.since = endpoints[id].last_synced_at
    BY <1>1, <1>10, <2>1, <2>5, Zenon DEF DriftInv, JobIsCurrent, GroupsCurrent
  <2>7. a \in late
    <3> SUFFICES ASSUME a \notin late PROVE FALSE
      BY Zenon
    <3>1. Agrees(DiffRecords(cache[id].records, job.batch)[a], LiveSeen(id, a))
      BY <1>1, <2>1, <2>2, <2>5, <2>6, DiffIsFresh, Zenon
    <3> QED BY <1>8, <1>10, <2>3, <3>1, Zenon
  <2>8. ASSUME endpoints[id].last_synced_at # None PROVE WillBeReported(id, a)'
    <3>1. WillBeReported(id, a)' <=> WillBeReported(id, a)
      <4>1. Selected(endpoints[id].vault_groups, endpoints[id].last_synced_at)' =
               Selected(endpoints[id].vault_groups, endpoints[id].last_synced_at)
        BY <1>1 DEF Selected
      <4> QED BY <4>1, Zenon DEF WillBeReported
    <3>2. CASE Positions(job.batch, a) = {}
      <4>1. DiffRecords(cache[id].records, job.batch)[a] = cache[id].records[a]
        BY <2>5, <3>2, Zenon DEF DiffRecords
      <4>2. Stale(id, a)
        BY <1>8, <1>10, <2>3, <4>1, Zenon DEF Stale, Agrees
      <4>3. WillBeReported(id, a)
        BY <1>10, <2>2, <2>5, <2>8, <4>2, Zenon DEF DriftInv, EntriesCatchUp
      <4> QED BY <3>1, <4>3, Zenon
    <3>3. CASE Positions(job.batch, a) # {}
      <4>1. \E m \in Selected(job.groups, job.since) : m[2] = a
        BY <1>1, <1>10, <2>1, <2>5, <2>6, <2>8, <3>3, Zenon DEF DriftInv, NewsIsRepeated
      <4>2. WillBeReported(id, a)
        BY <2>6, <4>1, Zenon DEF WillBeReported, GroupsCurrent
      <4> QED BY <3>1, <4>2, Zenon
    <3> QED BY <3>2, <3>3, Zenon
  <2> QED BY <2>7, <2>8, Zenon
<1>11. AppliedIsFresh'
  <2> SUFFICES ASSUME id \in DOMAIN endpoints, NEW a \in Parseable, Stale(id, a)'
               PROVE  a \in late \cup drift'[id]
    BY <1>1, Zenon DEF AppliedIsFresh
  <2> QED BY <1>9, <1>10, Zenon
<1>12. EntriesCatchUp'
  <2> SUFFICES ASSUME NEW i \in DOMAIN endpoints \cap DOMAIN cache',
                      endpoints[i].last_synced_at # None, NEW a \in Parseable, Stale(i, a)'
               PROVE  WillBeReported(i, a)' \/ a \in drift'[i]
    BY <1>1, Zenon DEF EntriesCatchUp
  <2>1. CASE i = id
    BY <1>9, <1>10, <2>1, Zenon
  <2>2. CASE i # id
    <3>1. i \in DOMAIN endpoints \cap DOMAIN cache /\ cache'[i] = cache[i] /\ i \in Endpoints
      BY <1>t, <1>4, <2>2, Zenon DEF TypeOK, IsTable
    <3>2. drift[i] \subseteq drift'[i]
      BY <1>5, <2>2, <3>1, Zenon
    <3> QED BY <1>1, <3>1, <3>2, StillCatchesUp, Zenon
  <2> QED BY <2>1, <2>2, Zenon
<1> QED BY <1>6, <1>7, <1>11, <1>12, Zenon DEF DriftInv

(* mark_synced moves the cursor past everything Vault had when it answered: what
   changed since then goes into drift. *)
LEMMA MarkKeepsDrift ==
    ASSUME IInv, DriftInv, MarkSynced
    PROVE  DriftInv'
<1>t. TypeOK /\ JobInHand
  BY Zenon DEF IInv
<1>1. /\ vault' = vault /\ cache' = cache /\ todo' = todo /\ pc = "mark" /\ pc' = "next"
      /\ job.id \in DOMAIN endpoints
      /\ drift' = [drift EXCEPT ![job.id] = @ \cup late]
      /\ endpoints' = [endpoints EXCEPT ![job.id].last_synced_at = now]
  BY Zenon DEF MarkSynced, MarkDone
<1> PICK id : id = job.id
  BY Zenon
<1>2. /\ DOMAIN endpoints \subseteq Endpoints /\ endpoints \in [DOMAIN endpoints -> EndpointRow]
      /\ drift \in [Endpoints -> SUBSET Addrs] /\ late \in SUBSET Addrs
      /\ DOMAIN todo \subseteq Endpoints
  BY <1>t, Zenon DEF TypeOK, IsTable
<1>3. /\ id \in DOMAIN endpoints /\ id \in Endpoints /\ DOMAIN endpoints' = DOMAIN endpoints
      /\ \A i \in DOMAIN endpoints \ {id} : endpoints'[i] = endpoints[i]
      /\ endpoints'[id].vault_groups = endpoints[id].vault_groups
  BY <1>1, <1>2, Zenon DEF EndpointRow
<1>4. drift'[id] = drift[id] \cup late /\ \A i \in Endpoints \ {id} : drift'[i] = drift[i]
  BY <1>1, <1>2, <1>3, Zenon
<1>5. JobIsCurrent' /\ BatchIsCurrent' /\ NewsIsRepeated' /\ AppliedIsFresh'
  BY <1>1, Zenon DEF JobIsCurrent, BatchIsCurrent, NewsIsRepeated, AppliedIsFresh
<1>6. TodoIsCurrent'
  <2>1. id \notin DOMAIN todo
    BY <1>1, Zenon DEF DriftInv, TodoIsCurrent, Busy
  <2>2. \A i \in DOMAIN todo \cap DOMAIN endpoints :
           endpoints'[i] = endpoints[i] /\ drift'[i] = drift[i]
    BY <1>2, <1>3, <1>4, <2>1, Zenon
  <2>3. \A i \in DOMAIN todo \cap DOMAIN endpoints :
           /\ todo[i].last_synced_at = endpoints'[i].last_synced_at
           /\ todo[i].vault_groups = endpoints'[i].vault_groups \/ drift'[i] = Addrs
    BY <2>2, Zenon DEF DriftInv, TodoIsCurrent
  <2>4. pc' \notin Busy
    BY <1>1, Zenon DEF Busy
  <2> QED BY <1>1, <1>3, <2>3, <2>4, Zenon DEF TodoIsCurrent
<1>7. EntriesCatchUp'
  <2> SUFFICES ASSUME NEW i \in DOMAIN endpoints \cap DOMAIN cache,
                      endpoints'[i].last_synced_at # None, NEW a \in Parseable, Stale(i, a)'
               PROVE  WillBeReported(i, a)' \/ a \in drift'[i]
    BY <1>1, <1>3, Zenon DEF EntriesCatchUp
  <2>1. CASE i = id
    <3>1. Stale(id, a)
      BY <1>1, <1>3, <2>1, SameVerdicts, Zenon
    <3>2. a \in late \cup drift[id]
      BY <1>1, <2>1, <3>1, Zenon DEF DriftInv, AppliedIsFresh
    <3> QED BY <1>4, <2>1, <3>2, Zenon
  <2>2. CASE i # id
    <3>1. endpoints'[i] = endpoints[i] /\ drift'[i] = drift[i] /\ cache'[i] = cache[i]
      BY <1>1, <1>2, <1>3, <1>4, <2>2, Zenon
    <3> QED BY <1>1, <3>1, StillCatchesUp, Zenon
  <2> QED BY <2>1, <2>2, Zenon
<1> QED BY <1>5, <1>6, <1>7, Zenon DEF DriftInv

\* What a step of a handler, or of nobody, does to the row of an endpoint: the
\* cursor stays, and if the groups change everything is in drift.
RowKept(i) ==
    /\ i \in DOMAIN endpoints
    /\ i \in DOMAIN cache' => i \in DOMAIN cache /\ cache'[i] = cache[i]
    /\ endpoints'[i].last_synced_at = endpoints[i].last_synced_at
    /\ endpoints'[i].vault_groups = endpoints[i].vault_groups \/ drift'[i] = Addrs

(* A step that lets the worker and Vault be keeps the reckoning if it keeps every
   row it does not create. *)
LEMMA OtherStepsKeepDrift ==
    ASSUME IInv, DriftInv, vault' = vault, pc' = pc, todo' = todo, job' = job, late' = late,
           \A i \in DOMAIN endpoints : drift[i] = drift'[i] \/ drift'[i] = Addrs,
           \A i \in DOMAIN endpoints' : i \notin created \cup DOMAIN cache' \/ RowKept(i)
    PROVE  DriftInv'
<1>t. TypeOK /\ IdsUsedOnce /\ JobInHand /\ (pc \in Busy => job # NoJob)
  BY Zenon DEF IInv, JobInHand
<1>d. /\ \A i \in DOMAIN endpoints : drift[i] \subseteq drift'[i]
      /\ \A i \in DOMAIN endpoints : drift[i] = Addrs => drift'[i] = Addrs
  <2>1. DOMAIN endpoints \subseteq Endpoints /\ drift \in [Endpoints -> SUBSET Addrs]
    BY <1>t, Zenon DEF TypeOK, IsTable
  <2> QED BY <2>1, Zenon
<1>1. /\ \A i \in DOMAIN todo \cap DOMAIN endpoints' : RowKept(i)
      /\ pc \in Busy /\ job.id \in DOMAIN endpoints' => RowKept(job.id)
      /\ \A i \in DOMAIN cache' \cap DOMAIN endpoints' : RowKept(i)
  BY <1>t, Zenon DEF IdsUsedOnce
<1>2. JobIsCurrent'
  <2> SUFFICES ASSUME pc \in {"fetch", "apply"}, job.id \in DOMAIN endpoints'
               PROVE  /\ ~job.full => job.since = endpoints'[job.id].last_synced_at
                      /\ job.groups = endpoints'[job.id].vault_groups \/ drift'[job.id] = Addrs
    BY Zenon DEF DriftInv, JobIsCurrent
  <2>1. RowKept(job.id)
    BY <1>1, Zenon DEF Busy
  <2> QED BY <1>d, <2>1, Zenon DEF RowKept, DriftInv, JobIsCurrent
<1>3. TodoIsCurrent'
  <2>1. \A i \in DOMAIN todo \cap DOMAIN endpoints' :
           /\ todo[i].last_synced_at = endpoints'[i].last_synced_at
           /\ todo[i].vault_groups = endpoints'[i].vault_groups \/ drift'[i] = Addrs
    BY <1>d, <1>1, Zenon DEF RowKept, DriftInv, TodoIsCurrent
  <2> QED BY <2>1, Zenon DEF DriftInv, TodoIsCurrent
<1>4. /\ Selected(job.groups, job.since)' = Selected(job.groups, job.since)
      /\ \A m : RowAt(m)' = RowAt(m)
  BY DEF Selected, RowAt
<1>5. BatchIsCurrent'
  BY <1>4 DEF DriftInv, BatchIsCurrent
<1>6. NewsIsRepeated'
  <2> SUFFICES ASSUME pc = "apply", ~job.full, job.since # None, job.id \in DOMAIN endpoints',
                      NEW a \in Addrs, Positions(job.batch, a) # {}
               PROVE  a \in drift'[job.id] \/ \E m \in Selected(job.groups, job.since) : m[2] = a
    BY <1>4, Zenon DEF NewsIsRepeated
  <2>1. job.id \in DOMAIN endpoints
    BY <1>1, Zenon DEF RowKept, Busy
  <2> QED BY <1>d, <2>1, Zenon DEF DriftInv, NewsIsRepeated
<1>7. AppliedIsFresh'
  <2> PICK id : id = job.id
    BY Zenon
  <2> SUFFICES ASSUME pc = "mark", id \in DOMAIN endpoints' \cap DOMAIN cache',
                      NEW a \in Parseable, Stale(id, a)'
               PROVE  a \in late \cup drift'[id]
    BY Zenon DEF AppliedIsFresh
  <2>1. RowKept(id) /\ id \in DOMAIN endpoints \cap DOMAIN cache /\ cache'[id] = cache[id]
    BY <1>1, Zenon DEF RowKept
  <2>2. CASE drift'[id] = Addrs
    BY <2>2, ParseableAssumption, Zenon
  <2>3. CASE endpoints'[id].vault_groups = endpoints[id].vault_groups
    <3>1. Stale(id, a)
      BY <2>1, <2>3, SameVerdicts, Zenon
    <3> QED BY <1>d, <2>1, <3>1, Zenon DEF DriftInv, AppliedIsFresh
  <2> QED BY <2>1, <2>2, <2>3, Zenon DEF RowKept
<1>8. EntriesCatchUp'
  <2> SUFFICES ASSUME NEW i \in DOMAIN endpoints' \cap DOMAIN cache',
                      endpoints'[i].last_synced_at # None, NEW a \in Parseable, Stale(i, a)'
               PROVE  WillBeReported(i, a)' \/ a \in drift'[i]
    BY Zenon DEF EntriesCatchUp
  <2>1. /\ i \in DOMAIN endpoints \cap DOMAIN cache /\ cache'[i] = cache[i]
        /\ endpoints'[i].last_synced_at = endpoints[i].last_synced_at
        /\ endpoints'[i].vault_groups = endpoints[i].vault_groups \/ drift'[i] = Addrs
    BY <1>1, Zenon DEF RowKept
  <2>2. drift[i] \subseteq drift'[i]
    BY <1>d, <2>1, Zenon
  <2> QED BY <2>1, <2>2, StillCatchesUp, Zenon
<1> QED BY <1>2, <1>3, <1>5, <1>6, <1>7, <1>8, Zenon DEF DriftInv

(* The clock and the admin handlers: create_endpoint inserts a row nothing refers
   to yet, update_endpoint keeps the cursor, delete_endpoint removes the row first
   and its entry afterwards. *)
LEMMA AdminKeepsDrift ==
    ASSUME IInv, DriftInv,
           Tick \/ AdminStep \/ UNCHANGED vars
    PROVE  DriftInv'
<1>t. /\ IdsUsedOnce /\ DOMAIN endpoints \subseteq Endpoints
      /\ endpoints \in [DOMAIN endpoints -> EndpointRow]
      /\ drift \in [Endpoints -> SUBSET Addrs]
  BY Zenon DEF IInv, TypeOK, IsTable
<1>1. vault' = vault /\ pc' = pc /\ todo' = todo /\ job' = job /\ late' = late
  BY Zenon DEF Tick, AdminStep, create_endpoint, update_endpoint, delete_endpoint, EvictDeleted,
               workerVars, history, vars
<1> DEFINE D == \A i \in DOMAIN endpoints : drift[i] = drift'[i] \/ drift'[i] = Addrs
           R == \A i \in DOMAIN endpoints' : i \notin created \cup DOMAIN cache' \/ RowKept(i)
<1>2. ASSUME Tick \/ UNCHANGED vars PROVE D /\ R
  BY <1>2, Zenon DEF Tick, vars, dbVars, history, RowKept
<1>3. ASSUME NEW id \in Endpoints, NEW groups \in GroupLists, NEW ttl \in Ttls,
             create_endpoint(id, groups, ttl)
      PROVE  D /\ R
  BY <1>t, <1>3, Zenon DEF create_endpoint, RowKept, IdsUsedOnce
<1>4. ASSUME NEW id \in Endpoints, NEW groups \in GroupLists, NEW ttl \in Ttls,
             update_endpoint(id, groups, ttl)
      PROVE  D /\ R
  <2>1. /\ id \in DOMAIN endpoints /\ cache' = cache
        /\ endpoints' = [endpoints EXCEPT ![id].vault_groups = groups, ![id].ttl_seconds = ttl]
        /\ drift' = IF groups = endpoints[id].vault_groups THEN drift
                    ELSE [drift EXCEPT ![id] = Addrs]
    BY <1>4, Zenon DEF update_endpoint
  <2>2. /\ DOMAIN endpoints' = DOMAIN endpoints
        /\ \A i \in DOMAIN endpoints \ {id} : endpoints'[i] = endpoints[i]
        /\ endpoints'[id].last_synced_at = endpoints[id].last_synced_at
        /\ endpoints'[id].vault_groups = groups
    BY <1>t, <2>1, Zenon DEF EndpointRow
  <2>3. /\ \A i \in Endpoints \ {id} : drift'[i] = drift[i]
        /\ groups = endpoints[id].vault_groups \/ drift'[id] = Addrs
        /\ drift'[id] = drift[id] \/ drift'[id] = Addrs
    BY <1>t, <2>1, Zenon
  <2> QED BY <1>t, <2>1, <2>2, <2>3, Zenon DEF RowKept
<1>5. ASSUME NEW id \in Endpoints, delete_endpoint(id) PROVE D /\ R
  BY <1>t, <1>5, Zenon DEF delete_endpoint, RowKept, history
<1>6. ASSUME NEW id \in Endpoints, EvictDeleted(id) PROVE D /\ R
  BY <1>t, <1>6, Zenon DEF EvictDeleted, evict, RowKept, history, IdsUsedOnce
<1>7. D /\ R
  BY <1>2, <1>3, <1>4, <1>5, <1>6, Zenon DEF AdminStep
<1> QED BY <1>1, <1>7, OtherStepsKeepDrift, Zenon

(* A restart drops every entry. *)
LEMMA RestartKeepsDrift ==
    ASSUME Restart
    PROVE  DriftInv'
<1>1. DOMAIN cache' = {} /\ DOMAIN todo' = {} /\ pc' = "pass"
  BY Zenon DEF Restart, EmptyCache, NoRows
<1> QED BY <1>1, Zenon
        DEF DriftInv, JobIsCurrent, TodoIsCurrent, BatchIsCurrent, NewsIsRepeated,
            AppliedIsFresh, EntriesCatchUp, Busy

(* Staleness is accounted for in every state. *)
THEOREM DriftIsAccountedFor == Spec => []DriftInv
<1>1. Init => DriftInv
  <2> SUFFICES ASSUME Init PROVE DriftInv
    BY Zenon
  <2>1. DOMAIN cache = {} /\ DOMAIN todo = {} /\ pc = "pass"
    BY Zenon DEF Init, EmptyCache, NoRows
  <2> QED BY <2>1, Zenon
          DEF DriftInv, JobIsCurrent, TodoIsCurrent, BatchIsCurrent, NewsIsRepeated,
              AppliedIsFresh, EntriesCatchUp, Busy
<1>2. IInv /\ DriftInv /\ [Next]_vars => DriftInv'
  <2> SUFFICES ASSUME IInv, DriftInv, [Next]_vars PROVE DriftInv'
    BY Zenon
  <2>1. ASSUME VaultStep PROVE DriftInv'
    BY <2>1, VaultKeepsDrift, Zenon DEF VaultStep
  <2>2. ASSUME SyncStep PROVE DriftInv'
    BY <2>2, PassKeepsDrift, VisitKeepsDrift, AnswerKeepsDrift, ApplyKeepsDrift, MarkKeepsDrift,
       Zenon DEF SyncStep
  <2> QED BY <2>1, <2>2, AdminKeepsDrift, RestartKeepsDrift, Zenon DEF Next
<1> QED BY <1>1, <1>2, Invariance, PTL DEF Spec

(* What the next differential sync of an endpoint would miss has one of the causes
   that are kept in drift. *)
THEOREM DriftIsExplained == Spec => []DriftHasACause
<1>1. DriftInv => DriftHasACause
  BY Zenon DEF DriftInv, EntriesCatchUp, DriftHasACause
<1> QED BY <1>1, DriftIsAccountedFor, PTL

-----------------------------------------------------------------------------
(* What a sync writes.                                                       *)

\* Vault lists the address in one of the groups, last seen at t.
InVault(groups, a, t) ==
    \E g \in groups : /\ <<g, a>> \in DOMAIN vault /\ ~vault[<<g, a>>].is_deleted
                      /\ vault[<<g, a>>].last_seen_at = t

\* The step gives an endpoint a record for the address, or another one.
Written(id, a) ==
    /\ cache'[id].records[a] # None
    /\ cache'[id].records[a] # EntryOf(cache, id).records[a]

(* What a feed serves came from Vault: apply_full and apply_diff alone add or change
   records, and only to what Vault says at that moment about the address in one of the
   groups that were asked for, unless the address changed there since Vault answered.
   No eviction, edit, restart or other endpoint's sync in between makes up a record. *)
NothingInvented ==
    [][\A id \in DOMAIN cache', a \in Addrs :
          Written(id, a) =>
             /\ pc = "apply" /\ id = job.id
             /\ a \in late \/ InVault(job.groups, a, cache'[id].records[a])]_vars

(* A full sync repairs whatever there was to repair: unless the groups were edited since
   the request, apply_full leaves an entry that disagrees with Vault about nothing but
   addresses that changed since Vault answered.  Contested addresses, hard deletes,
   earlier edits and failures are all forgotten. *)
FullSyncRepairs ==
    [][ApplyFull /\ GroupsCurrent => \A a \in Parseable \ late : ~Stale(job.id, a)']_vars

(* The last row of the answer for an address is one of Vault's rows. *)
LEMMA RowInVault ==
    ASSUME IInv, DriftInv, pc = "apply", NEW a \in Addrs \ late,
           NEW P, P \subseteq DOMAIN job.batch, P # {},
           \A i \in P : job.batch[i].target_address = a,
           ~job.batch[NewestOf(P)].is_deleted
    PROVE  InVault(job.groups, a, job.batch[NewestOf(P)].last_seen_at)
<1>1. PICK m \in Selected(job.groups, job.since) : m[2] = a /\ RowAt(m) = job.batch[NewestOf(P)]
  BY BatchRow, Zenon
<1>2. m \in DOMAIN vault /\ m[1] \in job.groups /\ m \in Groups \X Addrs
  BY Zenon DEF Selected, IInv, TypeOK
<1>3. PICK g \in Groups : m = <<g, a>>
  BY <1>1, <1>2
<1>4. g \in job.groups
  BY <1>2, <1>3
<1>5. RowAt(m).is_deleted = vault[m].is_deleted /\ RowAt(m).last_seen_at = vault[m].last_seen_at
  BY Zenon DEF RowAt
<1> QED BY <1>1, <1>2, <1>3, <1>4, <1>5, Zenon DEF InVault

(* Neither an eviction nor a restart writes records. *)
LEMMA OnlySyncsWrite ==
    ASSUME [Next]_vars, NEW id \in DOMAIN cache', NEW a, Written(id, a)
    PROVE  (ApplyFull \/ ApplyDiff) /\ id = job.id
<1>1. ASSUME cache' = cache PROVE FALSE
  BY <1>1, Zenon DEF Written, EntryOf
<1>2. CASE ApplyFull \/ ApplyDiff
  <2>1. PICK e : cache' = Put(cache, job.id, e)
    BY <1>2, Zenon DEF ApplyFull, ApplyDiff, apply_full, apply_diff
  <2>2. id # job.id => id \in DOMAIN cache /\ cache'[id] = cache[id]
    BY <2>1, Zenon DEF Put
  <2> QED BY <1>2, <2>2, Zenon DEF Written, EntryOf
<1>3. ASSUME NEW e \in Endpoints, EvictDeleted(e) PROVE FALSE
  <2>1. \A i \in DOMAIN cache' : i \in DOMAIN cache /\ cache'[i] = cache[i]
    BY <1>3, Zenon DEF EvictDeleted, evict
  <2> QED BY <2>1, Zenon DEF Written, EntryOf
<1>4. CASE Restart
  <2>1. DOMAIN cache' = {}
    BY <1>4, Zenon DEF Restart, EmptyCache
  <2> QED BY <2>1, Zenon
<1>5. CASE Tick \/ VaultStep \/ UNCHANGED vars
  <2>1. cache' = cache
    BY <1>5, Zenon DEF Tick, VaultStep, Observe, SoftDelete, HardDelete, Changed, vars
  <2> QED BY <1>1, <2>1, Zenon
<1>6. ASSUME NEW e \in Endpoints, NEW groups, NEW ttl,
             \/ create_endpoint(e, groups, ttl) \/ update_endpoint(e, groups, ttl)
             \/ delete_endpoint(e)
      PROVE  FALSE
  BY <1>1, <1>6, Zenon DEF create_endpoint, update_endpoint, delete_endpoint
<1>7. CASE \/ ListEndpoints \/ ListFails \/ EndPass \/ Wake \/ VaultErrs \/ MarkSynced
           \/ MarkFails \/ BootTimeout
  BY <1>1, <1>7, Zenon
     DEF ListEndpoints, ListFails, EndPass, Wake, VaultErrs, MarkSynced, MarkDone, MarkFails,
         BootTimeout
<1>8. ASSUME NEW e \in Endpoints, StartFull(e) \/ StartDiff(e) \/ SkipNotDue(e) \/ VaultAnswers(e)
      PROVE  FALSE
  BY <1>1, <1>8, Zenon DEF StartFull, StartDiff, SkipNotDue, VaultAnswers
<1> QED BY <1>2, <1>3, <1>4, <1>5, <1>6, <1>7, <1>8, Zenon DEF Next, AdminStep, SyncStep

(* Every record that a sync adds or changes is Vault's, for any number of endpoints,
   groups and addresses and however Vault, admins and restarts interleave with the
   steps of sync_endpoint. *)
THEOREM RecordsComeFromVault == Spec => NothingInvented
<1>1. IInv /\ DriftInv /\ [Next]_vars =>
         [\A id \in DOMAIN cache', a \in Addrs :
             Written(id, a) =>
                /\ pc = "apply" /\ id = job.id
                /\ a \in late \/ InVault(job.groups, a, cache'[id].records[a])]_vars
  <2> SUFFICES ASSUME IInv, DriftInv, [Next]_vars, NEW id \in DOMAIN cache', NEW a \in Addrs,
                      Written(id, a)
               PROVE  /\ pc = "apply" /\ id = job.id
                      /\ a \in late \/ InVault(job.groups, a, cache'[id].records[a])
    BY Zenon
  <2>1. (ApplyFull \/ ApplyDiff) /\ id = job.id /\ pc = "apply"
    BY OnlySyncsWrite, Zenon DEF ApplyFull, ApplyDiff
  <2> SUFFICES ASSUME a \notin late PROVE InVault(job.groups, a, cache'[id].records[a])
    BY <2>1, Zenon
  <2>2. CASE ApplyFull
    <3>1. PICK P : P = LivePositions(job.batch, a)
      BY Zenon
    <3>2. /\ P \subseteq DOMAIN job.batch
          /\ \A i \in P : job.batch[i].target_address = a /\ ~job.batch[i].is_deleted
      BY <3>1, Zenon DEF LivePositions
    <3>3. cache'[id].records = FullRecords(job.batch)
      BY <2>1, <2>2, Zenon DEF ApplyFull, apply_full, Put
    <3>4. P # {} /\ cache'[id].records[a] = job.batch[NewestOf(P)].last_seen_at
      BY <3>1, <3>3, Zenon DEF FullRecords, Written
    <3>5. NewestOf(P) \in P
      BY <2>1, <3>2, <3>4, BatchRow, Zenon
    <3> QED BY <2>1, <3>2, <3>4, <3>5, RowInVault, Zenon
  <2>3. CASE ApplyDiff
    <3>1. PICK P : P = Positions(job.batch, a)
      BY Zenon
    <3>2. P \subseteq DOMAIN job.batch /\ \A i \in P : job.batch[i].target_address = a
      BY <3>1, Zenon DEF Positions
    <3>3. cache'[id].records = DiffRecords(EntryOf(cache, id).records, job.batch)
      BY <2>1, <2>3, Zenon DEF ApplyDiff, apply_diff, Put
    <3>4. P # {} /\ cache'[id].records[a] = Upsert(job.batch[NewestOf(P)])
      BY <3>1, <3>3, Zenon DEF DiffRecords, Written
    <3>5. /\ ~job.batch[NewestOf(P)].is_deleted
          /\ cache'[id].records[a] = job.batch[NewestOf(P)].last_seen_at
      BY <3>4, Zenon DEF Upsert, Written
    <3> QED BY <2>1, <3>2, <3>4, <3>5, RowInVault, Zenon
  <2> QED BY <2>1, <2>2, <2>3, Zenon
<1> QED BY <1>1, Invariance, DriftIsAccountedFor, PTL DEF Spec, NothingInvented

(* After apply_full, for the groups it asked for, an endpoint is wrong about nothing but
   what changed since the answer, whatever happened to its entry before. *)
THEOREM FullSyncsRepair == Spec => FullSyncRepairs
<1>1. IInv /\ DriftInv /\ [Next]_vars =>
         [ApplyFull /\ GroupsCurrent => \A a \in Parseable \ late : ~Stale(job.id, a)']_vars
  <2> SUFFICES ASSUME IInv, DriftInv, ApplyFull, GroupsCurrent, NEW a \in Parseable \ late
               PROVE  ~Stale(job.id, a)'
    BY Zenon
  <2>1. /\ pc = "apply" /\ job.full /\ job' = job /\ vault' = vault /\ endpoints' = endpoints
        /\ cache' = apply_full(cache, job.id, job.batch, now)
    BY Zenon DEF ApplyFull, dbVars
  <2>2. PICK id : id = job.id
    BY Zenon
  <2>3. cache'[id].records = FullRecords(job.batch)
    BY <2>1, <2>2, Zenon DEF apply_full, Put
  <2>4. LiveSeen(id, a)' = LiveSeen(id, a)
    BY <2>1, Zenon DEF LiveSeen
  <2>5. Agrees(cache'[id].records[a], LiveSeen(id, a)')
    BY <2>1, <2>2, <2>3, <2>4, FullIsFresh, Zenon
  <2>6. ~Stale(id, a)'
    BY <2>5, Zenon DEF Stale, Agrees
  <2> QED BY <2>1, <2>2, <2>6, Zenon
<1> QED BY <1>1, Invariance, DriftIsAccountedFor, PTL DEF Spec, FullSyncRepairs

=============================================================================
