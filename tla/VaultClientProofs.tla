-------------------------- MODULE VaultClientProofs --------------------------
(***************************************************************************)
(* VaultClient, for any number of callers and requests and any listing:    *)
(* the timestamps of signed_get (RequestClock), and the requests and the   *)
(* result of fetch_ips (VaultPaging).                                      *)
(***************************************************************************)
EXTENDS VaultPaging, RequestClock, FiniteSetTheorems, TLAPS

-----------------------------------------------------------------------------
(* The timestamps.                                                           *)

\* Some stretch of the first n requests is longer than its seconds and the limit.
Overload(n) ==
    \E k, l \in 1..n : k < l /\ (l - k) - (signed[l].at - signed[k].at) > DRIFT_LIMIT

\* A timestamp counts up from the second that some request read.
CountsUp ==
    \A l \in 1..Len(signed) : \E k \in 1..l : signed[l].ts = signed[k].at + (l - k)

\* Without an overload timestamps increase.
Increasing ==
    \A i, j \in 1..Len(signed) : i < j => signed[i].ts < signed[j].ts \/ Overload(j)

\* The inductive invariant.
ClockInv ==
    /\ NearClock
    /\ FirstSecond <= clock
    /\ \A c \in Callers : held[c] # NotCalling => FirstSecond <= held[c] /\ held[c] <= clock
    /\ Len(signed) = 0 => last_timestamp = 0
    /\ Len(signed) # 0 => last_timestamp = signed[Len(signed)].ts
    /\ CountsUp
    /\ Increasing

(* The fetch_update of signed_get: the timestamp after the last one, or the second the
   caller has read. *)
LEMMA NextTimestampFacts ==
    ASSUME NEW now \in Nat, NEW last \in Nat
    PROVE  /\ NextTimestamp(now, last) \in Nat
           /\ NextTimestamp(now, last) - now <= DRIFT_LIMIT
           /\ \/ NextTimestamp(now, last) = now /\ now > last
              \/ NextTimestamp(now, last) = now /\ last - now >= DRIFT_LIMIT
              \/ NextTimestamp(now, last) = last + 1
BY DriftAssumption DEF NextTimestamp

Stamp == [at : Nat, ts : Nat]

(* A sequence with an element more. *)
LEMMA AppendFacts ==
    ASSUME NEW S, NEW s \in Seq(S), NEW e \in S
    PROVE  /\ Append(s, e) \in Seq(S) /\ Len(Append(s, e)) = Len(s) + 1
           /\ Append(s, e)[Len(s) + 1] = e
           /\ \A i \in 1..Len(s) : Append(s, e)[i] = s[i]
OBVIOUS

(* The elements of a sequence from m to n, all of them in the sequence. *)
LEMMA SubSeqFacts ==
    ASSUME NEW S, NEW s \in Seq(S), NEW m \in Nat, NEW n \in Nat, 1 <= m, n <= Len(s)
    PROVE  /\ SubSeq(s, m, n) \in Seq(S)
           /\ Len(SubSeq(s, m, n)) = IF m <= n THEN n - m + 1 ELSE 0
           /\ \A i \in 1..(n - m + 1) : SubSeq(s, m, n)[i] = s[m + i - 1]
<1>1. \A i \in 1..(n - m + 1) : m + i - 1 \in 1..Len(s)
  OBVIOUS
<1> QED BY <1>1

(* Two sequences, one after the other. *)
LEMMA ConcatType ==
    ASSUME NEW S, NEW s \in Seq(S), NEW t \in Seq(S)
    PROVE  s \o t \in Seq(S)
OBVIOUS

(* A request more: what is said of the earlier ones stays true of them. *)
LEMMA SignKeeps ==
    ASSUME ClockInv, NEW c \in Callers, Sign(c)
    PROVE  ClockInv'
<1>1. PICK now : now = held[c]
  BY Zenon
<1>2. PICK ts : ts = NextTimestamp(now, last_timestamp)
  BY Zenon
<1>3. PICK n : n = Len(signed)
  BY Zenon
<1>4. /\ now \in Nat /\ last_timestamp \in Nat /\ clock \in Nat /\ n \in Nat
      /\ signed \in Seq(Stamp) /\ held \in [Callers -> Nat \cup {NotCalling}]
      /\ FirstSecond <= now /\ now <= clock
  BY <1>1, <1>3 DEF ClockInv, NearClock, ClockTypeOK, Sign, Stamp
<1>5. /\ ts \in Nat /\ ts - now <= DRIFT_LIMIT
      /\ \/ ts = now /\ now > last_timestamp
         \/ ts = now /\ last_timestamp - now >= DRIFT_LIMIT
         \/ ts = last_timestamp + 1
  BY <1>2, <1>4, NextTimestampFacts, Zenon
<1>6. /\ last_timestamp' = ts /\ clock' = clock
      /\ signed' = Append(signed, [at |-> now, ts |-> ts])
      /\ held' = [held EXCEPT ![c] = NotCalling]
  BY <1>1, <1>2, Zenon DEF Sign
<1>7. /\ signed' \in Seq(Stamp) /\ Len(signed') = n + 1
      /\ signed'[n + 1].at = now /\ signed'[n + 1].ts = ts
      /\ \A i \in 1..n : signed'[i] = signed[i] /\ signed[i].at \in Nat /\ signed[i].ts \in Nat
  <2>1. PICK e : e = [at |-> now, ts |-> ts]
    BY Zenon
  <2>2. e \in Stamp /\ e.at = now /\ e.ts = ts
    BY <1>4, <1>5, <2>1, Zenon DEF Stamp
  <2>3. signed' = Append(signed, e)
    BY <1>6, <2>1, Zenon
  <2>4. \A i \in 1..n : signed[i] \in Stamp
    BY <1>3, <1>4
  <2>5. \A i \in 1..n : signed[i].at \in Nat /\ signed[i].ts \in Nat
    BY <2>4, Zenon DEF Stamp
  <2> QED BY <1>3, <1>4, <2>2, <2>3, <2>5, AppendFacts
<1>8. NearClock'
  BY <1>4, <1>5, <1>6, <1>7, DriftAssumption DEF NearClock, ClockTypeOK, Stamp
<1>9. ASSUME NEW i \in 1..n, Overload(i) PROVE Overload(i)'
  <2>1. PICK k \in 1..i, l \in 1..i :
            k < l /\ (l - k) - (signed[l].at - signed[k].at) > DRIFT_LIMIT
    BY <1>9, Zenon DEF Overload
  <2>2. signed'[k] = signed[k] /\ signed'[l] = signed[l]
    BY <1>4, <1>7
  <2> QED BY <2>1, <2>2, Zenon DEF Overload
<1>10. CountsUp'
  <2> SUFFICES \A l \in 1..(n + 1) : \E k \in 1..l : signed'[l].ts = signed'[k].at + (l - k)
    BY <1>7, Zenon DEF CountsUp
  <2>1. ASSUME NEW l \in 1..n PROVE \E k \in 1..l : signed'[l].ts = signed'[k].at + (l - k)
    <3>1. PICK k \in 1..l : signed[l].ts = signed[k].at + (l - k)
      BY <1>3, <2>1, Zenon DEF ClockInv, CountsUp
    <3>2. k \in 1..n
      BY <1>4
    <3> QED BY <1>7, <3>1, <3>2, Zenon
  <2>2. \E k \in 1..(n + 1) : signed'[n + 1].ts = signed'[k].at + ((n + 1) - k)
    <3>1. CASE ts = now
      BY <1>4, <1>7, <3>1
    <3>2. CASE n # 0 /\ ts = last_timestamp + 1
      <4>1. PICK k \in 1..n : signed[n].ts = signed[k].at + (n - k)
        <5>1. n \in 1..Len(signed)
          BY <1>3, <1>4, <3>2
        <5> QED BY <5>1, Zenon DEF ClockInv, CountsUp
      <4>2. signed[n].ts = last_timestamp
        BY <1>3, <3>2, Zenon DEF ClockInv
      <4>3. PICK a \in Nat : signed'[k].at = a /\ signed[k].at = a
        BY <1>7, Zenon
      <4>4. ts = a + ((n + 1) - k)
        BY <1>4, <3>2, <4>1, <4>2, <4>3
      <4>5. signed'[n + 1].ts = signed'[k].at + ((n + 1) - k)
        BY <1>7, <4>3, <4>4, Zenon
      <4> QED BY <1>4, <4>5
    <3>3. n = 0 => now > last_timestamp
      BY <1>3, <1>4, ClockAssumption DEF ClockInv
    <3>4. CASE n = 0 /\ ts = last_timestamp + 1
      BY <1>3, <1>4, <1>7, <3>3, <3>4, <1>2 DEF ClockInv, NextTimestamp
    <3> QED BY <1>5, <3>1, <3>2, <3>4, Zenon
  <2>3. \A l \in 1..(n + 1) : l \in 1..n \/ l = n + 1
    BY <1>4
  <2> QED BY <2>1, <2>2, <2>3, Zenon
<1>11. Increasing'
  <2> SUFFICES \A i, j \in 1..(n + 1) :
                   i < j => signed'[i].ts < signed'[j].ts \/ Overload(j)'
    BY <1>7, Zenon DEF Increasing
  <2>1. ASSUME NEW i \in 1..n, NEW j \in 1..n, i < j
        PROVE  signed'[i].ts < signed'[j].ts \/ Overload(j)'
    BY <1>3, <1>7, <1>9, <2>1, Zenon DEF ClockInv, Increasing
  <2>2. n # 0 => last_timestamp < ts \/ Overload(n + 1)'
    <3> SUFFICES ASSUME n # 0, last_timestamp - now >= DRIFT_LIMIT PROVE Overload(n + 1)'
      BY <1>4, <1>5
    <3>1. PICK k \in 1..n : last_timestamp = signed[k].at + (n - k)
      BY <1>3, <1>4 DEF ClockInv, CountsUp
    <3>2. PICK a \in Nat : signed'[k].at = a /\ signed[k].at = a
      BY <1>7, Zenon
    <3>3. k < n + 1 /\ ((n + 1) - k) - (now - a) > DRIFT_LIMIT
      BY <1>4, <3>1, <3>2, DriftAssumption
    <3>4. k \in 1..(n + 1) /\ n + 1 \in 1..(n + 1)
      BY <1>4
    <3> QED BY <1>7, <3>2, <3>3, <3>4, Zenon DEF Overload
  <2>3. ASSUME NEW i \in 1..n PROVE signed'[i].ts < signed'[n + 1].ts \/ Overload(n + 1)'
    <3>1. signed[n].ts = last_timestamp
      BY <1>3, <1>4 DEF ClockInv
    <3>2. CASE Overload(n)'
      BY <1>4, <3>2 DEF Overload
    <3>3. CASE i = n
      BY <1>4, <1>7, <2>2, <3>1, <3>3
    <3>4. CASE i < n /\ ~Overload(n)'
      <4>1. signed'[i].ts < signed'[n].ts
        BY <1>4, <2>1, <3>4
      <4>2. n \in 1..n /\ n # 0
        BY <1>4
      <4>3. signed'[n].ts = last_timestamp /\ signed'[i].ts \in Nat
        BY <1>7, <3>1, <4>2, Zenon
      <4>4. signed'[i].ts < ts \/ Overload(n + 1)'
        BY <1>4, <1>5, <2>2, <4>1, <4>2, <4>3
      <4> QED BY <1>7, <4>4, Zenon
    <3> QED BY <1>4, <3>2, <3>3, <3>4
  <2> QED BY <1>4, <2>1, <2>3
<1>12. \A d \in Callers : held'[d] # NotCalling => FirstSecond <= held'[d] /\ held'[d] <= clock'
  BY <1>4, <1>6, Zenon DEF ClockInv
<1> QED BY <1>4, <1>6, <1>7, <1>8, <1>10, <1>11, <1>12 DEF ClockInv

(* The invariant holds throughout. *)
THEOREM ClockInvariant == ClockSpec => []ClockInv
<1>1. ClockInit => ClockInv
  <2> SUFFICES ASSUME ClockInit PROVE ClockInv
    BY Zenon
  <2>1. Len(signed) = 0 /\ signed \in Seq(Stamp)
    BY DEF ClockInit
  <2>2. NearClock
    BY <2>1, ClockAssumption, Zenon DEF ClockInit, NearClock, ClockTypeOK, Stamp
  <2>3. CountsUp /\ Increasing
    BY <2>1 DEF CountsUp, Increasing
  <2> QED BY <2>1, <2>2, <2>3, ClockAssumption DEF ClockInit, ClockInv
<1>2. ClockInv /\ [ClockNext]_clockVars => ClockInv'
  <2> SUFFICES ASSUME ClockInv, [ClockNext]_clockVars PROVE ClockInv'
    BY Zenon
  <2>1. ASSUME UNCHANGED <<signed, last_timestamp>>, clock' \in Nat, clock <= clock',
               held' \in [Callers -> Nat \cup {NotCalling}],
               \A c \in Callers : held'[c] \in {held[c], clock, NotCalling}
        PROVE  ClockInv'
    <3>1. CountsUp' /\ Increasing'
      BY <2>1 DEF ClockInv, CountsUp, Increasing, Overload
    <3>2. clock \in Nat /\ last_timestamp \in Nat
      BY Zenon DEF ClockInv, NearClock, ClockTypeOK
    <3>3. NearClock'
      BY <2>1, <3>2, DriftAssumption DEF ClockInv, NearClock, ClockTypeOK
    <3>4. \A c \in Callers : held'[c] # NotCalling => FirstSecond <= held'[c] /\ held'[c] <= clock'
      BY <2>1, <3>2, ClockAssumption DEF ClockInv, NearClock, ClockTypeOK
    <3> QED BY <2>1, <3>1, <3>2, <3>3, <3>4, ClockAssumption DEF ClockInv
  <2>2. clock \in Nat /\ held \in [Callers -> Nat \cup {NotCalling}]
    BY Zenon DEF ClockInv, NearClock, ClockTypeOK
  <2>3. CASE Tick
    BY <2>1, <2>2, <2>3 DEF Tick
  <2>4. ASSUME NEW c \in Callers, ReadClock(c) PROVE ClockInv'
    BY <2>1, <2>2, <2>4 DEF ReadClock
  <2>5. CASE UNCHANGED clockVars
    BY <2>1, <2>2, <2>5 DEF clockVars
  <2> QED BY <2>3, <2>4, <2>5, SignKeeps, Zenon DEF ClockNext
<1> QED BY <1>1, <1>2, PTL DEF ClockSpec

(* Timestamps are seconds since the epoch, and the last one is never further ahead of
   the clock than the limit of signed_get, whatever the number of callers. *)
THEOREM TimestampsStayNear == ClockSpec => []NearClock
<1>1. ClockInv => NearClock
  BY Zenon DEF ClockInv
<1> QED BY <1>1, ClockInvariant, PTL

(* Two requests of signed_get have the same timestamp only after a burst that outnumbers
   its seconds by more than the limit: at a lower rate Vault refuses none of them as a
   replay. *)
THEOREM RepeatsMeanOverload == ClockSpec => []RepeatsNeedOverload
<1>1. ClockInv => RepeatsNeedOverload
  <2> SUFFICES ASSUME ClockInv, NEW i \in DOMAIN signed, NEW j \in DOMAIN signed,
                      i < j, signed[i].ts = signed[j].ts
               PROVE  Overload(j)
    BY Zenon DEF RepeatsNeedOverload, Overload
  <2>1. signed \in Seq(Stamp)
    BY Zenon DEF ClockInv, NearClock, ClockTypeOK, Stamp
  <2>2. i \in 1..Len(signed) /\ j \in 1..Len(signed) /\ signed[i] \in Stamp
    BY <2>1
  <2>3. signed[i].ts \in Nat
    BY <2>2, Zenon DEF Stamp
  <2> QED BY <2>2, <2>3 DEF ClockInv, Increasing
<1> QED BY <1>1, ClockInvariant, PTL

-----------------------------------------------------------------------------
(* The pages.                                                                *)

\* The rows of a page when the listing is as it was at the start.
RowsOf(p) ==
    {i \in 1..Len(listing) : p * PAGE_SIZE < i /\ i <= (p + 1) * PAGE_SIZE}

Waiting == todo \cup DOMAIN inflight

\* The requests are numbered by the pages they ask for.
CountsRequests ==
    /\ pc = "probe" => requests = 0 /\ pages = 0 /\ DOMAIN inflight = {}
    /\ pc = "parallel" => requests <= MAX_PAGES /\ \A p \in todo : requests <= p
    /\ pc = "sequential" => requests <= pages + 1 /\ pages < MAX_PAGES

\* While Vault is still, what is collected is the rows of the pages that have arrived.
CollectsPages ==
    changes = 0 /\ vault # "stuck" =>
        /\ \A i \in 1..Len(listing) : listing[i] = i
        /\ pc = "probe" => all = << >>
        /\ IsInjective(all) /\ Range(all) \subseteq 1..Len(listing)
        /\ pc = "sequential" => Range(all) = {i \in 1..Len(listing) : i <= pages * PAGE_SIZE}
        /\ pc = "parallel" =>
              /\ \A p \in Waiting : RowsOf(p) \cap Range(all) = {}
              /\ \A p \in DOMAIN inflight :
                    p \notin todo /\ inflight[p] \in {NoAnswer, PageAt(p)}
              /\ truncated \/ \A p \in 0..(TotalPages - 1) :
                                 p \in Waiting \/ RowsOf(p) \subseteq Range(all)
        /\ pc = "done" /\ ~truncated => Range(all) = 1..Len(listing)

\* The inductive invariant.
PagingInv == BoundedRequests /\ CountsRequests /\ CollectsPages

(* Page p begins after the rows of the pages before it. *)
LEMMA PageBounds ==
    ASSUME NEW p \in Nat
    PROVE  /\ p * PAGE_SIZE \in Nat /\ (p + 1) * PAGE_SIZE \in Nat
           /\ (p + 1) * PAGE_SIZE = p * PAGE_SIZE + PAGE_SIZE
BY PageAssumption

(* Vault answers with rows of its listing. *)
LEMMA PageType ==
    ASSUME listing \in Seq(Row), NEW p \in Nat
    PROVE  PageAt(p) \in Seq(Row)
<1>1. PICK q \in Nat : q = IF vault = "stuck" THEN 0 ELSE p
  BY Zenon
<1>2. PICK first \in Nat, last \in Nat : first = q * PAGE_SIZE /\ last = (q + 1) * PAGE_SIZE
  BY PageBounds, Zenon
<1>3. PICK m \in Nat : m = IF last < Len(listing) THEN last ELSE Len(listing)
  OBVIOUS
<1>4. PageAt(p) = SubSeq(listing, first + 1, m)
  BY <1>1, <1>2, <1>3, Zenon DEF PageAt
<1>5. first + 1 \in Nat /\ 1 <= first + 1 /\ m <= Len(listing)
  BY <1>3
<1> QED BY <1>4, <1>5, SubSeqFacts

(* The rows of a page, while Vault is still; a short page is the last one. *)
LEMMA PageRows ==
    ASSUME listing \in Seq(Row), NEW p \in Nat, vault # "stuck",
           \A i \in 1..Len(listing) : listing[i] = i
    PROVE  /\ Range(PageAt(p)) = RowsOf(p) /\ IsInjective(PageAt(p))
           /\ Len(PageAt(p)) < PAGE_SIZE => Len(listing) <= (p + 1) * PAGE_SIZE
           /\ Len(PageAt(p)) # PAGE_SIZE => Len(PageAt(p)) < PAGE_SIZE
<1>1. PICK n \in Nat : n = Len(listing)
  OBVIOUS
<1>2. PICK first \in Nat, last \in Nat : first = p * PAGE_SIZE /\ last = (p + 1) * PAGE_SIZE
  BY PageBounds, Zenon
<1>3. last = first + PAGE_SIZE /\ PAGE_SIZE \in Nat
  BY <1>2, PageBounds, PageAssumption, Zenon
<1>4. PICK m \in Nat : m = IF last < n THEN last ELSE n
  BY Zenon
<1>5. PICK page : page = SubSeq(listing, first + 1, m)
  BY Zenon
<1>6. PageAt(p) = page
  BY <1>1, <1>2, <1>4, <1>5, Zenon DEF PageAt
<1>7. first + 1 \in Nat /\ 1 <= first + 1 /\ m <= Len(listing)
  BY <1>1, <1>4
<1>8. /\ page \in Seq(Row) /\ Len(page) = IF first + 1 <= m THEN m - first ELSE 0
      /\ \A i \in 1..(m - first) : page[i] = listing[first + i]
  <2>1. /\ page \in Seq(Row) /\ Len(page) = IF first + 1 <= m THEN m - (first + 1) + 1 ELSE 0
        /\ \A i \in 1..(m - (first + 1) + 1) : page[i] = listing[(first + 1) + i - 1]
    BY <1>5, <1>7, SubSeqFacts
  <2>2. m - (first + 1) + 1 = m - first /\ \A i \in Int : (first + 1) + i - 1 = first + i
    OBVIOUS
  <2> QED BY <2>1, <2>2
<1>9. DOMAIN page = 1..Len(page) /\ Len(page) \in Nat
  BY <1>8
<1>10. \A i \in 1..Len(page) : i \in 1..(m - first) /\ first + i \in 1..n
  BY <1>3, <1>4, <1>8
<1>11. \A i \in DOMAIN page : page[i] = first + i
  BY <1>1, <1>8, <1>9, <1>10, Zenon
<1>12. IsInjective(page)
  BY <1>9, <1>11 DEF IsInjective
<1>13. Range(page) \subseteq RowsOf(p)
  <2>1. ASSUME NEW i \in DOMAIN page PROVE page[i] \in RowsOf(p)
    <3>1. first + i \in 1..n /\ first < first + i /\ first + i <= last
      BY <1>3, <1>4, <1>8, <1>9, <1>10
    <3> QED BY <1>1, <1>2, <1>11, <3>1, Zenon DEF RowsOf
  <2> QED BY <2>1, Zenon DEF Range
<1>14. ASSUME NEW i \in RowsOf(p) PROVE i \in Range(page)
  <2>1. i \in 1..n /\ first < i /\ i <= last
    BY <1>1, <1>2, Zenon DEF RowsOf
  <2>2. i - first \in 1..Len(page) /\ first + (i - first) = i
    BY <1>4, <1>8, <2>1
  <2>3. page[i - first] = i
    BY <1>9, <1>11, <2>2, Zenon
  <2> QED BY <1>9, <2>2, <2>3, Zenon DEF Range
<1>15. /\ Len(page) < PAGE_SIZE => n <= last
       /\ Len(page) # PAGE_SIZE => Len(page) < PAGE_SIZE
  BY <1>3, <1>4, <1>8
<1> QED BY <1>1, <1>2, <1>6, <1>12, <1>13, <1>14, <1>15, Zenon

(* Merging a page adds its rows. *)
LEMMA MergeFacts ==
    ASSUME NEW S, NEW s \in Seq(S), NEW t \in Seq(S)
    PROVE  /\ s \o t \in Seq(S) /\ Range(s \o t) = Range(s) \cup Range(t)
           /\ IsInjective(s) /\ IsInjective(t) /\ Range(s) \cap Range(t) = {}
                 => IsInjective(s \o t)
<1>1. PICK u \in Seq(S) : u = s \o t
  BY ConcatType, Zenon
<1>2. PICK m \in Nat, n \in Nat : m = Len(s) /\ n = Len(t)
  OBVIOUS
<1>3. /\ DOMAIN s = 1..m /\ DOMAIN t = 1..n /\ DOMAIN u = 1..(m + n)
      /\ \A i \in 1..m : u[i] = s[i]
      /\ \A i \in (m + 1)..(m + n) : u[i] = t[i - m]
  BY <1>1, <1>2
<1>4. \A i \in 1..(m + n) : \/ i \in 1..m /\ u[i] = s[i]
                            \/ i - m \in 1..n /\ u[i] = t[i - m]
  BY <1>3
<1>5. Range(u) \subseteq Range(s) \cup Range(t)
  BY <1>3, <1>4, Zenon DEF Range
<1>6. Range(s) \subseteq Range(u)
  <2>1. \A i \in 1..m : i \in 1..(m + n)
    OBVIOUS
  <2> QED BY <1>3, <2>1, Zenon DEF Range
<1>7. Range(t) \subseteq Range(u)
  <2>1. \A i \in 1..n : i + m \in 1..(m + n) /\ u[i + m] = t[i]
    <3>1. \A i \in 1..n : /\ i + m \in 1..(m + n) /\ i + m \in (m + 1)..(m + n)
                          /\ (i + m) - m = i
      OBVIOUS
    <3>2. ASSUME NEW i \in 1..n PROVE u[i + m] = t[i]
      <4>1. u[i + m] = t[(i + m) - m]
        BY <1>3, <3>1, Zenon
      <4> QED BY <3>1, <4>1, Zenon
    <3> QED BY <3>1, <3>2, Zenon
  <2>2. \A i \in 1..n : \E j \in 1..(m + n) : u[j] = t[i]
    BY <2>1, Zenon
  <2>3. ASSUME NEW x \in Range(t) PROVE x \in Range(u)
    <3>1. PICK i \in 1..n : x = t[i]
      BY <1>3, Zenon DEF Range
    <3>2. PICK j \in 1..(m + n) : u[j] = t[i]
      BY <2>2, Zenon
    <3> QED BY <1>3, <3>1, <3>2, Zenon DEF Range
  <2> QED BY <2>3, Zenon
<1>8. ASSUME IsInjective(s), IsInjective(t), Range(s) \cap Range(t) = {},
             NEW i \in 1..(m + n), NEW j \in 1..(m + n), u[i] = u[j]
      PROVE  i = j
  <2>1. \A a \in 1..m, b \in 1..n : s[a] # t[b]
    BY <1>3, <1>8, Zenon DEF Range
  <2>2. \A a, b \in 1..m : s[a] = s[b] => a = b
    BY <1>3, <1>8, Zenon DEF IsInjective
  <2>3. \A a, b \in 1..n : t[a] = t[b] => a = b
    BY <1>3, <1>8, Zenon DEF IsInjective
  <2>4. CASE i \in 1..m /\ j \in 1..m
    BY <1>3, <1>8, <2>2, <2>4, Zenon
  <2>5. CASE i - m \in 1..n /\ j - m \in 1..n
    <3>1. i - m = j - m
      BY <1>3, <1>8, <2>3, <2>5
    <3> QED BY <3>1
  <2> QED BY <1>4, <1>8, <2>1, <2>4, <2>5, Zenon
<1>9. IsInjective(s) /\ IsInjective(t) /\ Range(s) \cap Range(t) = {} => IsInjective(u)
  BY <1>3, <1>8, Zenon DEF IsInjective
<1> QED BY <1>1, <1>5, <1>6, <1>7, <1>9, Zenon

(* Every row is on one of the pages that total.div_ceil(limit) counts. *)
LEMMA PagesCover ==
    ASSUME listing \in Seq(Row)
    PROVE  /\ TotalPages \in Nat
           /\ TotalPages <= 1 => Len(listing) <= PAGE_SIZE
           /\ \A i \in 1..Len(listing) : \E p \in 0..(TotalPages - 1) : i \in RowsOf(p)
<1>1. PICK n \in Nat, s \in Nat : n = Len(listing) /\ s = PAGE_SIZE /\ s # 0
  BY PageAssumption
<1>2. ASSUME NEW a \in Nat PROVE /\ a \div s \in Nat
                                 /\ (a \div s) * s <= a /\ a < (a \div s) * s + s
  BY <1>1
<1>3. PICK t \in Nat : t = TotalPages /\ n + s - 1 < t * s + s
  <2>1. n + s - 1 \in Nat /\ TotalPages = (n + s - 1) \div s
    BY <1>1 DEF TotalPages
  <2> QED BY <1>2, <2>1, Zenon
<1>4. t * s \in Nat /\ n <= t * s
  BY <1>1, <1>3
<1>5. t <= 1 => n <= s
  BY <1>1, <1>4
<1>6. ASSUME NEW i \in 1..n PROVE \E p \in 0..(t - 1) : p * s < i /\ i <= (p + 1) * s
  <2>1. PICK p \in Nat : p * s <= i - 1 /\ i - 1 < p * s + s
    <3>1. i - 1 \in Nat
      OBVIOUS
    <3> QED BY <1>2, <3>1, Zenon
  <2>2. p * s \in Nat /\ (p + 1) * s = p * s + s /\ p * s < t * s
    BY <1>1, <1>4, <2>1
  <2>3. p < t
    BY <1>1, <2>2
  <2>4. p \in 0..(t - 1) /\ p * s < i /\ i <= (p + 1) * s
    BY <1>1, <2>1, <2>2, <2>3
  <2> QED BY <2>4, Zenon
<1> QED BY <1>1, <1>3, <1>5, <1>6, Zenon DEF RowsOf

(* No row is on two pages. *)
LEMMA PagesApart ==
    ASSUME NEW p \in Nat, NEW q \in Nat, p # q
    PROVE  RowsOf(p) \cap RowsOf(q) = {}
<1>1. ASSUME NEW a \in Nat, NEW b \in Nat, a < b, NEW i \in Int, i <= (a + 1) * PAGE_SIZE
      PROVE  ~(b * PAGE_SIZE < i)
  <2>1. PICK s \in Nat : s = PAGE_SIZE
    BY PageAssumption, Zenon
  <2>2. (a + 1) * s <= b * s /\ (a + 1) * s \in Nat /\ b * s \in Nat
    BY <1>1
  <2> QED BY <1>1, <2>1, <2>2
<1>2. \A i \in 1..Len(listing) : i \in Int
  OBVIOUS
<1>3. p < q \/ q < p
  OBVIOUS
<1> QED BY <1>1, <1>2, <1>3, Zenon DEF RowsOf

-----------------------------------------------------------------------------
(* The walk.                                                                 *)

(* What the invariant says of a walk while Vault is still. *)
LEMMA StillFacts ==
    ASSUME PagingInv, changes = 0, vault # "stuck"
    PROVE  /\ \A i \in 1..Len(listing) : listing[i] = i
           /\ IsInjective(all) /\ Range(all) \subseteq 1..Len(listing)
BY Zenon DEF PagingInv, CollectsPages

(* The shape of the walk's state. *)
LEMMA TypeFacts ==
    ASSUME PagingInv
    PROVE  /\ listing \in Seq(Row) /\ all \in Seq(Row) /\ pages \in Nat /\ requests \in Nat
           /\ todo \subseteq 1..(MAX_PAGES - 1) /\ DOMAIN inflight \subseteq 1..(MAX_PAGES - 1)
           /\ MAX_PAGES \in Nat /\ 1 < MAX_PAGES /\ changes \in Nat
BY PageAssumption, BoundAssumption DEF PagingInv, BoundedRequests, TypeOK

(* The walk leaves Vault alone. *)
LEMMA WalkFrame ==
    ASSUME UNCHANGED vaultVars
    PROVE  /\ vault' = vault /\ listing' = listing /\ changes' = changes
           /\ TotalPages' = TotalPages
           /\ \A p : RowsOf(p)' = RowsOf(p) /\ PageAt(p)' = PageAt(p)
<1>1. vault' = vault /\ listing' = listing /\ changes' = changes
  BY Zenon DEF vaultVars
<1> QED BY <1>1, Zenon DEF TotalPages, RowsOf, PageAt

(* A step of the walk keeps the shape of everything if it keeps that of the walk. *)
LEMMA WalkType ==
    ASSUME TypeOK, UNCHANGED vaultVars,
           pc' \in {"probe", "parallel", "sequential", "done", "failed"},
           all' \in Seq(Row), todo' \in SUBSET (1..(MAX_PAGES - 1)),
           DOMAIN inflight' \subseteq 1..(MAX_PAGES - 1),
           \A p \in DOMAIN inflight' : inflight'[p] = NoAnswer \/ inflight'[p] \in Seq(Row),
           pages' \in 0..MAX_PAGES, requests' \in Nat, truncated' \in BOOLEAN
    PROVE  TypeOK'
BY Zenon DEF TypeOK, vaultVars

(* Nothing is in flight but in the concurrent walk. *)
LEMMA NoneInFlight ==
    ASSUME NEW f, f = << >>
    PROVE  DOMAIN f = {} /\ Cardinality(DOMAIN f) = 0
<1>1. DOMAIN f = {}
  OBVIOUS
<1> QED BY <1>1, FS_EmptySet, Zenon

(* A change of the listing is counted, and the walk takes no step. *)
LEMMA ChangeKeeps ==
    ASSUME PagingInv, NEW r \in Row, Observe(r) \/ Remove(r)
    PROVE  PagingInv'
<1>1. /\ changes' = changes + 1 /\ changes < MaxChanges
      /\ UNCHANGED <<pc, all, todo, inflight, pages, requests, truncated, vault>>
      /\ touched' \in {touched, touched \cup {r}}
      /\ removals' \in {removals, removals + 1}
  BY Zenon DEF Observe, Remove, Changing, walkVars
<1>2. listing \in Seq(Row)
  BY TypeFacts, Zenon
<1>3. ASSUME NEW i \in DOMAIN listing PROVE Without(i) \in Seq(Row)
  <2>1. PICK n \in Nat : n = Len(listing)
    BY <1>2
  <2>2. i \in 1..n
    BY <1>2, <2>1
  <2>3. /\ 1 \in Nat /\ 1 <= 1 /\ i - 1 \in Nat /\ i - 1 <= n
        /\ i + 1 \in Nat /\ 1 <= i + 1 /\ n <= n
    BY <2>2
  <2>4. SubSeq(listing, 1, i - 1) \in Seq(Row) /\ SubSeq(listing, i + 1, n) \in Seq(Row)
    BY <1>2, <2>1, <2>3, SubSeqFacts, Zenon
  <2> QED BY <2>1, <2>4, ConcatType, Zenon DEF Without
<1>4. listing' \in Seq(Row)
  <2>1. <<r>> \in Seq(Row)
    OBVIOUS
  <2> QED BY <1>2, <1>3, <2>1, ConcatType, Zenon DEF Observe, Remove
<1>5. changes \in Nat /\ removals \in 0..changes /\ MaxChanges \in Nat /\ changes' # 0
  BY <1>1, BoundAssumption DEF PagingInv, BoundedRequests, TypeOK
<1>6. changes' \in 0..MaxChanges /\ removals' \in 0..changes' /\ touched' \in SUBSET Row
  <2>1. touched \in SUBSET Row
    BY Zenon DEF PagingInv, BoundedRequests, TypeOK
  <2> QED BY <1>1, <1>5, <2>1
<1>7. TypeOK'
  BY <1>1, <1>4, <1>6, Zenon DEF PagingInv, BoundedRequests, TypeOK
<1>8. BoundedRequests' /\ CountsRequests'
  BY <1>1, <1>7, Zenon DEF PagingInv, BoundedRequests, CountsRequests
<1> QED BY <1>5, <1>8, Zenon DEF PagingInv, CollectsPages

(* An error ends the walk; the request that failed has been counted. *)
LEMMA FailKeeps ==
    ASSUME PagingInv, RequestFails
    PROVE  PagingInv'
<1>1. /\ pc \in {"probe", "parallel", "sequential"} /\ pc' = "failed"
      /\ requests' = IF pc = "parallel" THEN requests ELSE requests + 1
      /\ todo' = {} /\ inflight' = << >>
      /\ UNCHANGED <<all, pages, truncated>> /\ UNCHANGED vaultVars
  BY Zenon DEF RequestFails
<1>2. DOMAIN inflight' = {} /\ Cardinality(DOMAIN inflight') = 0
  BY <1>1, NoneInFlight, Zenon
<1>3. TypeOK'
  <2>1. /\ TypeOK /\ all' \in Seq(Row) /\ pages' \in 0..MAX_PAGES /\ truncated' \in BOOLEAN
        /\ requests' \in Nat
    BY <1>1 DEF PagingInv, BoundedRequests, TypeOK
  <2> QED BY <1>1, <1>2, <2>1, WalkType, Zenon
<1>4. requests' <= MAX_PAGES + 1
  BY <1>1, TypeFacts DEF PagingInv, BoundedRequests, CountsRequests
<1>5. BoundedRequests' /\ CountsRequests'
  BY <1>1, <1>2, <1>3, <1>4, PageAssumption DEF BoundedRequests, CountsRequests
<1>6. CollectsPages'
  BY <1>1, WalkFrame, Zenon DEF PagingInv, CollectsPages
<1> QED BY <1>5, <1>6, Zenon DEF PagingInv

(* Page one with a count: the other pages are waited for. *)
LEMMA ProbeCountedKeeps ==
    ASSUME PagingInv, ProbeCounted
    PROVE  PagingInv'
<1>1. /\ pc = "probe" /\ vault = "counts" /\ all' = PageAt(0) /\ todo' = RemainingPages
      /\ truncated' = (TotalPages > MAX_PAGES)
      /\ pc' = (IF todo' = {} THEN "done" ELSE "parallel")
      /\ requests' = requests + 1 /\ UNCHANGED <<inflight, pages>> /\ UNCHANGED vaultVars
  BY Zenon DEF ProbeCounted
<1>2. requests = 0 /\ pages = 0 /\ DOMAIN inflight = {}
  BY <1>1, Zenon DEF PagingInv, CountsRequests
<1>3. listing \in Seq(Row) /\ MAX_PAGES \in Nat /\ 1 < MAX_PAGES /\ 0 \in Nat
  BY TypeFacts, Zenon
<1>4. TotalPages \in Nat /\ PageAt(0) \in Seq(Row)
  BY <1>3, PagesCover, PageType, Zenon
<1>5. /\ todo' \in SUBSET (1..(MAX_PAGES - 1))
      /\ \A p \in 1..(TotalPages - 1) : p \in todo' \/ p >= MAX_PAGES
  BY <1>1, <1>3, <1>4 DEF RemainingPages
<1>6. TypeOK'
  <2>1. TypeOK /\ pages' \in 0..MAX_PAGES /\ requests' \in Nat /\ truncated' \in BOOLEAN
    BY <1>1, <1>2, <1>3 DEF PagingInv, BoundedRequests
  <2> QED BY <1>1, <1>2, <1>4, <1>5, <2>1, WalkType, Zenon
<1>7. BoundedRequests' /\ CountsRequests'
  BY <1>1, <1>2, <1>3, <1>5, <1>6, FS_EmptySet, PageAssumption
  DEF BoundedRequests, CountsRequests
<1>8. ASSUME changes = 0 PROVE CollectsPages'
  <2>1. \A i \in 1..Len(listing) : listing[i] = i
    BY <1>1, <1>8, StillFacts, Zenon
  <2>2. Range(PageAt(0)) = RowsOf(0) /\ IsInjective(PageAt(0))
    BY <1>1, <1>3, <2>1, PageRows, Zenon
  <2>3. RowsOf(0) \subseteq 1..Len(listing)
    BY Zenon DEF RowsOf
  <2>4. \A p \in todo' : RowsOf(p) \cap RowsOf(0) = {}
    <3>1. ASSUME NEW p \in todo' PROVE PAGE_SIZE <= p * PAGE_SIZE /\ 1 * PAGE_SIZE = PAGE_SIZE
      <4>1. p \in Nat /\ 1 <= p
        BY <1>3, <1>5
      <4> QED BY <4>1, PageAssumption
    <3>2. PAGE_SIZE \in Nat /\ \A p \in todo' : p * PAGE_SIZE \in Nat
      BY <1>3, <1>5, PageAssumption
    <3>3. 0 + 1 = 1
      OBVIOUS
    <3> QED BY <3>1, <3>2, <3>3 DEF RowsOf
  <2>5. truncated' \/ \A p \in 0..(TotalPages - 1) : p \in todo' \/ p = 0
    <3> SUFFICES ASSUME ~truncated', NEW p \in 0..(TotalPages - 1), p # 0 PROVE p \in todo'
      BY Zenon
    <3>1. ~(TotalPages > MAX_PAGES)
      BY <1>1, Zenon
    <3>2. p \in 1..(TotalPages - 1) /\ ~(p >= MAX_PAGES)
      BY <1>3, <1>4, <3>1
    <3> QED BY <1>5, <3>2, Zenon
  <2>6. ASSUME todo' = {}, ~truncated' PROVE RowsOf(0) = 1..Len(listing)
    <3>1. \A p \in 0..(TotalPages - 1) : p = 0
      BY <2>5, <2>6, Zenon
    <3> QED BY <1>3, <2>3, <3>1, PagesCover, Zenon
  <2>7. Waiting' = todo'
    BY <1>1, <1>2, Zenon DEF Waiting
  <2>8. Range(all') = RowsOf(0) /\ IsInjective(all') /\ listing' = listing
    BY <1>1, <2>2, WalkFrame, Zenon
  <2> HIDE DEF RowsOf, PageAt, TotalPages
  <2>9. pc' = "parallel" =>
          /\ \A p \in Waiting' : RowsOf(p)' \cap Range(all') = {}
          /\ \A p \in DOMAIN inflight' :
                p \notin todo' /\ inflight'[p] \in {NoAnswer, PageAt(p)'}
          /\ truncated' \/ \A p \in 0..(TotalPages' - 1) :
                              p \in Waiting' \/ RowsOf(p)' \subseteq Range(all')
    BY <1>1, <1>2, <2>4, <2>5, <2>7, <2>8, WalkFrame, Zenon
  <2>10. pc' = "done" /\ ~truncated' => Range(all') = 1..Len(listing')
    BY <1>1, <2>6, <2>8, Zenon
  <2> QED BY <1>1, <2>1, <2>3, <2>8, <2>9, <2>10, Zenon DEF CollectsPages
<1>9. changes' = 0 => changes = 0
  BY <1>1, WalkFrame, Zenon
<1>10. CollectsPages'
  BY <1>8, <1>9, Zenon DEF CollectsPages
<1> QED BY <1>7, <1>10, Zenon DEF PagingInv

(* Page one without a count. *)
LEMMA ProbeIgnoredKeeps ==
    ASSUME PagingInv, ProbeIgnored
    PROVE  PagingInv'
<1>1. PICK first : first = PageAt(0)
  BY Zenon
<1>2. /\ pc = "probe" /\ all' = first /\ pages' = (IF Len(first) = PAGE_SIZE THEN 1 ELSE 0)
      /\ pc' = (IF Len(first) \in 1..(PAGE_SIZE - 1) THEN "done" ELSE "sequential")
      /\ requests' = requests + 1 /\ UNCHANGED <<todo, inflight, truncated>>
      /\ UNCHANGED vaultVars
  BY <1>1, Zenon DEF ProbeIgnored, ResumeAt
<1>3. requests = 0 /\ pages = 0 /\ DOMAIN inflight = {}
  BY <1>2, Zenon DEF PagingInv, CountsRequests
<1>4. listing \in Seq(Row) /\ MAX_PAGES \in Nat /\ 1 < MAX_PAGES /\ 0 \in Nat
  BY TypeFacts, Zenon
<1>5. first \in Seq(Row) /\ Len(first) \in Nat
  BY <1>1, <1>4, PageType
<1>6. TypeOK'
  <2>1. /\ TypeOK /\ pages' \in 0..MAX_PAGES /\ requests' \in Nat /\ truncated' \in BOOLEAN
        /\ todo' \in SUBSET (1..(MAX_PAGES - 1))
    BY <1>2, <1>3, <1>4 DEF PagingInv, BoundedRequests, TypeOK
  <2> QED BY <1>2, <1>3, <1>5, <2>1, WalkType, Zenon
<1>7. BoundedRequests' /\ CountsRequests'
  BY <1>2, <1>3, <1>4, <1>6, FS_EmptySet, PageAssumption DEF BoundedRequests, CountsRequests
<1>8. ASSUME changes = 0, vault # "stuck" PROVE CollectsPages'
  <2>1. \A i \in 1..Len(listing) : listing[i] = i
    BY <1>8, StillFacts, Zenon
  <2>2. /\ Range(first) = RowsOf(0) /\ IsInjective(first)
        /\ Len(first) < PAGE_SIZE => Len(listing) <= (0 + 1) * PAGE_SIZE
        /\ Len(first) # PAGE_SIZE => Len(first) < PAGE_SIZE
    BY <1>1, <1>4, <1>8, <2>1, PageRows, Zenon
  <2>3. RowsOf(0) = {i \in 1..Len(listing) : i <= PAGE_SIZE}
    <3>1. 0 * PAGE_SIZE = 0 /\ (0 + 1) * PAGE_SIZE = PAGE_SIZE
      BY PageAssumption
    <3> QED BY <3>1 DEF RowsOf
  <2>4. ASSUME Len(first) < PAGE_SIZE PROVE RowsOf(0) = 1..Len(listing)
    <3>1. Len(listing) <= PAGE_SIZE /\ Len(listing) \in Nat /\ PAGE_SIZE \in Nat
      BY <1>4, <2>2, <2>4, PageAssumption
    <3>2. \A i \in 1..Len(listing) : i <= PAGE_SIZE
      BY <3>1
    <3> QED BY <2>3, <3>2, Zenon
  <2>5. ASSUME pc' = "sequential"
        PROVE  Range(first) = {i \in 1..Len(listing) : i <= pages' * PAGE_SIZE}
    <3>1. CASE Len(first) = PAGE_SIZE
      <4>1. pages' * PAGE_SIZE = PAGE_SIZE
        BY <1>2, <3>1, PageAssumption
      <4> QED BY <2>2, <2>3, <4>1, Zenon
    <3>2. CASE Len(first) # PAGE_SIZE
      <4>1. Len(first) = 0 /\ pages' = 0 /\ pages' * PAGE_SIZE = 0
        BY <1>2, <1>5, <2>2, <2>5, <3>2, PageAssumption
      <4>2. Range(first) = {}
        BY <1>5, <4>1 DEF Range
      <4> QED BY <1>4, <4>1, <4>2
    <3> QED BY <3>1, <3>2, Zenon
  <2>6. pc' = "done" => Range(first) = 1..Len(listing)
    BY <1>2, <1>5, <2>2, <2>4, PageAssumption
  <2>7. Range(first) \subseteq 1..Len(listing)
    BY <2>2, <2>3, Zenon
  <2> QED BY <1>2, <2>1, <2>2, <2>5, <2>6, <2>7, WalkFrame, Zenon DEF CollectsPages
<1>9. changes' = changes /\ vault' = vault
  BY <1>2, WalkFrame, Zenon
<1>10. CollectsPages'
  BY <1>8, <1>9, Zenon DEF CollectsPages
<1> QED BY <1>7, <1>10, Zenon DEF PagingInv

(* A Vault that does not know include_total. *)
LEMMA ProbeRejectedKeeps ==
    ASSUME PagingInv, ProbeRejected
    PROVE  PagingInv'
<1>1. /\ pc = "probe" /\ pc' = "sequential" /\ requests' = requests + 1
      /\ UNCHANGED <<all, todo, inflight, pages, truncated>> /\ UNCHANGED vaultVars
  BY Zenon DEF ProbeRejected
<1>2. requests = 0 /\ pages = 0 /\ DOMAIN inflight = {}
  BY <1>1, Zenon DEF PagingInv, CountsRequests
<1>3. MAX_PAGES \in Nat /\ 1 < MAX_PAGES
  BY TypeFacts, Zenon
<1>4. TypeOK'
  <2>1. /\ TypeOK /\ pages' \in 0..MAX_PAGES /\ requests' \in Nat /\ truncated' \in BOOLEAN
        /\ todo' \in SUBSET (1..(MAX_PAGES - 1)) /\ all' \in Seq(Row)
    BY <1>1, <1>2, <1>3 DEF PagingInv, BoundedRequests, TypeOK
  <2> QED BY <1>1, <1>2, <2>1, WalkType, Zenon
<1>5. BoundedRequests' /\ CountsRequests'
  BY <1>1, <1>2, <1>3, <1>4, FS_EmptySet, PageAssumption DEF BoundedRequests, CountsRequests
<1>6. ASSUME changes = 0, vault # "stuck" PROVE CollectsPages'
  <2>1. all = << >> /\ (\A i \in 1..Len(listing) : listing[i] = i)
    BY <1>1, <1>6, Zenon DEF PagingInv, CollectsPages
  <2>2. Range(all) = {} /\ IsInjective(all)
    BY <2>1 DEF Range, IsInjective
  <2>3. {i \in 1..Len(listing) : i <= pages' * PAGE_SIZE} = {}
    <3>1. pages' * PAGE_SIZE = 0 /\ Len(listing) \in Nat
      BY <1>1, <1>2, PageAssumption, TypeFacts
    <3> QED BY <3>1
  <2> QED BY <1>1, <2>1, <2>2, <2>3, WalkFrame, Zenon DEF CollectsPages
<1>7. changes' = changes /\ vault' = vault
  BY <1>1, WalkFrame, Zenon
<1>8. CollectsPages'
  BY <1>6, <1>7, Zenon DEF CollectsPages
<1> QED BY <1>5, <1>8, Zenon DEF PagingInv

(* A request of the concurrent walk is sent: its page is still waited for. *)
LEMMA StartPageKeeps ==
    ASSUME PagingInv, NEW p \in 1..MAX_PAGES, StartPage(p)
    PROVE  PagingInv'
<1>1. /\ pc = "parallel" /\ p \in todo /\ (\A q \in todo : p <= q) /\ HasSlot
      /\ todo' = todo \ {p}
      /\ inflight' = [q \in DOMAIN inflight \cup {p} |-> IF q = p THEN NoAnswer ELSE inflight[q]]
      /\ requests' = requests + 1 /\ UNCHANGED <<pc, all, pages, truncated>>
      /\ UNCHANGED vaultVars
  BY Zenon DEF StartPage
<1>2. /\ requests \in Nat /\ MAX_PAGES \in Nat /\ 1 < MAX_PAGES
      /\ todo \subseteq 1..(MAX_PAGES - 1) /\ DOMAIN inflight \subseteq 1..(MAX_PAGES - 1)
  BY TypeFacts, Zenon
<1>3. \A q \in todo : requests <= q
  BY <1>1, Zenon DEF PagingInv, CountsRequests
<1>4. /\ DOMAIN inflight' = DOMAIN inflight \cup {p} /\ inflight'[p] = NoAnswer
      /\ \A q \in DOMAIN inflight : q # p => inflight'[q] = inflight[q]
  BY <1>1, Zenon
<1>5. requests' <= MAX_PAGES /\ \A q \in todo' : requests' <= q
  BY <1>1, <1>2, <1>3
<1>6. Cardinality(DOMAIN inflight') <= MAX_CONCURRENT_PAGES
  <2>1. IsFiniteSet(DOMAIN inflight)
    <3>1. IsFiniteSet(1..(MAX_PAGES - 1))
      BY <1>2, FS_Interval
    <3> QED BY <1>2, <3>1, FS_Subset, Zenon
  <2>2. Cardinality(DOMAIN inflight) \in Nat
    BY <2>1, FS_CardinalityType, Zenon
  <2>3. Cardinality(DOMAIN inflight') \in
            {Cardinality(DOMAIN inflight), Cardinality(DOMAIN inflight) + 1}
    BY <1>4, <2>1, FS_AddElement, Zenon
  <2>4. Cardinality(DOMAIN inflight) < MAX_CONCURRENT_PAGES
    BY <1>1, Zenon DEF HasSlot
  <2> QED BY <2>2, <2>3, <2>4, PageAssumption
<1>7. TypeOK'
  <2>1. /\ TypeOK /\ pc' \in {"probe", "parallel", "sequential", "done", "failed"}
        /\ all' \in Seq(Row) /\ pages' \in 0..MAX_PAGES /\ truncated' \in BOOLEAN
        /\ \A q \in DOMAIN inflight : inflight[q] = NoAnswer \/ inflight[q] \in Seq(Row)
    BY <1>1, Zenon DEF PagingInv, BoundedRequests, TypeOK
  <2>2. /\ todo' \in SUBSET (1..(MAX_PAGES - 1)) /\ requests' \in Nat
        /\ DOMAIN inflight' \subseteq 1..(MAX_PAGES - 1)
    BY <1>1, <1>2, <1>4
  <2>3. \A q \in DOMAIN inflight' : inflight'[q] = NoAnswer \/ inflight'[q] \in Seq(Row)
    BY <1>4, <2>1, Zenon
  <2> QED BY <1>1, <2>1, <2>2, <2>3, WalkType, Zenon
<1>8. BoundedRequests' /\ CountsRequests'
  <2>1. requests' <= MAX_PAGES + 1 /\ pc' = "parallel"
    BY <1>1, <1>2, <1>5
  <2> QED BY <1>5, <1>6, <1>7, <2>1, Zenon DEF BoundedRequests, CountsRequests
<1>9. CollectsPages'
  <2>1. Waiting' = Waiting
    BY <1>1, <1>4, Zenon DEF Waiting
  <2>2. changes = 0 /\ vault # "stuck" =>
            \A q \in DOMAIN inflight' :
                q \notin todo' /\ inflight'[q] \in {NoAnswer, PageAt(q)}
    BY <1>1, <1>4, Zenon DEF PagingInv, CollectsPages
  <2> QED BY <1>1, <2>1, <2>2, WalkFrame DEF PagingInv, CollectsPages
<1> QED BY <1>8, <1>9, Zenon DEF PagingInv

(* Vault answers a request of the concurrent walk. *)
LEMMA AnswerPageKeeps ==
    ASSUME PagingInv, NEW p \in 1..MAX_PAGES, AnswerPage(p)
    PROVE  PagingInv'
<1>1. /\ pc = "parallel" /\ p \in DOMAIN inflight
      /\ inflight' = [inflight EXCEPT ![p] = PageAt(p)]
      /\ UNCHANGED <<pc, all, todo, pages, requests, truncated>> /\ UNCHANGED vaultVars
  BY Zenon DEF AnswerPage
<1>2. p \in Nat /\ PageAt(p) \in Seq(Row)
  <2>1. listing \in Seq(Row) /\ p \in Nat
    BY TypeFacts
  <2> QED BY <2>1, PageType, Zenon
<1>3. /\ DOMAIN inflight' = DOMAIN inflight /\ inflight'[p] = PageAt(p)
      /\ \A q \in DOMAIN inflight : q # p => inflight'[q] = inflight[q]
  BY <1>1, Zenon
<1>4. TypeOK'
  <2>1. /\ TypeOK /\ pc' \in {"probe", "parallel", "sequential", "done", "failed"}
        /\ all' \in Seq(Row) /\ pages' \in 0..MAX_PAGES /\ truncated' \in BOOLEAN
        /\ todo' \in SUBSET (1..(MAX_PAGES - 1)) /\ requests' \in Nat
        /\ DOMAIN inflight' \subseteq 1..(MAX_PAGES - 1)
        /\ \A q \in DOMAIN inflight : inflight[q] = NoAnswer \/ inflight[q] \in Seq(Row)
    BY <1>1, <1>3, Zenon DEF PagingInv, BoundedRequests, TypeOK
  <2>2. \A q \in DOMAIN inflight' : inflight'[q] = NoAnswer \/ inflight'[q] \in Seq(Row)
    BY <1>2, <1>3, <2>1, Zenon
  <2> QED BY <1>1, <2>1, <2>2, WalkType, Zenon
<1>5. BoundedRequests' /\ CountsRequests'
  BY <1>1, <1>3, <1>4, Zenon DEF PagingInv, BoundedRequests, CountsRequests
<1>6. CollectsPages'
  <2>1. Waiting' = Waiting
    BY <1>1, <1>3, Zenon DEF Waiting
  <2>2. changes = 0 /\ vault # "stuck" =>
            \A q \in DOMAIN inflight' :
                q \notin todo' /\ inflight'[q] \in {NoAnswer, PageAt(q)}
    BY <1>1, <1>3, Zenon DEF PagingInv, CollectsPages
  <2> QED BY <1>1, <2>1, <2>2, WalkFrame DEF PagingInv, CollectsPages
<1> QED BY <1>5, <1>6, Zenon DEF PagingInv

(* A page arrives: it is merged, and with the last one nothing is missing. *)
LEMMA ReceivePageKeeps ==
    ASSUME PagingInv, NEW p \in 1..MAX_PAGES, ReceivePage(p)
    PROVE  PagingInv'
<1>1. /\ pc = "parallel" /\ p \in DOMAIN inflight /\ inflight[p] # NoAnswer
      /\ all' = all \o inflight[p]
      /\ inflight' = [q \in DOMAIN inflight \ {p} |-> inflight[q]]
      /\ pc' = (IF OverWith(p) THEN "done" ELSE "parallel")
      /\ UNCHANGED <<todo, pages, requests, truncated>> /\ UNCHANGED vaultVars
  BY Zenon DEF ReceivePage, Restrict
<1>2. /\ listing \in Seq(Row) /\ all \in Seq(Row) /\ p \in Nat
      /\ DOMAIN inflight \subseteq 1..(MAX_PAGES - 1) /\ MAX_PAGES \in Nat
  BY TypeFacts
<1>3. /\ DOMAIN inflight' = DOMAIN inflight \ {p}
      /\ \A q \in DOMAIN inflight' : inflight'[q] = inflight[q]
  BY <1>1, Zenon
<1>4. inflight[p] \in Seq(Row)
  BY <1>1, Zenon DEF PagingInv, BoundedRequests, TypeOK
<1>5. all' \in Seq(Row) /\ Range(all') = Range(all) \cup Range(inflight[p])
  BY <1>1, <1>2, <1>4, MergeFacts
<1>6. TypeOK'
  <2>1. /\ TypeOK /\ pages' \in 0..MAX_PAGES /\ truncated' \in BOOLEAN
        /\ todo' \in SUBSET (1..(MAX_PAGES - 1)) /\ requests' \in Nat
        /\ DOMAIN inflight' \subseteq 1..(MAX_PAGES - 1)
        /\ \A q \in DOMAIN inflight : inflight[q] = NoAnswer \/ inflight[q] \in Seq(Row)
    BY <1>1, <1>3, Zenon DEF PagingInv, BoundedRequests, TypeOK
  <2> QED BY <1>1, <1>3, <1>5, <2>1, WalkType, Zenon
<1>7. Cardinality(DOMAIN inflight') <= MAX_CONCURRENT_PAGES
  <2>1. IsFiniteSet(DOMAIN inflight)
    <3>1. IsFiniteSet(1..(MAX_PAGES - 1))
      BY <1>2, FS_Interval
    <3> QED BY <1>2, <3>1, FS_Subset, Zenon
  <2>2. Cardinality(DOMAIN inflight) \in Nat
    BY <2>1, FS_CardinalityType, Zenon
  <2>3. Cardinality(DOMAIN inflight') = Cardinality(DOMAIN inflight) - 1
    BY <1>1, <1>3, <2>1, FS_RemoveElement, Zenon
  <2>4. Cardinality(DOMAIN inflight) <= MAX_CONCURRENT_PAGES
    BY Zenon DEF PagingInv, BoundedRequests
  <2> QED BY <2>2, <2>3, <2>4, PageAssumption
<1>8. BoundedRequests' /\ CountsRequests'
  BY <1>1, <1>6, <1>7, Zenon DEF PagingInv, BoundedRequests, CountsRequests
<1>9. ASSUME changes = 0, vault # "stuck" PROVE CollectsPages'
  <2>1. /\ \A i \in 1..Len(listing) : listing[i] = i
        /\ IsInjective(all) /\ Range(all) \subseteq 1..Len(listing)
    BY <1>9, StillFacts, Zenon
  <2>2. /\ \A q \in Waiting : RowsOf(q) \cap Range(all) = {}
        /\ \A q \in DOMAIN inflight :
              q \notin todo /\ inflight[q] \in {NoAnswer, PageAt(q)}
        /\ truncated \/ \A q \in 0..(TotalPages - 1) :
                           q \in Waiting \/ RowsOf(q) \subseteq Range(all)
    BY <1>1, <1>9, Zenon DEF PagingInv, CollectsPages
  <2>3. inflight[p] = PageAt(p)
    BY <1>1, <2>2, Zenon
  <2>4. Range(inflight[p]) = RowsOf(p) /\ IsInjective(inflight[p])
    BY <1>2, <1>9, <2>1, <2>3, PageRows, Zenon
  <2>5. RowsOf(p) \cap Range(all) = {} /\ p \in Waiting /\ Waiting' = Waiting \ {p}
    BY <1>1, <1>3, <2>2, Zenon DEF Waiting
  <2>6. IsInjective(all') /\ Range(all') = Range(all) \cup RowsOf(p)
    BY <1>1, <1>2, <1>4, <1>5, <2>1, <2>4, <2>5, MergeFacts
  <2>7. Range(all') \subseteq 1..Len(listing)
    BY <2>1, <2>6, Zenon DEF RowsOf
  <2>8. ASSUME NEW q \in Waiting' PROVE RowsOf(q) \cap Range(all') = {}
    <3>1. q \in Waiting /\ q # p /\ q \in Nat
      <4>1. Waiting \subseteq 1..(MAX_PAGES - 1)
        BY TypeFacts, Zenon DEF Waiting
      <4>2. q \in Waiting /\ q # p
        BY <2>5, <2>8, Zenon
      <4> QED BY <1>2, <4>1, <4>2
    <3>2. RowsOf(q) \cap RowsOf(p) = {}
      BY <1>2, <3>1, PagesApart, Zenon
    <3> QED BY <2>2, <2>6, <3>1, <3>2, Zenon
  <2>9. truncated \/ \A q \in 0..(TotalPages - 1) :
                        q \in Waiting' \/ RowsOf(q) \subseteq Range(all')
    BY <2>2, <2>5, <2>6, Zenon
  <2>10. ASSUME OverWith(p), ~truncated PROVE Range(all') = 1..Len(listing)
    <3>1. Waiting' = {}
      BY <1>1, <1>3, <2>10, Zenon DEF OverWith, Waiting
    <3>2. \A q \in 0..(TotalPages - 1) : RowsOf(q) \subseteq Range(all')
      BY <2>9, <2>10, <3>1, Zenon
    <3> QED BY <1>2, <2>7, <3>2, PagesCover, Zenon
  <2>11. \A q \in DOMAIN inflight' :
            q \notin todo' /\ inflight'[q] \in {NoAnswer, PageAt(q)}
    BY <1>1, <1>3, <2>2, Zenon
  <2> HIDE DEF RowsOf, PageAt, TotalPages, Waiting, OverWith
  <2>12. /\ listing' = listing /\ TotalPages' = TotalPages /\ truncated' = truncated
         /\ \A q : RowsOf(q)' = RowsOf(q) /\ PageAt(q)' = PageAt(q)
    BY <1>1, WalkFrame, Zenon
  <2> QED BY <1>1, <2>1, <2>6, <2>7, <2>8, <2>9, <2>10, <2>11, <2>12 DEF CollectsPages
<1>10. changes' = changes /\ vault' = vault
  BY <1>1, WalkFrame, Zenon
<1>11. CollectsPages'
  BY <1>9, <1>10, Zenon DEF CollectsPages
<1> QED BY <1>8, <1>11, Zenon DEF PagingInv

(* One more page of the sequential walk; a short one completes it. *)
LEMMA SequentialPageKeeps ==
    ASSUME PagingInv, SequentialPage
    PROVE  PagingInv'
<1>1. PICK page : page = PageAt(pages)
  BY Zenon
<1>2. /\ pc = "sequential" /\ all' = all \o page
      /\ truncated' = (~IsShort(page) /\ AtCeiling)
      /\ pc' = (IF IsShort(page) \/ AtCeiling THEN "done" ELSE "sequential")
      /\ pages' = pages + 1 /\ requests' = requests + 1 /\ UNCHANGED <<todo, inflight>>
      /\ UNCHANGED vaultVars
  BY <1>1, Zenon DEF SequentialPage
<1>3. /\ listing \in Seq(Row) /\ all \in Seq(Row) /\ MAX_PAGES \in Nat /\ pages \in Nat
      /\ requests \in Nat
  BY TypeFacts, Zenon
<1>4. requests <= pages + 1 /\ pages < MAX_PAGES
  BY <1>2, Zenon DEF PagingInv, CountsRequests
<1>5. page \in Seq(Row)
  BY <1>1, <1>3, PageType, Zenon
<1>6. all' \in Seq(Row) /\ Range(all') = Range(all) \cup Range(page)
  BY <1>2, <1>3, <1>5, MergeFacts
<1>7. TypeOK'
  <2>1. /\ TypeOK /\ pages' \in 0..MAX_PAGES /\ requests' \in Nat /\ truncated' \in BOOLEAN
        /\ todo' \in SUBSET (1..(MAX_PAGES - 1)) /\ DOMAIN inflight' \subseteq 1..(MAX_PAGES - 1)
        /\ \A q \in DOMAIN inflight' : inflight'[q] = NoAnswer \/ inflight'[q] \in Seq(Row)
    BY <1>2, <1>3, <1>4 DEF PagingInv, BoundedRequests, TypeOK
  <2> QED BY <1>2, <1>6, <2>1, WalkType, Zenon
<1>8. BoundedRequests' /\ CountsRequests'
  <2>1. requests' <= MAX_PAGES + 1 /\ requests' <= pages' + 1
    BY <1>2, <1>3, <1>4
  <2>2. pc' = "sequential" => pages' < MAX_PAGES
    BY <1>2, <1>3 DEF AtCeiling
  <2>3. Cardinality(DOMAIN inflight') <= MAX_CONCURRENT_PAGES
    BY <1>2, Zenon DEF PagingInv, BoundedRequests
  <2> QED BY <1>2, <1>7, <2>1, <2>2, <2>3, Zenon DEF BoundedRequests, CountsRequests
<1>9. ASSUME changes = 0, vault # "stuck" PROVE CollectsPages'
  <2>1. /\ \A i \in 1..Len(listing) : listing[i] = i
        /\ IsInjective(all) /\ Range(all) \subseteq 1..Len(listing)
    BY <1>9, StillFacts, Zenon
  <2>2. Range(all) = {i \in 1..Len(listing) : i <= pages * PAGE_SIZE}
    BY <1>2, <1>9, Zenon DEF PagingInv, CollectsPages
  <2>3. /\ Range(page) = RowsOf(pages) /\ IsInjective(page)
        /\ Len(page) < PAGE_SIZE => Len(listing) <= (pages + 1) * PAGE_SIZE
    BY <1>1, <1>3, <1>9, <2>1, PageRows, Zenon
  <2>4. PICK m \in Nat, n \in Nat, k \in Nat :
            m = pages * PAGE_SIZE /\ n = (pages + 1) * PAGE_SIZE /\ k = Len(listing) /\ m <= n
    <3>1. Len(listing) \in Nat
      BY <1>3
    <3>2. /\ pages * PAGE_SIZE \in Nat /\ (pages + 1) * PAGE_SIZE \in Nat
          /\ pages * PAGE_SIZE <= (pages + 1) * PAGE_SIZE
      BY <1>3, PageBounds, PageAssumption
    <3> QED BY <3>1, <3>2, Zenon
  <2>5. RowsOf(pages) = {i \in 1..k : m < i /\ i <= n} /\ Range(all) = {i \in 1..k : i <= m}
    BY <2>2, <2>4, Zenon DEF RowsOf
  <2>6. Range(all) \cap Range(page) = {}
    BY <2>3, <2>4, <2>5
  <2>7. IsInjective(all')
    BY <1>2, <1>3, <1>5, <2>1, <2>3, <2>6, MergeFacts, Zenon
  <2>8. Range(all') = {i \in 1..k : i <= n}
    BY <1>6, <2>3, <2>4, <2>5
  <2>9. IsShort(page) => Range(all') = 1..k
    <3>1. IsShort(page) => k <= n
      BY <2>3, <2>4, Zenon DEF IsShort
    <3>2. k <= n => \A i \in 1..k : i <= n
      OBVIOUS
    <3> QED BY <2>8, <3>1, <3>2, Zenon
  <2>10. pc' = "done" /\ ~truncated' => Range(all') = 1..k
    BY <1>2, <2>9, Zenon
  <2>11. /\ Range(all') = {i \in 1..Len(listing') : i <= pages' * PAGE_SIZE}
         /\ Len(listing') = k /\ listing' = listing
    BY <1>2, <2>4, <2>8, WalkFrame, Zenon
  <2>12. Range(all') \subseteq 1..k
    BY <2>8, Zenon
  <2> QED BY <1>2, <2>1, <2>7, <2>10, <2>11, <2>12, Zenon DEF CollectsPages
<1>10. changes' = changes /\ vault' = vault
  BY <1>2, WalkFrame, Zenon
<1>11. CollectsPages'
  BY <1>9, <1>10, Zenon DEF CollectsPages
<1> QED BY <1>8, <1>11, Zenon DEF PagingInv

(* The invariant holds throughout. *)
THEOREM PagingInvariant == Spec => []PagingInv
<1>1. Init => PagingInv
  <2> SUFFICES ASSUME Init PROVE PagingInv
    BY Zenon
  <2>1. PICK n \in 0..MaxRows : listing = [i \in 1..n |-> i]
    BY Zenon DEF Init
  <2>2. n \in Nat /\ \A i \in 1..n : i \in Row
    BY BoundAssumption DEF Row
  <2>3. listing \in Seq(Row) /\ Len(listing) = n
    BY <2>1, <2>2
  <2>4. DOMAIN inflight = {} /\ Cardinality(DOMAIN inflight) = 0
    BY NoneInFlight, Zenon DEF Init
  <2>5. all \in Seq(Row) /\ Range(all) = {} /\ IsInjective(all)
    BY DEF Init, Range, IsInjective
  <2>6. TypeOK
    <3>1. /\ 0 \in 0..MAX_PAGES /\ 0 \in Nat /\ 0 \in 0..MaxChanges /\ 0 \in 0..0
      BY PageAssumption, BoundAssumption
    <3> QED BY <2>3, <2>4, <2>5, <3>1, Zenon DEF Init, TypeOK
  <2>7. BoundedRequests /\ CountsRequests
    BY <2>4, <2>6, PageAssumption DEF Init, BoundedRequests, CountsRequests
  <2>8. CollectsPages
    BY <2>1, <2>3, <2>5, Zenon DEF Init, CollectsPages
  <2> QED BY <2>7, <2>8, Zenon DEF PagingInv
<1>2. PagingInv /\ [Next]_vars => PagingInv'
  <2> SUFFICES ASSUME PagingInv, [Next]_vars PROVE PagingInv'
    BY Zenon
  <2>1. ASSUME NEW r \in 1..(MaxRows + MaxChanges), Observe(r) \/ Remove(r) PROVE PagingInv'
    BY <2>1, ChangeKeeps, Zenon DEF Row
  <2>2. CASE Fetch
    BY <2>2, ProbeCountedKeeps, ProbeIgnoredKeeps, ProbeRejectedKeeps, StartPageKeeps,
       AnswerPageKeeps, ReceivePageKeeps, SequentialPageKeeps, Zenon DEF Fetch
  <2>3. CASE RequestFails
    BY <2>3, FailKeeps, Zenon
  <2>4. CASE UNCHANGED vars
    <3>1. UNCHANGED <<pc, all, todo, inflight, pages, requests, truncated>>
          /\ UNCHANGED <<vault, listing, touched, changes, removals>>
      BY <2>4, Zenon DEF vars, walkVars, vaultVars
    <3>2. BoundedRequests' /\ CountsRequests'
      BY <3>1, Zenon DEF PagingInv, BoundedRequests, TypeOK, CountsRequests
    <3>3. CollectsPages'
      BY <3>1, Zenon DEF PagingInv, CollectsPages, Waiting, RowsOf, PageAt, TotalPages
    <3> QED BY <3>2, <3>3, Zenon DEF PagingInv
  <2> QED BY <2>1, <2>2, <2>3, <2>4, Zenon DEF Next
<1> QED BY <1>1, <1>2, PTL DEF Spec

(* A fetch asks for pages below MAX_PAGES only, costs at most one request for each and
   the probe of fetch_ips, and has at most MAX_CONCURRENT_PAGES of them in flight. *)
THEOREM RequestsAreBounded == Spec => []BoundedRequests
<1>1. PagingInv => BoundedRequests
  BY Zenon DEF PagingInv
<1> QED BY <1>1, PagingInvariant, PTL

(* When nothing changes in Vault meanwhile, fetch_ips returns every row exactly once: for
   every length of the listing, page size and ceiling, whichever way this Vault answers
   the probe and in whatever order the pages of the concurrent walk arrive. *)
THEOREM StillWalksAreComplete == Spec => []CompleteWhenStill
<1>1. PagingInv => CompleteWhenStill
  <2> SUFFICES ASSUME PagingInv, Done, changes = 0
               PROVE  Range(all) = Range(listing) /\ Len(all) = Len(listing)
    BY Zenon DEF CompleteWhenStill
  <2>1. listing \in Seq(Row) /\ all \in Seq(Row)
    BY TypeFacts, Zenon
  <2>2. PICK m \in Nat, n \in Nat : m = Len(all) /\ n = Len(listing)
    BY <2>1
  <2>3. IsInjective(all) /\ Range(all) = 1..n /\ \A i \in 1..n : listing[i] = i
    BY <2>2, Zenon DEF PagingInv, CollectsPages, Done
  <2>4. DOMAIN all = 1..m /\ DOMAIN listing = 1..n
    BY <2>1, <2>2
  <2>5. Range(listing) = 1..n
    BY <2>3, <2>4 DEF Range
  <2>6. all \in [1..m -> 1..n] /\ \A t \in 1..n : \E i \in 1..m : all[i] = t
    <3>1. all \in [1..m -> Row] /\ \A i \in 1..m : all[i] \in 1..n
      BY <2>1, <2>3, <2>4 DEF Range
    <3>2. \A t \in 1..n : \E i \in 1..m : all[i] = t
      BY <2>3, <2>4, Zenon DEF Range
    <3> QED BY <3>1, <3>2, Zenon
  <2>7. ExistsBijection(1..m, 1..n)
    BY <2>3, <2>6, Zenon DEF ExistsBijection, Bijection, Injection, Surjection
  <2>8. IsFiniteSet(1..m) /\ Cardinality(1..m) = m /\ Cardinality(1..n) = n
    BY FS_Interval
  <2>9. m = n
    BY <2>7, <2>8, FS_Bijection, Zenon
  <2> QED BY <2>2, <2>3, <2>5, <2>9, Zenon
<1> QED BY <1>1, PagingInvariant, PTL

\* Position i is on page p.
OnPage(i, p) == p * PAGE_SIZE < i /\ i <= (p + 1) * PAGE_SIZE

\* The untouched rows at some positions.
RowsAt(A) == {listing[i] : i \in A \cap (1..Len(listing))} \ touched

\* The pages of the concurrent walk that Vault has not answered, the positions that are on
\* none of them, and the rows of its answers.
Unanswered == todo \cup {p \in DOMAIN inflight : inflight[p] = NoAnswer}

Answered == {i \in Nat : \A p \in Unanswered : ~OnPage(i, p)}

Gathered ==
    Range(all) \cup UNION {Range(inflight[p]) : p \in {q \in DOMAIN inflight : inflight[q] # NoAnswer}}

\* The pages of the concurrent walk: those requested and those to be requested.
Counted == requests + Cardinality(todo)

\* The positions a sequential walk has passed.
Passed == 1..(pages * PAGE_SIZE)

\* The rows that have slipped past a walk are as few as MissesFew allows at its end.
MissInv ==
    /\ pc = "sequential" => vault # "counts"
    /\ pc = "sequential" /\ vault # "stuck" => Cardinality(RowsAt(Passed) \ Range(all)) <= removals
    /\ pc = "parallel" => vault = "counts" /\ todo \cap DOMAIN inflight = {}
    /\ pc = "parallel" /\ ~truncated =>
          /\ Unanswered \subseteq 1..(Counted - 1)
          /\ Cardinality(RowsAt(Answered) \ Gathered) <= changes * (Counted \div 2)
    /\ MissesFew

(* Rows that are named by the members of a finite set are no more than these. *)
LEMMA NamedBy ==
    ASSUME NEW N, NEW B, IsFiniteSet(B), NEW g, \A x \in N : \E p \in B : g[p] = x
    PROVE  IsFiniteSet(N) /\ Cardinality(N) <= Cardinality(B)
<1> DEFINE f == [x \in N |-> CHOOSE p \in B : g[p] = x]
<1>1. \A x \in N : f[x] \in B /\ g[f[x]] = x
  BY Zenon
<1>2. f \in [N -> B]
  BY <1>1, Zenon
<1>3. DOMAIN f = N
  BY Zenon
<1> HIDE DEF f
<1>4. f \in Injection(N, B)
  BY <1>1, <1>2, <1>3, Zenon DEF Injection, IsInjective
<1> QED BY <1>4, FS_Injection, Zenon

(* Of t pages, at most half can be unlike the page next to them. *)
LEMMA HalfThePages ==
    ASSUME NEW t \in Nat, NEW B, NEW S, IsFiniteSet(S), Cardinality(S) = t, B \subseteq S,
           NEW C \in SUBSET S, B \cap C = {}, NEW f \in Injection(B, C)
    PROVE  IsFiniteSet(B) /\ Cardinality(B) \in Nat /\ Cardinality(B) <= t \div 2
<1>1. IsFiniteSet(B) /\ IsFiniteSet(C)
  BY FS_Subset, Zenon
<1>2. Cardinality(B) \in Nat /\ Cardinality(C) \in Nat
  BY <1>1, FS_CardinalityType, Zenon
<1>3. Cardinality(B) <= Cardinality(C)
  BY <1>1, FS_Injection, Zenon
<1>4. ~(Cardinality(B) + Cardinality(C) > t)
  BY FS_MajoritiesIntersect, Zenon
<1> QED BY <1>1, <1>2, <1>3, <1>4

(* At most half of the pages are not answered while the next one is, or is past the end. *)
LEMMA FewEndings ==
    ASSUME NEW t \in Nat, NEW U \in SUBSET (1..(t - 1))
    PROVE  LET B == {p \in U : p + 1 \notin U}
           IN  IsFiniteSet(B) /\ Cardinality(B) \in Nat /\ Cardinality(B) <= t \div 2
<1> DEFINE B == {p \in U : p + 1 \notin U}
           C == {p \in 1..t : p \notin B}
           f == [p \in B |-> p + 1]
<1>1. IsFiniteSet(1..t) /\ Cardinality(1..t) = t
  <2>1. 1 \in Int /\ t \in Int
    OBVIOUS
  <2>2. IsFiniteSet(1..t) /\ Cardinality(1..t) = IF 1 > t THEN 0 ELSE t - 1 + 1
    BY <2>1, FS_Interval, Zenon
  <2> QED BY <2>2
<1>2. \A p \in B : p \in Int /\ p \in 1..t /\ p + 1 \in 1..t /\ p + 1 \notin B
  OBVIOUS
<1>3. B \subseteq 1..t /\ C \in SUBSET (1..t) /\ B \cap C = {}
  BY <1>2, Zenon
<1>4. f \in [B -> C]
  BY <1>2, Zenon
<1>5. \A p, q \in B : p + 1 = q + 1 => p = q
  BY <1>2
<1>6. f \in Injection(B, C)
  <2>1. DOMAIN f = B /\ \A p \in B : f[p] = p + 1
    BY Zenon
  <2> HIDE DEF f, B, C
  <2> QED BY <1>4, <1>5, <2>1, Zenon DEF Injection, IsInjective
<1> HIDE DEF B, C, f
<1>7. IsFiniteSet(B) /\ Cardinality(B) \in Nat /\ Cardinality(B) <= t \div 2
  BY <1>1, <1>3, <1>6, HalfThePages, Zenon
<1> QED BY <1>7, Zenon DEF B

(* At most half of the pages are not answered while the one before is. *)
LEMMA FewBeginnings ==
    ASSUME NEW t \in Nat, NEW U \in SUBSET (1..(t - 1))
    PROVE  LET B == {p \in U : p - 1 \notin U}
           IN  IsFiniteSet(B) /\ Cardinality(B) \in Nat /\ Cardinality(B) <= t \div 2
<1> DEFINE B == {p \in U : p - 1 \notin U}
           C == {p \in 0..(t - 1) : p \notin B}
           f == [p \in B |-> p - 1]
<1>1. IsFiniteSet(0..(t - 1)) /\ Cardinality(0..(t - 1)) = t
  <2>1. 0 \in Int /\ t - 1 \in Int
    OBVIOUS
  <2>2. IsFiniteSet(0..(t - 1))
        /\ Cardinality(0..(t - 1)) = IF 0 > t - 1 THEN 0 ELSE (t - 1) - 0 + 1
    BY <2>1, FS_Interval, Zenon
  <2> QED BY <2>2
<1>2. \A p \in B : p \in Int /\ p \in 0..(t - 1) /\ p - 1 \in 0..(t - 1) /\ p - 1 \notin B
  OBVIOUS
<1>3. B \subseteq 0..(t - 1) /\ C \in SUBSET (0..(t - 1)) /\ B \cap C = {}
  BY <1>2, Zenon
<1>4. f \in [B -> C]
  BY <1>2, Zenon
<1>5. \A p, q \in B : p - 1 = q - 1 => p = q
  BY <1>2
<1>6. f \in Injection(B, C)
  <2>1. DOMAIN f = B /\ \A p \in B : f[p] = p - 1
    BY Zenon
  <2> HIDE DEF f, B, C
  <2> QED BY <1>4, <1>5, <2>1, Zenon DEF Injection, IsInjective
<1> HIDE DEF B, C, f
<1>7. IsFiniteSet(B) /\ Cardinality(B) \in Nat /\ Cardinality(B) <= t \div 2
  BY <1>1, <1>3, <1>6, HalfThePages, Zenon
<1> QED BY <1>7, Zenon DEF B

(* A set that grows by a few. *)
LEMMA GrowsBy ==
    ASSUME NEW M, NEW N, NEW L, IsFiniteSet(M), IsFiniteSet(N), L \subseteq M \cup N,
           NEW a \in Nat, NEW k \in Nat, Cardinality(M) <= a, Cardinality(N) <= k
    PROVE  Cardinality(L) <= a + k
<1>1. /\ IsFiniteSet(M \cup N)
      /\ Cardinality(M \cup N) = Cardinality(M) + Cardinality(N) - Cardinality(M \cap N)
  BY FS_Union, Zenon
<1>2. IsFiniteSet(M \cap N)
  BY FS_Intersection, Zenon
<1>3. IsFiniteSet(L) /\ Cardinality(L) <= Cardinality(M \cup N)
  BY <1>1, FS_Subset, Zenon
<1>4. /\ Cardinality(M) \in Nat /\ Cardinality(N) \in Nat /\ Cardinality(M \cap N) \in Nat
      /\ Cardinality(L) \in Nat /\ Cardinality(M \cup N) \in Nat
  BY <1>1, <1>2, <1>3, FS_CardinalityType, Zenon
<1> QED BY <1>1, <1>3, <1>4

(* A sequence without its i-th element. *)
LEMMA DropFacts ==
    ASSUME NEW S, NEW s \in Seq(S), NEW i \in 1..Len(s)
    PROVE  LET w == SubSeq(s, 1, i - 1) \o SubSeq(s, i + 1, Len(s))
           IN  /\ w \in Seq(S) /\ Len(w) = Len(s) - 1
               /\ \A j \in 1..(i - 1) : w[j] = s[j]
               /\ \A j \in i..(Len(s) - 1) : w[j] = s[j + 1]
<1>1. PICK a, b : a = SubSeq(s, 1, i - 1) /\ b = SubSeq(s, i + 1, Len(s))
  BY Zenon
<1>2. /\ a \in Seq(S) /\ Len(a) = i - 1 /\ b \in Seq(S) /\ Len(b) = Len(s) - i
  BY <1>1
<1>3. /\ \A j \in 1..(i - 1) : a[j] = s[j]
      /\ \A j \in 1..(Len(s) - i) : b[j] = s[i + j]
  BY <1>1
<1>4. /\ a \o b \in Seq(S) /\ Len(a \o b) = Len(s) - 1
      /\ \A j \in 1..(i - 1) : (a \o b)[j] = a[j]
      /\ \A j \in i..(Len(s) - 1) : (a \o b)[j] = b[j - i + 1]
  <2>1. PICK n \in Nat : n = Len(s)
    OBVIOUS
  <2>2. i \in Nat /\ Len(a) = i - 1 /\ Len(b) = n - i /\ a \in Seq(S) /\ b \in Seq(S)
    BY <1>2, <2>1
  <2>3. a \o b \in Seq(S) /\ Len(a \o b) = n - 1
    BY <2>2
  <2>4. \A j \in 1..(i - 1) : (a \o b)[j] = a[j]
    BY <2>2
  <2>5. \A j \in i..(n - 1) : (a \o b)[j] = b[j - i + 1]
    BY <2>2
  <2> QED BY <2>1, <2>3, <2>4, <2>5, Zenon
<1>5. PICK w : w = a \o b
  BY Zenon
<1>6. \A j \in 1..(i - 1) : w[j] = s[j]
  BY <1>3, <1>4, <1>5, Zenon
<1>7. ASSUME NEW j \in i..(Len(s) - 1) PROVE w[j] = s[j + 1]
  <2>1. w[j] = b[j - i + 1]
    BY <1>4, <1>5, Zenon
  <2>2. j - i + 1 \in 1..(Len(s) - i) /\ i + (j - i + 1) = j + 1
    OBVIOUS
  <2>3. b[j - i + 1] = s[i + (j - i + 1)]
    BY <1>3, <2>2, Zenon
  <2> QED BY <2>1, <2>2, <2>3, Zenon
<1> QED BY <1>1, <1>4, <1>5, <1>6, <1>7, Zenon

(* A listing without one of its rows. *)
LEMMA WithoutFacts ==
    ASSUME listing \in Seq(Row), NEW i \in DOMAIN listing
    PROVE  /\ Without(i) \in Seq(Row) /\ Len(Without(i)) = Len(listing) - 1
           /\ \A j \in 1..(i - 1) : Without(i)[j] = listing[j]
           /\ \A j \in i..(Len(listing) - 1) : Without(i)[j] = listing[j + 1]
<1>1. i \in 1..Len(listing)
  OBVIOUS
<1> QED BY <1>1, DropFacts, Zenon DEF Without

(* A listing with a row in front. *)
LEMMA FrontFacts ==
    ASSUME NEW s \in Seq(Row), NEW r \in Row
    PROVE  /\ <<r>> \o s \in Seq(Row) /\ Len(<<r>> \o s) = Len(s) + 1
           /\ (<<r>> \o s)[1] = r
           /\ \A j \in 2..(Len(s) + 1) : (<<r>> \o s)[j] = s[j - 1]
<1>1. <<r>> \in Seq(Row) /\ Len(<<r>>) = 1 /\ <<r>>[1] = r
  OBVIOUS
<1>2. <<r>> \o s \in Seq(Row)
  BY <1>1, ConcatType, Zenon
<1>3. /\ Len(<<r>> \o s) = 1 + Len(s)
      /\ \A j \in 1..(1 + Len(s)) : (<<r>> \o s)[j] = IF j <= 1 THEN <<r>>[j] ELSE s[j - 1]
  BY <1>1
<1> QED BY <1>1, <1>2, <1>3

(* A row that is observed pushes others down by one position at most: an untouched row that
   is then at one of some positions was there before or comes from the position before. *)
LEMMA ObserveShifts ==
    ASSUME listing \in Seq(Row), NEW r \in Row, Observe(r), NEW A,
           NEW i \in 1..Len(listing'), i \in A, listing'[i] \notin touched'
    PROVE  /\ listing'[i] \notin touched
           /\ \E j \in 1..Len(listing) : /\ listing[j] = listing'[i]
                                         /\ j \in A \/ (j \notin A /\ j + 1 \in A)
<1>1. touched' = touched \cup {r} /\ listing'[i] # r
  BY Zenon DEF Observe
<1>2. i \in Int /\ Len(listing) \in Nat
  OBVIOUS
<1>3. CASE listing' = <<r>> \o listing
  <2>1. i \in 2..(Len(listing) + 1)
    BY <1>1, <1>3, FrontFacts
  <2>2. listing'[i] = listing[i - 1] /\ i - 1 \in 1..Len(listing) /\ (i - 1) + 1 = i
    <3>1. listing'[i] = listing[i - 1]
      BY <1>3, <2>1, FrontFacts, Zenon
    <3> QED BY <1>2, <2>1, <3>1
  <2> QED BY <1>1, <2>2, Zenon
<1>4. ASSUME NEW k \in DOMAIN listing, listing' = <<r>> \o Without(k)
      PROVE  \E j \in 1..Len(listing) : /\ listing[j] = listing'[i]
                                        /\ j \in A \/ (j \notin A /\ j + 1 \in A)
  <2>1. PICK w : w = Without(k)
    BY Zenon
  <2>2. /\ w \in Seq(Row) /\ Len(w) = Len(listing) - 1
        /\ \A j \in 1..(k - 1) : w[j] = listing[j]
        /\ \A j \in k..(Len(listing) - 1) : w[j] = listing[j + 1]
    BY <2>1, WithoutFacts, Zenon
  <2>3. /\ Len(listing') = Len(w) + 1 /\ listing'[1] = r
        /\ \A j \in 2..(Len(w) + 1) : listing'[j] = w[j - 1]
    <3>1. listing' = <<r>> \o w
      BY <1>4, <2>1, Zenon
    <3> QED BY <2>2, <3>1, FrontFacts, ZenonT(60)
  <2>4. i # 1
    BY <1>1, <2>3, Zenon
  <2>5. i \in 2..(Len(w) + 1) /\ i - 1 \in 1..(Len(listing) - 1) /\ k \in 1..Len(listing)
    BY <1>2, <2>2, <2>3, <2>4
  <2>6. listing'[i] = w[i - 1]
    BY <2>3, <2>5, Zenon
  <2>7. CASE i - 1 \in 1..(k - 1)
    <3>1. w[i - 1] = listing[i - 1] /\ i - 1 \in 1..Len(listing) /\ (i - 1) + 1 = i
      BY <1>2, <2>2, <2>5, <2>7
    <3> QED BY <2>6, <3>1, Zenon
  <2>8. CASE i - 1 \in k..(Len(listing) - 1)
    <3>1. w[i - 1] = listing[(i - 1) + 1] /\ i \in 1..Len(listing) /\ (i - 1) + 1 = i
      BY <1>2, <2>2, <2>5, <2>8
    <3> QED BY <2>6, <3>1, Zenon
  <2>9. i - 1 \in 1..(k - 1) \/ i - 1 \in k..(Len(listing) - 1)
    BY <1>2, <2>5
  <2> QED BY <2>7, <2>8, <2>9, Zenon
<1> QED BY <1>1, <1>3, <1>4, Zenon DEF Observe

(* A row that is removed pulls others up by one position at most. *)
LEMMA RemoveShifts ==
    ASSUME listing \in Seq(Row), NEW r \in Row, Remove(r), NEW A,
           NEW i \in 1..Len(listing'), i \in A, listing'[i] \notin touched'
    PROVE  /\ listing'[i] \notin touched
           /\ \E j \in 1..Len(listing) : /\ listing[j] = listing'[i]
                                         /\ j \in A \/ (j \notin A /\ j - 1 \in A)
<1>1. touched' = touched
  BY Zenon DEF Remove
<1>2. PICK k \in DOMAIN listing : listing' = Without(k)
  BY Zenon DEF Remove
<1>3. /\ Len(listing') = Len(listing) - 1
      /\ \A j \in 1..(k - 1) : listing'[j] = listing[j]
      /\ \A j \in k..(Len(listing) - 1) : listing'[j] = listing[j + 1]
  BY <1>2, WithoutFacts, Zenon
<1>4. i \in 1..(Len(listing) - 1) /\ k \in 1..Len(listing) /\ Len(listing) \in Nat
  BY <1>3
<1>5. CASE i \in 1..(k - 1)
  <2>1. i \in 1..Len(listing)
    BY <1>4
  <2> QED BY <1>1, <1>3, <1>5, <2>1, Zenon
<1>6. CASE i \in k..(Len(listing) - 1)
  <2>1. i + 1 \in 1..Len(listing) /\ (i + 1) - 1 = i
    BY <1>4
  <2> QED BY <1>1, <1>3, <1>6, <2>1, Zenon
<1>7. i \in 1..(k - 1) \/ i \in k..(Len(listing) - 1)
  BY <1>4
<1> QED BY <1>5, <1>6, <1>7, Zenon

(* A page holds the rows at its positions, and a short one is the last. *)
LEMMA PageHolds ==
    ASSUME listing \in Seq(Row), NEW p \in Nat, vault # "stuck"
    PROVE  /\ \A i \in 1..Len(listing) : OnPage(i, p) => listing[i] \in Range(PageAt(p))
           /\ Len(PageAt(p)) < PAGE_SIZE => Len(listing) <= (p + 1) * PAGE_SIZE
<1>1. PICK n \in Nat : n = Len(listing)
  OBVIOUS
<1>2. PICK first \in Nat, last \in Nat : first = p * PAGE_SIZE /\ last = (p + 1) * PAGE_SIZE
  BY PageBounds, Zenon
<1>3. last = first + PAGE_SIZE /\ PAGE_SIZE \in Nat
  BY <1>2, PageBounds, PageAssumption, Zenon
<1>4. PICK m \in Nat : m = IF last < n THEN last ELSE n
  BY Zenon
<1>5. PICK page : page = SubSeq(listing, first + 1, m)
  BY Zenon
<1>6. PageAt(p) = page
  BY <1>1, <1>2, <1>4, <1>5, Zenon DEF PageAt
<1>7. first + 1 \in Nat /\ 1 <= first + 1 /\ m <= Len(listing)
  BY <1>1, <1>4
<1>8. /\ page \in Seq(Row) /\ Len(page) = IF first + 1 <= m THEN m - first ELSE 0
      /\ \A i \in 1..(m - first) : page[i] = listing[first + i]
  <2>1. /\ page \in Seq(Row) /\ Len(page) = IF first + 1 <= m THEN m - (first + 1) + 1 ELSE 0
        /\ \A i \in 1..(m - (first + 1) + 1) : page[i] = listing[(first + 1) + i - 1]
    BY <1>5, <1>7, SubSeqFacts
  <2>2. m - (first + 1) + 1 = m - first /\ \A i \in Int : (first + 1) + i - 1 = first + i
    OBVIOUS
  <2> QED BY <2>1, <2>2
<1>9. ASSUME NEW i \in 1..n, first < i, i <= last PROVE listing[i] \in Range(page)
  <2>1. /\ i - first \in 1..(m - first) /\ i - first \in 1..Len(page)
        /\ first + (i - first) = i
    BY <1>4, <1>8, <1>9
  <2>2. page[i - first] = listing[i]
    BY <1>8, <2>1, Zenon
  <2>3. DOMAIN page = 1..Len(page)
    BY <1>8
  <2> QED BY <2>1, <2>2, <2>3, Zenon DEF Range
<1>10. Len(page) < PAGE_SIZE => n <= last
  BY <1>3, <1>4, <1>8
<1> QED BY <1>1, <1>2, <1>6, <1>9, <1>10, Zenon DEF OnPage

(* The untouched rows are rows, and so finitely many. *)
LEMMA RowsAreFew ==
    ASSUME listing \in Seq(Row), NEW A
    PROVE  RowsAt(A) \subseteq Row /\ \A T : IsFiniteSet(RowsAt(A) \ T)
<1>1. IsFiniteSet(Row)
  <2>1. 1 \in Int /\ MaxRows + MaxChanges \in Int
    BY BoundAssumption
  <2> QED BY <2>1, FS_Interval, Zenon DEF Row
<1>2. RowsAt(A) \subseteq Row
  <2>1. \A i \in 1..Len(listing) : listing[i] \in Row
    OBVIOUS
  <2> QED BY <2>1, Zenon DEF RowsAt
<1>3. \A T : RowsAt(A) \ T \in SUBSET Row
  BY <1>2, Zenon
<1> QED BY <1>1, <1>2, <1>3, FS_Subset, Zenon

(* The untouched rows at the positions of A, one by one. *)
LEMMA InRowsAt ==
    ASSUME NEW A, NEW x
    PROVE  x \in RowsAt(A) <=> x \notin touched /\ \E i \in 1..Len(listing) : i \in A /\ x = listing[i]
BY Zenon DEF RowsAt

(* The last position of a page, and the first. *)
LEMMA PageEnds ==
    ASSUME NEW p \in Nat, NEW j \in Nat, OnPage(j, p)
    PROVE  /\ ~OnPage(j + 1, p) => j = (p + 1) * PAGE_SIZE /\ OnPage(j + 1, p + 1)
           /\ p # 0 /\ ~OnPage(j - 1, p) => j = p * PAGE_SIZE + 1 /\ OnPage(j - 1, p - 1)
<1>1. PICK a \in Nat, b \in Nat : a = p * PAGE_SIZE /\ b = (p + 1) * PAGE_SIZE
  BY PageBounds, Zenon
<1>2. b = a + PAGE_SIZE /\ PAGE_SIZE \in Nat \ {0}
  BY <1>1, PageBounds, PageAssumption, Zenon
<1>3. a < j /\ j <= b
  BY <1>1, Zenon DEF OnPage
<1>4. ASSUME ~OnPage(j + 1, p) PROVE j = (p + 1) * PAGE_SIZE /\ OnPage(j + 1, p + 1)
  <2>1. ~(a < j + 1 /\ j + 1 <= b)
    BY <1>1, <1>4, Zenon DEF OnPage
  <2>2. j = b
    BY <1>3, <2>1
  <2>3. p + 1 \in Nat
    OBVIOUS
  <2>4. ((p + 1) + 1) * PAGE_SIZE = b + PAGE_SIZE
    BY <1>1, <2>3, PageBounds, Zenon
  <2>5. b < j + 1 /\ j + 1 <= b + PAGE_SIZE
    BY <1>2, <2>2
  <2> QED BY <1>1, <2>2, <2>4, <2>5, Zenon DEF OnPage
<1>5. ASSUME p # 0, ~OnPage(j - 1, p) PROVE j = p * PAGE_SIZE + 1 /\ OnPage(j - 1, p - 1)
  <2>1. ~(a < j - 1 /\ j - 1 <= b)
    BY <1>1, <1>5, Zenon DEF OnPage
  <2>2. j = a + 1
    BY <1>3, <2>1
  <2>3. p - 1 \in Nat /\ (p - 1) + 1 = p
    BY <1>5
  <2>4. PICK c \in Nat : c = (p - 1) * PAGE_SIZE /\ a = c + PAGE_SIZE
    BY <1>1, <2>3, PageBounds, Zenon
  <2>5. c < j - 1 /\ j - 1 <= a
    BY <1>2, <2>2, <2>4
  <2> QED BY <1>1, <2>2, <2>3, <2>4, <2>5, Zenon DEF OnPage
<1> QED BY <1>4, <1>5, Zenon

(* What the concurrent walk may miss grows with one change by the rows that cross from a
   page not answered to one that is, which half of the pages can have. *)
LEMMA CrossingsAreFew ==
    ASSUME NEW M, IsFiniteSet(M), NEW L, NEW B, IsFiniteSet(B), NEW g,
           \A x \in L : x \in M \/ \E p \in B : g[p] = x,
           NEW c \in Nat, NEW k \in Nat, Cardinality(M) <= c * k,
           Cardinality(B) \in Nat, Cardinality(B) <= k
    PROVE  Cardinality(L) <= (c + 1) * k
<1> DEFINE N == {x \in L : x \notin M}
<1>1. IsFiniteSet(N) /\ Cardinality(N) <= Cardinality(B)
  <2>1. \A x \in N : \E p \in B : g[p] = x
    BY Zenon
  <2> HIDE DEF N
  <2> QED BY <2>1, NamedBy, Zenon
<1>2. L \subseteq M \cup N
  BY Zenon
<1> HIDE DEF N
<1>3. Cardinality(N) \in Nat
  BY <1>1, FS_CardinalityType, Zenon
<1>4. Cardinality(N) <= k
  BY <1>1, <1>3
<1>5. PICK a \in Nat : a = c * k /\ a + k = (c + 1) * k
  OBVIOUS
<1>6. Cardinality(L) <= a + k
  BY <1>1, <1>2, <1>4, <1>5, GrowsBy, Zenon
<1> QED BY <1>5, <1>6, Zenon

(* The walk's state, as the counts need it. *)
LEMMA MissFacts ==
    ASSUME PagingInv, MissInv, pc = "parallel", ~truncated
    PROVE  /\ Counted \in Nat /\ Counted \div 2 \in Nat /\ changes \in Nat
           /\ Unanswered \in SUBSET (1..(Counted - 1)) /\ Unanswered \subseteq Nat \ {0}
           /\ Cardinality(RowsAt(Answered) \ Gathered) <= changes * (Counted \div 2)
<1>1. /\ requests \in Nat /\ todo \subseteq 1..(MAX_PAGES - 1) /\ MAX_PAGES \in Nat
      /\ changes \in Nat
  BY TypeFacts, Zenon
<1>2. Cardinality(todo) \in Nat
  <2>1. IsFiniteSet(1..(MAX_PAGES - 1))
    BY <1>1, FS_Interval
  <2> QED BY <1>1, <2>1, FS_Subset, FS_CardinalityType, Zenon
<1>3. PICK t \in Nat : t = Counted
  BY <1>1, <1>2 DEF Counted
<1>4. /\ Unanswered \subseteq 1..(t - 1)
      /\ Cardinality(RowsAt(Answered) \ Gathered) <= changes * (t \div 2)
  BY <1>3, Zenon DEF MissInv
<1>5. t \div 2 \in Nat /\ \A p \in 1..(t - 1) : p \in Nat \ {0}
  OBVIOUS
<1> QED BY <1>1, <1>3, <1>4, <1>5, Zenon

(* A part of few is few. *)
LEMMA SmallerStill ==
    ASSUME NEW M, IsFiniteSet(M), NEW L \in SUBSET M, NEW a, a \in Nat, Cardinality(M) <= a
    PROVE  Cardinality(L) <= a
<1>1. IsFiniteSet(L) /\ Cardinality(L) <= Cardinality(M)
  BY FS_Subset, Zenon
<1>2. Cardinality(L) \in Nat /\ Cardinality(M) \in Nat
  BY <1>1, FS_CardinalityType, Zenon
<1> QED BY <1>1, <1>2

(* The rows that slipped past a sequential walk. *)
LEMMA PassedFacts ==
    ASSUME PagingInv, MissInv, pc = "sequential", vault # "stuck"
    PROVE  /\ removals \in Nat
           /\ IsFiniteSet(RowsAt(Passed) \ Range(all))
           /\ Cardinality(RowsAt(Passed) \ Range(all)) <= removals
<1>1. listing \in Seq(Row) /\ changes \in Nat /\ removals \in 0..changes
  BY TypeFacts, Zenon DEF PagingInv, BoundedRequests, TypeOK
<1>2. removals \in Nat
  BY <1>1
<1> QED BY <1>1, <1>2, RowsAreFew, Zenon DEF MissInv

(* A change leaves the walk alone. *)
LEMMA ChangeFrame ==
    ASSUME PagingInv, NEW r \in Row, Observe(r) \/ Remove(r)
    PROVE  /\ pc \in {"probe", "parallel", "sequential"} /\ pc' = pc /\ vault' = vault
           /\ truncated' = truncated /\ all' = all /\ todo' = todo /\ inflight' = inflight
           /\ changes' = changes + 1 /\ Unanswered' = Unanswered /\ Answered' = Answered
           /\ Gathered' = Gathered /\ Counted' = Counted /\ Passed' = Passed
           /\ MissesFew'
<1>1. /\ pc \in {"probe", "parallel", "sequential"} /\ changes' = changes + 1
      /\ pc' = pc /\ all' = all /\ todo' = todo /\ inflight' = inflight /\ pages' = pages
      /\ requests' = requests /\ truncated' = truncated /\ vault' = vault
  BY Zenon DEF Observe, Remove, Changing, walkVars
<1>2. Unanswered' = Unanswered /\ Gathered' = Gathered /\ Counted' = Counted /\ Passed' = Passed
  BY <1>1, Zenon DEF Unanswered, Gathered, Counted, Passed
<1>3. Answered' = Answered
  BY <1>2, Zenon DEF Answered, OnPage
<1>4. MissesFew'
  <2>1. pc' # "done"
    BY <1>1
  <2> QED BY <2>1, Zenon DEF MissesFew, Done
<1> QED BY <1>1, <1>2, <1>3, <1>4, Zenon

(* A row that is observed pushes none past a sequential walk, and in a concurrent one only
   the last row of a page that is not answered past a page that is. *)
LEMMA ObserveKeepsFew ==
    ASSUME PagingInv, MissInv, NEW r \in Row, Observe(r)
    PROVE  MissInv'
<1>0. /\ pc' = pc /\ vault' = vault /\ truncated' = truncated /\ all' = all /\ todo' = todo
      /\ inflight' = inflight /\ changes' = changes + 1 /\ Unanswered' = Unanswered
      /\ Answered' = Answered /\ Gathered' = Gathered /\ Counted' = Counted
      /\ Passed' = Passed /\ MissesFew' /\ removals' = removals
  BY ChangeFrame, Zenon DEF Observe
<1>1. listing \in Seq(Row) /\ pages \in Nat
  BY TypeFacts, Zenon
<1>2. ASSUME NEW A, NEW x \in RowsAt(A)'
      PROVE  /\ x \notin touched
             /\ \E j \in 1..Len(listing) : /\ listing[j] = x
                                           /\ j \in A \/ (j \notin A /\ j + 1 \in A)
  <2>1. PICK i \in 1..Len(listing') : i \in A /\ x = listing'[i] /\ listing'[i] \notin touched'
    BY <1>2, Zenon DEF RowsAt
  <2> QED BY <1>1, <2>1, ObserveShifts, Zenon
<1>3. ASSUME pc = "sequential", vault # "stuck"
      PROVE  Cardinality(RowsAt(Passed)' \ Range(all)') <= removals'
  <2>1. PICK A : A = Passed
    BY Zenon
  <2>2. \A j \in 1..Len(listing) : j + 1 \in A => j \in A
    <3>1. pages * PAGE_SIZE \in Nat
      BY <1>1, PageBounds, Zenon
    <3> QED BY <1>1, <2>1, <3>1 DEF Passed
  <2>3. RowsAt(Passed)' = RowsAt(A)'
    BY <1>0, <2>1, Zenon DEF RowsAt
  <2>4. RowsAt(A)' \subseteq RowsAt(A)
    BY <1>2, <2>2, InRowsAt, Zenon
  <2>5. RowsAt(Passed)' \ Range(all)' \in SUBSET (RowsAt(Passed) \ Range(all))
    BY <1>0, <2>1, <2>3, <2>4, Zenon
  <2> QED BY <1>0, <1>3, <2>5, PassedFacts, SmallerStill, Zenon
<1>4. ASSUME pc = "parallel", ~truncated
      PROVE  Cardinality(RowsAt(Answered)' \ Gathered') <= changes' * (Counted' \div 2)
  <2>1. PICK A, U, G, t : A = Answered /\ U = Unanswered /\ G = Gathered /\ t = Counted
    BY Zenon
  <2>2. /\ t \in Nat /\ t \div 2 \in Nat /\ changes \in Nat
        /\ U \in SUBSET (1..(t - 1)) /\ U \subseteq Nat \ {0}
        /\ Cardinality(RowsAt(A) \ G) <= changes * (t \div 2)
    BY <1>4, <2>1, MissFacts, Zenon
  <2>3. PICK B : B = {p \in U : p + 1 \notin U}
    BY Zenon
  <2>4. IsFiniteSet(B) /\ Cardinality(B) \in Nat /\ Cardinality(B) <= t \div 2
    BY <2>2, <2>3, FewEndings, Zenon
  <2>5. PICK g : g = [p \in B |-> listing[(p + 1) * PAGE_SIZE]]
    BY Zenon
  <2>6. ASSUME NEW x \in RowsAt(A)' \ G PROVE x \in RowsAt(A) \ G \/ \E p \in B : g[p] = x
    <3>1. PICK j \in 1..Len(listing) : /\ x \notin touched /\ listing[j] = x
                                       /\ j \in A \/ (j \notin A /\ j + 1 \in A)
      BY <1>2, <2>6, Zenon
    <3>2. CASE j \in A
      BY <2>6, <3>1, <3>2, InRowsAt, Zenon
    <3>3. CASE j \notin A /\ j + 1 \in A
      <4>1. j \in Nat
        OBVIOUS
      <4>2. PICK p \in U : OnPage(j, p) /\ ~OnPage(j + 1, p)
        BY <2>1, <3>3, <4>1, Zenon DEF Answered
      <4>3. p \in Nat
        BY <2>2, Zenon
      <4>4. j = (p + 1) * PAGE_SIZE /\ OnPage(j + 1, p + 1)
        BY <4>1, <4>2, <4>3, PageEnds, Zenon
      <4>5. p + 1 \notin U
        BY <2>1, <3>3, <4>4, Zenon DEF Answered
      <4>6. p \in B /\ g[p] = x
        BY <2>3, <2>5, <3>1, <4>4, <4>5, Zenon
      <4> QED BY <4>6, Zenon
    <3> QED BY <3>1, <3>2, <3>3, Zenon
  <2>7. IsFiniteSet(RowsAt(A) \ G)
    BY <1>1, RowsAreFew, Zenon
  <2>8. Cardinality(RowsAt(A)' \ G) <= (changes + 1) * (t \div 2)
    BY <2>2, <2>4, <2>6, <2>7, CrossingsAreFew, Zenon
  <2>9. RowsAt(Answered)' = RowsAt(A)'
    BY <1>0, <2>1, Zenon DEF RowsAt
  <2> QED BY <1>0, <2>1, <2>8, <2>9, Zenon
<1> QED BY <1>0, <1>3, <1>4, Zenon DEF MissInv

(* A row that is removed pulls one past a sequential walk, and in a concurrent one only the
   first row of a page that is not answered past a page that is. *)
LEMMA RemoveKeepsFew ==
    ASSUME PagingInv, MissInv, NEW r \in Row, Remove(r)
    PROVE  MissInv'
<1>0. /\ pc' = pc /\ vault' = vault /\ truncated' = truncated /\ all' = all /\ todo' = todo
      /\ inflight' = inflight /\ changes' = changes + 1 /\ Unanswered' = Unanswered
      /\ Answered' = Answered /\ Gathered' = Gathered /\ Counted' = Counted
      /\ Passed' = Passed /\ MissesFew' /\ removals' = removals + 1
  BY ChangeFrame, Zenon DEF Remove
<1>1. listing \in Seq(Row) /\ pages \in Nat
  BY TypeFacts, Zenon
<1>2. ASSUME NEW A, NEW x \in RowsAt(A)'
      PROVE  /\ x \notin touched
             /\ \E j \in 1..Len(listing) : /\ listing[j] = x
                                           /\ j \in A \/ (j \notin A /\ j - 1 \in A)
  <2>1. PICK i \in 1..Len(listing') : i \in A /\ x = listing'[i] /\ listing'[i] \notin touched'
    BY <1>2, Zenon DEF RowsAt
  <2> QED BY <1>1, <2>1, RemoveShifts, Zenon
<1>3. ASSUME pc = "sequential", vault # "stuck"
      PROVE  Cardinality(RowsAt(Passed)' \ Range(all)') <= removals'
  <2>0. PICK n \in Nat : n = pages * PAGE_SIZE
    BY <1>1, PageBounds, Zenon
  <2>1. PICK A : A = Passed /\ A = 1..n
    BY <2>0, Zenon DEF Passed
  <2>2. \A j \in 1..Len(listing) : j \in A \/ j - 1 \notin A \/ j = n + 1
    BY <2>1
  <2>3. RowsAt(Passed)' = RowsAt(A)'
    BY <1>0, <2>1, Zenon DEF RowsAt
  <2>4. RowsAt(A)' \subseteq RowsAt(A) \cup {listing[n + 1]}
    BY <1>2, <2>2, InRowsAt, Zenon
  <2>5. RowsAt(Passed)' \ Range(all)' \subseteq (RowsAt(Passed) \ Range(all)) \cup {listing[n + 1]}
    BY <1>0, <2>1, <2>3, <2>4, Zenon
  <2>6. 1 \in Nat
    OBVIOUS
  <2>7. IsFiniteSet({listing[n + 1]}) /\ Cardinality({listing[n + 1]}) <= 1
    <3>1. IsFiniteSet({listing[n + 1]}) /\ Cardinality({listing[n + 1]}) = 1
      BY FS_Singleton, Zenon
    <3> QED BY <3>1
  <2> QED BY <1>0, <1>3, <2>5, <2>6, <2>7, PassedFacts, GrowsBy, Zenon
<1>4. ASSUME pc = "parallel", ~truncated
      PROVE  Cardinality(RowsAt(Answered)' \ Gathered') <= changes' * (Counted' \div 2)
  <2>1. PICK A, U, G, t : A = Answered /\ U = Unanswered /\ G = Gathered /\ t = Counted
    BY Zenon
  <2>2. /\ t \in Nat /\ t \div 2 \in Nat /\ changes \in Nat
        /\ U \in SUBSET (1..(t - 1)) /\ U \subseteq Nat \ {0}
        /\ Cardinality(RowsAt(A) \ G) <= changes * (t \div 2)
    BY <1>4, <2>1, MissFacts, Zenon
  <2>3. PICK B : B = {p \in U : p - 1 \notin U}
    BY Zenon
  <2>4. IsFiniteSet(B) /\ Cardinality(B) \in Nat /\ Cardinality(B) <= t \div 2
    BY <2>2, <2>3, FewBeginnings, Zenon
  <2>5. PICK g : g = [p \in B |-> listing[p * PAGE_SIZE + 1]]
    BY Zenon
  <2>6. ASSUME NEW x \in RowsAt(A)' \ G PROVE x \in RowsAt(A) \ G \/ \E p \in B : g[p] = x
    <3>1. PICK j \in 1..Len(listing) : /\ x \notin touched /\ listing[j] = x
                                       /\ j \in A \/ (j \notin A /\ j - 1 \in A)
      BY <1>2, <2>6, Zenon
    <3>2. CASE j \in A
      BY <2>6, <3>1, <3>2, InRowsAt, Zenon
    <3>3. CASE j \notin A /\ j - 1 \in A
      <4>1. j \in Nat
        OBVIOUS
      <4>2. PICK p \in U : OnPage(j, p) /\ ~OnPage(j - 1, p)
        BY <2>1, <3>3, <4>1, Zenon DEF Answered
      <4>3. p \in Nat /\ p # 0
        BY <2>2, Zenon
      <4>4. j = p * PAGE_SIZE + 1 /\ OnPage(j - 1, p - 1)
        BY <4>1, <4>2, <4>3, PageEnds, Zenon
      <4>5. p - 1 \notin U
        BY <2>1, <3>3, <4>4, Zenon DEF Answered
      <4>6. p \in B /\ g[p] = x
        BY <2>3, <2>5, <3>1, <4>4, <4>5, Zenon
      <4> QED BY <4>6, Zenon
    <3> QED BY <3>1, <3>2, <3>3, Zenon
  <2>7. IsFiniteSet(RowsAt(A) \ G)
    BY <1>1, RowsAreFew, Zenon
  <2>8. Cardinality(RowsAt(A)' \ G) <= (changes + 1) * (t \div 2)
    BY <2>2, <2>4, <2>6, <2>7, CrossingsAreFew, Zenon
  <2>9. RowsAt(Answered)' = RowsAt(A)'
    BY <1>0, <2>1, Zenon DEF RowsAt
  <2> QED BY <1>0, <2>1, <2>8, <2>9, Zenon
<1> QED BY <1>0, <1>3, <1>4, Zenon DEF MissInv

(* The bound on what a concurrent walk misses. *)
LEMMA BoundIsNat ==
    ASSUME NEW c \in Nat, NEW k \in Nat
    PROVE  k \div 2 \in Nat /\ 0 <= c * (k \div 2)
<1>1. PICK h \in Nat : h = k \div 2
  OBVIOUS
<1>2. 0 <= c * h
  OBVIOUS
<1> QED BY <1>1, <1>2, Zenon

(* A walk that ends with every listed row collected has missed none. *)
LEMMA NoneMissed ==
    ASSUME PagingInv', \A i \in 1..Len(listing') : listing'[i] \in Range(all')
    PROVE  MissesFew'
<1>1. listing' \in Seq(Row) /\ changes' \in Nat /\ removals' \in 0..changes' /\ requests' \in Nat
  BY BoundAssumption DEF PagingInv, BoundedRequests, TypeOK
<1>2. DOMAIN listing' = 1..Len(listing')
  BY <1>1
<1>3. Missed' = {}
  BY <1>2, Zenon DEF Missed, Untouched, Range
<1>4. Cardinality(Missed') = 0
  BY <1>3, FS_EmptySet, Zenon
<1>5. 0 <= changes' * (requests' \div 2)
  BY <1>1, BoundIsNat, Zenon
<1>6. 0 <= removals'
  BY <1>1
<1> QED BY <1>4, <1>5, <1>6, Zenon DEF MissesFew

(* Nothing has slipped past a walk that has the rows of all the positions it passed. *)
LEMMA NoneBehind ==
    ASSUME NEW A, NEW G, \A i \in 1..Len(listing) : i \in A => listing[i] \in G
    PROVE  Cardinality(RowsAt(A) \ G) = 0
<1>1. ASSUME NEW x \in RowsAt(A) PROVE x \in G
  BY <1>1, Zenon DEF RowsAt
<1>2. RowsAt(A) \ G = {}
  BY <1>1, Zenon
<1> QED BY <1>2, FS_EmptySet, Zenon

(* The probe with a count: page one is the only one answered, and holds its rows. *)
LEMMA ProbeCountedKeepsFew ==
    ASSUME PagingInv, PagingInv', MissInv, ProbeCounted
    PROVE  MissInv'
<1>1. /\ pc = "probe" /\ vault = "counts" /\ all' = PageAt(0) /\ todo' = RemainingPages
      /\ truncated' = (TotalPages > MAX_PAGES)
      /\ pc' = (IF todo' = {} THEN "done" ELSE "parallel")
      /\ requests' = requests + 1 /\ inflight' = inflight
      /\ vault' = vault /\ listing' = listing /\ touched' = touched /\ changes' = changes
  BY Zenon DEF ProbeCounted, vaultVars
<1>2. requests' = 1 /\ DOMAIN inflight' = {}
  BY <1>1 DEF PagingInv, CountsRequests
<1>3. listing \in Seq(Row) /\ MAX_PAGES \in Nat /\ 0 \in Nat /\ changes \in Nat
  BY TypeFacts, Zenon
<1>4. PICK t \in Nat : t = TotalPages
  BY <1>3, PagesCover, Zenon
<1>5. ASSUME ~truncated' PROVE todo' = 1..(t - 1)
  <2>1. ~(t > MAX_PAGES)
    BY <1>1, <1>4, <1>5, Zenon
  <2>2. \A p \in 1..(t - 1) : p < MAX_PAGES
    BY <1>3, <2>1
  <2> QED BY <1>1, <1>4, <2>2, Zenon DEF RemainingPages
<1>6. Unanswered' = todo' /\ Range(all') \subseteq Gathered'
  BY <1>2, Zenon DEF Unanswered, Gathered
<1>7. ASSUME ~truncated', NEW i \in 1..Len(listing'), i \in Answered'
      PROVE  listing'[i] \in Range(all')
  <2>1. PICK p \in 0..(t - 1) : OnPage(i, p)
    <3>1. i \in 1..Len(listing)
      BY <1>1, Zenon
    <3> QED BY <1>3, <1>4, <3>1, PagesCover, Zenon DEF RowsOf, OnPage
  <2>2. p \notin 1..(t - 1)
    BY <1>5, <1>6, <1>7, <2>1, Zenon DEF Answered, OnPage
  <2>3. p = 0
    BY <2>2
  <2>4. listing[i] \in Range(PageAt(0))
    <3>1. vault # "stuck"
      BY <1>1
    <3> QED BY <1>1, <1>3, <2>1, <2>3, <3>1, PageHolds, Zenon
  <2> QED BY <1>1, <2>4, Zenon
<1>8. ASSUME pc' = "parallel", ~truncated'
      PROVE  /\ Unanswered' \subseteq 1..(Counted' - 1)
             /\ Cardinality(RowsAt(Answered)' \ Gathered') <= changes' * (Counted' \div 2)
  <2>1. 1 \in Int /\ t - 1 \in Int /\ ~(1 > t - 1)
    <3>1. 1..(t - 1) # {}
      BY <1>1, <1>5, <1>8, Zenon
    <3> QED BY <3>1
  <2>2. Cardinality(todo') = (t - 1) - 1 + 1
    BY <1>5, <1>8, <2>1, FS_Interval, Zenon
  <2>3. Counted' = t
    BY <1>2, <2>2 DEF Counted
  <2>4. PICK A, G : A = Answered' /\ G = Gathered'
    BY Zenon
  <2>5. RowsAt(Answered)' = RowsAt(A) /\ \A i \in 1..Len(listing) : i \in A => listing[i] \in G
    BY <1>1, <1>6, <1>7, <1>8, <2>4, Zenon DEF RowsAt
  <2>6. Cardinality(RowsAt(Answered)' \ Gathered') = 0
    BY <2>4, <2>5, NoneBehind, Zenon
  <2>7. 0 <= changes * (t \div 2)
    BY <1>3, BoundIsNat, Zenon
  <2> QED BY <1>1, <1>5, <1>6, <1>8, <2>3, <2>6, <2>7, Zenon
<1>9. MissesFew'
  <2>1. CASE pc' = "done" /\ ~truncated'
    <3>1. todo' = {}
      BY <1>1, <2>1
    <3>2. Answered' = Nat
      BY <1>6, <3>1, Zenon DEF Answered
    <3>3. \A i \in 1..Len(listing') : i \in Nat
      OBVIOUS
    <3> QED BY <1>7, <2>1, <3>2, <3>3, NoneMissed, Zenon
  <2> QED BY <2>1, Zenon DEF MissesFew, Done
<1>10. pc' # "sequential" /\ vault' = "counts" /\ todo' \cap DOMAIN inflight' = {}
  BY <1>1, <1>2
<1> QED BY <1>8, <1>9, <1>10, Zenon DEF MissInv

(* The probe without one: a full page one is passed, and a short one is all there is. *)
LEMMA ProbeIgnoredKeepsFew ==
    ASSUME PagingInv, PagingInv', MissInv, ProbeIgnored
    PROVE  MissInv'
<1>1. PICK first : first = PageAt(0)
  BY Zenon
<1>2. /\ pc = "probe" /\ vault \in {"ignores", "stuck"} /\ all' = first
      /\ pages' = (IF Len(first) = PAGE_SIZE THEN 1 ELSE 0)
      /\ pc' = (IF Len(first) \in 1..(PAGE_SIZE - 1) THEN "done" ELSE "sequential")
      /\ vault' = vault /\ listing' = listing /\ touched' = touched /\ removals' = removals
  BY <1>1, Zenon DEF ProbeIgnored, ResumeAt, vaultVars
<1>3. listing \in Seq(Row) /\ 0 \in Nat /\ changes \in Nat /\ removals \in 0..changes
  BY TypeFacts, Zenon DEF PagingInv, BoundedRequests, TypeOK
<1>4. PAGE_SIZE \in Nat \ {0} /\ 0 * PAGE_SIZE = 0 /\ (0 + 1) * PAGE_SIZE = PAGE_SIZE
      /\ 1 * PAGE_SIZE = PAGE_SIZE /\ Len(listing) \in Nat
  BY <1>3, PageAssumption
<1>5. ASSUME vault # "stuck", NEW i \in 1..Len(listing), i <= PAGE_SIZE
      PROVE  listing[i] \in Range(first)
  <2>1. OnPage(i, 0)
    BY <1>4, <1>5 DEF OnPage
  <2> QED BY <1>1, <1>3, <1>5, <2>1, PageHolds, Zenon
<1>6. ASSUME pc' = "sequential", vault' # "stuck"
      PROVE  Cardinality(RowsAt(Passed)' \ Range(all)') <= removals'
  <2>1. PICK A, G : A = Passed' /\ G = Range(all')
    BY Zenon
  <2>2. \A i \in A : i <= PAGE_SIZE
    BY <1>2, <1>4, <2>1 DEF Passed
  <2>3. RowsAt(Passed)' = RowsAt(A) /\ \A i \in 1..Len(listing) : i \in A => listing[i] \in G
    BY <1>2, <1>5, <1>6, <2>1, <2>2, Zenon DEF RowsAt
  <2>4. Cardinality(RowsAt(Passed)' \ Range(all)') = 0
    BY <2>1, <2>3, NoneBehind, Zenon
  <2> QED BY <1>2, <1>3, <2>4
<1>7. MissesFew'
  <2>1. CASE pc' = "done" /\ vault' # "stuck"
    <3>1. Len(first) < PAGE_SIZE
      BY <1>2, <1>4, <2>1
    <3>2. Len(listing) <= PAGE_SIZE
      BY <1>1, <1>2, <1>3, <1>4, <2>1, <3>1, PageHolds, Zenon
    <3>3. \A i \in 1..Len(listing) : i <= PAGE_SIZE
      BY <1>4, <3>2
    <3> QED BY <1>2, <1>5, <2>1, <3>3, NoneMissed, Zenon
  <2> QED BY <2>1, Zenon DEF MissesFew, Done
<1>8. pc' # "parallel" /\ vault' # "counts"
  BY <1>2
<1> QED BY <1>6, <1>7, <1>8, Zenon DEF MissInv

(* A Vault that does not know include_total: no page is passed yet. *)
LEMMA ProbeRejectedKeepsFew ==
    ASSUME PagingInv, MissInv, ProbeRejected
    PROVE  MissInv'
<1>1. /\ pc = "probe" /\ pc' = "sequential" /\ vault = "rejects" /\ pages' = pages
      /\ vault' = vault /\ listing' = listing /\ touched' = touched /\ removals' = removals
  BY Zenon DEF ProbeRejected, vaultVars
<1>2. pages' = 0 /\ changes \in Nat /\ removals \in 0..changes
  BY <1>1, TypeFacts, Zenon DEF PagingInv, CountsRequests, BoundedRequests, TypeOK
<1>3. PICK A, G : A = Passed' /\ G = Range(all')
  BY Zenon
<1>4. A = {}
  BY <1>2, <1>3, PageAssumption DEF Passed
<1>5. RowsAt(Passed)' = RowsAt(A)
  BY <1>1, <1>3, Zenon DEF RowsAt
<1>6. Cardinality(RowsAt(Passed)' \ Range(all)') = 0
  BY <1>3, <1>4, <1>5, NoneBehind, Zenon
<1>7. Cardinality(RowsAt(Passed)' \ Range(all)') <= removals'
  BY <1>1, <1>2, <1>6
<1>8. pc' # "parallel" /\ pc' # "done" /\ vault' # "counts"
  BY <1>1
<1> QED BY <1>7, <1>8, Zenon DEF MissInv, MissesFew, Done

(* A request that is sent changes neither what is answered nor how many pages there are. *)
LEMMA StartPageKeepsFew ==
    ASSUME PagingInv, MissInv, NEW p \in 1..MAX_PAGES, StartPage(p)
    PROVE  MissInv'
<1>1. /\ pc = "parallel" /\ p \in todo /\ todo' = todo \ {p}
      /\ inflight' = [q \in DOMAIN inflight \cup {p} |-> IF q = p THEN NoAnswer ELSE inflight[q]]
      /\ requests' = requests + 1 /\ pc' = pc /\ all' = all /\ truncated' = truncated
      /\ vault' = vault /\ listing' = listing /\ touched' = touched /\ changes' = changes
  BY Zenon DEF StartPage, vaultVars
<1>2. vault = "counts" /\ todo \cap DOMAIN inflight = {} /\ p \notin DOMAIN inflight
  BY <1>1, Zenon DEF MissInv
<1>3. /\ DOMAIN inflight' = DOMAIN inflight \cup {p} /\ inflight'[p] = NoAnswer
      /\ \A q \in DOMAIN inflight : inflight'[q] = inflight[q]
  BY <1>1, <1>2, Zenon
<1>4. Unanswered' = Unanswered
  BY <1>1, <1>3, Zenon DEF Unanswered
<1>5. Gathered' = Gathered
  <2>1. PICK D : D = {q \in DOMAIN inflight : inflight[q] # NoAnswer}
    BY Zenon
  <2>2. {q \in DOMAIN inflight' : inflight'[q] # NoAnswer} = D
    BY <1>3, <2>1, Zenon
  <2>3. \A q \in D : inflight'[q] = inflight[q]
    BY <1>3, <2>1, Zenon
  <2>4. UNION {Range(inflight'[q]) : q \in D} = UNION {Range(inflight[q]) : q \in D}
    BY <2>3, Zenon
  <2> QED BY <1>1, <2>1, <2>2, <2>4, Zenon DEF Gathered
<1>6. Counted' = Counted
  <2>1. requests \in Nat /\ todo \subseteq 1..(MAX_PAGES - 1) /\ MAX_PAGES \in Nat
    BY TypeFacts, Zenon
  <2>2. IsFiniteSet(todo)
    <3>1. IsFiniteSet(1..(MAX_PAGES - 1))
      BY <2>1, FS_Interval
    <3> QED BY <2>1, <3>1, FS_Subset, Zenon
  <2>3. Cardinality(todo) \in Nat /\ Cardinality(todo') = Cardinality(todo) - 1
    BY <1>1, <2>2, FS_RemoveElement, FS_CardinalityType, Zenon
  <2> QED BY <1>1, <2>1, <2>3 DEF Counted
<1>7. RowsAt(Answered)' = RowsAt(Answered)
  BY <1>1, <1>4, Zenon DEF RowsAt, Answered, OnPage
<1>8. pc' # "sequential" /\ pc' # "done" /\ todo' \cap DOMAIN inflight' = {}
  BY <1>1, <1>2, <1>3
<1> QED BY <1>1, <1>2, <1>4, <1>5, <1>6, <1>7, <1>8, Zenon DEF MissInv, MissesFew, Done

(* No page left to request adds nothing to the count. *)
LEMMA PlusNone == \A c \in Nat : c + 0 = c
OBVIOUS

(* A sequence over a set is one over a larger set. *)
LEMMA WiderSeq ==
    ASSUME NEW S, NEW T, S \subseteq T, NEW s \in Seq(S)
    PROVE  s \in Seq(T)
<1>1. /\ Len(s) \in Nat /\ DOMAIN s = 1..Len(s) /\ \A i \in 1..Len(s) : s[i] \in S
      /\ s = [i \in 1..Len(s) |-> s[i]]
  OBVIOUS
<1>2. PICK n \in Nat : n = Len(s)
  BY <1>1, Zenon
<1>3. s \in [1..n -> T]
  BY <1>1, <1>2, Zenon
<1> QED BY <1>2, <1>3

(* With the answer, the rows of the page are gathered. *)
LEMMA AnswerPageKeepsFew ==
    ASSUME PagingInv, MissInv, NEW p \in 1..MAX_PAGES, AnswerPage(p)
    PROVE  MissInv'
<1>1. /\ pc = "parallel" /\ p \in DOMAIN inflight /\ inflight[p] = NoAnswer
      /\ inflight' = [inflight EXCEPT ![p] = PageAt(p)]
      /\ pc' = pc /\ all' = all /\ todo' = todo /\ requests' = requests /\ truncated' = truncated
      /\ vault' = vault /\ listing' = listing /\ touched' = touched /\ changes' = changes
  BY Zenon DEF AnswerPage, vaultVars
<1>2. vault = "counts" /\ todo \cap DOMAIN inflight = {}
  BY <1>1, Zenon DEF MissInv
<1>3. listing \in Seq(Row) /\ p \in Nat /\ PageAt(p) # NoAnswer
  <2>1. listing \in Seq(Row) /\ p \in Nat
    BY TypeFacts
  <2>2. PageAt(p) \in Seq(Nat)
    <3>1. PageAt(p) \in Seq(Row)
      BY <2>1, PageType, Zenon
    <3>2. Row \subseteq Nat
      BY BoundAssumption DEF Row
    <3> QED BY <3>1, <3>2, WiderSeq, Zenon
  <2> QED BY <2>1, <2>2, NoAnswerAssumption, Zenon
<1>4. /\ DOMAIN inflight' = DOMAIN inflight /\ inflight'[p] = PageAt(p)
      /\ \A q \in DOMAIN inflight : q # p => inflight'[q] = inflight[q]
  BY <1>1, Zenon
<1>5. Unanswered' = Unanswered \ {p}
  BY <1>1, <1>2, <1>3, <1>4, Zenon DEF Unanswered
<1>6. Gathered \subseteq Gathered' /\ Range(PageAt(p)) \subseteq Gathered'
  <2>1. p \in {q \in DOMAIN inflight' : inflight'[q] # NoAnswer}
    BY <1>1, <1>3, <1>4, Zenon
  <2>2. ASSUME NEW q \in DOMAIN inflight, inflight[q] # NoAnswer
        PROVE  q \in DOMAIN inflight' /\ inflight'[q] # NoAnswer /\ inflight'[q] = inflight[q]
    BY <1>1, <1>4, <2>2, Zenon
  <2>3. Range(PageAt(p)) \subseteq Gathered'
    BY <1>4, <2>1, Zenon DEF Gathered
  <2>4. Gathered \subseteq Gathered'
    BY <1>1, <2>2, Zenon DEF Gathered
  <2> QED BY <2>3, <2>4, Zenon
<1>7. ASSUME ~truncated
      PROVE  /\ Unanswered' \subseteq 1..(Counted' - 1)
             /\ Cardinality(RowsAt(Answered)' \ Gathered') <= changes' * (Counted' \div 2)
  <2>1. PICK A : A = Answered'
    BY Zenon
  <2>2. RowsAt(Answered)' = RowsAt(A) /\ Counted' = Counted
    BY <1>1, <2>1, Zenon DEF RowsAt, Counted
  <2>3. \A i \in A : i \in Answered \/ OnPage(i, p)
    BY <1>5, <2>1, Zenon DEF Answered, OnPage
  <2>4. ASSUME NEW x \in RowsAt(A), x \notin Gathered' PROVE x \in RowsAt(Answered) \ Gathered
    <3>1. PICK i \in 1..Len(listing) : i \in A /\ x = listing[i] /\ x \notin touched
      BY <2>4, Zenon DEF RowsAt
    <3>2. ~OnPage(i, p)
      <4>1. vault # "stuck"
        BY <1>2
      <4> QED BY <1>3, <1>6, <2>4, <3>1, <4>1, PageHolds, Zenon
    <3>3. i \in Answered
      BY <2>3, <3>1, <3>2, Zenon
    <3> QED BY <1>6, <2>4, <3>1, <3>3, Zenon DEF RowsAt
  <2>5. RowsAt(A) \ Gathered' \in SUBSET (RowsAt(Answered) \ Gathered)
    BY <2>4, Zenon
  <2>6. PICK b \in Nat :
        /\ b = changes * (Counted \div 2)
        /\ Cardinality(RowsAt(Answered) \ Gathered) <= b
        /\ Unanswered \subseteq 1..(Counted - 1)
    <3>1. /\ Counted \div 2 \in Nat /\ changes \in Nat
          /\ Cardinality(RowsAt(Answered) \ Gathered) <= changes * (Counted \div 2)
          /\ Unanswered \subseteq 1..(Counted - 1)
      BY <1>1, <1>7, MissFacts, Zenon
    <3>2. \A c, k \in Nat : c * k \in Nat
      OBVIOUS
    <3> QED BY <3>1, <3>2, Zenon
  <2>7. IsFiniteSet(RowsAt(Answered) \ Gathered)
    BY <1>3, RowsAreFew, Zenon
  <2>8. Cardinality(RowsAt(A) \ Gathered') <= b
    <3>1. PICK L, K : L = RowsAt(A) \ Gathered' /\ K = RowsAt(Answered) \ Gathered
      BY Zenon
    <3>2. L \in SUBSET K /\ IsFiniteSet(K) /\ Cardinality(K) <= b
      BY <2>5, <2>6, <2>7, <3>1, Zenon
    <3> QED BY <3>1, <3>2, SmallerStill, Zenon
  <2> QED BY <1>1, <1>5, <2>1, <2>2, <2>6, <2>8, Zenon
<1>8. pc' # "sequential" /\ pc' # "done" /\ todo' \cap DOMAIN inflight' = {}
  BY <1>1, <1>2, <1>4
<1> QED BY <1>1, <1>2, <1>7, <1>8, Zenon DEF MissInv, MissesFew, Done

(* A page that is merged was gathered when it was answered; after the last one, what has
   slipped past the walk is what it misses. *)
LEMMA ReceivePageKeepsFew ==
    ASSUME PagingInv, MissInv, NEW p \in 1..MAX_PAGES, ReceivePage(p)
    PROVE  MissInv'
<1>1. /\ pc = "parallel" /\ p \in DOMAIN inflight /\ inflight[p] # NoAnswer
      /\ all' = all \o inflight[p]
      /\ inflight' = [q \in DOMAIN inflight \ {p} |-> inflight[q]]
      /\ pc' = (IF OverWith(p) THEN "done" ELSE "parallel")
      /\ todo' = todo /\ requests' = requests /\ truncated' = truncated
      /\ vault' = vault /\ listing' = listing /\ touched' = touched /\ changes' = changes
  BY Zenon DEF ReceivePage, Restrict, vaultVars
<1>2. vault = "counts" /\ todo \cap DOMAIN inflight = {} /\ listing \in Seq(Row)
  BY <1>1, TypeFacts, Zenon DEF MissInv
<1>3. Range(all') = Range(all) \cup Range(inflight[p])
  <2>1. all \in Seq(Row) /\ inflight[p] \in Seq(Row)
    BY <1>1, TypeFacts, Zenon DEF PagingInv, BoundedRequests, TypeOK
  <2>2. PICK page \in Seq(Row) : page = inflight[p]
    BY <2>1, Zenon
  <2>3. Range(all \o page) = Range(all) \cup Range(page)
    BY <2>1, MergeFacts
  <2> QED BY <1>1, <2>2, <2>3, Zenon
<1>4. /\ DOMAIN inflight' = DOMAIN inflight \ {p}
      /\ \A q \in DOMAIN inflight' : inflight'[q] = inflight[q]
  BY <1>1, Zenon
<1>5. Unanswered' = Unanswered /\ Counted' = Counted
  BY <1>1, <1>4, Zenon DEF Unanswered, Counted
<1>6. Gathered' = Gathered
  <2>1. PICK D : D = {q \in DOMAIN inflight : inflight[q] # NoAnswer}
    BY Zenon
  <2>2. {q \in DOMAIN inflight' : inflight'[q] # NoAnswer} = D \ {p} /\ p \in D
    BY <1>1, <1>4, <2>1, Zenon
  <2>3. \A q \in D \ {p} : inflight'[q] = inflight[q]
    BY <1>4, <2>1, Zenon
  <2>4. UNION {Range(inflight'[q]) : q \in D \ {p}} = UNION {Range(inflight[q]) : q \in D \ {p}}
    BY <2>3, Zenon
  <2>5. UNION {Range(inflight[q]) : q \in D}
          = Range(inflight[p]) \cup UNION {Range(inflight[q]) : q \in D \ {p}}
    BY <2>2, Zenon
  <2>6. Gathered' = Range(all') \cup UNION {Range(inflight[q]) : q \in D \ {p}}
    BY <2>2, <2>4, Zenon DEF Gathered
  <2>7. Gathered = Range(all) \cup UNION {Range(inflight[q]) : q \in D}
    BY <2>1, Zenon DEF Gathered
  <2> QED BY <1>3, <2>5, <2>6, <2>7, Zenon
<1>7. RowsAt(Answered)' = RowsAt(Answered)
  BY <1>1, <1>5, Zenon DEF RowsAt, Answered, OnPage
<1>8. ASSUME ~truncated'
      PROVE  /\ Unanswered' \subseteq 1..(Counted' - 1)
             /\ Cardinality(RowsAt(Answered)' \ Gathered') <= changes' * (Counted' \div 2)
  BY <1>1, <1>5, <1>6, <1>7, <1>8, Zenon DEF MissInv
<1>9. ASSUME pc' = "done", ~truncated'
      PROVE  Cardinality(Missed') <= changes' * (requests' \div 2)
  <2>1. todo' = {} /\ DOMAIN inflight' = {}
    <3>1. OverWith(p)
      BY <1>1, <1>9
    <3> QED BY <1>1, <1>4, <3>1, Zenon DEF OverWith
  <2>2. Unanswered' = {} /\ Gathered' = Range(all')
    BY <2>1, Zenon DEF Unanswered, Gathered
  <2>3. Answered' = Nat
    BY <2>2, Zenon DEF Answered
  <2>4. Counted' = requests'
    <3>1. Cardinality(todo') = 0 /\ requests' \in Nat
      BY <1>1, <2>1, FS_EmptySet, TypeFacts, Zenon
    <3> QED BY <3>1, PlusNone, Zenon DEF Counted
  <2>5. Missed' = RowsAt(Answered)' \ Gathered'
    <3>1. DOMAIN listing' = 1..Len(listing') /\ \A i \in 1..Len(listing') : i \in Nat
      BY <1>1, <1>2
    <3>2. RowsAt(Answered)' = Untouched'
      BY <2>3, <3>1, Zenon DEF RowsAt, Untouched, Range
    <3> QED BY <2>2, <3>2, Zenon DEF Missed
  <2> QED BY <1>8, <1>9, <2>4, <2>5, Zenon
<1>10. pc' # "sequential" /\ todo' \cap DOMAIN inflight' = {}
  BY <1>1, <1>2, <1>4
<1>11. MissesFew'
  BY <1>1, <1>2, <1>9, Zenon DEF MissesFew, Done
<1> QED BY <1>1, <1>2, <1>8, <1>10, <1>11, Zenon DEF MissInv

(* One more page of the sequential walk is passed with its rows; a short one is the last. *)
LEMMA SequentialPageKeepsFew ==
    ASSUME PagingInv, MissInv, SequentialPage
    PROVE  MissInv'
<1>1. PICK page : page = PageAt(pages)
  BY Zenon
<1>2. /\ pc = "sequential" /\ all' = all \o page
      /\ truncated' = (~IsShort(page) /\ AtCeiling)
      /\ pc' = (IF IsShort(page) \/ AtCeiling THEN "done" ELSE "sequential")
      /\ pages' = pages + 1
      /\ vault' = vault /\ listing' = listing /\ touched' = touched /\ removals' = removals
  BY <1>1, Zenon DEF SequentialPage, vaultVars
<1>3. listing \in Seq(Row) /\ all \in Seq(Row) /\ pages \in Nat /\ vault # "counts"
  BY <1>2, TypeFacts, Zenon DEF MissInv
<1>4. Range(all') = Range(all) \cup Range(page)
  <2>1. page \in Seq(Row)
    BY <1>1, <1>3, PageType, Zenon
  <2>2. Range(all \o page) = Range(all) \cup Range(page)
    BY <1>3, <2>1, MergeFacts
  <2> QED BY <1>2, <2>2, Zenon
<1>5. PICK m \in Nat, n \in Nat : m = pages * PAGE_SIZE /\ n = (pages + 1) * PAGE_SIZE
  BY <1>3, PageBounds, Zenon
<1>6. ASSUME vault # "stuck"
      PROVE  Cardinality(RowsAt(Passed)' \ Range(all)') <= removals'
  <2>1. PICK A : A = Passed' /\ A = 1..n
    BY <1>2, <1>5, Zenon DEF Passed
  <2>2. \A i \in A : i \in 1..m \/ (m < i /\ i <= n)
    BY <2>1
  <2>3. \A i \in A : i \in Passed \/ OnPage(i, pages)
    BY <1>5, <2>2, Zenon DEF Passed, OnPage
  <2>4. RowsAt(Passed)' = RowsAt(A)
    BY <1>2, <2>1, Zenon DEF RowsAt
  <2>5. ASSUME NEW x \in RowsAt(A), x \notin Range(all') PROVE x \in RowsAt(Passed) \ Range(all)
    <3>1. PICK i \in 1..Len(listing) : i \in A /\ x = listing[i] /\ x \notin touched
      BY <2>5, Zenon DEF RowsAt
    <3>2. ~OnPage(i, pages)
      BY <1>1, <1>3, <1>4, <1>6, <2>5, <3>1, PageHolds, Zenon
    <3>3. i \in Passed
      BY <2>3, <3>1, <3>2, Zenon
    <3> QED BY <1>4, <2>5, <3>1, <3>3, Zenon DEF RowsAt
  <2>6. RowsAt(A) \ Range(all') \in SUBSET (RowsAt(Passed) \ Range(all))
    BY <2>5, Zenon
  <2>7. Cardinality(RowsAt(A) \ Range(all')) <= removals
    BY <1>2, <1>6, <2>6, PassedFacts, SmallerStill, Zenon
  <2> QED BY <1>2, <2>4, <2>7, Zenon
<1>7. ASSUME pc' = "done", ~truncated', vault # "stuck" PROVE Cardinality(Missed') <= removals'
  <2>1. IsShort(page)
    BY <1>2, <1>7, Zenon
  <2>2. Len(listing) <= n /\ Len(listing) \in Nat /\ DOMAIN listing = 1..Len(listing)
    <3>1. Len(listing) <= n
      BY <1>1, <1>3, <1>5, <1>7, <2>1, PageHolds, Zenon DEF IsShort
    <3> QED BY <1>3, <3>1
  <2>3. \A i \in 1..Len(listing) : i \in 1..n
    BY <2>2
  <2>4. RowsAt(Passed)' = Untouched'
    <3>1. Passed' = 1..n /\ DOMAIN listing' = 1..Len(listing')
          /\ \A i \in 1..Len(listing') : i \in 1..n
      BY <1>2, <1>5, <2>2, <2>3, Zenon DEF Passed
    <3> QED BY <3>1, Zenon DEF RowsAt, Untouched, Range
  <2>5. Missed' = RowsAt(Passed)' \ Range(all)'
    BY <2>4, Zenon DEF Missed
  <2> QED BY <1>6, <1>7, <2>5, Zenon
<1>8. MissesFew'
  BY <1>2, <1>3, <1>7, Zenon DEF MissesFew, Done
<1>9. pc' # "parallel"
  BY <1>2
<1> QED BY <1>2, <1>3, <1>6, <1>8, <1>9, Zenon DEF MissInv

(* What has slipped past a walk stays within MissesFew's bound. *)
THEOREM MissInvariant == Spec => []MissInv
<1>1. Init => MissInv
  <2> SUFFICES ASSUME Init PROVE MissInv
    BY Zenon
  <2>1. pc = "probe"
    BY Zenon DEF Init
  <2>2. pc # "sequential" /\ pc # "parallel" /\ pc # "done"
    BY <2>1
  <2> QED BY <2>2, Zenon DEF MissInv, MissesFew, Done
<1>2. PagingInv /\ PagingInv' /\ MissInv /\ [Next]_vars => MissInv'
  <2> SUFFICES ASSUME PagingInv, PagingInv', MissInv, [Next]_vars PROVE MissInv'
    BY Zenon
  <2>1. ASSUME NEW r \in 1..(MaxRows + MaxChanges), Observe(r) \/ Remove(r) PROVE MissInv'
    BY <2>1, ObserveKeepsFew, RemoveKeepsFew, Zenon DEF Row
  <2>2. CASE Fetch
    BY <2>2, ProbeCountedKeepsFew, ProbeIgnoredKeepsFew, ProbeRejectedKeepsFew,
       StartPageKeepsFew, AnswerPageKeepsFew, ReceivePageKeepsFew, SequentialPageKeepsFew,
       Zenon DEF Fetch
  <2>3. CASE RequestFails
    <3>1. pc' = "failed"
      BY <2>3, Zenon DEF RequestFails
    <3>2. pc' # "sequential" /\ pc' # "parallel" /\ pc' # "done"
      BY <3>1
    <3> QED BY <3>2, Zenon DEF MissInv, MissesFew, Done
  <2>4. CASE UNCHANGED vars
    <3>1. /\ pc' = pc /\ all' = all /\ todo' = todo /\ inflight' = inflight /\ pages' = pages
          /\ requests' = requests /\ truncated' = truncated /\ vault' = vault
          /\ listing' = listing /\ touched' = touched /\ changes' = changes
          /\ removals' = removals
      BY <2>4, Zenon DEF vars, walkVars, vaultVars
    <3>2. Unanswered' = Unanswered /\ Gathered' = Gathered /\ Counted' = Counted
      BY <3>1, Zenon DEF Unanswered, Gathered, Counted
    <3>3. RowsAt(Answered)' = RowsAt(Answered) /\ RowsAt(Passed)' = RowsAt(Passed)
      BY <3>1, <3>2, Zenon DEF RowsAt, Answered, Passed, OnPage
    <3>4. MissesFew'
      BY <3>1, Zenon DEF MissInv, MissesFew, Done, Missed, Untouched
    <3> QED BY <3>1, <3>2, <3>3, <3>4, Zenon DEF MissInv
  <2> QED BY <2>1, <2>2, <2>3, <2>4, Zenon DEF Next
<1> QED BY <1>1, <1>2, PagingInvariant, PTL DEF Spec

(* However Vault's listing changes under a walk, fetch_ips misses no more rows that stayed
   put than MissesFew says: one for each removal in the sequential walk, and in the
   concurrent one half as many as there are pages for each change, whatever the page size,
   the number of pages and the order in which they are requested, answered and merged. *)
THEOREM WalksMissFew == Spec => []MissesFew
<1>1. MissInv => MissesFew
  BY Zenon DEF MissInv
<1> QED BY <1>1, MissInvariant, PTL

=============================================================================
