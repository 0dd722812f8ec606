----------------------------- MODULE FeedProofs -----------------------------
(***************************************************************************)
(* The public feed for any number of requests, addresses and callers, any  *)
(* window and capacity, any rows, records, ranges and address width: first *)
(* the limiter by itself, then the lists that are published, then requests *)
(* in whose course the row and the records change.                         *)
(***************************************************************************)
EXTENDS Feed, FiniteSetTheorems, WellFoundedInduction, TLAPS

\* What a tracked address's entry remembers: a window after its last instant,
\* which was read from the clock.
EntryIsLastAllowed ==
    \A ip \in Tracked :
        /\ allowed[ip] # << >>
        /\ next_allowed[ip] = allowed[ip][Len(allowed[ip])] + RATE_LIMIT_WINDOW

ReadFromClock ==
    \A c \in Callers : call[c] # NotCalling => call[c].now <= clock

\* The inductive invariant.
IInv ==
    /\ TypeOK
    /\ IsFiniteSet(Tracked)
    /\ QueueListsTracked
    /\ BoundedMemory
    /\ EntryIsLastAllowed
    /\ ReadFromClock
    /\ AllowedSpaced
    /\ NoBan

(* An instant at least a window after another is a window after all before it. *)
LEMMA WindowApart ==
    ASSUME NEW first \in Nat, NEW last \in Nat, NEW now \in Nat,
           last >= first, last + RATE_LIMIT_WINDOW <= now
    PROVE  now - first >= RATE_LIMIT_WINDOW
BY WindowAssumption

(* A full map is one whose queue has a head, and popping it makes room: the
   eviction loop runs at most once, and only for a new address. *)
LEMMA EvictionPopsOnce ==
    ASSUME IInv, NEW ip \in Ips
    PROVE  /\ ip \in Tracked \/ Cardinality(Tracked) < MAX_TRACKED_IPS => Pops(ip) = 0
           /\ ~(ip \in Tracked \/ Cardinality(Tracked) < MAX_TRACKED_IPS) =>
                 Pops(ip) = 1 /\ Len(order) > 0
<1> USE CapacityAssumption
<1>0. /\ order \in Seq(Ips) /\ Len(order) \in Nat
      /\ IsFiniteSet(Tracked) /\ Cardinality(Tracked) \in Nat
      /\ Cardinality(Tracked) <= MAX_TRACKED_IPS
      /\ PoppedBy(Len(order)) = Tracked
  BY FS_CardinalityType DEF IInv, TypeOK, BoundedMemory, QueueListsTracked
<1>1. HasRoomAfter(0) <=> Cardinality(Tracked) < MAX_TRACKED_IPS
  <2>1. Tracked \ PoppedBy(0) = Tracked
    BY DEF PoppedBy
  <2> QED BY <2>1, Zenon DEF HasRoomAfter
<1>2. ASSUME ~(Cardinality(Tracked) < MAX_TRACKED_IPS)
      PROVE  Len(order) > 0 /\ HasRoomAfter(1)
  <2>1. Tracked # {}
    BY <1>0, <1>2, FS_EmptySet
  <2>2. Len(order) > 0
    BY <1>0, <2>1 DEF PoppedBy
  <2>3. PoppedBy(1) = {order[1]} /\ order[1] \in Tracked
    BY <1>0, <2>2 DEF PoppedBy
  <2>4. Cardinality(Tracked \ {order[1]}) = Cardinality(Tracked) - 1
    BY <1>0, <2>3, FS_RemoveElement, Zenon
  <2>5. Cardinality(Tracked \ PoppedBy(1)) = Cardinality(Tracked) - 1
    BY <2>3, <2>4, Zenon
  <2>6. Cardinality(Tracked \ PoppedBy(1)) < MAX_TRACKED_IPS
    BY <1>0, <2>5
  <2> QED BY <2>2, <2>6, Zenon DEF HasRoomAfter
<1>3. CASE ip \in Tracked
  BY <1>3, Zenon DEF Pops
<1>4. CASE ip \notin Tracked /\ Cardinality(Tracked) < MAX_TRACKED_IPS
  <2>1. HasRoomAfter(0) /\ 0 \in 0..Len(order)
    BY <1>0, <1>1, <1>4
  <2>2. \A k \in 0..Len(order) :
          (\A j \in 0..(k - 1) : ~HasRoomAfter(j)) => k = 0
    BY <1>0, <2>1
  <2> DEFINE P(k) == /\ HasRoomAfter(k) \/ k = Len(order)
                     /\ \A j \in 0..(k - 1) : ~HasRoomAfter(j)
  <2>3. P(0)
    BY <2>1
  <2>4. \A k \in 0..Len(order) : P(k) => k = 0
    BY <2>2, Zenon
  <2> HIDE DEF P
  <2>5. (CHOOSE k \in 0..Len(order) : P(k)) = 0
    BY <2>1, <2>3, <2>4, Zenon
  <2> QED BY <1>4, <2>5, Zenon DEF Pops, P
<1>5. CASE ip \notin Tracked /\ ~(Cardinality(Tracked) < MAX_TRACKED_IPS)
  <2>1. HasRoomAfter(1) /\ ~HasRoomAfter(0) /\ 1 \in 0..Len(order) /\ Len(order) > 0
    BY <1>0, <1>1, <1>2, <1>5
  <2> DEFINE P(k) == /\ HasRoomAfter(k) \/ k = Len(order)
                     /\ \A j \in 0..(k - 1) : ~HasRoomAfter(j)
  <2>3. P(1)
    <3>1. \A j \in 0..(1 - 1) : j = 0
      OBVIOUS
    <3> QED BY <2>1, <3>1, Zenon
  <2>4. \A k \in 0..Len(order) : P(k) => k = 1
    <3> SUFFICES ASSUME NEW k \in 0..Len(order), P(k) PROVE k = 1
      BY Zenon
    <3>1. k # 0
      BY <2>1
    <3>2. ~(k > 1)
      <4> SUFFICES ASSUME k > 1 PROVE FALSE
        BY Zenon
      <4>1. 1 \in 0..(k - 1)
        BY <1>0
      <4> QED BY <2>1, <4>1, Zenon
    <3> QED BY <1>0, <3>1, <3>2
  <2> HIDE DEF P
  <2>5. (CHOOSE k \in 0..Len(order) : P(k)) = 1
    BY <2>1, <2>3, <2>4, Zenon
  <2> QED BY <1>5, <2>1, <2>5, Zenon DEF Pops, P
<1> QED BY <1>3, <1>4, <1>5, Zenon

(* What the critical section of an allowed call does to the map and the queue,
   with the number of pops resolved: the queue loses its head when an entry
   has to make room, and gains the address when it is new. *)
LEMMA AllowEffect ==
    ASSUME IInv, NEW c \in Callers, Allow(c)
    PROVE  \E ip \in Ips, now \in Nat, gone \in SUBSET Tracked :
              /\ call[c] = [ip |-> ip, now |-> now] /\ now <= clock
              /\ ip \notin gone
              /\ ip \in Tracked => next_allowed[ip] <= now /\ gone = {}
              /\ DOMAIN next_allowed' = (Tracked \ gone) \cup {ip}
              /\ next_allowed' = NewNextAllowed(ip, now)
              /\ \A i \in Tracked \ gone : i # ip => next_allowed'[i] = next_allowed[i]
              /\ next_allowed'[ip] = now + RATE_LIMIT_WINDOW
              /\ \/ gone = {} /\ (ip \in Tracked \/ Cardinality(Tracked) < MAX_TRACKED_IPS)
                    /\ order' = IF ip \in Tracked THEN order ELSE Append(order, ip)
                 \/ gone = {order[1]} /\ ip \notin Tracked /\ Len(order) > 0
                    /\ order' = Append(Tail(order), ip)
              /\ allowed' = [allowed EXCEPT
                                ![ip] = IF ip \in Tracked THEN Append(@, now) ELSE <<now>>]
              /\ call' = [call EXCEPT ![c] = NotCalling]
              /\ clock' = clock
<1> DEFINE ip == call[c].ip
           now == call[c].now
           gone == PoppedBy(Pops(ip))
<1>1. call[c] \in [ip : Ips, now : Nat] /\ call[c] = [ip |-> ip, now |-> now]
  BY NotCallingAssumption, Zenon DEF Allow, IInv, TypeOK
<1>2. ip \in Ips /\ now \in Nat /\ now <= clock
  BY <1>1, Zenon DEF Allow, IInv, TypeOK, ReadFromClock
<1> HIDE DEF ip, now
<1>3. /\ order \in Seq(Ips) /\ Len(order) \in Nat
      /\ PoppedBy(Len(order)) = Tracked
      /\ \A j \in 1..Len(order) : order[j] \in Tracked
  BY DEF IInv, TypeOK, QueueListsTracked, PoppedBy
<1>4. /\ ~Throttled(ip, now)
      /\ next_allowed' = NewNextAllowed(ip, now)
      /\ order' = NewOrder(ip)
      /\ allowed' = [allowed EXCEPT
                        ![ip] = IF ip \in Tracked THEN Append(@, now) ELSE <<now>>]
      /\ call' = [call EXCEPT ![c] = NotCalling]
      /\ clock' = clock
  BY Zenon DEF Allow, ip, now
<1>5. ip \in Tracked => next_allowed[ip] <= now
  BY <1>2, <1>4 DEF Throttled, IInv, TypeOK
<1>6. /\ gone \in SUBSET Tracked
      /\ ip \notin gone
      /\ ip \in Tracked => gone = {}
      /\ \/ gone = {} /\ (ip \in Tracked \/ Cardinality(Tracked) < MAX_TRACKED_IPS)
            /\ order' = IF ip \in Tracked THEN order ELSE Append(order, ip)
         \/ gone = {order[1]} /\ ip \notin Tracked /\ Len(order) > 0
            /\ order' = Append(Tail(order), ip)
  <2>1. CASE ip \in Tracked \/ Cardinality(Tracked) < MAX_TRACKED_IPS
    <3>1. Pops(ip) = 0
      BY <1>2, <2>1, EvictionPopsOnce, Zenon
    <3>2. gone = {}
      BY <3>1 DEF PoppedBy
    <3>3. SubSeq(order, Pops(ip) + 1, Len(order)) = order
      BY <1>3, <3>1
    <3> QED BY <1>4, <2>1, <3>2, <3>3, Zenon DEF NewOrder
  <2>2. CASE ~(ip \in Tracked \/ Cardinality(Tracked) < MAX_TRACKED_IPS)
    <3>1. Pops(ip) = 1 /\ Len(order) > 0
      BY <1>2, <2>2, EvictionPopsOnce, Zenon
    <3>2. gone = {order[1]}
      BY <3>1 DEF PoppedBy
    <3>3. SubSeq(order, Pops(ip) + 1, Len(order)) = Tail(order)
      BY <1>3, <3>1
    <3>4. order[1] \in Tracked
      BY <1>3, <3>1
    <3> QED BY <1>4, <2>2, <3>1, <3>2, <3>3, <3>4, Zenon DEF NewOrder
  <2> QED BY <2>1, <2>2, Zenon
<1>7. /\ DOMAIN next_allowed' = (Tracked \ gone) \cup {ip}
      /\ \A i \in Tracked \ gone : i # ip => next_allowed'[i] = next_allowed[i]
      /\ next_allowed'[ip] = now + RATE_LIMIT_WINDOW
  BY <1>4, Zenon DEF NewNextAllowed
<1> HIDE DEF gone
<1> QED BY <1>1, <1>2, <1>4, <1>5, <1>6, <1>7, Zenon

(* An allowed call preserves the inductive invariant. *)
LEMMA AllowPreserves ==
    ASSUME IInv, NEW c \in Callers, Allow(c)
    PROVE  IInv'
<1> USE WindowAssumption, CapacityAssumption
<1>0. PICK ip \in Ips, now \in Nat, gone \in SUBSET Tracked :
              /\ call[c] = [ip |-> ip, now |-> now] /\ now <= clock
              /\ ip \notin gone
              /\ ip \in Tracked => next_allowed[ip] <= now /\ gone = {}
              /\ DOMAIN next_allowed' = (Tracked \ gone) \cup {ip}
              /\ next_allowed' = NewNextAllowed(ip, now)
              /\ \A i \in Tracked \ gone : i # ip => next_allowed'[i] = next_allowed[i]
              /\ next_allowed'[ip] = now + RATE_LIMIT_WINDOW
              /\ \/ gone = {} /\ (ip \in Tracked \/ Cardinality(Tracked) < MAX_TRACKED_IPS)
                    /\ order' = IF ip \in Tracked THEN order ELSE Append(order, ip)
                 \/ gone = {order[1]} /\ ip \notin Tracked /\ Len(order) > 0
                    /\ order' = Append(Tail(order), ip)
              /\ allowed' = [allowed EXCEPT
                                ![ip] = IF ip \in Tracked THEN Append(@, now) ELSE <<now>>]
              /\ call' = [call EXCEPT ![c] = NotCalling]
              /\ clock' = clock
  BY AllowEffect, Zenon
<1>t. /\ clock \in Nat /\ Tracked \subseteq Ips /\ next_allowed \in [Tracked -> Nat]
      /\ order \in Seq(Ips) /\ Len(order) \in Nat
      /\ call \in [Callers -> [ip : Ips, now : Nat] \cup {NotCalling}]
      /\ allowed \in [Ips -> Seq(Nat)]
  BY DEF IInv, TypeOK
<1>d. Tracked' = (Tracked \ gone) \cup {ip}
  BY <1>0, Zenon DEF Tracked
<1>1. TypeOK'
  <2>1. Tracked' \subseteq Ips
    BY <1>d, <1>t, Zenon
  <2>2. next_allowed' \in [Tracked' -> Nat]
    <3>1. next_allowed' = [i \in Tracked' |-> next_allowed'[i]]
      BY <1>0, Zenon DEF NewNextAllowed, Tracked
    <3>2. \A i \in Tracked' : next_allowed'[i] \in Nat
      BY <1>0, <1>t, <1>d, SMTT(30)
    <3> QED BY <3>1, <3>2, Zenon
  <2>3. order' \in Seq(Ips)
    <3>1. Append(order, ip) \in Seq(Ips)
      BY <1>t
    <3>2. ASSUME Len(order) > 0 PROVE Append(Tail(order), ip) \in Seq(Ips)
      <4>1. order # << >>
        BY <1>t, <3>2
      <4>2. Tail(order) \in Seq(Ips)
        BY <1>t, <4>1
      <4> QED BY <4>2
    <3>3. order' \in {order, Append(order, ip)} \/ (Len(order) > 0 /\ order' = Append(Tail(order), ip))
      BY <1>0, Zenon
    <3> QED BY <1>t, <3>1, <3>2, <3>3, Zenon
  <2>4. allowed' \in [Ips -> Seq(Nat)]
    BY <1>0, <1>t
  <2>5. call' \in [Callers -> [ip : Ips, now : Nat] \cup {NotCalling}]
    BY <1>0, <1>t, Zenon
  <2> QED BY <1>0, <1>t, <2>1, <2>2, <2>3, <2>4, <2>5, Zenon DEF TypeOK
<1>2. IsFiniteSet(Tracked)' /\ BoundedMemory'
  <2>0. IsFiniteSet(Tracked) /\ Cardinality(Tracked) \in Nat
        /\ Cardinality(Tracked) <= MAX_TRACKED_IPS
    BY FS_CardinalityType, Zenon DEF IInv, BoundedMemory
  <2>1. CASE ip \in Tracked
    <3>1. Tracked' = Tracked
      BY <1>0, <1>d, <2>1, Zenon
    <3> QED BY <2>0, <3>1, Zenon DEF BoundedMemory
  <2>2. CASE ip \notin Tracked /\ gone = {}
    <3>1. Tracked' = Tracked \cup {ip}
      BY <1>d, <2>2, Zenon
    <3>2. IsFiniteSet(Tracked') /\ Cardinality(Tracked') = Cardinality(Tracked) + 1
      BY <2>0, <2>2, <3>1, FS_AddElement, Zenon
    <3>3. Cardinality(Tracked) < MAX_TRACKED_IPS
      BY <1>0, <2>2, Zenon
    <3> QED BY <2>0, <3>2, <3>3 DEF BoundedMemory
  <2>3. CASE ip \notin Tracked /\ gone = {order[1]}
    <3>1. IsFiniteSet(Tracked \ gone)
          /\ Cardinality(Tracked \ gone) = Cardinality(Tracked) - 1
      BY <2>0, <2>3, FS_RemoveElement, ZenonT(60)
    <3>2. IsFiniteSet(Tracked') /\ Cardinality(Tracked') = Cardinality(Tracked \ gone) + 1
      BY <1>d, <2>3, <3>1, FS_AddElement, Zenon
    <3> QED BY <2>0, <3>1, <3>2 DEF BoundedMemory
  <2> QED BY <1>0, <2>1, <2>2, <2>3, Zenon
<1>3. QueueListsTracked'
  <2>0. /\ {order[i] : i \in 1..Len(order)} = Tracked
        /\ \A i, j \in 1..Len(order) : order[i] = order[j] => i = j
    BY Zenon DEF IInv, QueueListsTracked, PoppedBy
  <2>1. CASE ip \in Tracked
    <3>1. order' = order /\ Tracked' = Tracked
      BY <1>0, <1>d, <2>1, Zenon
    <3> QED BY <2>0, <3>1 DEF QueueListsTracked, PoppedBy
  <2>2. CASE ip \notin Tracked /\ gone = {}
    <3>1. order' = Append(order, ip) /\ Tracked' = Tracked \cup {ip}
      BY <1>0, <1>d, <2>2, Zenon
    <3>2. /\ Len(order') = Len(order) + 1
          /\ order'[Len(order) + 1] = ip
          /\ \A i \in 1..Len(order) : order'[i] = order[i] /\ order[i] # ip
      BY <1>t, <2>0, <2>2, <3>1
    <3>3. {order'[i] : i \in 1..Len(order')} = Tracked'
      BY <1>t, <2>0, <3>1, <3>2
    <3>4. \A i, j \in 1..Len(order') : order'[i] = order'[j] => i = j
      <4>1. \A i \in 1..Len(order') : i \in 1..Len(order) \/ i = Len(order) + 1
        BY <1>t, <3>2
      <4> QED BY <2>0, <3>2, <4>1, Zenon
    <3> QED BY <3>3, <3>4, Zenon DEF QueueListsTracked, PoppedBy
  <2>3. CASE ip \notin Tracked /\ gone = {order[1]} /\ Len(order) > 0
             /\ order' = Append(Tail(order), ip)
    <3>1. Tracked' = (Tracked \ {order[1]}) \cup {ip}
      BY <1>d, <2>3, Zenon
    <3>2. /\ Len(order') = Len(order)
          /\ order'[Len(order)] = ip
          /\ \A i \in 1..(Len(order) - 1) :
                /\ order'[i] = order[i + 1] /\ order[i + 1] # ip
                /\ order[i + 1] \in Tracked \ {order[1]}
      BY <1>t, <2>0, <2>3, SMTT(30)
    <3>3. \A a \in Tracked \ {order[1]} : \E i \in 1..(Len(order) - 1) : order'[i] = a
      <4> SUFFICES ASSUME NEW a \in Tracked \ {order[1]}
                   PROVE  \E i \in 1..(Len(order) - 1) : order'[i] = a
        BY Zenon
      <4>1. PICK j \in 1..Len(order) : order[j] = a
        BY <2>0, Zenon
      <4>2. j - 1 \in 1..(Len(order) - 1) /\ order'[j - 1] = a
        BY <1>t, <3>2, <4>1, SMTT(30)
      <4> QED BY <4>2, Zenon
    <3>0. \A i \in 1..Len(order') : i \in 1..(Len(order) - 1) \/ i = Len(order)
      BY <1>t, <3>2
    <3>4. {order'[i] : i \in 1..Len(order')} = Tracked'
      <4>1. \A i \in 1..Len(order') : order'[i] \in Tracked'
        BY <3>0, <3>1, <3>2, Zenon
      <4>2. \A i \in 1..(Len(order) - 1) : i \in 1..Len(order')
        BY <1>t, <3>2
      <4>3. Len(order) \in 1..Len(order')
        BY <1>t, <2>3, <3>2
      <4>4. \A a \in Tracked' : \E i \in 1..Len(order') : order'[i] = a
        BY <3>1, <3>2, <3>3, <4>2, <4>3, Zenon
      <4> QED BY <4>1, <4>4, Zenon
    <3>5. \A i, j \in 1..Len(order') : order'[i] = order'[j] => i = j
      <4> SUFFICES ASSUME NEW i \in 1..Len(order'), NEW j \in 1..Len(order'),
                          order'[i] = order'[j]
                   PROVE  i = j
        BY Zenon
      <4>1. CASE i \in 1..(Len(order) - 1) /\ j \in 1..(Len(order) - 1)
        <5>1. Len(order) \in Nat /\ i \in Int /\ j \in Int
          BY <1>t, <4>1
        <5>2. i + 1 \in 1..Len(order) /\ j + 1 \in 1..Len(order)
          BY <4>1, <5>1
        <5>3. order'[i] = order[i + 1] /\ order'[j] = order[j + 1]
          BY <3>2, <4>1, Zenon
        <5>4. i + 1 = j + 1
          BY <2>0, <5>2, <5>3, Zenon
        <5> QED BY <5>1, <5>4
      <4>2. CASE i = Len(order) /\ j \in 1..(Len(order) - 1)
        BY <3>2, <4>2, Zenon
      <4>3. CASE j = Len(order) /\ i \in 1..(Len(order) - 1)
        BY <3>2, <4>3, Zenon
      <4> QED BY <3>0, <4>1, <4>2, <4>3, Zenon
    <3> QED BY <3>4, <3>5, Zenon DEF QueueListsTracked, PoppedBy
  <2> QED BY <1>0, <2>1, <2>2, <2>3, Zenon
<1>4. \A a \in Tracked' : a # ip => /\ a \in Tracked
                                   /\ next_allowed'[a] = next_allowed[a]
                                   /\ allowed'[a] = allowed[a]
  BY <1>0, <1>t, <1>d, Zenon
<1>5. /\ allowed'[ip] \in Seq(Nat) /\ Len(allowed'[ip]) \in Nat \ {0}
      /\ allowed'[ip][Len(allowed'[ip])] = now
      /\ \A i \in 1..(Len(allowed'[ip]) - 1) :
            /\ ip \in Tracked /\ i \in 1..Len(allowed[ip])
            /\ allowed'[ip][i] = allowed[ip][i]
  <2>1. CASE ip \in Tracked
    <3>1. allowed'[ip] = Append(allowed[ip], now) /\ allowed[ip] \in Seq(Nat)
      BY <1>0, <1>t, <2>1, Zenon
    <3> QED BY <2>1, <3>1
  <2>2. CASE ip \notin Tracked
    <3>1. allowed'[ip] = <<now>>
      BY <1>0, <1>t, <2>2, Zenon
    <3> QED BY <3>1
  <2> QED BY <2>1, <2>2, Zenon
<1>6. EntryIsLastAllowed'
  <2>1. ASSUME NEW a \in Tracked'
        PROVE  /\ allowed'[a] # << >>
               /\ next_allowed'[a] = allowed'[a][Len(allowed'[a])] + RATE_LIMIT_WINDOW
    <3>1. CASE a = ip
      <4>1. allowed'[ip] # << >>
        BY <1>5
      <4>2. next_allowed'[ip] = allowed'[ip][Len(allowed'[ip])] + RATE_LIMIT_WINDOW
        BY <1>0, <1>5, Zenon
      <4> QED BY <3>1, <4>1, <4>2, Zenon
    <3>2. CASE a # ip
      BY <1>4, <3>2, Zenon DEF IInv, EntryIsLastAllowed
    <3> QED BY <3>1, <3>2, Zenon
  <2> QED BY <2>1, Zenon DEF EntryIsLastAllowed
<1>7. ReadFromClock'
  BY <1>0, <1>t, Zenon DEF IInv, ReadFromClock
<1>8. AllowedSpaced'
  <2> SUFFICES ASSUME NEW a \in Tracked', NEW i \in 1..Len(allowed'[a]),
                      NEW j \in 1..Len(allowed'[a]), i < j
               PROVE  allowed'[a][j] - allowed'[a][i] >= RATE_LIMIT_WINDOW
    BY Zenon DEF AllowedSpaced
  <2>1. CASE a # ip
    BY <1>4, <2>1, Zenon DEF IInv, AllowedSpaced
  <2>2. CASE a = ip /\ j < Len(allowed'[ip])
    <3>0. i \in 1..(Len(allowed'[ip]) - 1) /\ j \in 1..(Len(allowed'[ip]) - 1)
      <4>1. PICK n : n = Len(allowed'[ip])
        BY Zenon
      <4>2. n \in Nat /\ i \in 1..n /\ j \in 1..n /\ j < n
        BY <1>5, <2>2, <4>1, Zenon
      <4>3. i \in 1..(n - 1) /\ j \in 1..(n - 1)
        BY <4>2
      <4> QED BY <4>1, <4>3, Zenon
    <3>1. /\ ip \in Tracked /\ i \in 1..Len(allowed[ip]) /\ j \in 1..Len(allowed[ip])
          /\ allowed'[ip][i] = allowed[ip][i] /\ allowed'[ip][j] = allowed[ip][j]
      BY <1>5, <3>0, Zenon
    <3> QED BY <2>2, <3>1, Zenon DEF IInv, AllowedSpaced
  <2>3. CASE a = ip /\ j = Len(allowed'[ip])
    <3>1. /\ ip \in Tracked /\ i \in 1..Len(allowed[ip])
          /\ allowed'[ip][i] = allowed[ip][i] /\ allowed'[ip][j] = now
      <4>1. PICK n : n = Len(allowed'[ip])
        BY Zenon
      <4>2. n \in Nat /\ i \in 1..n /\ i < n
        BY <1>5, <2>3, <4>1, Zenon
      <4>3. i \in 1..(n - 1)
        BY <4>2
      <4> QED BY <1>5, <2>3, <4>1, <4>3, Zenon
    <3>2. /\ allowed[ip] \in Seq(Nat) /\ Len(allowed[ip]) \in Nat
          /\ allowed[ip][i] \in Nat /\ allowed[ip][Len(allowed[ip])] \in Nat
      <4>1. allowed[ip] \in Seq(Nat) /\ i \in 1..Len(allowed[ip])
        BY <1>t, <3>1, Zenon
      <4> QED BY <4>1
    <3>3. next_allowed[ip] = allowed[ip][Len(allowed[ip])] + RATE_LIMIT_WINDOW
          /\ next_allowed[ip] <= now
      BY <1>0, <3>1, Zenon DEF IInv, EntryIsLastAllowed
    <3>4. allowed[ip][Len(allowed[ip])] >= allowed[ip][i]
      <4>1. CASE i = Len(allowed[ip])
        BY <3>2, <4>1
      <4>2. CASE i < Len(allowed[ip])
        <5>0. Len(allowed[ip]) \in 1..Len(allowed[ip])
          BY <3>2, <4>2
        <5>1. allowed[ip][Len(allowed[ip])] - allowed[ip][i] >= RATE_LIMIT_WINDOW
          BY <3>1, <4>2, <5>0, Zenon DEF IInv, AllowedSpaced
        <5>2. \A x, y \in Nat : y - x >= RATE_LIMIT_WINDOW => y >= x
          OBVIOUS
        <5> QED BY <3>2, <5>1, <5>2, Zenon
      <4> QED BY <3>1, <3>2, <4>1, <4>2
    <3>5. now - allowed[ip][i] >= RATE_LIMIT_WINDOW
      <4>1. allowed[ip][Len(allowed[ip])] + RATE_LIMIT_WINDOW <= now
        BY <3>3, Zenon
      <4> QED BY <3>2, <3>4, <4>1, WindowApart, Zenon
    <3> QED BY <2>3, <3>1, <3>5, Zenon
  <2> QED BY <1>5, <2>1, <2>2, <2>3
<1>9. NoBan'
  <2> SUFFICES ASSUME NEW a \in Tracked'
               PROVE  next_allowed'[a] <= clock' + RATE_LIMIT_WINDOW
    BY Zenon DEF NoBan
  <2>1. CASE a = ip
    BY <1>0, <1>t, <2>1
  <2>2. CASE a # ip
    BY <1>0, <1>4, <2>2, Zenon DEF IInv, NoBan
  <2> QED BY <2>1, <2>2, Zenon
<1> QED BY <1>1, <1>2, <1>3, <1>6, <1>7, <1>8, <1>9, Zenon DEF IInv

(* Nothing is tracked at the start. *)
LEMMA InitIsInductive == Init => IInv
<1> SUFFICES ASSUME Init PROVE IInv
  BY Zenon
<1>1. Tracked = {} /\ order = << >> /\ Len(order) = 0
  BY Zenon DEF Init, Tracked
<1>2. TypeOK
  BY DEF Init, TypeOK, Tracked
<1>3. IsFiniteSet(Tracked) /\ Cardinality(Tracked) = 0
  BY <1>1, FS_EmptySet, Zenon
<1>4. QueueListsTracked
  BY <1>1 DEF QueueListsTracked, PoppedBy
<1>5. BoundedMemory
  BY <1>3, CapacityAssumption DEF BoundedMemory
<1>6. EntryIsLastAllowed /\ AllowedSpaced /\ NoBan
  BY <1>1, Zenon DEF EntryIsLastAllowed, AllowedSpaced, NoBan
<1>7. ReadFromClock
  BY Zenon DEF Init, ReadFromClock
<1> QED BY <1>2, <1>3, <1>4, <1>5, <1>6, <1>7, Zenon DEF IInv

(* Every step of a caller, or of the clock, preserves the inductive invariant. *)
LEMMA StepIsInductive == IInv /\ [Next]_vars => IInv'
<1> SUFFICES ASSUME IInv, [Next]_vars PROVE IInv'
  BY Zenon
<1>1. ASSUME Tick PROVE IInv'
  <2>1. /\ clock \in Nat /\ clock' = clock + 1
        /\ next_allowed' = next_allowed /\ order' = order /\ call' = call
        /\ allowed' = allowed /\ Tracked' = Tracked
    BY <1>1, Zenon DEF Tick, IInv, TypeOK, Tracked
  <2>2. TypeOK'
    BY <2>1, SMTT(30) DEF IInv, TypeOK
  <2>3. IsFiniteSet(Tracked)' /\ QueueListsTracked' /\ BoundedMemory'
        /\ EntryIsLastAllowed' /\ AllowedSpaced'
    BY <2>1 DEF IInv, QueueListsTracked, PoppedBy, BoundedMemory, EntryIsLastAllowed,
                AllowedSpaced
  <2>4. ReadFromClock'
    <3> SUFFICES ASSUME NEW c \in Callers, call[c] # NotCalling PROVE call[c].now <= clock + 1
      BY <2>1, Zenon DEF ReadFromClock
    <3>1. call[c] \in [ip : Ips, now : Nat] /\ call[c].now <= clock
      BY Zenon DEF IInv, TypeOK, ReadFromClock
    <3> QED BY <2>1, <3>1
  <2>5. NoBan'
    <3> SUFFICES ASSUME NEW ip \in Tracked
                 PROVE  next_allowed[ip] <= (clock + 1) + RATE_LIMIT_WINDOW
      BY <2>1, Zenon DEF NoBan
    <3>1. next_allowed[ip] \in Nat /\ next_allowed[ip] <= clock + RATE_LIMIT_WINDOW
      BY Zenon DEF IInv, TypeOK, NoBan
    <3> QED BY <2>1, <3>1, WindowAssumption
  <2> QED BY <2>2, <2>3, <2>4, <2>5, Zenon DEF IInv
<1>2. ASSUME NEW c \in Callers, NEW ip \in Ips, Arrive(c, ip) PROVE IInv'
  <2>1. /\ clock' = clock /\ next_allowed' = next_allowed /\ order' = order
        /\ allowed' = allowed /\ Tracked' = Tracked
        /\ call' = [call EXCEPT ![c] = [ip |-> ip, now |-> clock]]
    BY <1>2, Zenon DEF Arrive, Tracked
  <2>2. TypeOK'
    BY <2>1, Zenon DEF IInv, TypeOK
  <2>3. IsFiniteSet(Tracked)' /\ QueueListsTracked' /\ BoundedMemory'
        /\ EntryIsLastAllowed' /\ AllowedSpaced' /\ NoBan'
    BY <2>1 DEF IInv, QueueListsTracked, PoppedBy, BoundedMemory, EntryIsLastAllowed,
                AllowedSpaced, NoBan
  <2>4. ReadFromClock'
    BY <2>1 DEF IInv, TypeOK, ReadFromClock
  <2> QED BY <2>2, <2>3, <2>4, Zenon DEF IInv
<1>3. ASSUME NEW c \in Callers, Reject(c) PROVE IInv'
  <2>1. /\ clock' = clock /\ next_allowed' = next_allowed /\ order' = order
        /\ allowed' = allowed /\ Tracked' = Tracked
        /\ call' = [call EXCEPT ![c] = NotCalling]
    BY <1>3, Zenon DEF Reject, Tracked
  <2>2. TypeOK'
    BY <2>1, Zenon DEF IInv, TypeOK
  <2>3. IsFiniteSet(Tracked)' /\ QueueListsTracked' /\ BoundedMemory'
        /\ EntryIsLastAllowed' /\ AllowedSpaced' /\ NoBan'
    BY <2>1 DEF IInv, QueueListsTracked, PoppedBy, BoundedMemory, EntryIsLastAllowed,
                AllowedSpaced, NoBan
  <2>4. ReadFromClock'
    BY <2>1, Zenon DEF IInv, TypeOK, ReadFromClock
  <2> QED BY <2>2, <2>3, <2>4, Zenon DEF IInv
<1>4. ASSUME NEW c \in Callers, Allow(c) PROVE IInv'
  BY <1>4, AllowPreserves, Zenon
<1>5. ASSUME UNCHANGED vars PROVE IInv'
  BY <1>5 DEF vars, IInv, TypeOK, Tracked, QueueListsTracked, PoppedBy, BoundedMemory,
              EntryIsLastAllowed, ReadFromClock, AllowedSpaced, NoBan
<1> QED BY <1>1, <1>2, <1>3, <1>4, <1>5, Zenon DEF Next

(* The limiter's inductive invariant holds in every reachable state. *)
THEOREM Invariance == Spec => []IInv
<1> QED BY InitIsInductive, StepIsInductive, PTL DEF Spec

(* Whatever addresses call and in whatever order the mutex is granted, the
   queue lists exactly the tracked addresses and never more than the capacity. *)
THEOREM MemoryIsBounded == Spec => []MemoryBounded
<1>1. IInv => MemoryBounded
  BY Zenon DEF IInv, MemoryBounded
<1> QED BY <1>1, Invariance, PTL

(* Two requests of an address the limiter lets through while it tracks it are
   a window apart by the instants they read, for every interleaving. *)
THEOREM SpacingIsEnforced == Spec => []AllowedSpaced
<1>1. IInv => AllowedSpaced
  BY Zenon DEF IInv
<1> QED BY <1>1, Invariance, PTL

(* No address ever has to wait longer than one window. *)
THEOREM NobodyIsBanned == Spec => []NoBan
<1>1. IInv => NoBan
  BY Zenon DEF IInv
<1> QED BY <1>1, Invariance, PTL

(* Type correctness. *)
THEOREM TypeCorrect == Spec => []TypeOK
<1>1. IInv => TypeOK
  BY Zenon DEF IInv
<1> QED BY <1>1, Invariance, PTL

-----------------------------------------------------------------------------

-----------------------------------------------------------------------------
(* The networks of a list.                                                   *)

(* What a network holds. *)
LEMMA NetworkFields ==
    ASSUME NEW n \in Networks
    PROVE  /\ n.addr \in Addresses /\ n.len \in 0..Width /\ n.len \in Nat
           /\ \A i \in 1..n.len : i \in 1..Width /\ i <= n.len
           /\ \A i \in 1..Width : i <= n.len => i \in 1..n.len
           /\ network(n) \in Addresses
<1>1. n.addr \in Addresses /\ n.len \in 0..Width
  BY Zenon DEF Networks
<1>2. /\ n.len \in Nat
      /\ \A i \in 1..n.len : i \in 1..Width /\ i <= n.len
      /\ \A i \in 1..Width : i <= n.len => i \in 1..n.len
  BY <1>1, WidthAssumption
<1>3. network(n) \in Addresses
  BY <1>1, Zenon DEF network, Addresses
<1> QED BY <1>1, <1>2, <1>3, Zenon

(* IpNet::network is an address of the network, and the same network without its host
   bits has the same addresses. *)
LEMMA FirstAddress ==
    ASSUME NEW n \in Networks
    PROVE  /\ network(n) \in Hosts(n)
           /\ \E m \in Networks : /\ m.len = n.len /\ m.addr = network(n)
                                  /\ network(m) = m.addr /\ Hosts(m) = Hosts(n)
<1>1. \A i \in 1..n.len : network(n)[i] = n.addr[i]
  BY NetworkFields, Zenon DEF network
<1>2. network(n) \in Hosts(n)
  BY <1>1, NetworkFields, Zenon DEF Hosts, contains
<1>3. PICK m : m = [addr |-> network(n), len |-> n.len]
  BY Zenon
<1>4. m \in Networks /\ m.addr = network(n) /\ m.len = n.len
  BY <1>3, NetworkFields, Zenon DEF Networks
<1>5. Hosts(m) = Hosts(n)
  BY <1>1, <1>4, Zenon DEF Hosts, contains
<1>6. network(m) = m.addr
  BY <1>4, Zenon DEF network
<1> QED BY <1>2, <1>4, <1>5, <1>6, Zenon

(* Of two networks with an address in common the one with the longer prefix is inside
   the other, and the other contains its first address. *)
LEMMA Nested ==
    ASSUME NEW m \in Networks, NEW n \in Networks, m.len <= n.len,
           NEW a \in Hosts(m) \cap Hosts(n)
    PROVE  Hosts(n) \subseteq Hosts(m) /\ contains(m, network(n))
<1>1. \A i \in 1..m.len : i \in 1..n.len
  BY NetworkFields
<1>2. \A i \in 1..m.len : m.addr[i] = n.addr[i]
  BY <1>1, Zenon DEF Hosts, contains
<1>3. Hosts(n) \subseteq Hosts(m)
  BY <1>1, <1>2, Zenon DEF Hosts, contains
<1>4. network(n) \in Hosts(m)
  BY <1>3, FirstAddress, Zenon
<1> QED BY <1>3, <1>4, Zenon DEF Hosts

(* overlaps_any finds every overlap with an excluded range, whichever is larger. *)
LEMMA OverlapsMeet ==
    ASSUME NEW n \in Networks, NEW excluded \in SUBSET Networks
    PROVE  overlaps_any(n, excluded) <=> Hosts(n) \cap Cover(excluded) # {}
<1>1. ASSUME NEW ex \in excluded, contains(ex, network(n)) \/ contains(n, network(ex))
      PROVE  Hosts(n) \cap Cover(excluded) # {}
  <2>1. Hosts(n) \cap Hosts(ex) # {}
    BY <1>1, FirstAddress, NetworkFields, Zenon DEF Hosts
  <2> QED BY <2>1, Zenon DEF Cover
<1>2. ASSUME Hosts(n) \cap Cover(excluded) # {}
      PROVE  overlaps_any(n, excluded)
  <2>1. PICK a \in Hosts(n) : a \in Cover(excluded)
    BY <1>2, Zenon
  <2>2. PICK ex \in excluded : a \in Hosts(ex)
    BY <2>1, Zenon DEF Cover
  <2>3. ex \in Networks /\ a \in Hosts(n) \cap Hosts(ex) /\ a \in Hosts(ex) \cap Hosts(n)
    BY <2>1, <2>2, Zenon
  <2>4. ex.len <= n.len \/ n.len <= ex.len
    BY <2>3, NetworkFields
  <2>5. contains(ex, network(n)) \/ contains(n, network(ex))
    BY <2>3, <2>4, Nested, Zenon
  <2> QED BY <2>2, <2>5, Zenon DEF overlaps_any
<1> QED BY <1>1, <1>2, Zenon DEF overlaps_any

(* Some network of any set has the shortest prefix. *)
LEMMA ShortestPrefix ==
    ASSUME NEW S \in SUBSET Networks, S # {}
    PROVE  \E n \in S : \A m \in S : ~(m.len < n.len)
<1>1. PICK T : T = {n.len : n \in S}
  BY Zenon
<1>2. T \subseteq Nat /\ T # {}
  BY <1>1, NetworkFields, Zenon
<1>3. PICK x \in T : \A y \in T : ~(<<y, x>> \in OpToRel(<, Nat))
  BY <1>2, NatLessThanWellFounded, WFMin, Zenon
<1>4. \A y \in T : ~(y < x)
  BY <1>2, <1>3, Zenon DEF OpToRel
<1> QED BY <1>1, <1>4, Zenon

\* The networks without host bits that hold only addresses of nets.
Inside(nets) == {n \in Networks : n.addr = network(n) /\ Hosts(n) \subseteq Cover(nets)}

(* The result of aggregate. *)
LEMMA AggregateIs ==
    ASSUME NEW nets
    PROVE  aggregate(nets) = {n \in Inside(nets) :
              ~\E m \in Inside(nets) : m.len < n.len /\ Hosts(n) \subseteq Hosts(m)}
BY Zenon DEF aggregate, Inside

(* aggregate loses no address and adds none. *)
LEMMA AggregateCovers ==
    ASSUME NEW nets \in SUBSET Networks
    PROVE  Cover(aggregate(nets)) = Cover(nets)
<1>1. Cover(aggregate(nets)) \subseteq Cover(nets)
  BY AggregateIs, Zenon DEF Inside, Cover
<1>2. ASSUME NEW a \in Cover(nets) PROVE a \in Cover(aggregate(nets))
  <2>1. PICK n \in nets : a \in Hosts(n)
    BY <1>2, Zenon DEF Cover
  <2>2. PICK m \in Networks : m.addr = network(n) /\ network(m) = m.addr /\ Hosts(m) = Hosts(n)
    BY FirstAddress, Zenon
  <2>3. m \in Inside(nets)
    BY <2>2, Zenon DEF Inside, Cover
  <2>4. PICK S : S = {k \in Inside(nets) : Hosts(m) \subseteq Hosts(k)}
    BY Zenon
  <2>5. S \in SUBSET Networks /\ m \in S
    BY <2>3, <2>4, Zenon DEF Inside
  <2>6. PICK k \in S : \A j \in S : ~(j.len < k.len)
    BY <2>5, ShortestPrefix, Zenon
  <2>7. k \in aggregate(nets)
    <3>1. ASSUME NEW j \in Inside(nets), j.len < k.len, Hosts(k) \subseteq Hosts(j) PROVE FALSE
      BY <2>4, <2>6, <3>1, Zenon
    <3> QED BY <2>4, <2>6, <3>1, AggregateIs, Zenon
  <2>8. a \in Hosts(k)
    BY <2>1, <2>2, <2>4, <2>6, Zenon
  <2> QED BY <2>7, <2>8, Zenon DEF Cover
<1> QED BY <1>1, <1>2, Zenon

(* No address is in two networks of a list. *)
LEMMA AggregateIsDisjoint ==
    ASSUME NEW nets, NEW m \in aggregate(nets), NEW n \in aggregate(nets), m # n
    PROVE  Hosts(m) \cap Hosts(n) = {}
<1>1. /\ m \in Inside(nets) /\ ~\E k \in Inside(nets) : k.len < m.len /\ Hosts(m) \subseteq Hosts(k)
      /\ n \in Inside(nets) /\ ~\E k \in Inside(nets) : k.len < n.len /\ Hosts(n) \subseteq Hosts(k)
  BY AggregateIs, Zenon
<1>2. /\ m \in Networks /\ m.addr = network(m) /\ n \in Networks /\ n.addr = network(n)
  BY <1>1, Zenon DEF Inside
<1>3. SUFFICES ASSUME NEW a \in Hosts(m) \cap Hosts(n) PROVE FALSE
  BY Zenon
<1>4. /\ m.len <= n.len => Hosts(n) \subseteq Hosts(m) /\ contains(m, network(n))
      /\ n.len <= m.len => Hosts(m) \subseteq Hosts(n)
  BY <1>2, <1>3, Nested, Zenon
<1>5. m.len = n.len
  <2>1. m.len \in Nat /\ n.len \in Nat
    BY <1>2, NetworkFields, Zenon
  <2>2. \/ m.len < n.len /\ m.len <= n.len
        \/ n.len < m.len /\ n.len <= m.len
        \/ m.len = n.len
    BY <2>1
  <2> QED BY <1>1, <1>4, <2>2, Zenon
<1>6. \A i \in 1..Width : i <= m.len => m.addr[i] = n.addr[i]
  <2>1. \A i \in 1..m.len : n.addr[i] = m.addr[i]
    BY <1>2, <1>3, <1>5, Zenon DEF Hosts, contains
  <2> QED BY <1>2, <2>1, NetworkFields, Zenon
<1>7. network(m) = network(n)
  BY <1>5, <1>6, Zenon DEF network
<1>8. m = n
  BY <1>2, <1>5, <1>7 DEF Networks
<1> QED BY <1>8, Zenon

(* What Published gives for a row, records and an instant. *)
LEMMA PublishedIs ==
    ASSUME NEW rw \in Rows, NEW recs \in Batches \cup {{}}, NEW now \in 0..MaxTime
    PROVE  Published[rw][recs][now] =
              filter_and_aggregate(snapshot_within(recs, rw.max_age_seconds, now), rw.flags)
BY Zenon DEF Published

\* The records inside the window that are clear of every range the flags exclude.
Kept(recs, max_age, flags, now) ==
    {rec \in recs :
        /\ max_age = 0 \/ now - rec.last_seen_at <= max_age
        /\ Hosts(rec.network) \cap UNION {Cover(Excluded[flag]) : flag \in flags} = {}}

(* What is left of the records: the networks that filter_and_aggregate hands to
   aggregate are those of the records inside the window, clear of every range. *)
LEMMA FilterKeeps ==
    ASSUME NEW recs \in SUBSET [network : Networks, last_seen_at : Nat],
           NEW max_age \in Nat, NEW now \in Nat, NEW flags \in SUBSET DOMAIN Excluded
    PROVE  {n \in snapshot_within(recs, max_age, now) :
              \A flag \in flags : ~overlaps_any(n, Excluded[flag])}
         = {rec.network : rec \in Kept(recs, max_age, flags, now)}
<1>1. ASSUME NEW x \in recs
      PROVE  (max_age <= 0 \/ x.last_seen_at >= now - max_age)
               <=> (max_age = 0 \/ now - x.last_seen_at <= max_age)
  <2>1. x.last_seen_at \in Nat
    BY Zenon
  <2> QED BY <2>1
<1>2. ASSUME NEW x \in recs
      PROVE  (\A flag \in flags : ~overlaps_any(x.network, Excluded[flag]))
               <=> Hosts(x.network) \cap UNION {Cover(Excluded[flag]) : flag \in flags} = {}
  <2>1. x.network \in Networks
    BY Zenon
  <2>2. \A flag \in flags : Excluded[flag] \in SUBSET Networks
    BY ExcludedAssumption, Zenon
  <2>3. \A flag \in flags : overlaps_any(x.network, Excluded[flag])
                              <=> Hosts(x.network) \cap Cover(Excluded[flag]) # {}
    BY <2>1, <2>2, OverlapsMeet, Zenon
  <2>4. PICK out : out = UNION {Cover(Excluded[flag]) : flag \in flags}
    BY Zenon
  <2>5. \A a : a \in out <=> \E flag \in flags : a \in Cover(Excluded[flag])
    BY <2>4, Zenon
  <2>6. (\A flag \in flags : ~overlaps_any(x.network, Excluded[flag]))
          <=> Hosts(x.network) \cap out = {}
    BY <2>3, <2>5, Zenon
  <2> QED BY <2>4, <2>6, Zenon
<1>3. PICK kept : kept = Kept(recs, max_age, flags, now)
  BY Zenon
<1>4. \A x \in recs : x \in kept <=> /\ max_age <= 0 \/ x.last_seen_at >= now - max_age
                                    /\ \A flag \in flags : ~overlaps_any(x.network, Excluded[flag])
  BY <1>1, <1>2, <1>3, Zenon DEF Kept
<1>5. kept \subseteq recs
  BY <1>3, Zenon DEF Kept
<1>6. {n \in snapshot_within(recs, max_age, now) :
         \A flag \in flags : ~overlaps_any(n, Excluded[flag])} = {rec.network : rec \in kept}
  BY <1>4, <1>5, Zenon DEF snapshot_within
<1> QED BY <1>3, <1>6, Zenon

(* A list covers what is left of the records it was made of, and nothing twice. *)
LEMMA ListIsWhatIsLeft ==
    ASSUME NEW rw \in Rows, NEW recs \in Batches \cup {{}}, NEW now \in 0..MaxTime
    PROVE  LET list == Published[rw][recs][now]
               out  == UNION {Cover(Excluded[flag]) : flag \in rw.flags}
               kept == {rec \in recs :
                           /\ rw.max_age_seconds = 0
                                \/ now - rec.last_seen_at <= rw.max_age_seconds
                           /\ Hosts(rec.network) \cap out = {}}
           IN  /\ Cover(list) = UNION {Hosts(rec.network) : rec \in kept}
               /\ \A m, n \in list : m # n => Hosts(m) \cap Hosts(n) = {}
<1> DEFINE kept == Kept(recs, rw.max_age_seconds, rw.flags, now)
           nets == {rec.network : rec \in kept}
<1>1. /\ rw.max_age_seconds \in Nat /\ rw.flags \in SUBSET DOMAIN Excluded
      /\ recs \in SUBSET [network : Networks, last_seen_at : Nat] /\ now \in Nat
  <2>1. rw \in [max_age_seconds : Nat, flags : SUBSET DOMAIN Excluded]
    BY RowsAssumption, Zenon
  <2>2. recs \in SUBSET [network : Networks, last_seen_at : Nat]
    BY BatchesAssumption, Zenon
  <2>3. now \in Nat
    BY MaxTimeAssumption
  <2> QED BY <2>1, <2>2, <2>3, Zenon
<1>2. Published[rw][recs][now] = aggregate(nets)
  <2>1. {n \in snapshot_within(recs, rw.max_age_seconds, now) :
           \A flag \in rw.flags : ~overlaps_any(n, Excluded[flag])} = nets
    BY <1>1, FilterKeeps, Zenon
  <2> QED BY <2>1, PublishedIs, Zenon DEF filter_and_aggregate
<1>3. kept \subseteq recs
  BY Zenon DEF Kept
<1> HIDE DEF kept
<1>4. nets \in SUBSET Networks
  <2>1. \A rec \in kept : rec.network \in Networks
    BY <1>1, <1>3
  <2> QED BY <2>1, Zenon
<1>5. Cover(nets) = UNION {Hosts(rec.network) : rec \in kept}
  BY Zenon DEF Cover
<1> HIDE DEF nets
<1>6. Cover(Published[rw][recs][now]) = UNION {Hosts(rec.network) : rec \in kept}
  BY <1>2, <1>4, <1>5, AggregateCovers, Zenon
<1>7. \A m, n \in Published[rw][recs][now] : m # n => Hosts(m) \cap Hosts(n) = {}
  BY <1>2, AggregateIsDisjoint, ZenonT(60)
<1> QED BY <1>6, <1>7, Zenon DEF kept, Kept

-----------------------------------------------------------------------------

\* What a request knows of the time since it arrived, at each of its awaits; it has
\* called the limiter exactly when it waits for the limiter's answer.
RequestOK(r) ==
    /\ DOMAIN req[r] = DOMAIN Blank
    /\ ~At(r, "new") => /\ row \in req[r].rows /\ records \in req[r].batches
                        /\ req[r].since \in 0..clock
                        /\ req[r].client \in Ips
    /\ At(r, "clock") \/ At(r, "snapshot") => req[r].row \in req[r].rows \ {NoRow}
    /\ At(r, "snapshot") => req[r].now \in req[r].since..clock
    /\ At(r, "limit") => req[r].list \in Possible(r) \ {req[r].tag}
    /\ At(r, "limit") <=> call[r] # NotCalling

\* The inductive invariant of the feed.
FeedInv ==
    /\ row \in Rows \cup {NoRow}
    /\ records \in Batches \cup {{}}
    /\ clock \in 0..MaxTime
    /\ DOMAIN req = Callers /\ DOMAIN call = Callers
    /\ \A r \in Callers : RequestOK(r)

(* What a request may have published only grows while it is under way. *)
LEMMA PossibleGrows ==
    ASSUME NEW r \in Callers,
           req[r].rows \subseteq req'[r].rows, req[r].batches \subseteq req'[r].batches,
           req'[r].since = req[r].since, req[r].since \in Nat,
           clock \in Nat, clock' \in Nat, clock <= clock'
    PROVE  Possible(r) \subseteq Possible(r)'
<1>1. \A now \in req[r].since..clock : now \in req'[r].since..clock'
  OBVIOUS
<1>2. ASSUME NEW list \in Possible(r) PROVE list \in Possible(r)'
  <2>1. PICK rw \in req[r].rows \ {NoRow}, recs \in req[r].batches,
             now \in req[r].since..clock : list = Published[rw][recs][now]
    BY SMT DEF Possible
  <2>2. /\ rw \in req'[r].rows \ {NoRow} /\ recs \in req'[r].batches
        /\ now \in req'[r].since..clock'
    BY <1>1, Zenon
  <2> QED BY <2>1, <2>2, SMT DEF Possible
<1> QED BY <1>2, Zenon

(* Time, an edit or a sync passes a request by: it keeps what it holds and knows of
   the new row and records. *)
LEMMA RequestKept ==
    ASSUME FeedInv, clock' \in 0..MaxTime, clock <= clock', NEW r \in Callers,
           DOMAIN req'[r] = DOMAIN Blank,
           \A f \in {"at", "client", "tag", "row", "now", "list", "since"} :
                 req'[r][f] = req[r][f],
           req[r].rows \subseteq req'[r].rows, req[r].batches \subseteq req'[r].batches,
           ~At(r, "new") => row' \in req'[r].rows /\ records' \in req'[r].batches,
           call'[r] = call[r]
    PROVE  RequestOK(r)'
<1>0. /\ req'[r].at = req[r].at /\ req'[r].client = req[r].client
      /\ req'[r].tag = req[r].tag /\ req'[r].row = req[r].row
      /\ req'[r].list = req[r].list /\ req'[r].since = req[r].since
      /\ req'[r].now = req[r].now
  OBVIOUS
<1>1. \A where : At(r, where)' <=> At(r, where)
  BY <1>0, Zenon DEF At
<1>2. RequestOK(r) /\ clock \in Nat /\ clock' \in Nat /\ clock \in 0..MaxTime
  BY MaxTimeAssumption DEF FeedInv
<1>3. ~At(r, "new") => req[r].since \in 0..clock /\ req'[r].since \in 0..clock'
  <2>1. ~At(r, "new") => req[r].since \in 0..clock
    BY <1>2, Zenon DEF RequestOK
  <2> QED BY <1>0, <1>2, <2>1
<1>4. At(r, "limit") => ~At(r, "new")
  BY DEF At
<1>5. ~At(r, "new") => Possible(r) \subseteq Possible(r)'
  <2>1. ~At(r, "new") => req[r].since \in Nat
    BY <1>2, <1>3
  <2> QED BY <1>0, <1>2, <2>1, PossibleGrows, Zenon
<1>6. At(r, "limit")' => req'[r].list \in Possible(r)' \ {req'[r].tag}
  BY <1>0, <1>1, <1>2, <1>4, <1>5, Zenon DEF RequestOK
<1>7. At(r, "clock")' \/ At(r, "snapshot")' => req'[r].row \in req'[r].rows \ {NoRow}
  BY <1>0, <1>1, <1>2, Zenon DEF RequestOK
<1>8. At(r, "snapshot")' => req'[r].now \in req'[r].since..clock'
  <2>1. At(r, "snapshot") => ~At(r, "new") /\ req[r].now \in req[r].since..clock
    BY <1>2 DEF RequestOK, At
  <2>2. ~At(r, "new") => \A now \in req[r].since..clock : now \in req'[r].since..clock'
    BY <1>0, <1>2, <1>3
  <2> QED BY <1>0, <1>1, <2>1, <2>2, Zenon
<1>9. ~At(r, "new")' => /\ row' \in req'[r].rows /\ records' \in req'[r].batches
                       /\ req'[r].since \in 0..clock'
                       /\ req'[r].client \in Ips
  BY <1>0, <1>1, <1>2, <1>3, Zenon DEF RequestOK
<1>10. At(r, "limit")' <=> call'[r] # NotCalling
  BY <1>1, <1>2, Zenon DEF RequestOK
<1> QED BY <1>6, <1>7, <1>9, <1>10, <1>8, Zenon DEF RequestOK

(* A step of one request leaves the others as they are. *)
LEMMA OneRequest ==
    ASSUME FeedInv, NEW r \in Callers, NEW new,
           req' = [req EXCEPT ![r] = new],
           clock' = clock, row' = row, records' = records,
           DOMAIN call' = Callers, \A q \in Callers \ {r} : call'[q] = call[q],
           RequestOK(r)'
    PROVE  FeedInv'
<1>1. \A q \in Callers \ {r} : req'[q] = req[q]
  BY Zenon DEF FeedInv
<1>2. ASSUME NEW q \in Callers \ {r} PROVE RequestOK(q)'
  <2>1. req'[q] = req[q] /\ RequestOK(q) /\ clock \in Nat /\ clock' \in 0..MaxTime
    BY <1>1, MaxTimeAssumption DEF FeedInv
  <2>2. clock <= clock'
    BY <2>1
  <2>3. DOMAIN req'[q] = DOMAIN Blank
    BY <2>1, Zenon DEF RequestOK
  <2>4. ~At(q, "new") => row' \in req'[q].rows /\ records' \in req'[q].batches
    BY <2>1, Zenon DEF RequestOK
  <2> QED BY <2>1, <2>2, <2>3, <2>4, RequestKept, Zenon
<1>3. DOMAIN req' = Callers
  BY Zenon DEF FeedInv
<1> QED BY <1>2, <1>3, Zenon DEF FeedInv

(* A request that was answered is no request. *)
LEMMA ReplyKeeps ==
    ASSUME FeedInv, NEW r \in Callers, Reply(r),
           clock' = clock, row' = row, records' = records,
           DOMAIN call' = Callers, \A q \in Callers \ {r} : call'[q] = call[q],
           call'[r] = NotCalling
    PROVE  FeedInv'
<1>1. req' = [req EXCEPT ![r] = Blank] /\ req'[r] = Blank
  BY Zenon DEF Reply, FeedInv
<1>2. Blank.at = "new"
  BY DEF Blank
<1>3. At(r, "new")' /\ ~At(r, "clock")' /\ ~At(r, "snapshot")' /\ ~At(r, "limit")'
  BY <1>1, <1>2 DEF At
<1>4. RequestOK(r)'
  BY <1>1, <1>3, Zenon DEF RequestOK
<1> QED BY <1>1, <1>4, OneRequest, Zenon

(* How a list that a request may have published came about. *)
LEMMA InPossible ==
    ASSUME NEW r \in Callers, NEW rw \in req[r].rows \ {NoRow}, NEW recs \in req[r].batches,
           NEW now \in req[r].since..clock
    PROVE  Published[rw][recs][now] \in Possible(r)
BY DEF Possible

(* A client arrives, and its history begins. *)
LEMMA RequestKeeps ==
    ASSUME FeedInv, NEW r \in Callers, NEW ip \in Ips, NEW tag, Request(r, ip, tag)
    PROVE  FeedInv'
<1> DEFINE new == [Blank EXCEPT !.at = "row", !.client = ip, !.tag = tag, !.since = clock,
                                !.rows = {row}, !.batches = {records}]
<1>1. /\ req' = [req EXCEPT ![r] = new]
      /\ clock' = clock /\ row' = row /\ records' = records /\ call' = call
  BY Zenon DEF Request, stateVars, limiterVars
<1>2. req'[r] = new
  BY <1>1, Zenon DEF FeedInv
<1>3. /\ new.at = "row" /\ new.client = ip /\ new.since = clock
      /\ new.rows = {row} /\ new.batches = {records} /\ DOMAIN new = DOMAIN Blank
  BY DEF Blank
<1> HIDE DEF new
<1>4. ~At(r, "new")' /\ ~At(r, "clock")' /\ ~At(r, "snapshot")' /\ ~At(r, "limit")'
  BY <1>2, <1>3 DEF At
<1>5. call[r] = NotCalling
  <2>1. ~At(r, "limit")
    BY DEF Request, At
  <2> QED BY <2>1, Zenon DEF FeedInv, RequestOK
<1>6. req'[r].since \in 0..clock'
  BY <1>1, <1>2, <1>3 DEF FeedInv
<1>7. RequestOK(r)'
  BY <1>1, <1>2, <1>3, <1>4, <1>5, <1>6, Zenon DEF RequestOK
<1>8. DOMAIN call' = Callers /\ \A q \in Callers \ {r} : call'[q] = call[q]
  BY <1>1, Zenon DEF FeedInv
<1> QED BY <1>1, <1>7, <1>8, OneRequest, Zenon

(* The row a request reads is one of the rows since it arrived. *)
LEMMA ReadRowKeeps ==
    ASSUME FeedInv, NEW r \in Callers, ReadRow(r)
    PROVE  FeedInv'
<1>1. /\ clock' = clock /\ row' = row /\ records' = records /\ call' = call
      /\ DOMAIN call' = Callers /\ \A q \in Callers \ {r} : call'[q] = call[q]
      /\ RequestOK(r)
  BY Zenon DEF ReadRow, stateVars, limiterVars, FeedInv
<1>2. ~At(r, "limit") /\ ~At(r, "new")
  BY DEF ReadRow, At
<1>3. call[r] = NotCalling
  BY <1>1, <1>2, Zenon DEF RequestOK
<1>4. CASE row = NoRow
  <2>1. Reply(r)
    BY <1>4, Zenon DEF ReadRow
  <2> QED BY <1>1, <1>3, <2>1, ReplyKeeps, Zenon
<1>5. CASE row # NoRow
  <2> DEFINE new == [req[r] EXCEPT !.at = "clock", !.row = row]
  <2>1. req' = [req EXCEPT ![r].at = "clock", ![r].row = row]
    BY <1>5, Zenon DEF ReadRow
  <2>2. req' = [req EXCEPT ![r] = new] /\ req'[r] = new
    BY <2>1, Zenon DEF FeedInv
  <2>3. DOMAIN req[r] = DOMAIN Blank
    BY <1>1, Zenon DEF RequestOK
  <2>4. /\ new.at = "clock" /\ new.row = row /\ DOMAIN new = DOMAIN Blank
        /\ new.client = req[r].client /\ new.since = req[r].since
        /\ new.rows = req[r].rows /\ new.batches = req[r].batches
    BY <2>3 DEF Blank
  <2> HIDE DEF new
  <2>5. ~At(r, "limit")' /\ ~At(r, "new")' /\ ~At(r, "snapshot")'
    BY <2>2, <2>4 DEF At
  <2>6. RequestOK(r)'
    BY <1>1, <1>2, <1>3, <1>5, <2>2, <2>4, <2>5, Zenon DEF RequestOK
  <2> QED BY <1>1, <2>2, <2>6, OneRequest, Zenon
<1> QED BY <1>4, <1>5, Zenon

(* The instant a request reads is one since it arrived. *)
LEMMA ReadClockKeeps ==
    ASSUME FeedInv, NEW r \in Callers, ReadClock(r)
    PROVE  FeedInv'
<1> DEFINE new == [req[r] EXCEPT !.at = "snapshot", !.now = clock]
<1>1. /\ clock' = clock /\ row' = row /\ records' = records /\ call' = call
      /\ DOMAIN call' = Callers /\ \A q \in Callers \ {r} : call'[q] = call[q]
      /\ RequestOK(r) /\ At(r, "clock")
  BY Zenon DEF ReadClock, stateVars, limiterVars, FeedInv
<1>2. ~At(r, "limit") /\ ~At(r, "new")
  BY <1>1 DEF At
<1>3. req' = [req EXCEPT ![r] = new] /\ req'[r] = new
  BY Zenon DEF ReadClock, FeedInv
<1>4. /\ DOMAIN req[r] = DOMAIN Blank /\ call[r] = NotCalling
      /\ req[r].row \in req[r].rows \ {NoRow} /\ req[r].since \in 0..clock
  BY <1>1, <1>2, Zenon DEF RequestOK
<1>5. /\ new.at = "snapshot" /\ new.row = req[r].row /\ DOMAIN new = DOMAIN Blank
      /\ new.client = req[r].client /\ new.since = req[r].since /\ new.now = clock
      /\ new.rows = req[r].rows /\ new.batches = req[r].batches
  BY <1>4 DEF Blank
<1> HIDE DEF new
<1>6. At(r, "snapshot")' /\ ~At(r, "limit")' /\ ~At(r, "new")'
  BY <1>3, <1>5 DEF At
<1>7. clock \in req[r].since..clock
  <2>1. clock \in Nat
    BY MaxTimeAssumption DEF FeedInv
  <2> QED BY <1>4, <2>1
<1>8. RequestOK(r)'
  BY <1>1, <1>2, <1>3, <1>4, <1>5, <1>6, <1>7, Zenon DEF RequestOK
<1> QED BY <1>1, <1>3, <1>8, OneRequest, Zenon

(* The list a request takes to the limiter is one it may have published, and is not
   the one the client has. *)
LEMMA SnapshotKeeps ==
    ASSUME FeedInv, NEW r \in Callers, Snapshot(r)
    PROVE  FeedInv'
<1>1. At(r, "snapshot")
  BY Zenon DEF Snapshot
<1>2. ~At(r, "limit") /\ ~At(r, "new")
  BY <1>1 DEF At
<1> DEFINE list == Published[req[r].row][records][req[r].now]
<1>3. /\ clock' = clock /\ row' = row /\ records' = records
      /\ RequestOK(r) /\ At(r, "snapshot") /\ Send(r, list, req[r].tag = list)
  BY Zenon DEF Snapshot, stateVars, FeedInv
<1>4. call[r] = NotCalling /\ clock \in Nat
  BY <1>3, <1>2, MaxTimeAssumption DEF RequestOK, FeedInv
<1>5. list \in Possible(r)
  <2>1. /\ req[r].row \in req[r].rows \ {NoRow} /\ records \in req[r].batches
        /\ req[r].now \in req[r].since..clock
    BY <1>3, <1>2, Zenon DEF RequestOK
  <2> QED BY <2>1, InPossible, Zenon
<1> HIDE DEF list
<1>6. CASE req[r].tag = list
  <2>1. Reply(r) /\ call' = call
    BY <1>3, <1>6, Zenon DEF Send, limiterVars
  <2>2. DOMAIN call' = Callers /\ \A q \in Callers \ {r} : call'[q] = call[q]
    BY <2>1, Zenon DEF FeedInv
  <2> QED BY <1>3, <1>4, <2>1, <2>2, ReplyKeeps, Zenon
<1>7. CASE req[r].tag # list
  <2> DEFINE new == [req[r] EXCEPT !.at = "limit", !.list = list, !.row = NoRow, !.now = 0]
  <2>1. /\ req' = [req EXCEPT ![r].at = "limit", ![r].list = list, ![r].row = NoRow,
                             ![r].now = 0]
        /\ Arrive(r, req[r].client)
    BY <1>3, <1>7, Zenon DEF Send
  <2>2. req' = [req EXCEPT ![r] = new] /\ req'[r] = new
    BY <2>1, Zenon DEF FeedInv
  <2>3. DOMAIN req[r] = DOMAIN Blank /\ req[r].client \in Ips
    BY <1>3, <1>2, Zenon DEF RequestOK
  <2>4. /\ new.at = "limit" /\ new.list = list /\ DOMAIN new = DOMAIN Blank
        /\ new.client = req[r].client /\ new.since = req[r].since /\ new.tag = req[r].tag
        /\ new.rows = req[r].rows /\ new.batches = req[r].batches
    BY <2>3 DEF Blank
  <2> HIDE DEF new
  <2>5. At(r, "limit")' /\ ~At(r, "new")' /\ ~At(r, "clock")' /\ ~At(r, "snapshot")'
    BY <2>2, <2>4 DEF At
  <2>6. /\ DOMAIN call' = Callers /\ \A q \in Callers \ {r} : call'[q] = call[q]
        /\ call'[r] = [ip |-> req[r].client, now |-> clock]
    BY <2>1, Zenon DEF Arrive, FeedInv
  <2>7. call'[r] # NotCalling
    <3>1. [ip |-> req[r].client, now |-> clock] \in [ip : Ips, now : Nat]
      BY <1>4, <2>3
    <3> QED BY <2>6, <3>1, NotCallingAssumption, Zenon
  <2>8. Possible(r)' = Possible(r)
    BY <1>3, <2>2, <2>4 DEF Possible
  <2>9. RequestOK(r)'
    BY <1>3, <1>2, <1>5, <1>7, <2>2, <2>4, <2>5, <2>7, <2>8, Zenon DEF RequestOK
  <2> QED BY <1>3, <2>2, <2>6, <2>9, OneRequest, Zenon
<1> QED BY <1>6, <1>7, Zenon

(* The limiter's answer, either way, ends the request. *)
LEMMA AnswerKeeps ==
    ASSUME FeedInv, NEW r \in Callers, Serve(r) \/ Throttle(r)
    PROVE  FeedInv'
<1>1. /\ clock' = clock /\ row' = row /\ records' = records /\ Reply(r)
      /\ call' = [call EXCEPT ![r] = NotCalling]
  BY Zenon DEF Serve, Throttle, Allow, Reject, stateVars
<1>2. /\ DOMAIN call' = Callers /\ \A q \in Callers \ {r} : call'[q] = call[q]
      /\ call'[r] = NotCalling
  BY <1>1, Zenon DEF FeedInv
<1> QED BY <1>1, <1>2, ReplyKeeps, Zenon

(* A request that is given up has not called the limiter. *)
LEMMA GiveUpKeeps ==
    ASSUME FeedInv, NEW r \in Callers, GiveUp(r)
    PROVE  FeedInv'
<1>1. /\ clock' = clock /\ row' = row /\ records' = records /\ call' = call
      /\ DOMAIN call' = Callers /\ \A q \in Callers \ {r} : call'[q] = call[q]
      /\ Reply(r) /\ RequestOK(r)
  BY Zenon DEF GiveUp, stateVars, limiterVars, FeedInv
<1>2. ~At(r, "limit")
  BY DEF GiveUp, At
<1>3. call'[r] = NotCalling
  BY <1>1, <1>2, Zenon DEF RequestOK
<1> QED BY <1>1, <1>3, ReplyKeeps, Zenon

(* Every request under way knows of the row and the records that a write leaves. *)
LEMMA WriteKeeps ==
    ASSUME FeedInv, NEW rw \in Rows \cup {NoRow}, NEW recs \in Batches \cup {{}},
           Write(rw, recs)
    PROVE  FeedInv'
<1>1. /\ row' = rw /\ records' = recs /\ clock' = clock /\ call' = call
      /\ req' = [r \in Callers |->
                   IF At(r, "new") THEN req[r]
                   ELSE [req[r] EXCEPT !.rows = @ \cup {rw}, !.batches = @ \cup {recs}]]
  BY Zenon DEF Write, limiterVars
<1>0. /\ DOMAIN call = Callers /\ clock \in 0..MaxTime
      /\ \A r \in Callers : RequestOK(r)
  BY Zenon DEF FeedInv
<1>2. clock' \in 0..MaxTime /\ clock <= clock'
  <2>1. clock' = clock
    BY <1>1, Zenon
  <2> QED BY <1>0, <2>1, MaxTimeAssumption
<1>3. ASSUME NEW r \in Callers PROVE RequestOK(r)'
  <2>1. DOMAIN req[r] = DOMAIN Blank /\ call'[r] = call[r]
    BY <1>0, <1>1, Zenon DEF RequestOK
  <2>2. CASE At(r, "new")
    <3>1. req'[r] = req[r]
      BY <1>1, <2>2, Zenon
    <3> QED BY <1>2, <2>1, <2>2, <3>1, RequestKept, Zenon
  <2>3. CASE ~At(r, "new")
    <3>1. req'[r] = [req[r] EXCEPT !.rows = @ \cup {rw}, !.batches = @ \cup {recs}]
      BY <1>1, <2>3, Zenon
    <3>2. /\ DOMAIN req'[r] = DOMAIN Blank
          /\ \A f \in {"at", "client", "tag", "row", "now", "list", "since"} :
                 req'[r][f] = req[r][f]
          /\ req'[r].rows = req[r].rows \cup {rw}
          /\ req'[r].batches = req[r].batches \cup {recs}
      BY <2>1, <3>1 DEF Blank
    <3> QED BY <1>1, <1>2, <2>1, <3>2, RequestKept, Zenon
  <2> QED BY <2>2, <2>3, Zenon
<1>4. DOMAIN req' = Callers
  BY <1>1, Zenon
<1> QED BY <1>0, <1>1, <1>2, <1>3, <1>4, Zenon DEF FeedInv

(* The endpoint exists and nobody has asked for its list yet. *)
LEMMA FeedInitKeeps == FeedInit => FeedInv
<1> SUFFICES ASSUME FeedInit PROVE FeedInv
  BY Zenon
<1>1. /\ clock = 0 /\ row \in Rows /\ records \in Batches
      /\ req = [r \in Callers |-> Blank] /\ call = [c \in Callers |-> NotCalling]
  BY Zenon DEF FeedInit, Init
<1>2. clock \in 0..MaxTime
  BY <1>1, MaxTimeAssumption
<1>3. ASSUME NEW r \in Callers PROVE RequestOK(r)
  <2>1. req[r] = Blank /\ call[r] = NotCalling
    BY <1>1, Zenon
  <2>2. Blank.at = "new"
    BY DEF Blank
  <2>3. At(r, "new") /\ ~At(r, "clock") /\ ~At(r, "snapshot") /\ ~At(r, "limit")
    BY <2>1, <2>2 DEF At
  <2> QED BY <2>1, <2>3, Zenon DEF RequestOK
<1> QED BY <1>1, <1>2, <1>3, Zenon DEF FeedInv

(* A step that leaves the requests, the row and the records alone, as the clock's do. *)
LEMMA TickKeeps ==
    ASSUME FeedInv, clock' \in 0..MaxTime, clock <= clock', UNCHANGED <<row, records, req, call>>
    PROVE  FeedInv'
<1>1. row' = row /\ records' = records /\ req' = req /\ call' = call
  BY Zenon
<1>2. ASSUME NEW r \in Callers PROVE RequestOK(r)'
  <2>1. RequestOK(r)
    BY Zenon DEF FeedInv
  <2>2. DOMAIN req'[r] = DOMAIN Blank
    BY <1>1, <2>1, Zenon DEF RequestOK
  <2>3. ~At(r, "new") => row' \in req'[r].rows /\ records' \in req'[r].batches
    BY <1>1, <2>1, Zenon DEF RequestOK
  <2> QED BY <1>1, <2>2, <2>3, RequestKept, Zenon
<1> QED BY <1>1, <1>2, Zenon DEF FeedInv

(* Every step of a request, of an admin, of the worker and of the clock preserves the
   inductive invariant. *)
LEMMA FeedStepKeeps == FeedInv /\ [FeedNext]_feedVars => FeedInv'
<1> SUFFICES ASSUME FeedInv, [FeedNext]_feedVars PROVE FeedInv'
  BY Zenon
<1>0. clock \in 0..MaxTime
  BY Zenon DEF FeedInv
<1>1. CASE Tick /\ UNCHANGED <<stateVars, held, req>>
  <2>1. clock < MaxTime /\ clock' = clock + 1 /\ UNCHANGED <<row, records, req, call>>
    BY <1>1, Zenon DEF Tick, stateVars
  <2>2. clock' \in 0..MaxTime /\ clock <= clock'
    BY <1>0, <2>1, MaxTimeAssumption
  <2> QED BY <2>1, <2>2, TickKeeps, Zenon
<1>2. ASSUME NEW r \in Callers, NEW ip \in Ips, NEW tag \in held \cup {None}, Request(r, ip, tag)
      PROVE  FeedInv'
  BY <1>2, RequestKeeps, Zenon
<1>3. ASSUME NEW r \in Callers,
             \/ ReadRow(r) \/ ReadClock(r) \/ Snapshot(r)
             \/ Serve(r) \/ Throttle(r) \/ GiveUp(r)
      PROVE  FeedInv'
  BY <1>3, ReadRowKeeps, ReadClockKeeps, SnapshotKeeps, AnswerKeeps, GiveUpKeeps, Zenon
<1>4. ASSUME NEW rw \in Rows \cup {NoRow}, Edit(rw) PROVE FeedInv'
  <2>1. Write(rw, records) /\ records \in Batches \cup {{}}
    BY <1>4, Zenon DEF Edit, FeedInv
  <2> QED BY <2>1, WriteKeeps, Zenon
<1>5. ASSUME NEW recs \in Batches, Sync(recs) PROVE FeedInv'
  <2>1. Write(row, recs) /\ row \in Rows \cup {NoRow} /\ recs \in Batches \cup {{}}
    BY <1>5, Zenon DEF Sync, FeedInv
  <2> QED BY <2>1, WriteKeeps, Zenon
<1>6. CASE Evict
  <2>1. Write(row, {}) /\ row \in Rows \cup {NoRow} /\ {} \in Batches \cup {{}}
    BY <1>6, Zenon DEF Evict, FeedInv
  <2> QED BY <2>1, WriteKeeps, Zenon
<1>7. CASE UNCHANGED feedVars
  <2>1. clock' = clock /\ UNCHANGED <<row, records, req, call>>
    BY <1>7, Zenon DEF feedVars, stateVars, limiterVars
  <2>2. clock' \in 0..MaxTime /\ clock <= clock'
    BY <1>0, <2>1, MaxTimeAssumption
  <2> QED BY <2>1, <2>2, TickKeeps, Zenon
<1> QED BY <1>1, <1>2, <1>3, <1>4, <1>5, <1>6, <1>7, Zenon DEF FeedNext

(* The feed's inductive invariant holds in every reachable state, for every number of
   requests, every row, every batch of records and every capacity of the limiter: what
   serve_feed holds at an await is a row and an instant, or a list made of a row, an
   instant and records, that there were since the request arrived. *)
THEOREM FeedInvariant == FeedSpec => []FeedInv
<1> QED BY FeedInitKeeps, FeedStepKeeps, PTL DEF FeedSpec

(* At every instant the list serve_feed would make covers exactly the addresses of the
   records inside the window that touch no excluded range, and none twice, for any
   address width, any ranges and any networks. *)
THEOREM ListsAreRight == FeedSpec => []PublishesWhatIsLeft
<1>1. FeedInv => PublishesWhatIsLeft
  <2> SUFFICES ASSUME FeedInv, row # NoRow
               PROVE  LET list == Published[row][records][clock]
                          out  == UNION {Cover(Excluded[flag]) : flag \in row.flags}
                          kept == {rec \in records :
                                     /\ row.max_age_seconds = 0
                                          \/ clock - rec.last_seen_at <= row.max_age_seconds
                                     /\ Hosts(rec.network) \cap out = {}}
                      IN  /\ Cover(list) = UNION {Hosts(rec.network) : rec \in kept}
                          /\ \A m, n \in list : m # n => Hosts(m) \cap Hosts(n) = {}
    BY Zenon DEF PublishesWhatIsLeft
  <2>1. row \in Rows /\ records \in Batches \cup {{}} /\ clock \in 0..MaxTime
    BY Zenon DEF FeedInv
  <2> QED BY <2>1, ListIsWhatIsLeft, Zenon
<1> QED BY <1>1, FeedInvariant, PTL

(* What a 200 carries was made during the request, whatever an admin and the worker did
   between its awaits. *)
THEOREM ServedListsWerePublished == FeedSpec => ServedWasPublished
<1>1. FeedInv => (\A r \in Callers : Serve(r) => req[r].list \in Possible(r))
  BY Zenon DEF FeedInv, RequestOK, Serve
<1>2. FeedInv /\ [FeedNext]_feedVars
        => [\A r \in Callers : Serve(r) => req[r].list \in Possible(r)]_feedVars
  BY <1>1, Zenon
<1> QED BY <1>2, FeedInvariant, PTL DEF FeedSpec, ServedWasPublished

(* A 429 goes to no client for which nothing but the list it holds was ever current
   during the request. *)
THEOREM RevalidationIsFree == FeedSpec => RefusedOnlyForNews
<1>1. FeedInv => (\A r \in Callers : Throttle(r) => Possible(r) # {req[r].tag})
  BY Zenon DEF FeedInv, RequestOK, Throttle
<1>2. FeedInv /\ [FeedNext]_feedVars
        => [\A r \in Callers : Throttle(r) => Possible(r) # {req[r].tag}]_feedVars
  BY <1>1, Zenon
<1> QED BY <1>2, FeedInvariant, PTL DEF FeedSpec, RefusedOnlyForNews

(* The feed implements the limiter: every step of a request is a step of one caller of
   check_and_record, or none, so what holds of the limiter by itself, however it is
   called, holds of the limiter inside the feed. *)
THEOREM FeedUsesTheLimiter == FeedSpec => Spec
<1>1. FeedInit => Init
  BY Zenon DEF FeedInit
<1>2. FeedInv /\ [FeedNext]_feedVars => [Next]_vars
  <2> SUFFICES ASSUME FeedInv, [FeedNext]_feedVars PROVE [Next]_vars
    BY Zenon
  <2>1. CASE Tick /\ UNCHANGED <<stateVars, held, req>>
    BY <2>1, Zenon DEF Next
  <2>2. ASSUME NEW r \in Callers, NEW ip \in Ips, NEW tag \in held \cup {None},
               Request(r, ip, tag)
        PROVE  UNCHANGED vars
    BY <2>2, Zenon DEF Request, limiterVars, vars
  <2>3. ASSUME NEW r \in Callers, ReadRow(r) \/ ReadClock(r) \/ GiveUp(r) PROVE UNCHANGED vars
    BY <2>3, Zenon DEF ReadRow, ReadClock, GiveUp, limiterVars, vars
  <2>4. ASSUME NEW r \in Callers, Snapshot(r) PROVE [Next]_vars
    <3>1. clock' = clock /\ At(r, "snapshot")
          /\ (UNCHANGED limiterVars \/ Arrive(r, req[r].client))
      BY <2>4, Zenon DEF Snapshot, Send
    <3>2. CASE UNCHANGED limiterVars
      BY <3>1, <3>2, Zenon DEF limiterVars, vars
    <3>3. CASE Arrive(r, req[r].client)
      <4>1. ~At(r, "new")
        BY <3>1 DEF At
      <4>2. req[r].client \in Ips
        BY <4>1, Zenon DEF FeedInv, RequestOK
      <4> QED BY <3>3, <4>2, Zenon DEF Next
    <3> QED BY <3>1, <3>2, <3>3, Zenon
  <2>5. ASSUME NEW r \in Callers, Serve(r) \/ Throttle(r) PROVE Next
    BY <2>5, Zenon DEF Serve, Throttle, Next
  <2>6. ASSUME NEW rw, NEW recs, Write(rw, recs) PROVE UNCHANGED vars
    BY <2>6, Zenon DEF Write, limiterVars, vars
  <2>7. ASSUME (\E rw \in Rows \cup {NoRow} : Edit(rw)) \/ (\E recs \in Batches : Sync(recs)) \/ Evict
        PROVE  UNCHANGED vars
    BY <2>6, <2>7, Zenon DEF Edit, Sync, Evict
  <2>8. CASE UNCHANGED feedVars
    BY <2>8, Zenon DEF feedVars, limiterVars, vars
  <2> QED BY <2>1, <2>2, <2>3, <2>4, <2>5, <2>7, <2>8, Zenon DEF FeedNext
<1> QED BY <1>1, <1>2, FeedInvariant, PTL DEF FeedSpec, Spec

(* Inside the feed, too, the limiter's memory is bounded, the requests of an address
   that it lets through are a window apart, and no address is banned. *)
THEOREM FeedIsLimited == FeedSpec => [](MemoryBounded /\ AllowedSpaced /\ NoBan)
<1> QED BY FeedUsesTheLimiter, MemoryIsBounded, SpacingIsEnforced, NobodyIsBanned, PTL

=============================================================================
