------------------------ MODULE SignedRequestProofs ------------------------
(***************************************************************************)
(* The replay guard for any number of signatures and requests, any window  *)
(* and any schedule; then signed requests through the guard: what it       *)
(* promises is carried over, and combined with the timestamp.              *)
(***************************************************************************)
EXTENDS SignedRequest, TLAPS

ReadFromClock ==
    \A c \in Callers : call[c] # NotCalling => call[c].now <= clock

\* The last acceptance of a signature is in the map, or has expired.
LastIsKept ==
    \A s \in Sigs : accepted[s] # << >> =>
        LET expiry == accepted[s][Len(accepted[s])].now + WINDOW
        IN  IF s \in DOMAIN seen THEN seen[s] = expiry ELSE expiry <= clock

\* The acceptances before it have expired.
EarlierExpired ==
    \A s \in Sigs : \A i \in 1..(Len(accepted[s]) - 1) :
        accepted[s][i].now + WINDOW <= clock

\* The schedule follows the sweeps made.
ScheduleFollows ==
    /\ sweeps # << >> => next = sweeps[Len(sweeps)].now + PRUNE_INTERVAL
    /\ \A i \in DOMAIN sweeps :
          sweeps[i].full => sweeps[i].now + CAPACITY_BACKOFF <= next_capacity

\* The inductive invariant.
IInv ==
    /\ TypeOK
    /\ ReadFromClock
    /\ LastIsKept
    /\ EarlierExpired
    /\ SingleUse
    /\ ScheduleFollows
    /\ SweepsSpaced

-----------------------------------------------------------------------------

(* What a caller holds inside check_and_record. *)
LEMMA CallType ==
    ASSUME TypeOK, NEW c \in Callers, call[c] # NotCalling
    PROVE  call[c] \in Call
BY Zenon DEF TypeOK

(* The invariant holds at the start. *)
LEMMA InitIsInductive == Init => IInv
<1> SUFFICES ASSUME Init PROVE IInv
  BY Zenon
<1> USE ScheduleAssumption DEF Init
<1>1. TypeOK
  BY DEF TypeOK
<1>2. ReadFromClock /\ LastIsKept /\ EarlierExpired
  BY DEF ReadFromClock, LastIsKept, EarlierExpired
<1>3. SingleUse /\ ScheduleFollows /\ SweepsSpaced
  BY DEF SingleUse, ScheduleFollows, SweepsSpaced
<1> QED BY <1>1, <1>2, <1>3, Zenon DEF IInv

(* Every step keeps the types. *)
LEMMA TypesPreserved == TypeOK /\ [Next]_vars => TypeOK'
<1> SUFFICES ASSUME TypeOK, [Next]_vars PROVE TypeOK'
  BY Zenon
<1> USE WindowAssumption, ScheduleAssumption DEF TypeOK
<1>1. CASE Tick
  BY <1>1 DEF Tick, schedule
<1>2. CASE \E c \in Callers, sig \in Sigs : Arrive(c, sig)
  <2>1. PICK c \in Callers, sig \in Sigs : Arrive(c, sig)
    BY <1>2, Zenon
  <2>2. [at |-> "measure", sig |-> sig, now |-> clock, over |-> FALSE] \in Call
    BY Zenon DEF Call
  <2>3. call' \in [Callers -> Call \cup {NotCalling}]
    BY <2>1, <2>2, Zenon DEF Arrive
  <2>4. calls' \in Nat
    BY <2>1 DEF Arrive
  <2> QED BY <2>1, <2>3, <2>4, Zenon DEF Arrive, schedule
<1>3. ASSUME NEW c \in Callers, Measure(c) PROVE TypeOK'
  <2>1. call[c] \in Call
    BY <1>3, CallType, Zenon DEF Measure, At
  <2>2. Full(DOMAIN seen) \in BOOLEAN
    BY DEF Full
  <2>3. call' \in [Callers -> Call \cup {NotCalling}]
    BY <1>3, <2>1, <2>2, Zenon DEF Measure, Call
  <2> QED BY <1>3, <2>3, Zenon DEF Measure, schedule
<1>4. ASSUME NEW c \in Callers, ScheduleSweep(c) PROVE TypeOK'
  <2>1. call[c] \in Call
    BY <1>4, CallType, Zenon DEF ScheduleSweep, At
  <2>2. call' \in [Callers -> Call \cup {NotCalling}]
    BY <1>4, <2>1, Zenon DEF ScheduleSweep, Goto, Call
  <2>3. CapacityDue(c) \in BOOLEAN
    BY <2>1, Zenon DEF CapacityDue, Call
  <2>4. next' \in Nat /\ next_capacity' \in Nat
    BY <1>4, <2>1 DEF ScheduleSweep, Call
  <2>5. sweeps' \in Seq(Sweep)
    <3>1. [now |-> call[c].now, full |-> CapacityDue(c)] \in Sweep
      BY <2>1, <2>3, Zenon DEF Call, Sweep
    <3> QED BY <1>4, <3>1 DEF ScheduleSweep
  <2> QED BY <1>4, <2>2, <2>4, <2>5, Zenon DEF ScheduleSweep
<1>5. ASSUME NEW c \in Callers, SkipSweep(c) PROVE TypeOK'
  BY <1>5, CallType, ZenonT(60) DEF SkipSweep, At, Goto, Call, schedule
<1>6. ASSUME NEW c \in Callers, Prune(c) PROVE TypeOK'
  <2>1. call[c] \in Call
    BY <1>6, CallType, Zenon DEF Prune, At
  <2>2. call' \in [Callers -> Call \cup {NotCalling}]
    BY <1>6, <2>1, Zenon DEF Prune, Goto, Call
  <2>3. seen' \in [DOMAIN seen' -> Nat] /\ DOMAIN seen' \subseteq Sigs
    BY <1>6, Zenon DEF Prune, Live
  <2> QED BY <1>6, <2>2, <2>3, Zenon DEF Prune, schedule
<1>7. ASSUME NEW c \in Callers, Reject(c) PROVE TypeOK'
  BY <1>7, Zenon DEF Reject, schedule
<1>8. ASSUME NEW c \in Callers, Accept(c) PROVE TypeOK'
  <2>1. call[c] \in Call
    BY <1>8, CallType, Zenon DEF Accept, At
  <2>2. seen' \in [DOMAIN seen' -> Nat] /\ DOMAIN seen' \subseteq Sigs
    <3>1. call[c].sig \in Sigs /\ call[c].now + WINDOW \in Nat
      BY <2>1, SMTT(30) DEF Call
    <3>2. \A s \in DOMAIN seen : seen[s] \in Nat
      BY Zenon
    <3> QED BY <1>8, <3>1, <3>2, Zenon DEF Accept
  <2>3. accepted' \in [Sigs -> Seq(Acceptance)]
    BY <1>8, <2>1 DEF Accept, Call, Acceptance
  <2> QED BY <1>8, <2>2, <2>3, Zenon DEF Accept, schedule
<1>9. CASE UNCHANGED vars
  BY <1>9, Zenon DEF vars, schedule
<1> QED BY <1>1, <1>2, <1>3, <1>4, <1>5, <1>6, <1>7, <1>8, <1>9, Zenon DEF Next

(* A caller's instant is never ahead of the clock. *)
LEMMA InstantsPreserved == TypeOK /\ ReadFromClock /\ [Next]_vars => ReadFromClock'
<1> SUFFICES ASSUME TypeOK, ReadFromClock, [Next]_vars PROVE ReadFromClock'
  BY Zenon
<1> USE DEF TypeOK, ReadFromClock
<1>1. CASE Tick
  <2> SUFFICES ASSUME NEW c \in Callers, call'[c] # NotCalling PROVE call'[c].now <= clock'
    BY Zenon
  <2>1. call[c].now \in Nat /\ call[c].now <= clock
    BY <1>1, CallType, Zenon DEF Tick, Call
  <2> QED BY <1>1, <2>1 DEF Tick
<1>2. CASE \E c \in Callers, sig \in Sigs : Arrive(c, sig)
  BY <1>2 DEF Arrive
<1>3. ASSUME NEW c \in Callers, Measure(c) PROVE ReadFromClock'
  BY <1>3, CallType, Zenon DEF Measure, At, Call
<1>4. ASSUME NEW c \in Callers, ScheduleSweep(c) \/ SkipSweep(c) \/ Prune(c)
      PROVE  ReadFromClock'
  <2>1. call[c] # NotCalling /\ clock' = clock
    BY <1>4, Zenon DEF ScheduleSweep, SkipSweep, Prune, At
  <2>2. call[c] \in Call
    BY <2>1, CallType, Zenon
  <2>3. PICK where : call' = [call EXCEPT ![c].at = where]
    BY <1>4, Zenon DEF ScheduleSweep, SkipSweep, Prune, Goto
  <2>4. call'[c].now = call[c].now
    BY <2>2, <2>3, Zenon DEF Call
  <2>5. \A d \in Callers : d # c => call'[d] = call[d]
    BY <2>3, Zenon
  <2> QED BY <2>1, <2>4, <2>5, Zenon
<1>5. ASSUME NEW c \in Callers, Reject(c) \/ Accept(c) PROVE ReadFromClock'
  BY <1>5, Zenon DEF Reject, Accept
<1>6. CASE UNCHANGED vars
  BY <1>6, Zenon DEF vars
<1> QED BY <1>1, <1>2, <1>3, <1>4, <1>5, <1>6, Zenon DEF Next

(* What the history of a signature holds. *)
LEMMA AcceptanceType ==
    ASSUME TypeOK, NEW s \in Sigs
    PROVE  /\ accepted[s] \in Seq(Acceptance)
           /\ Len(accepted[s]) \in Nat
           /\ DOMAIN accepted[s] = 1..Len(accepted[s])
           /\ accepted[s] # << >> => Len(accepted[s]) \in 1..Len(accepted[s])
           /\ \A i \in 1..Len(accepted[s]) :
                 accepted[s][i].now \in Nat /\ accepted[s][i].at \in Nat
<1>1. accepted[s] \in Seq(Acceptance)
  BY Zenon DEF TypeOK
<1>2. /\ Len(accepted[s]) \in Nat /\ DOMAIN accepted[s] = 1..Len(accepted[s])
      /\ accepted[s] # << >> => Len(accepted[s]) \in 1..Len(accepted[s])
      /\ \A i \in 1..Len(accepted[s]) : accepted[s][i] \in Acceptance
  BY <1>1
<1> QED BY <1>1, <1>2, Zenon DEF Acceptance

(* Acceptances keep a window's distance: a signature is accepted again only if
   its entry has expired or was swept, which takes an instant past its expiry. *)
LEMMA UsePreserved ==
    IInv /\ [Next]_vars => LastIsKept' /\ EarlierExpired' /\ SingleUse'
<1> SUFFICES ASSUME IInv, [Next]_vars
             PROVE  LastIsKept' /\ EarlierExpired' /\ SingleUse'
  BY Zenon
<1> USE WindowAssumption
<1>t. /\ TypeOK
      /\ clock \in Nat /\ DOMAIN seen \subseteq Sigs /\ seen \in [DOMAIN seen -> Nat]
      /\ accepted \in [Sigs -> Seq(Acceptance)]
  BY Zenon DEF IInv, TypeOK
<1>1. ASSUME UNCHANGED <<seen, accepted>>, clock' \in Nat, clock' >= clock
      PROVE  LastIsKept' /\ EarlierExpired' /\ SingleUse'
  <2>1. LastIsKept'
    <3> SUFFICES ASSUME NEW s \in Sigs, accepted[s] # << >>
                 PROVE  LET expiry == accepted[s][Len(accepted[s])].now + WINDOW
                        IN  IF s \in DOMAIN seen THEN seen[s] = expiry ELSE expiry <= clock'
      BY <1>1, Zenon DEF LastIsKept
    <3>1. accepted[s][Len(accepted[s])].now \in Nat
      BY <1>t, AcceptanceType, Zenon
    <3> QED BY <1>t, <1>1, <3>1 DEF IInv, LastIsKept
  <2>2. EarlierExpired'
    <3> SUFFICES ASSUME NEW s \in Sigs, NEW i \in 1..(Len(accepted[s]) - 1)
                 PROVE  accepted[s][i].now + WINDOW <= clock'
      BY <1>1, Zenon DEF EarlierExpired
    <3>1. Len(accepted[s]) \in Nat
      BY <1>t, AcceptanceType, Zenon
    <3>2. accepted[s][i].now \in Nat
      BY <1>t, <3>1, AcceptanceType
    <3> QED BY <1>t, <1>1, <3>2 DEF IInv, EarlierExpired
  <2> QED BY <1>1, <2>1, <2>2, Zenon DEF IInv, SingleUse
<1>2. CASE Tick
  BY <1>t, <1>1, <1>2 DEF Tick
<1>3. ASSUME NEW c \in Callers,
             \/ \E sig \in Sigs : Arrive(c, sig)
             \/ Measure(c) \/ ScheduleSweep(c) \/ SkipSweep(c) \/ Reject(c)
      PROVE  LastIsKept' /\ EarlierExpired' /\ SingleUse'
  BY <1>t, <1>1, <1>3 DEF Arrive, Measure, ScheduleSweep, SkipSweep, Reject
<1>4. ASSUME NEW c \in Callers, Prune(c)
      PROVE  LastIsKept' /\ EarlierExpired' /\ SingleUse'
  <2>1. call[c].now \in Nat /\ call[c].now <= clock
    BY <1>4, CallType, Zenon DEF IInv, ReadFromClock, Prune, At, Call
  <2>2. LastIsKept'
    <3> SUFFICES ASSUME NEW s \in Sigs, accepted[s] # << >>
                 PROVE  LET expiry == accepted[s][Len(accepted[s])].now + WINDOW
                        IN  IF s \in DOMAIN seen' THEN seen'[s] = expiry ELSE expiry <= clock
      BY <1>4, Zenon DEF LastIsKept, Prune
    <3>1. accepted[s][Len(accepted[s])].now \in Nat
      BY <1>t, AcceptanceType, Zenon
    <3>2. CASE s \in DOMAIN seen /\ seen[s] > call[c].now
      BY <1>4, <3>2, Zenon DEF IInv, LastIsKept, Prune, Live
    <3>3. CASE s \in DOMAIN seen /\ ~(seen[s] > call[c].now)
      BY <1>t, <1>4, <2>1, <3>1, <3>3 DEF IInv, LastIsKept, Prune, Live
    <3>4. CASE s \notin DOMAIN seen
      BY <1>4, <3>4, Zenon DEF IInv, LastIsKept, Prune, Live
    <3> QED BY <3>2, <3>3, <3>4, Zenon
  <2> QED BY <1>4, <2>2, Zenon DEF IInv, EarlierExpired, SingleUse, Prune
<1>5. ASSUME NEW c \in Callers, Accept(c)
      PROVE  LastIsKept' /\ EarlierExpired' /\ SingleUse'
  <2> DEFINE sig == call[c].sig
             now == call[c].now
             old == accepted[sig]
  <2>1. sig \in Sigs /\ now \in Nat /\ now <= clock
    BY <1>5, CallType, Zenon DEF IInv, ReadFromClock, Accept, At, Call
  <2>2. /\ accepted'[sig] = Append(old, [now |-> now, at |-> clock])
        /\ \A s \in Sigs : s # sig => accepted'[s] = accepted[s]
        /\ DOMAIN seen' = DOMAIN seen \cup {sig} /\ seen'[sig] = now + WINDOW
        /\ \A s \in DOMAIN seen : s # sig => seen'[s] = seen[s]
        /\ sig \in DOMAIN seen => seen[sig] <= now
        /\ clock' = clock
    <3>1. /\ accepted'[sig] = Append(old, [now |-> now, at |-> clock])
          /\ \A s \in Sigs : s # sig => accepted'[s] = accepted[s]
      BY <1>5, <1>t, <2>1, Zenon DEF Accept
    <3>2. /\ DOMAIN seen' = DOMAIN seen \cup {sig} /\ seen'[sig] = now + WINDOW
          /\ \A s \in DOMAIN seen : s # sig => seen'[s] = seen[s]
      BY <1>5, Zenon DEF Accept
    <3>3. ASSUME sig \in DOMAIN seen PROVE seen[sig] <= now
      <4>1. ~(seen[sig] > now)
        BY <1>5, <3>3, Zenon DEF Accept, Used
      <4>2. seen[sig] \in Nat
        BY <1>t, <3>3, Zenon
      <4> QED BY <2>1, <4>1, <4>2
    <3> QED BY <1>5, <3>1, <3>2, <3>3, Zenon DEF Accept
  <2>3. /\ old \in Seq(Acceptance) /\ Len(old) \in Nat /\ DOMAIN old = 1..Len(old)
        /\ \A i \in 1..Len(old) : old[i].now \in Nat
    BY <1>t, <2>1, AcceptanceType, Zenon
  <2> HIDE DEF sig, now, old
  <2>4. \A i \in 1..Len(old) : old[i].now + WINDOW <= clock
    <3> SUFFICES ASSUME NEW i \in 1..Len(old) PROVE old[i].now + WINDOW <= clock
      BY Zenon
    <3>1. CASE i < Len(old)
      <4>1. i \in 1..(Len(old) - 1)
        BY <2>3, <3>1
      <4> QED BY <2>1, <4>1, Zenon DEF IInv, EarlierExpired, old
    <3>2. CASE i = Len(old)
      <4>1. old # << >>
        BY <2>3, <3>2
      <4>2. IF sig \in DOMAIN seen THEN seen[sig] = old[i].now + WINDOW
                                   ELSE old[i].now + WINDOW <= clock
        BY <2>1, <3>2, <4>1, Zenon DEF IInv, LastIsKept, old
      <4>3. CASE sig \in DOMAIN seen
        <5>1. old[i].now + WINDOW <= now
          BY <2>2, <4>2, <4>3, Zenon
        <5>2. old[i].now + WINDOW \in Nat
          BY <2>3
        <5>3. clock \in Nat
          BY <1>t, Zenon
        <5> QED BY <2>1, <5>1, <5>2, <5>3
      <4> QED BY <4>2, <4>3, Zenon
    <3>3. Len(old) \in Nat
      BY <2>3, Zenon
    <3>4. i < Len(old) \/ i = Len(old)
      BY <3>3
    <3> QED BY <3>1, <3>2, <3>4, Zenon
  <2>5. /\ Len(accepted'[sig]) = Len(old) + 1
        /\ accepted'[sig][Len(old) + 1] = [now |-> now, at |-> clock]
        /\ \A i \in 1..Len(old) : accepted'[sig][i] = old[i]
        /\ DOMAIN accepted'[sig] = 1..(Len(old) + 1)
        /\ DOMAIN old = 1..Len(old)
    BY <2>2, <2>3
  <2>6. LastIsKept'
    <3> SUFFICES ASSUME NEW s \in Sigs, accepted'[s] # << >>
                 PROVE  LET expiry == accepted'[s][Len(accepted'[s])].now + WINDOW
                        IN  IF s \in DOMAIN seen' THEN seen'[s] = expiry ELSE expiry <= clock'
      BY Zenon DEF LastIsKept
    <3>1. CASE s = sig
      BY <2>2, <2>5, <3>1
    <3>2. CASE s # sig
      BY <2>2, <3>2, Zenon DEF IInv, LastIsKept
    <3> QED BY <3>1, <3>2, Zenon
  <2>7. EarlierExpired'
    <3> SUFFICES ASSUME NEW s \in Sigs, NEW i \in 1..(Len(accepted'[s]) - 1)
                 PROVE  accepted'[s][i].now + WINDOW <= clock'
      BY Zenon DEF EarlierExpired
    <3>1. CASE s = sig
      <4>1. i \in 1..Len(old)
        BY <2>3, <2>5, <3>1
      <4> QED BY <2>2, <2>4, <2>5, <3>1, <4>1, Zenon
    <3>2. CASE s # sig
      BY <2>2, <3>2, Zenon DEF IInv, EarlierExpired
    <3> QED BY <3>1, <3>2, Zenon
  <2>8. SingleUse'
    <3> SUFFICES ASSUME NEW s \in Sigs, NEW i \in DOMAIN accepted'[s],
                        NEW j \in DOMAIN accepted'[s], i < j
                 PROVE  accepted'[s][j].at >= accepted'[s][i].now + WINDOW
      BY Zenon DEF SingleUse
    <3>1. CASE s # sig
      BY <2>2, <3>1, Zenon DEF IInv, SingleUse
    <3>2. CASE s = sig /\ j = Len(old) + 1
      <4>1. i \in 1..Len(old)
        BY <2>3, <2>5, <3>2
      <4>2. accepted'[s][j].at = clock /\ accepted'[s][i].now = old[i].now
        BY <2>5, <3>2, <4>1
      <4> QED BY <1>t, <2>3, <2>4, <4>1, <4>2, Zenon
    <3>3. CASE s = sig /\ j # Len(old) + 1
      <4>1. i \in 1..Len(old) /\ j \in 1..Len(old)
        BY <2>3, <2>5, <3>3
      <4>2. old[j].at >= old[i].now + WINDOW
        BY <2>1, <2>5, <4>1, Zenon DEF IInv, SingleUse, old
      <4> QED BY <2>5, <3>3, <4>1, <4>2, Zenon
    <3> QED BY <3>1, <3>2, <3>3, Zenon
  <2> QED BY <2>6, <2>7, <2>8, Zenon
<1>6. CASE UNCHANGED vars
  BY <1>t, <1>1, <1>6 DEF vars
<1> QED BY <1>2, <1>3, <1>4, <1>5, <1>6, Zenon DEF Next

(* Sweeps keep their spacing: the caller that schedules one compares its instant
   with a schedule that the sweeps made before it have set. *)
LEMMA SweepsPreserved ==
    IInv /\ [Next]_vars => ScheduleFollows' /\ SweepsSpaced'
<1> SUFFICES ASSUME IInv, [Next]_vars PROVE ScheduleFollows' /\ SweepsSpaced'
  BY Zenon
<1> USE ScheduleAssumption
<1>1. ASSUME UNCHANGED <<schedule, sweeps>> PROVE ScheduleFollows' /\ SweepsSpaced'
  BY <1>1, Zenon DEF IInv, ScheduleFollows, SweepsSpaced, schedule
<1>2. ASSUME NEW c \in Callers, ScheduleSweep(c) PROVE ScheduleFollows' /\ SweepsSpaced'
  <2> DEFINE n == Len(sweeps) + 1
             now == call[c].now
             full == CapacityDue(c)
  <2>1. /\ now \in Nat /\ full \in BOOLEAN
        /\ next \in Nat /\ next_capacity \in Nat
    <3>1. call[c] \in Call
      BY <1>2, CallType, Zenon DEF IInv, ScheduleSweep, At
    <3> QED BY <3>1, Zenon DEF IInv, TypeOK, Call, CapacityDue
  <2>2. /\ Len(sweeps) \in Nat /\ DOMAIN sweeps = 1..Len(sweeps)
        /\ \A i \in 1..Len(sweeps) : sweeps[i].now \in Nat
    <3>1. sweeps \in Seq(Sweep)
      BY Zenon DEF IInv, TypeOK
    <3>2. Len(sweeps) \in Nat /\ DOMAIN sweeps = 1..Len(sweeps)
      BY <3>1
    <3>3. \A i \in 1..Len(sweeps) : sweeps[i] \in Sweep
      BY <3>1
    <3> QED BY <3>2, <3>3, Zenon DEF Sweep
  <2>3. /\ DOMAIN sweeps' = 1..n /\ Len(sweeps') = n /\ sweeps' # << >>
        /\ sweeps'[n] = [now |-> now, full |-> full]
        /\ \A i \in 1..Len(sweeps) : sweeps'[i] = sweeps[i]
    <3>1. sweeps \in Seq(Sweep)
      BY Zenon DEF IInv, TypeOK
    <3>2. sweeps' = Append(sweeps, [now |-> now, full |-> full])
      BY <1>2, Zenon DEF ScheduleSweep
    <3>3. [now |-> now, full |-> full] \in Sweep
      BY <2>1, Zenon DEF Sweep
    <3> QED BY <3>1, <3>2, <3>3
  <2>4. next' = now + PRUNE_INTERVAL
    BY <1>2, Zenon DEF ScheduleSweep
  <2>5. /\ full => now >= next_capacity /\ next_capacity' = now + CAPACITY_BACKOFF
        /\ ~full => now >= next /\ next_capacity' = next_capacity
    BY <1>2, Zenon DEF ScheduleSweep, RoutineDue, CapacityDue
  <2>6. /\ sweeps # << >> => next = sweeps[Len(sweeps)].now + PRUNE_INTERVAL
        /\ \A i \in 1..Len(sweeps) :
              sweeps[i].full => sweeps[i].now + CAPACITY_BACKOFF <= next_capacity
    BY <2>2, Zenon DEF IInv, ScheduleFollows
  <2> HIDE DEF now, full
  <2>7. ScheduleFollows'
    <3>1. next' = sweeps'[Len(sweeps')].now + PRUNE_INTERVAL
      BY <2>3, <2>4
    <3>2. ASSUME NEW i \in 1..n, sweeps'[i].full
          PROVE  sweeps'[i].now + CAPACITY_BACKOFF <= next_capacity'
      <4>1. CASE i = n
        BY <2>1, <2>3, <2>5, <3>2, <4>1
      <4>2. CASE i # n
        <5>1. i \in 1..Len(sweeps)
          BY <2>2, <4>2
        <5>2. sweeps[i].now + CAPACITY_BACKOFF <= next_capacity
          BY <2>3, <2>6, <3>2, <5>1, Zenon
        <5>3. next_capacity <= next_capacity'
          BY <2>1, <2>5
        <5>4. sweeps[i].now \in Nat /\ next_capacity' \in Nat
          BY <2>1, <2>2, <2>5, <5>1
        <5>5. sweeps[i].now + CAPACITY_BACKOFF <= next_capacity'
          BY <2>1, <5>2, <5>3, <5>4, SMTT(30)
        <5> QED BY <2>3, <5>1, <5>5, Zenon
      <4> QED BY <4>1, <4>2, Zenon
    <3> QED BY <2>3, <3>1, <3>2, Zenon DEF ScheduleFollows
  <2>8. SweepsSpaced'
    <3> SUFFICES ASSUME NEW i \in 1..n, NEW j \in 1..n, i < j
                 PROVE  LET apart == sweeps'[j].now - sweeps'[i].now
                        IN  /\ ~sweeps'[j].full /\ j = i + 1 => apart >= PRUNE_INTERVAL
                            /\ sweeps'[j].full /\ sweeps'[i].full => apart >= CAPACITY_BACKOFF
      BY <2>3, Zenon DEF SweepsSpaced
    <3>1. i \in 1..Len(sweeps) /\ sweeps'[i] = sweeps[i] /\ sweeps[i].now \in Nat
      BY <2>2, <2>3
    <3>2. CASE j = n
      <4>1. sweeps'[j].now = now /\ sweeps'[j].full = full
        BY <2>3, <3>2
      <4>2. ASSUME ~full, j = i + 1 PROVE now - sweeps[i].now >= PRUNE_INTERVAL
        <5>1. i = Len(sweeps) /\ sweeps # << >>
          <6>1. i = Len(sweeps)
            BY <2>2, <3>1, <3>2, <4>2
          <6>2. Len(sweeps) > 0
            BY <3>1, <6>1
          <6> QED BY <6>1, <6>2
        <5>2. next = sweeps[i].now + PRUNE_INTERVAL /\ now >= next
          BY <2>5, <2>6, <4>2, <5>1, Zenon
        <5> QED BY <2>1, <3>1, <5>2, SMTT(30)
      <4>3. ASSUME full, sweeps[i].full PROVE now - sweeps[i].now >= CAPACITY_BACKOFF
        <5>1. sweeps[i].now + CAPACITY_BACKOFF <= next_capacity /\ now >= next_capacity
          BY <2>5, <2>6, <3>1, <4>3, Zenon
        <5> QED BY <2>1, <3>1, <5>1, SMTT(30)
      <4> QED BY <3>1, <4>1, <4>2, <4>3, Zenon
    <3>3. CASE j # n
      <4>1. j \in 1..Len(sweeps) /\ sweeps'[j] = sweeps[j]
        BY <2>2, <2>3, <3>3
      <4>2. LET apart == sweeps[j].now - sweeps[i].now
            IN  /\ ~sweeps[j].full /\ j = i + 1 => apart >= PRUNE_INTERVAL
                /\ sweeps[j].full /\ sweeps[i].full => apart >= CAPACITY_BACKOFF
        BY <2>2, <3>1, <4>1, Zenon DEF IInv, SweepsSpaced
      <4> QED BY <3>1, <4>1, <4>2, Zenon
    <3> QED BY <3>2, <3>3, Zenon
  <2> QED BY <2>7, <2>8, Zenon
<1>3. CASE Tick
  BY <1>1, <1>3, Zenon DEF Tick
<1>4. ASSUME NEW c \in Callers,
             \/ \E sig \in Sigs : Arrive(c, sig)
             \/ Measure(c) \/ SkipSweep(c) \/ Prune(c) \/ Reject(c) \/ Accept(c)
      PROVE  ScheduleFollows' /\ SweepsSpaced'
  BY <1>1, <1>4, Zenon DEF Arrive, Measure, SkipSweep, Prune, Reject, Accept
<1>5. CASE UNCHANGED vars
  BY <1>1, <1>5, Zenon DEF vars
<1> QED BY <1>2, <1>3, <1>4, <1>5, Zenon DEF Next

-----------------------------------------------------------------------------

(* The invariant holds throughout. *)
LEMMA Invariance == Spec => []IInv
<1>1. IInv /\ [Next]_vars => IInv'
  BY TypesPreserved, InstantsPreserved, UsePreserved, SweepsPreserved, Zenon DEF IInv
<1> QED BY InitIsInductive, <1>1, PTL DEF Spec

(* check_and_record keeps its instants and its callers well formed. *)
THEOREM TypeCorrect == Spec => []TypeOK
<1>1. IInv => TypeOK
  BY Zenon DEF IInv
<1> QED BY Invariance, <1>1, PTL

(* No signature that check_and_record accepts is accepted again within the window,
   for any number of requests interleaved at its locks. *)
THEOREM SignaturesAreSingleUse == Spec => []SingleUse
<1>1. IInv => SingleUse
  BY Zenon DEF IInv
<1> QED BY Invariance, <1>1, PTL

(* prune_if_due spaces its sweeps, in whatever order requests find the schedule. *)
THEOREM SweepsAreSpaced == Spec => []SweepsSpaced
<1>1. IInv => SweepsSpaced
  BY Zenon DEF IInv
<1> QED BY Invariance, <1>1, PTL

-----------------------------------------------------------------------------
(* Signed requests.                                                          *)

\* The instant a timestamp stops being valid.
Deadline(s) == TICKS * (Stamp[s] + MAX_AGE + 1)

SType ==
    /\ signed \in [Callers -> Sigs \cup {NotCalling}]
    /\ checked \in [Callers -> Nat]
    /\ stamped \in [Sigs -> Seq(Nat)]

\* A request in progress was checked in time and no later than it reached the guard.
InTime ==
    \A c \in Callers :
        /\ signed[c] # NotCalling => checked[c] <= clock /\ checked[c] < Deadline(signed[c])
        /\ call[c] # NotCalling => signed[c] = call[c].sig /\ checked[c] <= call[c].now

\* So were those honoured.
HonouredInTime ==
    \A s \in Sigs :
        /\ Len(stamped[s]) = Len(accepted[s])
        /\ \A i \in 1..Len(accepted[s]) :
              stamped[s][i] <= accepted[s][i].now /\ stamped[s][i] < Deadline(s)

SInv == SType /\ InTime /\ HonouredInTime

-----------------------------------------------------------------------------

(* What a caller remembers of its request keeps its type. *)
LEMMA STypePreserved == TypeOK /\ SType /\ [SNext]_svars => SType'
<1> SUFFICES ASSUME TypeOK, SType, [SNext]_svars PROVE SType'
  BY Zenon
<1> USE DEF SType, request
<1>1. CASE UNCHANGED <<request, stamped>>
  BY <1>1, Zenon
<1>2. ASSUME NEW c \in Callers, NEW s \in Sigs, Submit(c, s) PROVE SType'
  BY <1>2, Zenon DEF Submit, TypeOK
<1>3. ASSUME NEW c \in Callers, Abandon(c) \/ Refuse(c) PROVE SType'
  <2>1. Leave(c) /\ UNCHANGED stamped
    BY <1>3, Zenon DEF Abandon, Refuse
  <2> QED BY <2>1, Zenon DEF Leave
<1>4. ASSUME NEW c \in Callers, Honour(c) PROVE SType'
  <2>1. call[c].sig \in Sigs
    BY <1>4, CallType, Zenon DEF Honour, Accept, At, Call
  <2>2. stamped' \in [Sigs -> Seq(Nat)]
    BY <1>4, <2>1 DEF Honour
  <2> QED BY <1>4, <2>2, Zenon DEF Honour, Leave
<1> QED BY <1>1, <1>2, <1>3, <1>4, Zenon DEF SNext, svars, Verified, Guarded

(* A step of the middleware is a step of the guard or leaves it alone. *)
LEMMA GuardStep == SType /\ [SNext]_svars => [Next]_vars
<1> SUFFICES ASSUME SType, SNext PROVE [Next]_vars
  BY Zenon DEF svars
<1>1. ASSUME NEW c \in Callers, Verified(c) PROVE Next
  BY <1>1, Zenon DEF Verified, SType, Next
<1>2. ASSUME NEW c \in Callers, Guarded(c) \/ Refuse(c) \/ Honour(c) PROVE Next
  BY <1>2, Zenon DEF Guarded, Refuse, Honour, Next
<1>3. ASSUME NEW c \in Callers, Abandon(c) \/ \E s \in Sigs : Submit(c, s) PROVE UNCHANGED vars
  BY <1>3, Zenon DEF Abandon, Submit
<1> QED BY <1>1, <1>2, <1>3, Zenon DEF SNext, Next

(* A valid timestamp names a second that ends before the deadline. *)
LEMMA ValidInTime ==
    ASSUME clock \in Nat, NEW s \in Sigs, validate_timestamp(s)
    PROVE  clock < Deadline(s)
<1> USE TicksAssumption, StampAssumption
<1>1. PICK now \in 0..clock : timestamp(now) /\ now - Stamp[s] <= MAX_AGE
  BY Zenon DEF validate_timestamp
<1>2. now \in Nat /\ Stamp[s] \in Nat /\ TICKS \in Nat
  OBVIOUS
<1> DEFINE limit == Stamp[s] + MAX_AGE + 1
<1>3. limit \in Nat /\ now + 1 <= limit
  BY <1>1, <1>2
<1>4. \A a, b, t \in Nat : a <= b => t * a <= t * b
  OBVIOUS
<1>5. TICKS * (now + 1) <= TICKS * limit
  BY <1>2, <1>3, <1>4
<1>6. TICKS * (now + 1) \in Nat /\ TICKS * limit \in Nat
  BY <1>2, <1>3
<1> QED BY <1>1, <1>5, <1>6 DEF timestamp, Deadline

(* What Append keeps and adds. *)
LEMMA AppendFacts ==
    ASSUME NEW T, NEW q \in Seq(T), NEW e \in T
    PROVE  /\ Len(Append(q, e)) = Len(q) + 1
           /\ \A i \in 1..Len(q) : Append(q, e)[i] = q[i]
           /\ Append(q, e)[Len(q) + 1] = e
OBVIOUS

(* Requests are checked in time, and honoured after they were checked. *)
LEMMA InTimePreserved ==
    TypeOK /\ ReadFromClock /\ SInv /\ [SNext]_svars => InTime' /\ HonouredInTime'
<1> SUFFICES ASSUME TypeOK, ReadFromClock, SType, InTime, HonouredInTime, [SNext]_svars
             PROVE  InTime' /\ HonouredInTime'
  BY Zenon DEF SInv
<1> USE NotCallingAssumption DEF request
<1>1. CASE UNCHANGED svars
  BY <1>1, Zenon DEF svars, vars, InTime, HonouredInTime, Deadline
<1>2. CASE Tick /\ UNCHANGED <<request, stamped>>
  <2>1. clock' = clock + 1 /\ UNCHANGED <<call, accepted>>
    BY <1>2, Zenon DEF Tick
  <2>2. clock \in Nat /\ \A c \in Callers : checked[c] \in Nat
    BY Zenon DEF TypeOK, SType
  <2>3. \A c \in Callers : checked[c] <= clock => checked[c] <= clock'
    BY <2>1, <2>2, SMTT(30)
  <2> QED BY <1>2, <2>1, <2>3, Zenon DEF InTime, HonouredInTime, Deadline
<1>3. ASSUME NEW c \in Callers, NEW s \in Sigs, Submit(c, s) PROVE InTime' /\ HonouredInTime'
  <2>1. clock \in Nat /\ clock < Deadline(s)
    BY <1>3, ValidInTime, Zenon DEF Submit, TypeOK
  <2>2. call[c] = NotCalling
    <3>1. call[c] # NotCalling => call[c].sig \in Sigs
      BY CallType, Zenon DEF Call
    <3> QED BY <1>3, <3>1, SigsAssumption, Zenon DEF Submit, InTime
  <2>3. /\ signed' = [signed EXCEPT ![c] = s] /\ checked' = [checked EXCEPT ![c] = clock]
        /\ UNCHANGED <<clock, call, accepted, stamped>>
    BY <1>3, Zenon DEF Submit, vars
  <2>4. InTime'
    BY <2>1, <2>2, <2>3, SMTT(30) DEF SType, InTime, Deadline
  <2> QED BY <2>3, <2>4, Zenon DEF HonouredInTime, Deadline
<1>4. ASSUME NEW c \in Callers, Abandon(c) PROVE InTime' /\ HonouredInTime'
  BY <1>4, Zenon DEF Abandon, Leave, vars, SType, InTime, HonouredInTime, Deadline
<1>5. ASSUME NEW c \in Callers, Verified(c) PROVE InTime' /\ HonouredInTime'
  BY <1>5, Zenon DEF Verified, Arrive, TypeOK, SType, InTime, HonouredInTime, Deadline
<1>6. ASSUME NEW c \in Callers, Guarded(c) PROVE InTime' /\ HonouredInTime'
  <2>1. call[c] # NotCalling /\ UNCHANGED <<clock, accepted, request, stamped>>
    BY <1>6, Zenon DEF Guarded, Measure, ScheduleSweep, SkipSweep, Prune, At
  <2>2. call[c] \in Call
    BY <2>1, CallType, Zenon
  <2>3. \A d \in Callers : call'[d] # NotCalling =>
           call[d] # NotCalling /\ call'[d].sig = call[d].sig /\ call'[d].now = call[d].now
    <3>1. CASE Measure(c)
      BY <2>1, <2>2, <3>1, Zenon DEF Measure, TypeOK, Call
    <3>2. CASE ScheduleSweep(c) \/ SkipSweep(c) \/ Prune(c)
      <4>1. PICK where \in {"prune", "record"} : Goto(c, where)
        BY <3>2, Zenon DEF ScheduleSweep, SkipSweep, Prune
      <4>2. call' = [call EXCEPT ![c].at = where]
        BY <4>1, Zenon DEF Goto
      <4>3. call'[c].sig = call[c].sig /\ call'[c].now = call[c].now
        BY <2>2, <4>2, Zenon DEF TypeOK, Call
      <4>4. \A d \in Callers : d # c => call'[d] = call[d]
        BY <4>2, Zenon DEF TypeOK
      <4> QED BY <2>1, <4>3, <4>4, Zenon
    <3> QED BY <1>6, <3>1, <3>2, Zenon DEF Guarded
  <2> QED BY <2>1, <2>3, Zenon DEF InTime, HonouredInTime, Deadline
<1>7. ASSUME NEW c \in Callers, Refuse(c) PROVE InTime' /\ HonouredInTime'
  BY <1>7, Zenon DEF Refuse, Reject, Leave, TypeOK, SType, InTime, HonouredInTime, Deadline
<1>8. ASSUME NEW c \in Callers, Honour(c) PROVE InTime' /\ HonouredInTime'
  <2> DEFINE sig == call[c].sig
             taken == [now |-> call[c].now, at |-> clock]
  <2>1. call[c] # NotCalling /\ sig \in Sigs /\ call[c].now \in Nat /\ clock \in Nat
    BY <1>8, CallType, Zenon DEF Honour, Accept, At, Call, TypeOK
  <2>2. checked[c] \in Nat /\ checked[c] <= call[c].now /\ checked[c] < Deadline(sig)
    <3>1. signed[c] = sig /\ checked[c] <= call[c].now
      BY <2>1, Zenon DEF InTime
    <3> QED BY <2>1, <3>1, SigsAssumption, Zenon DEF InTime, SType
  <2>3. /\ accepted' = [accepted EXCEPT ![sig] = Append(@, taken)]
        /\ stamped' = [stamped EXCEPT ![sig] = Append(@, checked[c])]
        /\ call' = [call EXCEPT ![c] = NotCalling]
        /\ UNCHANGED clock /\ Leave(c)
    BY <1>8, Zenon DEF Honour, Accept
  <2>4. InTime'
    BY <2>3, Zenon DEF Leave, TypeOK, SType, InTime, Deadline
  <2>5. ASSUME NEW s \in Sigs, s # sig
        PROVE  accepted'[s] = accepted[s] /\ stamped'[s] = stamped[s]
    BY <2>3, <2>5, Zenon DEF TypeOK, SType
  <2>6. /\ Len(stamped'[sig]) = Len(accepted'[sig])
        /\ \A i \in 1..Len(accepted'[sig]) :
              stamped'[sig][i] <= accepted'[sig][i].now /\ stamped'[sig][i] < Deadline(sig)
    <3>1. /\ accepted[sig] \in Seq(Acceptance) /\ stamped[sig] \in Seq(Nat)
          /\ taken \in Acceptance
      BY <2>1, Zenon DEF TypeOK, SType, Acceptance
    <3>2. accepted'[sig] = Append(accepted[sig], taken) /\ stamped'[sig] = Append(stamped[sig], checked[c])
      BY <2>1, <2>3, Zenon DEF TypeOK, SType
    <3>3. Len(stamped[sig]) = Len(accepted[sig])
      BY <2>1, ZenonT(60) DEF HonouredInTime
    <3>4. /\ Len(accepted'[sig]) = Len(accepted[sig]) + 1
          /\ \A i \in 1..Len(accepted[sig]) : accepted'[sig][i] = accepted[sig][i]
          /\ accepted'[sig][Len(accepted[sig]) + 1] = taken
      <4> HIDE DEF taken
      <4> QED BY <3>1, <3>2, AppendFacts, SMTT(30)
    <3>s. /\ Len(stamped'[sig]) = Len(accepted[sig]) + 1
          /\ \A i \in 1..Len(accepted[sig]) : stamped'[sig][i] = stamped[sig][i]
          /\ stamped'[sig][Len(accepted[sig]) + 1] = checked[c]
      <4>1. /\ Len(stamped'[sig]) = Len(stamped[sig]) + 1
            /\ \A i \in 1..Len(stamped[sig]) : stamped'[sig][i] = stamped[sig][i]
            /\ stamped'[sig][Len(stamped[sig]) + 1] = checked[c]
        <5>1. stamped[sig] \in Seq(Nat) /\ checked[c] \in Nat
          BY <2>2, <3>1, Zenon
        <5> HIDE DEF sig
        <5> QED BY <5>1, <3>2, AppendFacts, SMTT(30)
      <4> QED BY <3>3, <4>1, Zenon
    <3>5. Len(accepted[sig]) \in Nat
      BY <3>1, SMTT(30)
    <3>6. ASSUME NEW i \in 1..(Len(accepted[sig]) + 1)
          PROVE  stamped'[sig][i] <= accepted'[sig][i].now /\ stamped'[sig][i] < Deadline(sig)
      <4>1. CASE i \in 1..Len(accepted[sig])
        BY <2>1, <3>4, <3>s, <4>1, Zenon DEF HonouredInTime
      <4>2. CASE i = Len(accepted[sig]) + 1
        BY <2>2, <3>4, <3>s, <4>2
      <4> QED BY <3>5, <4>1, <4>2, SMTT(30)
    <3> QED BY <3>4, <3>s, <3>6, Zenon
  <2>7. HonouredInTime'
    BY <2>5, <2>6, Zenon DEF HonouredInTime, Deadline
  <2> QED BY <2>4, <2>7, Zenon
<1> QED BY <1>1, <1>2, <1>3, <1>4, <1>5, <1>6, <1>7, <1>8, Zenon DEF SNext

-----------------------------------------------------------------------------

(* The guard's invariant and that of the requests hold together. *)
LEMMA SInvariance == SSpec => [](IInv /\ SInv)
<1>1. SInit => IInv /\ SInv
  <2> SUFFICES ASSUME SInit PROVE IInv /\ SInv
    BY Zenon
  <2>1. IInv
    BY InitIsInductive, Zenon DEF SInit
  <2>2. SType /\ InTime
    BY DEF SInit, Init, SType, InTime
  <2>3. HonouredInTime
    BY DEF SInit, Init, HonouredInTime
  <2> QED BY <2>1, <2>2, <2>3, Zenon DEF SInv
<1>2. (IInv /\ SInv) /\ [SNext]_svars => (IInv /\ SInv)'
  <2> SUFFICES ASSUME IInv, SInv, [SNext]_svars PROVE IInv' /\ SInv'
    BY Zenon
  <2>1. [Next]_vars
    BY GuardStep, Zenon DEF SInv
  <2>2. IInv'
    BY <2>1, TypesPreserved, InstantsPreserved, UsePreserved, SweepsPreserved, Zenon DEF IInv
  <2>3. SInv'
    BY STypePreserved, InTimePreserved, Zenon DEF IInv, SInv
  <2> QED BY <2>2, <2>3, Zenon
<1> QED BY <1>1, <1>2, PTL DEF SSpec

(* The middleware implements the guard's specification, so what holds of
   check_and_record holds of the requests that auth_middleware sends there. *)
THEOREM RequestsUseTheGuard == SSpec => Spec
<1>1. SInit => Init
  BY Zenon DEF SInit
<1>2. SInv /\ [SNext]_svars => [Next]_vars
  BY GuardStep, Zenon DEF SInv
<1> QED BY <1>1, <1>2, SInvariance, PTL DEF SSpec, Spec

(* validate_timestamp and check_and_record together: for any windows, a request that
   repeats one already honoured gets through only if it was slow. *)
THEOREM RepeatsMustBeSlow == SSpec => []RepeatsAreSlow
<1>1. IInv /\ SInv => RepeatsAreSlow
  <2> SUFFICES ASSUME TypeOK, SingleUse, SType, HonouredInTime,
                      NEW s \in Sigs, NEW i \in DOMAIN accepted[s], NEW j \in DOMAIN accepted[s],
                      i < j
               PROVE  accepted[s][j].at - stamped[s][j]
                        > (stamped[s][i] - TICKS * Stamp[s]) - TICKS + (WINDOW - TICKS * MAX_AGE)
    BY Zenon DEF IInv, SInv, RepeatsAreSlow
  <2>1. /\ DOMAIN accepted[s] = 1..Len(accepted[s])
        /\ accepted[s][i].now \in Nat /\ accepted[s][j].at \in Nat
    BY AcceptanceType, Zenon
  <2>2. accepted[s][j].at >= accepted[s][i].now + WINDOW
    BY Zenon DEF SingleUse
  <2>3. stamped[s][i] <= accepted[s][i].now /\ stamped[s][j] < Deadline(s)
    BY <2>1, Zenon DEF HonouredInTime
  <2>4. stamped[s][i] \in Nat /\ stamped[s][j] \in Nat
    BY <2>1, SMTT(30) DEF HonouredInTime, SType
  <2>5. Deadline(s) = TICKS * Stamp[s] + TICKS * MAX_AGE + TICKS
    BY TicksAssumption, StampAssumption DEF Deadline
  <2>6. TICKS * Stamp[s] \in Nat /\ TICKS * MAX_AGE \in Nat /\ TICKS \in Nat /\ WINDOW \in Nat
    BY TicksAssumption, StampAssumption, WindowAssumption
  <2>7. \A at, now, si, sj, stamp, age, tick, window \in Nat :
           at >= now + window /\ si <= now /\ sj < stamp + age + tick
             => at - sj > (si - stamp) - tick + (window - age)
    OBVIOUS
  <2> QED BY <2>1, <2>2, <2>3, <2>4, <2>5, <2>6, <2>7, ZenonT(60)
<1> QED BY <1>1, SInvariance, PTL

=============================================================================
