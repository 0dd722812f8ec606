---------------------------- MODULE ReplayGuard ----------------------------
(***************************************************************************)
(* ReplayGuard (src/replay.rs): the signatures accepted recently, and the  *)
(* sweep that forgets the expired ones.  A request reads the clock once    *)
(* and then takes three locks one after the other: `seen` to learn whether *)
(* the map is full, `schedule` to learn whether a sweep is due, `seen` to  *)
(* sweep and again to look its signature up.  Other requests run between   *)
(* any two of them, so a request may act on an instant long past.          *)
(***************************************************************************)
EXTENDS Integers, Sequences, FiniteSets

CONSTANTS
    Sigs,                   \* SignatureId: a key and the digest it signed
    Callers,                \* requests that may be inside the guard at once
    WINDOW,                 \* how long a signature is remembered
    PRUNE_INTERVAL,         \* spacing of routine sweeps
    CAPACITY_BACKOFF,       \* spacing of sweeps because the map is full
    MAX_TRACKED_SIGNATURES, \* size at which the map counts as full
    MaxTime,                \* bound: the last instant the clock reaches
    MaxCalls,               \* bound: requests that reach the guard
    NotCalling              \* a caller outside check_and_record

ASSUME WindowAssumption == WINDOW \in Nat \ {0}
ASSUME ScheduleAssumption == PRUNE_INTERVAL \in Nat /\ CAPACITY_BACKOFF \in Nat
ASSUME CapacityAssumption == MAX_TRACKED_SIGNATURES \in Nat \ {0}
ASSUME BoundAssumption == MaxTime \in Nat /\ MaxCalls \in Nat

Call == [at : {"measure", "schedule", "prune", "record"}, sig : Sigs, now : Nat, over : BOOLEAN]

ASSUME NotCallingAssumption == NotCalling \notin Call

VARIABLES
    clock,          \* tokio's monotonic Instant
    seen,           \* ReplayGuard::seen: signature -> expires_at
    next,           \* PruneSchedule::next
    next_capacity,  \* PruneSchedule::next_capacity
    call,           \* what each caller holds
    calls,          \* requests that have reached the guard
    accepted,       \* history: per signature, the instants used and the times it was accepted
    sweeps          \* history: the instants of the sweeps, and whether the map was full

schedule == <<next, next_capacity>>
vars == <<clock, seen, schedule, call, calls, accepted, sweeps>>

Init ==
    /\ clock = 0
    /\ seen = [s \in {} |-> 0]
    /\ next = PRUNE_INTERVAL /\ next_capacity = 0
    /\ call = [c \in Callers |-> NotCalling]
    /\ calls = 0
    /\ accepted = [s \in Sigs |-> << >>]
    /\ sweeps = << >>

Tick ==
    /\ clock < MaxTime
    /\ clock' = clock + 1
    /\ UNCHANGED <<seen, schedule, call, calls, accepted, sweeps>>

At(c, where) == call[c] # NotCalling /\ call[c].at = where

Goto(c, where) == call' = [call EXCEPT ![c].at = where]

\* auth_middleware has verified a signature: `let now = Instant::now();`.
Arrive(c, sig) ==
    /\ call[c] = NotCalling
    /\ calls < MaxCalls
    /\ calls' = calls + 1
    /\ call' = [call EXCEPT ![c] = [at |-> "measure", sig |-> sig, now |-> clock, over |-> FALSE]]
    /\ UNCHANGED <<clock, seen, schedule, accepted, sweeps>>

Full(entries) == Cardinality(entries) >= MAX_TRACKED_SIGNATURES

\* let over_capacity = ... seen.len() >= MAX_TRACKED_SIGNATURES
Measure(c) ==
    /\ At(c, "measure")
    /\ call' = [call EXCEPT ![c].at = "schedule", ![c].over = Full(DOMAIN seen)]
    /\ UNCHANGED <<clock, seen, schedule, calls, accepted, sweeps>>

RoutineDue(c) == call[c].now >= next
CapacityDue(c) == call[c].over /\ call[c].now >= next_capacity

\* Faulty: the next sweep follows the one planned and not the one made.
ScheduleSweepFromPlan(c) ==
    /\ At(c, "schedule")
    /\ RoutineDue(c) \/ CapacityDue(c)
    /\ next' = next + PRUNE_INTERVAL
    /\ next_capacity' = IF CapacityDue(c) THEN call[c].now + CAPACITY_BACKOFF ELSE next_capacity
    /\ sweeps' = Append(sweeps, [now |-> call[c].now, full |-> CapacityDue(c)])
    /\ Goto(c, "prune")
    /\ UNCHANGED <<clock, seen, calls, accepted>>

\* A sweep is due: this caller makes it, and nobody else will.
ScheduleSweep(c) ==
    /\ At(c, "schedule")
    /\ RoutineDue(c) \/ CapacityDue(c)
    /\ next' = call[c].now + PRUNE_INTERVAL
    /\ next_capacity' = IF CapacityDue(c) THEN call[c].now + CAPACITY_BACKOFF ELSE next_capacity
    /\ sweeps' = Append(sweeps, [now |-> call[c].now, full |-> CapacityDue(c)])
    /\ Goto(c, "prune")
    /\ UNCHANGED <<clock, seen, calls, accepted>>

SkipSweep(c) ==
    /\ At(c, "schedule")
    /\ ~RoutineDue(c) /\ ~CapacityDue(c)
    /\ Goto(c, "record")
    /\ UNCHANGED <<clock, seen, schedule, calls, accepted, sweeps>>

Live(now) == {s \in DOMAIN seen : seen[s] > now}

\* Faulty: a map that is still full is flushed.
PruneOrFlush(c) ==
    /\ At(c, "prune")
    /\ seen' = [s \in IF Full(Live(call[c].now)) THEN {} ELSE Live(call[c].now) |-> seen[s]]
    /\ Goto(c, "record")
    /\ UNCHANGED <<clock, schedule, calls, accepted, sweeps>>

\* seen.retain(|_, expires_at| *expires_at > now)
Prune(c) ==
    /\ At(c, "prune")
    /\ seen' = [s \in Live(call[c].now) |-> seen[s]]
    /\ Goto(c, "record")
    /\ UNCHANGED <<clock, schedule, calls, accepted, sweeps>>

\* The signature is known and has not expired.
Used(sig, now) == sig \in DOMAIN seen /\ seen[sig] > now

Reject(c) ==
    /\ At(c, "record")
    /\ Used(call[c].sig, call[c].now)
    /\ call' = [call EXCEPT ![c] = NotCalling]
    /\ UNCHANGED <<clock, seen, schedule, calls, accepted, sweeps>>

Accept(c) ==
    LET sig == call[c].sig
    IN  /\ At(c, "record")
        /\ ~Used(sig, call[c].now)
        /\ seen' = [s \in DOMAIN seen \cup {sig} |->
                       IF s = sig THEN call[c].now + WINDOW ELSE seen[s]]
        /\ accepted' = [accepted EXCEPT ![sig] = Append(@, [now |-> call[c].now, at |-> clock])]
        /\ call' = [call EXCEPT ![c] = NotCalling]
        /\ UNCHANGED <<clock, schedule, calls, sweeps>>

Next ==
    \/ Tick
    \/ \E c \in Callers :
          \/ \E sig \in Sigs : Arrive(c, sig)
          \/ Measure(c) \/ ScheduleSweep(c) \/ SkipSweep(c) \/ Prune(c)
          \/ Reject(c) \/ Accept(c)

Spec == Init /\ [][Next]_vars

-----------------------------------------------------------------------------

Acceptance == [now : Nat, at : Nat]
Sweep == [now : Nat, full : BOOLEAN]

(* Instants are clock readings and expiries, and a caller holds what it read. *)
TypeOK ==
    /\ clock \in Nat
    /\ DOMAIN seen \subseteq Sigs /\ seen \in [DOMAIN seen -> Nat]
    /\ next \in Nat /\ next_capacity \in Nat
    /\ call \in [Callers -> Call \cup {NotCalling}]
    /\ calls \in Nat
    /\ accepted \in [Sigs -> Seq(Acceptance)]
    /\ sweeps \in Seq(Sweep)

(* Once check_and_record accepts a signature, no request with it is accepted until
   a window after the instant the first one used, whoever sweeps in between
   and however long a request waits between two of its locks. *)
SingleUse ==
    \A s \in Sigs : \A i, j \in DOMAIN accepted[s] :
        i < j => accepted[s][j].at >= accepted[s][i].now + WINDOW

(* The map is not swept again and again: a routine sweep comes at least an interval
   after the sweep before it, and those made because the map is full are a
   backoff apart, although requests find the schedule in any order and each
   judges by an instant and a size that it read before. *)
SweepsSpaced ==
    \A i, j \in DOMAIN sweeps :
        i < j => LET apart == sweeps[j].now - sweeps[i].now
                 IN  /\ ~sweeps[j].full /\ j = i + 1 => apart >= PRUNE_INTERVAL
                     /\ sweeps[j].full /\ sweeps[i].full => apart >= CAPACITY_BACKOFF

=============================================================================
