---------------------------- MODULE RequestClock ----------------------------
(***************************************************************************)
(* The timestamps VaultClient::signed_get (src/vault_client.rs) signs its  *)
(* requests with.  They are whole seconds, and Vault accepts a signature   *)
(* once only, so requests of the same second are given later seconds: the  *)
(* client keeps the last one it used in an atomic, shared by the page      *)
(* requests in flight, the sync worker, the cleanup worker and handlers.   *)
(***************************************************************************)
EXTENDS Integers, Sequences

CONSTANTS
    Callers,        \* tasks that may be inside signed_get at once
    DRIFT_LIMIT,    \* the literal 5: seconds ahead at which the clock is taken again
    NotCalling,     \* a caller outside signed_get
    FirstSecond,    \* wall clock when the process starts
    MaxTime,        \* bound: the last second the wall clock reaches
    MaxRequests     \* bound: requests signed

ASSUME DriftAssumption == DRIFT_LIMIT \in Nat \ {0}
ASSUME ClockAssumption == FirstSecond \in Nat \ {0} /\ MaxTime \in Nat /\ MaxRequests \in Nat
ASSUME NotCallingAssumption == NotCalling \notin Nat

VARIABLES
    clock,              \* Utc::now().timestamp()
    last_timestamp,     \* VaultClient::last_timestamp
    held,               \* the second each caller has read
    signed              \* history: the requests in order, the second read and the one used

clockVars == <<clock, last_timestamp, held, signed>>

ClockInit ==
    /\ clock = FirstSecond
    /\ last_timestamp = 0
    /\ held = [c \in Callers |-> NotCalling]
    /\ signed = << >>

\* Nothing is awaited between reading the clock and the atomic, so a caller is
\* at most one second late.
Tick ==
    /\ clock < MaxTime
    /\ \A c \in Callers : held[c] \in {NotCalling, clock}
    /\ clock' = clock + 1
    /\ UNCHANGED <<last_timestamp, held, signed>>

\* let now = chrono::Utc::now().timestamp();
ReadClock(c) ==
    /\ held[c] = NotCalling
    /\ Len(signed) < MaxRequests
    /\ held' = [held EXCEPT ![c] = clock]
    /\ UNCHANGED <<clock, last_timestamp, signed>>

\* Faulty: the clock as it is.
NextTimestampByClock(now, last) == now

\* Faulty: the last second used is always stepped over.
NextTimestampUnlimited(now, last) == IF now > last THEN now ELSE last + 1

NextTimestamp(now, last) ==
    IF now > last \/ last - now >= DRIFT_LIMIT THEN now ELSE last + 1

\* fetch_update: one atomic step, however often its closure is retried.
Sign(c) ==
    /\ held[c] # NotCalling
    /\ last_timestamp' = NextTimestamp(held[c], last_timestamp)
    /\ signed' = Append(signed, [at |-> held[c], ts |-> last_timestamp'])
    /\ held' = [held EXCEPT ![c] = NotCalling]
    /\ UNCHANGED clock

ClockNext == Tick \/ \E c \in Callers : ReadClock(c) \/ Sign(c)

ClockSpec == ClockInit /\ [][ClockNext]_clockVars

-----------------------------------------------------------------------------

(* Timestamps are seconds since the epoch, and never before it. *)
ClockTypeOK ==
    /\ clock \in Nat /\ last_timestamp \in Nat
    /\ held \in [Callers -> Nat \cup {NotCalling}]
    /\ signed \in Seq([at : Nat, ts : Nat])

(* However many requests are signed and whoever is late, timestamps are seconds
   since the epoch, and the next one stays within the limit of the clock, which
   Vault's own window allows for. *)
NearClock ==
    ClockTypeOK /\ (last_timestamp # 0 => last_timestamp - clock <= DRIFT_LIMIT)

(* A timestamp is used twice only after an overload: some stretch of requests
   before it outnumbers the seconds it took by more than the limit.  At a lower
   rate the timestamps of all callers are distinct. *)
RepeatsNeedOverload ==
    \A i, j \in DOMAIN signed :
        i < j /\ signed[i].ts = signed[j].ts =>
            \E k, l \in 1..j :
                k < l /\ (l - k) - (signed[l].at - signed[k].at) > DRIFT_LIMIT

=============================================================================
