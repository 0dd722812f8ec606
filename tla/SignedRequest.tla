--------------------------- MODULE SignedRequest ---------------------------
(***************************************************************************)
(* A signed request on its way through auth_middleware (src/middleware.rs) *)
(* to the replay guard.  Two windows decide about a repeated request: the  *)
(* X-Timestamp is compared with the wall clock, in whole seconds and       *)
(* before the body is read; the guard counts from a finer clock, after it. *)
(* The body may take long in between, and the client may hang up.          *)
(***************************************************************************)
EXTENDS ReplayGuard

CONSTANTS
    TICKS,      \* instants in a second
    MAX_AGE,    \* RuntimeConfig::signature_max_age_seconds
    MAX_WINDOW, \* the longest window a guard has, in seconds: 3600
    Stamp       \* the X-Timestamp each signature was made with

ASSUME TicksAssumption == TICKS \in Nat \ {0}
ASSUME StampAssumption == MAX_AGE \in Nat \ {0} /\ MAX_WINDOW \in Nat \ {0} /\ Stamp \in [Sigs -> Nat]
ASSUME SigsAssumption == NotCalling \notin Sigs

Smaller(a, b) == IF a < b THEN a ELSE b

\* ReplayGuard::new(config.signature_max_age_seconds), which is at least 1.
ASSUME GuardAssumption == WINDOW = TICKS * Smaller(MAX_AGE, MAX_WINDOW)

VARIABLES
    signed,  \* the signature of each caller past its timestamp, or NotCalling
    checked, \* when that timestamp was checked
    stamped  \* history: per signature, when each accepted request's timestamp was checked

request == <<signed, checked>>
svars == <<vars, request, stamped>>

SInit ==
    /\ Init
    /\ signed = [c \in Callers |-> NotCalling]
    /\ checked = [c \in Callers |-> 0]
    /\ stamped = [s \in Sigs |-> << >>]

\* chrono::Utc::now().timestamp() is n: the wall clock agrees with the monotonic one,
\* which started on a full second.
timestamp(n) == TICKS * n <= clock /\ clock < TICKS * (n + 1)

\* Faulty: only a timestamp ahead of the clock is refused.
ValidUnlessAhead(s) ==
    \E now \in 0..clock : timestamp(now) /\ Stamp[s] - now <= MAX_AGE

\* skew <= max_age_seconds, in both directions.
validate_timestamp(s) ==
    \E now \in 0..clock : /\ timestamp(now)
                          /\ now - Stamp[s] <= MAX_AGE /\ Stamp[s] - now <= MAX_AGE

\* The timestamp is valid, the key's row and secret are read, and the body is awaited.
Submit(c, s) ==
    /\ signed[c] = NotCalling
    /\ validate_timestamp(s)
    /\ signed' = [signed EXCEPT ![c] = s]
    /\ checked' = [checked EXCEPT ![c] = clock]
    /\ UNCHANGED <<vars, stamped>>

Leave(c) ==
    /\ signed' = [signed EXCEPT ![c] = NotCalling]
    /\ checked' = [checked EXCEPT ![c] = 0]

\* The body is too long or breaks off, the signature does not verify, or the client hangs up.
Abandon(c) ==
    /\ signed[c] # NotCalling /\ call[c] = NotCalling
    /\ Leave(c)
    /\ UNCHANGED <<vars, stamped>>

\* verify_signature succeeds: check_and_record.
Verified(c) ==
    /\ signed[c] # NotCalling
    /\ Arrive(c, signed[c])
    /\ UNCHANGED <<request, stamped>>

\* check_and_record awaits nothing.
Guarded(c) ==
    /\ Measure(c) \/ ScheduleSweep(c) \/ SkipSweep(c) \/ Prune(c)
    /\ UNCHANGED <<request, stamped>>

\* 401: this signature has already been used.
Refuse(c) ==
    /\ Reject(c)
    /\ Leave(c)
    /\ UNCHANGED stamped

\* On to bound_ips and the handler.
Honour(c) ==
    /\ Accept(c)
    /\ Leave(c)
    /\ stamped' = [stamped EXCEPT ![call[c].sig] = Append(@, checked[c])]

SNext ==
    \/ Tick /\ UNCHANGED <<request, stamped>>
    \/ \E c \in Callers :
          \/ \E s \in Sigs : Submit(c, s)
          \/ Abandon(c) \/ Verified(c) \/ Guarded(c) \/ Refuse(c) \/ Honour(c)

SSpec == SInit /\ [][SNext]_svars

-----------------------------------------------------------------------------

(* "The X-Timestamp window bounds how long a captured request stays valid" and the guard
   remembers it (replay.rs): a repeated request is honoured only when it waited longer
   between the two checks than the timestamp of the first was old when that was checked,
   but for one second and what the guard's window falls short of the timestamp's. *)
RepeatsAreSlow ==
    \A s \in Sigs : \A i, j \in DOMAIN accepted[s] :
        i < j => LET waited == accepted[s][j].at - stamped[s][j]
                     age    == stamped[s][i] - TICKS * Stamp[s]
                 IN  waited > age - TICKS + (WINDOW - TICKS * MAX_AGE)

=============================================================================
