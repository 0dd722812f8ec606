---------------------------- MODULE RateLimiter ----------------------------
(***************************************************************************)
(* The public feed's rate limiter (src/ratelimit.rs): a map from a source  *)
(* address to the instant it may next be served, bounded by evicting the   *)
(* address first seen longest ago.  Every caller reads the monotonic clock *)
(* BEFORE it takes the mutex, so critical sections may run in an order     *)
(* other than that of the instants they use.                               *)
(***************************************************************************)
EXTENDS Integers, Sequences, FiniteSets

CONSTANTS
    Ips,                \* source addresses
    Callers,            \* requests that may be inside check_and_record at once
    RATE_LIMIT_WINDOW,  \* minimum spacing between two requests of one address
    MAX_TRACKED_IPS,    \* ceiling on tracked addresses
    MaxTime,            \* bound: the last instant the clock reaches
    NotCalling          \* a caller outside check_and_record

ASSUME WindowAssumption == RATE_LIMIT_WINDOW \in Nat \ {0}
ASSUME CapacityAssumption == MAX_TRACKED_IPS \in Nat \ {0}
ASSUME MaxTimeAssumption == MaxTime \in Nat
ASSUME NotCallingAssumption == NotCalling \notin [ip : Ips, now : Nat]

VARIABLES
    clock,          \* tokio's monotonic Instant
    next_allowed,   \* Inner::next_allowed
    order,          \* Inner::order
    call,           \* what each caller holds between reading the clock and the lock
    allowed         \* history: instants at which each address was let through
                    \* since it was last inserted as a new key

vars == <<clock, next_allowed, order, call, allowed>>

Tracked == DOMAIN next_allowed

Init ==
    /\ clock = 0
    /\ next_allowed = [ip \in {} |-> 0]
    /\ order = << >>
    /\ call = [c \in Callers |-> NotCalling]
    /\ allowed = [ip \in Ips |-> << >>]

Tick ==
    /\ clock < MaxTime
    /\ clock' = clock + 1
    /\ UNCHANGED <<next_allowed, order, call, allowed>>

\* `let now = Instant::now();`, before the mutex is taken.
Arrive(c, ip) ==
    /\ call[c] = NotCalling
    /\ call' = [call EXCEPT ![c] = [ip |-> ip, now |-> clock]]
    /\ UNCHANGED <<clock, next_allowed, order, allowed>>

\* Faulty: reads the clock a second time under the lock for the comparison.
ThrottledByLateClock(ip, now) == ip \in Tracked /\ next_allowed[ip] > clock

Throttled(ip, now) == ip \in Tracked /\ next_allowed[ip] > now

\* Faulty: a throttled request is punished with another window.
RejectWithPenalty(c) ==
    /\ call[c] # NotCalling
    /\ Throttled(call[c].ip, call[c].now)
    /\ next_allowed' = [next_allowed EXCEPT ![call[c].ip] = @ + RATE_LIMIT_WINDOW]
    /\ call' = [call EXCEPT ![c] = NotCalling]
    /\ UNCHANGED <<clock, order, allowed>>

\* The critical section when the address is still inside its window.
Reject(c) ==
    /\ call[c] # NotCalling
    /\ Throttled(call[c].ip, call[c].now)
    /\ call' = [call EXCEPT ![c] = NotCalling]
    /\ UNCHANGED <<clock, next_allowed, order, allowed>>

PoppedBy(k) == {order[i] : i \in 1..k}

\* The eviction loop has made room after k pops.
HasRoomAfter(k) == Cardinality(Tracked \ PoppedBy(k)) < MAX_TRACKED_IPS

\* How often the eviction loop pops: until there is room or the queue is empty.
Pops(ip) ==
    IF ip \in Tracked THEN 0
    ELSE CHOOSE k \in 0..Len(order) :
            /\ HasRoomAfter(k) \/ k = Len(order)
            /\ \A j \in 0..(k - 1) : ~HasRoomAfter(j)

\* Faulty: a known key is queued again.
NewOrderAlwaysPushing(ip) == Append(SubSeq(order, Pops(ip) + 1, Len(order)), ip)

\* The queue after the critical section: only a new key is pushed.
NewOrder(ip) ==
    LET rest == SubSeq(order, Pops(ip) + 1, Len(order))
    IN  IF ip \in Tracked THEN rest ELSE Append(rest, ip)

\* The map after the critical section.
NewNextAllowed(ip, now) ==
    [i \in (Tracked \ PoppedBy(Pops(ip))) \cup {ip} |->
        IF i = ip THEN now + RATE_LIMIT_WINDOW ELSE next_allowed[i]]

\* The critical section when the address may be served: make room if the key
\* is new and the map is full, insert, and queue a new key.
Allow(c) ==
    LET ip  == call[c].ip
        now == call[c].now
    IN  /\ call[c] # NotCalling
        /\ ~Throttled(ip, now)
        /\ next_allowed' = NewNextAllowed(ip, now)
        /\ order' = NewOrder(ip)
        /\ allowed' = [allowed EXCEPT
                         ![ip] = IF ip \in Tracked THEN Append(@, now) ELSE <<now>>]
        /\ call' = [call EXCEPT ![c] = NotCalling]
        /\ UNCHANGED clock

Next ==
    \/ Tick
    \/ \E c \in Callers :
          \/ \E ip \in Ips : Arrive(c, ip)
          \/ Reject(c)
          \/ Allow(c)

Spec == Init /\ [][Next]_vars

-----------------------------------------------------------------------------

(* The map and its queue hold addresses and instants, and a caller holds what
   it read before the lock. *)
TypeOK ==
    /\ clock \in Nat
    /\ Tracked \subseteq Ips
    /\ next_allowed \in [Tracked -> Nat]
    /\ order \in Seq(Ips)
    /\ call \in [Callers -> [ip : Ips, now : Nat] \cup {NotCalling}]
    /\ allowed \in [Ips -> Seq(Nat)]

(* The queue lists every tracked address exactly once and nothing else, so
   an eviction always frees a slot of the map and "`order.len()` never exceeds
   the map it accompanies" (RateLimiter's doc comment). *)
QueueListsTracked ==
    /\ PoppedBy(Len(order)) = Tracked
    /\ \A i, j \in 1..Len(order) : order[i] = order[j] => i = j

(* However many distinct addresses call, at most MAX_TRACKED_IPS are tracked:
   the eviction loop of check_and_record makes room before each insertion. *)
BoundedMemory == Cardinality(Tracked) <= MAX_TRACKED_IPS

(* Neither the map nor the queue of RateLimiter grows past the ceiling, since the
   queue lists what the map tracks. *)
MemoryBounded == QueueListsTracked /\ BoundedMemory

(* While an address stays tracked, the instants it was let through at are at
   least a window apart, even when callers that read the clock earlier enter
   the critical section later: check_and_record compares with the instant the
   previous caller of the address used, not with the order of arrival. *)
AllowedSpaced ==
    \A ip \in Tracked :
        \A i, j \in 1..Len(allowed[ip]) :
            i < j => allowed[ip][j] - allowed[ip][i] >= RATE_LIMIT_WINDOW

(* No address is banned: whatever was tracked, it is allowed again at most one
   window from now, because every instant recorded was read from the clock. *)
NoBan == \A ip \in Tracked : next_allowed[ip] <= clock + RATE_LIMIT_WINDOW

=============================================================================
