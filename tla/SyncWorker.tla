----------------------------- MODULE SyncWorker -----------------------------
(***************************************************************************)
(* The hybrid refresh protocol (src/sync.rs) over the IP cache: the boot   *)
(* pass that runs before the listener opens, the background worker, the    *)
(* endpoint rows it reads and stamps, the admin handlers that change those *)
(* rows under its feet, and Vault, which changes all the time.  Every      *)
(* await of the worker at which another task may run is a step boundary.   *)
(*                                                                         *)
(* A process has one syncer at a time: run_boot_sync is awaited before     *)
(* spawn_sync_worker is called (src/main.rs).  The wall clock and the      *)
(* monotonic clock are one clock, in whole seconds.                        *)
(***************************************************************************)
EXTENDS IpCache, Functions

CONSTANTS
    Endpoints,           \* endpoint ids; an id is used for one endpoint only
    Groups,              \* Vault groups
    Ttls,                \* values of ttl_seconds an admin may set (0 is refused)
    FULL_SYNC_INTERVAL,  \* seconds between two full syncs of an endpoint
    NoJob,               \* the worker has no request in hand
    MaxTime,             \* bound: the last second the clock reaches
    MaxPass,             \* bound: seconds a pass takes (every request times out)
    LastChange,          \* bound: the last second Vault or an admin changes anything
    MaxChanges,          \* bound: changes in Vault
    MaxEdits,            \* bound: endpoint updates
    MaxRestarts          \* bound: restarts of the process

\* vault_groups of a row: validate_groups refuses a list without a group.
GroupLists == SUBSET Groups \ {{}}

EndpointRow == [vault_groups : GroupLists, ttl_seconds : Ttls, last_synced_at : Stamp]

\* A row being synced: what is asked of Vault, its answer, and the addresses with
\* several memberships among the groups when it answered.
Job == [id : Endpoints, groups : GroupLists, since : Stamp, full : BOOLEAN,
        batch : Seq(Row), contested : SUBSET Addrs]

ASSUME TtlAssumption == Ttls \subseteq Nat \ {0}
ASSUME IntervalAssumption == FULL_SYNC_INTERVAL \in Nat \ {0}
ASSUME BoundAssumption ==
    /\ MaxTime \in Nat /\ MaxPass \in Nat /\ LastChange \in Nat
    /\ MaxChanges \in Nat /\ MaxEdits \in Nat /\ MaxRestarts \in Nat
ASSUME NoJobAssumption == NoJob \notin Job
\* Memberships are finitely many: any selection of them has a length.
ASSUME FiniteAssumption == \A S \in SUBSET (Groups \X Addrs) : Cardinality(S) \in Nat

VARIABLES
    now,        \* the clock
    vault,      \* Vault's memberships: <<group, address>> -> last_seen_at, is_deleted
    endpoints,  \* the endpoints table: id -> row
    created,    \* ids inserted so far
    cache,      \* AppState::ip_cache
    phase,      \* "boot": listener closed; "serving": listener open, worker spawned
    pc,         \* where the syncer is in sync_all_endpoints
    todo,       \* the rows of this pass not yet visited, as they were listed
    listed_at,  \* when the rows of this pass were listed
    job,        \* the row being synced and what was asked of Vault
    evicting,   \* deleted rows whose cache entry is about to be evicted
    late,       \* history: addresses Vault changed since it answered the job
    drift,      \* history: per endpoint, addresses a differential sync may miss
    waiting,    \* history: endpoints this process has had no chance to sync yet
    budget      \* changes, edits and restarts so far

dbVars     == <<endpoints, created, evicting>>
workerVars == <<phase, pc, todo, listed_at, job>>
history    == <<late, drift, waiting>>
vars == <<now, vault, dbVars, cache, workerVars, history, budget>>

Spend(what, bound) ==
    /\ budget[what] < bound
    /\ budget' = [budget EXCEPT ![what] = @ + 1]

NoRows == [id \in {} |-> 0]

Row0(groups, ttl) == [vault_groups |-> groups, ttl_seconds |-> ttl, last_synced_at |-> None]

\* The process starts over a database and a Vault that may hold rows already.
Init ==
    /\ now = 0
    /\ \E M \in SUBSET (Groups \X Addrs) :
          vault = [m \in M |-> [last_seen_at |-> 0, is_deleted |-> FALSE]]
    /\ \E E \in SUBSET Endpoints : \E gs \in [E -> GroupLists], ttl \in [E -> Ttls] :
          endpoints = [id \in E |-> Row0(gs[id], ttl[id])]
    /\ created = DOMAIN endpoints
    /\ cache = EmptyCache
    /\ phase = "boot" /\ pc = "pass" /\ todo = NoRows /\ listed_at = 0 /\ job = NoJob
    /\ evicting = {}
    /\ late = {}
    /\ drift = [id \in Endpoints |-> {}]
    /\ waiting = {}
    /\ budget = [changes |-> 0, edits |-> 0, restarts |-> 0]

\* REQUEST_TIMEOUT ends every request, so a pass over the endpoints ends too.
PassMayGoOn == pc \notin {"pass", "sleep"} => now - listed_at < MaxPass

Tick ==
    /\ now < MaxTime
    /\ PassMayGoOn
    /\ now' = now + 1
    /\ UNCHANGED <<vault, dbVars, cache, workerVars, history, budget>>

-----------------------------------------------------------------------------
(* Vault (external).  A membership carries the second of its latest change;
   a soft delete leaves a tombstone, a hard delete leaves nothing.           *)

\* What every change does to the history variables and the bound.
Changed(a) ==
    /\ now <= LastChange
    /\ Spend("changes", MaxChanges)
    /\ late' = IF pc \in {"apply", "mark"} THEN late \cup {a} ELSE late
    /\ UNCHANGED <<now, dbVars, cache, workerVars>>

Observe(g, a) ==
    /\ Changed(a)
    /\ vault' = [m \in DOMAIN vault \cup {<<g, a>>} |->
                    IF m = <<g, a>> THEN [last_seen_at |-> now, is_deleted |-> FALSE]
                                    ELSE vault[m]]
    /\ UNCHANGED <<drift, waiting>>

SoftDelete(g, a) ==
    /\ <<g, a>> \in DOMAIN vault
    /\ ~vault[<<g, a>>].is_deleted
    /\ Changed(a)
    /\ vault' = [vault EXCEPT ![<<g, a>>] = [last_seen_at |-> now, is_deleted |-> TRUE]]
    /\ UNCHANGED <<drift, waiting>>

HardDelete(g, a) ==
    /\ <<g, a>> \in DOMAIN vault
    /\ Changed(a)
    /\ vault' = [m \in DOMAIN vault \ {<<g, a>>} |-> vault[m]]
    /\ drift' = [id \in Endpoints |-> drift[id] \cup {a}]
    /\ UNCHANGED waiting

RowAt(m) ==
    [target_address |-> m[2], last_seen_at |-> vault[m].last_seen_at,
     is_deleted |-> vault[m].is_deleted]

\* The memberships GET /api/ips selects: without `since` the live ones, with
\* `since` (and include_deleted) every one changed at that second or later.
Selected(groups, since) ==
    {m \in DOMAIN vault :
        /\ m[1] \in groups
        /\ IF since = None THEN ~vault[m].is_deleted
                           ELSE vault[m].last_seen_at >= since}

\* Listed by last_seen_at, newest first, ties in any order.
Listings(groups, since) ==
    LET S == Selected(groups, since)
    IN  {[i \in DOMAIN s |-> RowAt(s[i])] :
           s \in {t \in Bijection(1..Cardinality(S), S) :
                    \A i, j \in DOMAIN t :
                       i < j => vault[t[i]].last_seen_at >= vault[t[j]].last_seen_at}}

-----------------------------------------------------------------------------
(* The worker: sync_all_endpoints, one row at a time.                        *)

\* Endpoint::find().all(): the rows of the whole pass are read once.
ListEndpoints ==
    /\ pc = "pass"
    /\ todo' = endpoints
    /\ listed_at' = now
    /\ pc' = "next"
    /\ UNCHANGED <<now, vault, dbVars, cache, phase, job, history, budget>>

\* Faulty: the worker's task returns when the rows cannot be listed.
ListFailsForGood ==
    /\ pc = "pass"
    /\ todo' = NoRows
    /\ listed_at' = now
    /\ pc' = "returned"
    /\ waiting' = waiting \cup (DOMAIN endpoints \ DOMAIN cache)
    /\ UNCHANGED <<now, vault, dbVars, cache, phase, job, late, drift, budget>>

\* The listing failed: "Could not list endpoints for sync".
ListFails ==
    /\ pc = "pass"
    /\ todo' = NoRows
    /\ listed_at' = now
    /\ pc' = "next"
    /\ waiting' = waiting \cup (DOMAIN endpoints \ DOMAIN cache)
    /\ UNCHANGED <<now, vault, dbVars, cache, phase, job, late, drift, budget>>

\* The pass is over: the boot pass opens the listener and spawns the worker,
\* whose loop syncs first; a pass of that loop sleeps for TICK_INTERVAL.
EndPass ==
    /\ pc = "next" /\ todo = NoRows
    /\ pc' = IF phase = "boot" THEN "pass" ELSE "sleep"
    /\ phase' = "serving"
    /\ listed_at' = 0
    /\ UNCHANGED <<now, vault, dbVars, cache, todo, job, history, budget>>

Wake ==
    /\ pc = "sleep"
    /\ pc' = "pass"
    /\ UNCHANGED <<now, vault, dbVars, cache, phase, todo, listed_at, job, history, budget>>

Due(row) ==
    row.last_synced_at # None =>
        now - row.last_synced_at >= (IF row.ttl_seconds > 1 THEN row.ttl_seconds ELSE 1)

Visit(id) ==
    /\ pc = "next"
    /\ id \in DOMAIN todo
    /\ todo' = [i \in DOMAIN todo \ {id} |-> todo[i]]

Request(id, since, full) ==
    [id |-> id, groups |-> todo[id].vault_groups, since |-> since, full |-> full,
     batch |-> << >>, contested |-> {}]

\* A full sync is due: ask Vault for everything.
StartFull(id) ==
    /\ Visit(id)
    /\ full_sync_due(cache, id, FULL_SYNC_INTERVAL, now)
    /\ job' = Request(id, None, TRUE)
    /\ pc' = "fetch"
    /\ UNCHANGED <<now, vault, dbVars, cache, phase, listed_at, history, budget>>

\* The TTL expired: ask for the changes since the row's last_synced_at.
StartDiff(id) ==
    /\ Visit(id)
    /\ ~full_sync_due(cache, id, FULL_SYNC_INTERVAL, now)
    /\ Due(todo[id])
    /\ job' = Request(id, todo[id].last_synced_at, FALSE)
    /\ pc' = "fetch"
    /\ UNCHANGED <<now, vault, dbVars, cache, phase, listed_at, history, budget>>

SkipNotDue(id) ==
    /\ Visit(id)
    /\ ~full_sync_due(cache, id, FULL_SYNC_INTERVAL, now)
    /\ ~Due(todo[id])
    /\ UNCHANGED <<now, vault, dbVars, cache, phase, pc, listed_at, job, history, budget>>

\* Addresses with more than one membership among the groups of a request.
Contested(groups) ==
    {a \in Addrs :
        \E g, h \in groups : g # h /\ {<<g, a>>, <<h, a>>} \subseteq DOMAIN vault}

\* Vault computes its answer here; whatever changes later is not in it.
VaultAnswers(id) ==
    /\ pc = "fetch" /\ job.id = id
    /\ \E batch \in Listings(job.groups, job.since) :
          job' = [job EXCEPT !.batch = batch, !.contested = Contested(job.groups)]
    /\ pc' = "apply"
    /\ UNCHANGED <<now, vault, dbVars, cache, phase, todo, listed_at, history, budget>>

\* Faulty: the row is stamped although the fetch failed.
VaultErrsButMarks ==
    /\ pc = "fetch"
    /\ job' = NoJob
    /\ pc' = "next"
    /\ endpoints' = IF job.id \in DOMAIN endpoints
                    THEN [endpoints EXCEPT ![job.id].last_synced_at = now] ELSE endpoints
    /\ waiting' = waiting \cup ({job.id} \ DOMAIN cache)
    /\ UNCHANGED <<now, vault, created, evicting, cache, phase, todo, listed_at, late, drift,
                   budget>>

\* fetch_ips returned an error: warn, and go on with the next endpoint.
VaultErrs ==
    /\ pc = "fetch"
    /\ job' = NoJob
    /\ pc' = "next"
    /\ waiting' = waiting \cup ({job.id} \ DOMAIN cache)
    /\ UNCHANGED <<now, vault, dbVars, cache, phase, todo, listed_at, late, drift, budget>>

\* The groups of the job are still those of the endpoint's row.
GroupsCurrent ==
    job.id \in DOMAIN endpoints /\ endpoints[job.id].vault_groups = job.groups

ApplyFull ==
    /\ pc = "apply" /\ job.full
    /\ cache' = apply_full(cache, job.id, job.batch, now)
    /\ drift' = [drift EXCEPT ![job.id] = IF GroupsCurrent THEN late ELSE Addrs]
    /\ waiting' = waiting \ {job.id}
    /\ pc' = "mark"
    /\ UNCHANGED <<now, vault, dbVars, phase, todo, listed_at, job, late, budget>>

\* What a differential without `since` cannot tell: that a cached address is gone.
Unreported ==
    IF job.since = None THEN {a \in Addrs : Positions(job.batch, a) = {}} ELSE {}

ApplyDiff ==
    /\ pc = "apply" /\ ~job.full
    /\ cache' = apply_diff(cache, job.id, job.batch)
    /\ drift' = [drift EXCEPT ![job.id] = @ \cup job.contested \cup Unreported]
    /\ pc' = "mark"
    /\ UNCHANGED <<now, vault, dbVars, phase, todo, listed_at, job, late, waiting, budget>>

\* What mark_synced does besides writing the row.
MarkDone ==
    /\ pc = "mark"
    /\ job.id \in DOMAIN endpoints
    /\ drift' = [drift EXCEPT ![job.id] = @ \cup late]
    /\ job' = NoJob /\ late' = {}
    /\ pc' = "next"
    /\ UNCHANGED <<now, vault, created, evicting, cache, phase, todo, listed_at, waiting, budget>>

\* Faulty: saves every column of the copy of the row read before the fetch.
MarkSyncedWholeRow ==
    /\ MarkDone
    /\ endpoints' = [endpoints EXCEPT ![job.id].last_synced_at = now,
                                     ![job.id].vault_groups = job.groups]

\* Faulty: the newest last_seen_at in the cache becomes the cursor.
MarkSyncedNewestSeen ==
    /\ MarkDone
    /\ endpoints' = [endpoints EXCEPT ![job.id].last_synced_at = cache[job.id].last_synced_at]

\* The UPDATE of mark_synced sets last_synced_at alone, to the time it is now.
MarkSynced ==
    /\ MarkDone
    /\ endpoints' = [endpoints EXCEPT ![job.id].last_synced_at = now]

\* The UPDATE found no row, or the database failed: "Could not persist".
MarkFails ==
    /\ pc = "mark"
    /\ job' = NoJob /\ late' = {}
    /\ pc' = "next"
    /\ UNCHANGED <<now, vault, dbVars, cache, phase, todo, listed_at, drift, waiting, budget>>

\* BOOT_SYNC_BUDGET ran out: the pass is dropped at whatever await it is in.
BootTimeout ==
    /\ phase = "boot"
    /\ phase' = "serving" /\ pc' = "pass" /\ todo' = NoRows /\ listed_at' = 0
    /\ job' = NoJob /\ late' = {}
    /\ waiting' = waiting \cup (DOMAIN endpoints \ DOMAIN cache)
    /\ UNCHANGED <<now, vault, dbVars, cache, drift, budget>>

-----------------------------------------------------------------------------
(* The admin handlers, and the process itself.                               *)

create_endpoint(id, groups, ttl) ==
    /\ phase = "serving"
    /\ id \notin created
    /\ endpoints' = [i \in DOMAIN endpoints \cup {id} |->
                        IF i = id THEN Row0(groups, ttl) ELSE endpoints[i]]
    /\ created' = created \cup {id}
    /\ waiting' = waiting \cup {id}
    /\ UNCHANGED <<now, vault, evicting, cache, workerVars, late, drift, budget>>

\* The UPDATE of update_endpoint: it writes the columns of the payload (one that
\* is not given is one that keeps its value), not last_synced_at, and leaves the
\* cache alone.
update_endpoint(id, groups, ttl) ==
    /\ phase = "serving"
    /\ id \in DOMAIN endpoints
    /\ now <= LastChange
    /\ Spend("edits", MaxEdits)
    /\ endpoints' = [endpoints EXCEPT ![id].vault_groups = groups, ![id].ttl_seconds = ttl]
    /\ drift' = IF groups = endpoints[id].vault_groups THEN drift
                ELSE [drift EXCEPT ![id] = Addrs]
    /\ UNCHANGED <<now, vault, created, evicting, cache, workerVars, late, waiting>>

\* delete_endpoint removes the row ...
delete_endpoint(id) ==
    /\ phase = "serving"
    /\ id \in DOMAIN endpoints
    /\ endpoints' = [i \in DOMAIN endpoints \ {id} |-> endpoints[i]]
    /\ evicting' = evicting \cup {id}
    /\ UNCHANGED <<now, vault, created, cache, workerVars, history, budget>>

\* ... and then, after the DELETE returned, evicts the cache entry.
EvictDeleted(id) ==
    /\ id \in evicting
    /\ evicting' = evicting \ {id}
    /\ cache' = evict(cache, id)
    /\ UNCHANGED <<now, vault, endpoints, created, workerVars, history, budget>>

\* A crash, or a shutdown that aborts the worker, and the next start: the rows
\* survive, the cache and everything in flight do not.
Restart ==
    /\ Spend("restarts", MaxRestarts)
    /\ cache' = EmptyCache
    /\ phase' = "boot" /\ pc' = "pass" /\ todo' = NoRows /\ listed_at' = 0
    /\ job' = NoJob /\ late' = {}
    /\ evicting' = {}
    /\ waiting' = {}
    /\ UNCHANGED <<now, vault, endpoints, created, drift>>

-----------------------------------------------------------------------------

VaultStep == \E g \in Groups, a \in Addrs : Observe(g, a) \/ SoftDelete(g, a) \/ HardDelete(g, a)

AdminStep ==
    \E id \in Endpoints :
        \/ \E groups \in GroupLists, ttl \in Ttls :
              create_endpoint(id, groups, ttl) \/ update_endpoint(id, groups, ttl)
        \/ delete_endpoint(id)
        \/ EvictDeleted(id)

SyncStep ==
    \/ ListEndpoints \/ ListFails \/ EndPass \/ Wake
    \/ \E id \in Endpoints : StartFull(id) \/ StartDiff(id) \/ SkipNotDue(id) \/ VaultAnswers(id)
    \/ VaultErrs \/ ApplyFull \/ ApplyDiff \/ MarkSynced \/ MarkFails \/ BootTimeout

Next == Tick \/ VaultStep \/ AdminStep \/ SyncStep \/ Restart

Spec == Init /\ [][Next]_vars

(* Vault answers infinitely many of the requests it is sent for an endpoint and
   the database lists the rows infinitely often; the runtime polls the worker,
   and time passes.  Nothing is assumed of handlers: a client that hangs up
   cancels delete_endpoint between the DELETE and the eviction. *)
Fairness ==
    /\ WF_vars(Tick)
    /\ WF_vars(EndPass) /\ WF_vars(Wake) /\ SF_vars(ListEndpoints)
    /\ \A id \in Endpoints :
          /\ WF_vars(StartFull(id) \/ StartDiff(id) \/ SkipNotDue(id))
          /\ SF_vars(VaultAnswers(id))
    /\ WF_vars(VaultErrs) /\ WF_vars(ApplyFull) /\ WF_vars(ApplyDiff)
    /\ WF_vars(MarkSynced \/ MarkFails)

FairSpec == Spec /\ Fairness

-----------------------------------------------------------------------------

\* A table indexed by some of the endpoint ids.
IsTable(T, R) == DOMAIN T \subseteq Endpoints /\ T \in [DOMAIN T -> R]

\* Every variable has the shape the code and the schema give it.
TypeOK ==
    /\ now \in Nat
    /\ DOMAIN vault \subseteq Groups \X Addrs
    /\ vault \in [DOMAIN vault -> [last_seen_at : Time, is_deleted : BOOLEAN]]
    /\ IsTable(endpoints, EndpointRow)
    /\ created \in SUBSET Endpoints
    /\ IsTable(cache, EndpointCache)
    /\ phase \in {"boot", "serving"}
    /\ pc \in {"pass", "next", "fetch", "apply", "mark", "sleep"}
    /\ IsTable(todo, EndpointRow)
    /\ listed_at \in Nat
    /\ job \in Job \cup {NoJob}
    /\ evicting \in SUBSET Endpoints
    /\ late \in SUBSET Addrs
    /\ drift \in [Endpoints -> SUBSET Addrs]
    /\ waiting \in SUBSET Endpoints
    /\ budget \in [{"changes", "edits", "restarts"} -> Nat]

AtRest(id) == job = NoJob \/ job.id # id

LiveSeen(id, a) ==
    {vault[<<g, a>>].last_seen_at :
        g \in {h \in endpoints[id].vault_groups :
                  <<h, a>> \in DOMAIN vault /\ ~vault[<<h, a>>].is_deleted}}

\* The cache disagrees with Vault about an address: whether it is listed, or
\* when it was last seen.
Stale(id, a) ==
    IF cache[id].records[a] = None THEN LiveSeen(id, a) # {}
                                   ELSE cache[id].records[a] \notin LiveSeen(id, a)

\* The endpoint's next differential sync would report the address.
WillBeReported(id, a) ==
    \E m \in Selected(endpoints[id].vault_groups, endpoints[id].last_synced_at) : m[2] = a

(* A differential sync relies on a full one having come first: sync_endpoint
   merges changes into an entry of a live endpoint only after apply_full filled
   it, whatever deletes, evictions and restarts came in between. *)
FullBeforeDiff ==
    \A id \in DOMAIN endpoints \cap DOMAIN cache : cache[id].last_full_sync_at # None

(* The cache may lag behind Vault, but the next differential sync catches up
   with everything except what one of these made it miss since the last full
   sync: Vault changed it between its answer and mark_synced (last_synced_at is
   the time after the fetch), the endpoint's groups were edited, the row was
   hard-deleted, the address has memberships in two of the groups, or the
   differential had no `since` to ask for tombstones with.  Failed fetches,
   failed UPDATEs, boot timeouts and restarts are not on the list. *)
DriftHasACause ==
    \A id \in DOMAIN endpoints \cap DOMAIN cache :
        AtRest(id) /\ endpoints[id].last_synced_at # None =>
            \A a \in Parseable : Stale(id, a) => WillBeReported(id, a) \/ a \in drift[id]

(* Once the listener is open, an endpoint without a cache entry is one that was
   created since, or whose first sync failed or timed out: the boot pass left no
   other out, and no later step empties a feed that was populated. *)
BootPopulates ==
    phase = "serving" => DOMAIN endpoints \ DOMAIN cache \subseteq waiting

(* The cursor a row carries never moves back, although mark_synced writes it
   from a copy of the row read before the fetch. *)
CursorAdvances ==
    [][\A id \in DOMAIN endpoints \cap DOMAIN endpoints' :
          endpoints[id].last_synced_at # None =>
             /\ endpoints'[id].last_synced_at # None
             /\ endpoints'[id].last_synced_at >= endpoints[id].last_synced_at]_vars

(* An admin's edit is never undone: a row's groups and TTL change in an
   update_endpoint step only, although mark_synced saves a copy of the row that
   was read before the edit. *)
EditsSurviveSync ==
    [][\A id \in DOMAIN endpoints \cap DOMAIN endpoints' :
          \/ budget'.edits > budget.edits
          \/ /\ endpoints'[id].vault_groups = endpoints[id].vault_groups
             /\ endpoints'[id].ttl_seconds = endpoints[id].ttl_seconds]_vars

(* Every endpoint is eventually synced, or deleted, if Vault answers again and
   again: an outage, a failed listing, a boot timeout or a restart delays it only. *)
EventuallySynced ==
    \A id \in Endpoints :
        id \in DOMAIN endpoints ~> (id \in DOMAIN cache \/ id \notin DOMAIN endpoints)

(* When Vault and the admins stop changing things, the caches end up agreeing
   with Vault for good: the periodic full sync repairs whatever drift the
   differential syncs left. *)
EventuallyConsistent ==
    <>[](\A id \in DOMAIN endpoints :
            id \in DOMAIN cache /\ \A a \in Parseable : ~Stale(id, a))

=============================================================================
