# Verification of simply_ip_exporter

TLA+ specifications of simply_ip_exporter, checked with TLC on small instances and,
for the modules named below, proved with TLAPS for all instances. Paths in this file
are relative to the repository (`src/sync.rs`); `PROJECT.json` gives, for every
definition that models code, the file and lines it was translated from.

## 1. The system

simply_ip_exporter publishes lists of IP addresses ("feeds") that it copies from a
service called Vault. The addresses live in memory only; a database (SQLite with one
connection, or PostgreSQL) holds the configuration.

| part | state | what changes it |
|---|---|---|
| IP cache (`cache.rs`) | per endpoint: records, newest `last_seen_at`, time of the last full sync | `apply_full`, `apply_diff`, `evict` |
| sync worker (`sync.rs`) | the pass under way, the row and the answer in hand | `run_boot_sync`, `spawn_sync_worker`, `sync_all_endpoints`, `sync_endpoint`, `mark_synced` |
| Vault client (`vault_client.rs`) | last timestamp used; pages collected by a fetch | `fetch_ips` and its two walks, `signed_get`, `list_groups` |
| rate limiter (`ratelimit.rs`) | address -> next instant it is served; queue of addresses | `check_and_record` |
| key and endpoint handlers (`api/keys.rs`, `api/endpoints.rs`, `api/guards.rs`) | tables `api_keys`, `endpoints` | create, update, delete, rotate, reassign |
| group grants (`api/groups.rs`) and their cleanup (`groups.rs`) | table `vault_group_permissions` | grant, revoke, cascade from a key, monthly cleanup |
| audit trail (`api/support.rs`, `api/audit.rs`) | table `audit_logs` | `create_audit_log` after every change |
| public feed (`feed.rs`, `ipfilter.rs`) | none of its own | reads endpoint, cache; consults the limiter |
| authentication (`middleware.rs`, `replay.rs`, `crypto.rs`) | signatures seen, prune schedule | `check_and_record`, `prune_if_due` |
| Master identity (`main.rs`, `master.rs`) | the Master's row; the id pinned in the process | bootstrap, canary, `pin_at_boot` |
| names and proxies (`dns_cache.rs`, `config.rs`, `bound_ips.rs`) | host name -> addresses, time, outcome | `resolve`, `force_resolve` |
| HTTP wiring, health, identity (`lib.rs`, `extract.rs`, `error.rs`, `api/health.rs`, `api/auth.rs`) | none | |
| web UI (`static/`) | browser side only | |

**Interactions.** The worker reads endpoint rows that admins edit and delete while it
awaits Vault, and writes one column back. Handlers read a row, await, and write it.
The cleanup worker and the grant handlers both ask Vault and then the database. Page
requests of one fetch run concurrently and share one timestamp counter with every
other request to Vault. Feed requests read the clock before they take the limiter's
lock, signed requests before they take those of the replay guard. Every request goes
through the resolver of host names, which holds its write lock while it asks DNS.
A signed request meets two clocks and a wait: its timestamp is checked in seconds, its
body is awaited, and the replay guard counts from an instant. Processes that start on
one database mint the Master, or find it, and each remembers the one it found.

**What is hard to get right here**: a cursor that must not skip changes although it is
taken after the answer; state that survives a restart (cursors) next to state that
does not (the cache); tables whose rows change under a running handler; listings that
shift between pages; "could not ask" against "is gone"; success reported for a change
that was not audited; credentials stored and never shown, because the process stopped in
between; one secret opened at boot on behalf of all others; instants, sizes, rows and addresses that are read before a lock
or an await and used after it. `PROJECT.json` lists these hazards at their lines, with the
properties that guard them.

## 2. Modules

| module | models | state and actions |
|---|---|---|
| `RateLimiter` | `ratelimit.rs` | `next_allowed`, `order` are the fields of `Inner`; `Arrive` reads the clock, `Allow` and `Reject` are the critical section |
| `IpCache` | `cache.rs` | operators: `apply_full`, `apply_diff`, `full_sync_due`, `evict` on a cache value, in closed form |
| `IpCacheLoop` | the loops of `cache.rs` | one row per step, compared with `IpCache` after every row |
| `SyncWorker` | `sync.rs`, its start in `main.rs`, the endpoint handlers as far as the worker meets them | extends `IpCache`; `pc` says at which await the pass is; a step runs from one await to the next |
| `VaultPaging` | `fetch_ips`, `fetch_remaining_pages_in_parallel`, `fetch_sequentially` | the walk, request by request, and the listing that changes under it |
| `RequestClock` | the timestamps of `signed_get` | `ReadClock`, then the atomic `fetch_update` |
| `AdminApi` | `api/keys.rs`, `api/endpoints.rs`, guards, audit | several requests, one step per round-trip to the database |
| `GroupGrants` | `api/groups.rs`, `validate_group_access`, `groups.rs`, the cascade | requests as in `AdminApi`, the worker's three round-trips, Vault's groups |
| `ReplayGuard` | `replay.rs` | `seen`, `next`, `next_capacity` are the fields; a caller goes through `Measure`, `ScheduleSweep` or `SkipSweep`, `Prune`, `Accept` or `Reject`, one lock each |
| `SignedRequest` | `validate_timestamp` and the way of a request through `auth_middleware` (`middleware.rs`) | extends `ReplayGuard`; `Submit` checks the timestamp, `Abandon` is every end before the guard, `Verified`, `Guarded`, `Refuse`, `Honour` are the call of the guard |
| `Boot` | `main.rs` up to the listener, `master.rs`, the modes of `SecretCipher` (`crypto.rs`), what `api/keys.rs` stores and shows | `pc` is the place of each process in `main`, one step per await; `Stop` at any of them; requests of the Master; the operator's edits of `api_keys` |
| `DnsCache` | `dns_cache.rs` | `cache`, the holder of the write lock, where each task is inside `resolve` or `force_resolve`; DNS itself and the clock |
| `ClientAccess` | `resolved`, `prime_with_grace`, `resolve_client_ip` (`config.rs`), `is_allowed` (`bound_ips.rs`), as `auth_middleware` and `serve_feed` call them | extends `DnsCache`; requests and the boot task |
| `IpFilter` | `ipfilter.rs` | operators: `network`, `contains`, `overlaps_any`, `filter_and_aggregate`; an address is a function from bit positions to bits |
| `Feed` | `feed.rs`, `snapshot_within` | extends `RateLimiter` and `IpFilter`: a request is a caller of the limiter; requests, edits, deletion, syncs |
| `MC...` | | instances for TLC: symmetry sets and enumerated inputs |
| `...Proofs` | | theorems and proofs, see section 4 |

Conventions. Actions carry the name of the function they translate where TLA+ allows
it. History variables are marked `history:` and no action's guard reads them.
Definitions that begin with the comment "Faulty:" are not part of any specification:
each is a plausible bug, used to make sure that the property next to it would notice.

### What the models abstract

- **Time** is whole seconds. In `SyncWorker` the wall clock and the monotonic clock
  are the same clock; a wall clock that jumps is not modelled.
- **Vault** (external) is modelled from how the client uses it. Memberships carry the
  second of their latest change; a soft delete leaves a tombstone, a hard delete
  leaves nothing; listings come newest first with ties in any order. A request may
  fail at any time. In `SyncWorker` a fetch is answered at one instant; what several pages
  make of a listing that changes meanwhile is `VaultPaging`. In `GroupGrants`, `vault` is the set of groups that the exporter's
  own Vault key may list; groups are not renamed.
- **The database** is the SQLite configuration: one connection, so a statement or a
  transaction is one step. Every statement may fail. Two PostgreSQL transactions that
  overlap are not modelled.
- **Columns** that are always written together are one column whose value is the
  request that wrote it. Validation of a payload is a choice between going on and 400.
- **A client that hangs up** cancels its handler at the next await: `Abandon` in
  `AdminApi`, and no fairness for `EvictDeleted` in `SyncWorker`.
- In `RequestClock` a caller is at most a second late between reading the clock and
  the atomic, since nothing is awaited in between.
- **DNS** (external) answers within `LookupTime`, a failure is an empty answer, and a
  task is dropped only while it awaits. A task takes the write lock and asks DNS in
  one step: to have the lock earlier only keeps others out for longer. In
  `ClientAccess` networks are single addresses.
- **A list** stands for its body and its ETag: SHA-256 does not collide. `Feed` takes
  the client's address as given; how it is found is `ClientAccess`. The retention window
  is subtracted over unbounded integers. In the code `max_age_seconds` may be any `i64` from
  0 on (`api/endpoints.rs:102`), and one beyond chrono's range makes the subtraction
  (`cache.rs:154`) panic: the request then ends as in `GiveUp`, without an answer.
- **`SignedRequest`**: the wall clock and the monotonic clock agree, and `TICKS` instants
  make a second. A signature verifies or does not; what it is computed over is left out.
  The lookup of the key has no effect on the two windows.
- **`Boot`**: the migration is one step that succeeds or stops the process. Uuids and
  credentials never repeat. A handler that stores a key reads and writes its row in one
  step here; the finer interleavings are those of `AdminApi`. Deleting a key through the
  API is covered by the operator's `DeleteRow`. `INITIAL_MASTER_KEY` and
  `INITIAL_MASTER_SIGNING_SECRET`, which are meant for test set-ups, and rows without a
  signing secret, which nothing writes, are left out.
- A poisoned mutex, and a process without a Vault client (in which neither worker does
  anything), are left out.

## 3. Runs

| run | question | bounds | states |
|---|---|---|---|
| `limiter` | Does the limiter stay bounded and fair while callers enter the lock in the wrong order? | 3 addresses for 2 slots, 2 callers, window 2, 5 instants | 263 thousand |
| `cache_loops` | Do the loops compute what `IpCache` says? | all batches of up to 3 rows over 3 addresses, one unparseable | 29 thousand |
| `sync_drift` | What can the cache miss, with edits and two groups? | 1 endpoint, 2 groups, 2 changes, 1 edit, 3 seconds | 1.3 million |
| `sync_restart` | Does a restart lose anything, does every endpoint get synced, and does drift end? | 1 endpoint, 2 changes, 1 restart, 5 seconds | 158 thousand |
| `paging` | Is a fetch complete, bounded and ended? | pages of 2, ceiling 4, up to 9 rows, 2 changes | 498 thousand |
| `request_clock` | Do timestamps stay near the clock and distinct? | 3 callers, limit 3, 9 requests, 4 seconds | 130 thousand |
| `admin` | Do concurrent handlers keep owners, columns and the audit trail? | Master, 1 Daughter, 1 endpoint, any 3 requests | 1.6 million |
| `grants` | Are grants sound, kept through outages and dropped in the end? | 1 key, 2 groups, 2 names, 2 requests | 357 thousand |
| `signed_requests` | Is a signature used once, at what pace is the map swept, and when can a request be repeated? | 3 requests with one signature, 2 inside at once, a window of 1 second, 2 instants to a second, 8 instants, ceiling 1 | 2.7 million |
| `access` | Who is a request from, and do `bound_ips` let it in, while names move? | 2 requests and the boot task, 1 name that resolves in 3 ways and moves once, times to live 2 and 1, 4 instants | 1.8 million |
| `feed` | What is published, to whom is it refused? | 2 requests of one client, 2 rows, 2 record sets, 2 writes, window 2, 4 instants, addresses of 2 bits | 1.6 million |
| `boot` | Who holds which credentials, who is Master and what can a process decrypt, over starts, stops and edits? | 2 processes, 5 ids, one encryption key or none, 1 stop, 1 creation, 1 edit | 338 thousand |

`sync_restart` has a single endpoint because its liveness properties rule out symmetry;
its safety properties are proved for any number (section 4). `boot` also passes with two
encryption keys (880 thousand states, three minutes).

Type invariants are proved (`RateLimiter`, `IpCacheLoop`, `SyncWorker`, `ReplayGuard`,
`SignedRequest`, `Boot`) or part of a property of their module's run; `Feed` has none.

### What they show

**Rate limiter.** `MemoryBounded`: the queue and the map hold
the same addresses, each once, never more than the ceiling. `AllowedSpaced`: two
requests let through while an address stays tracked are a window apart, measured by
the instants the callers read, in whatever order they got the lock. `NoBan`: an
address never waits longer than a window. An address that is evicted loses its window;
the code accepts that. Three addresses over two slots make evictions and re-insertions
happen; two callers are enough to enter the lock in the wrong order.

**Cache and worker.** `DriftHasACause` is the central property: if the cache
disagrees with Vault about an address and no sync of the endpoint is under way, then
the next differential sync will report the address, or one of these happened since the
last full sync: Vault changed it between answering and `mark_synced` (`late`); the
endpoint's groups were edited, before or during the sync; the row was hard-deleted;
the address has memberships in two of the endpoint's groups (`contested`); a
differential had no `since`, because the first `mark_synced` failed (`Unreported`).
Each of these is needed: with any of them taken out, TLC finds a behaviour that
violates the property. Failed fetches and listings, a boot pass that runs out of time,
and restarts are not on the list, and that is what the property shows. `FullBeforeDiff`, `BootPopulates`, `CursorAdvances` and
`EditsSurviveSync` are explained at their definitions. A change that a comment in
`cache.rs` (lines 35-36) promises to pick up, through "the most recent `last_seen_at`
seen from Vault", is one of the `late` ones: `sync_endpoint` uses the row's
`last_synced_at`, the time after the fetch. Likewise the comment in `vault_client.rs`
line 243, "Nothing downstream depends on record order", does not hold for a contested
address: `apply_diff` lets the last row decide.

`EventuallyConsistent`: when Vault and the admins are at rest, the cache agrees with
Vault from some point on, whatever drift there was, because the full sync comes
round. `EventuallySynced`: every endpoint gets its first sync.

**Fetch.** `CompleteWhenStill`: with a quiet Vault every row arrives exactly once,
also at exact multiples of the page size. `MissesFew` bounds what
either walk loses over a shifting listing.
`BoundedRequests` and `FetchEnds` hold also for a Vault that ignores `offset`. The
instance has listings below, at and above every page boundary and above the ceiling.
An empty first page from a Vault that ignores `include_total` costs a second request,
where the comment at `vault_client.rs:301` says the walk has ended.

**Timestamps.** `NearClock` and `RepeatsNeedOverload`: two requests carry the same
second only after a burst that exceeds one request per second by more than the limit
(5 in the code, 3 in the instance). `AGENT_NOTES.MD:2545` says that they are unique.

**Handlers.** `OwnersExist`: no endpoint is owned by a key that is gone.
`OwnershipMovesOnRequest`: an owner changes only where a reassignment or the deletion
of the owner's key asked for it, although updates write rows that were read before.
`ColumnsKept`: no write of a key brings back a column another request replaced.
`DeletedOnce`, `SuccessIsAudited`: concurrent deletes of one row are answered and
audited once; a success is always in the trail. Three requests cover a key's deletion,
a reassignment to that key and an edit of the endpoint at the same time.

**Grants.** `RowsAreSound`: one row for a key and a group, none for a key that is gone,
and what a Daughter's `create_endpoint` or `update_endpoint` writes are names granted to
that Daughter at some moment between the arrival of the request and its check; a grant
that was revoked before the request came is of no use to it. This is about writing, not
owning: `reassign_endpoint_owner` and `delete_api_key` with `reassign_to` hand an endpoint
over with the names it has and read no grants, revoking a grant leaves the endpoints
alone, and the Master may write any name. So a Daughter may own an endpoint with groups
it was never granted; `README.md:169` and `SCHEMA.MD:135` speak of what it may name.
`OutagesKeepGrants`: a pass removes only grants whose group Vault lacked when asked.
`StaleGrantsGo`: those go.
Two concurrent grants of one pair end with one row; the loser is answered 500, where
`API_REFERENCE.md:579` says that granting is idempotent.

**Signed requests.** `SingleUse`: a signature is accepted again only a window after the
instant its first request used, although requests hold instants while they wait for
locks and a sweep may be made with an old one. `SweepsSpaced`: routine sweeps are an
interval apart and those of a full map a backoff, although each caller judges by a size
and an instant it read before. `RepeatsAreSlow` puts the two windows together: a repeated
request is honoured only if it waited longer, between the check of its timestamp and the
guard, than the first one's timestamp was old when checked, less one second, and less
what the clamp of the guard's window to an hour takes off a longer `max_age`. For a first
request sent without delay the margin is negative: see the disagreements.

**Boot.** `CredentialsAccounted`: credentials are shown only for keys the database took,
and a stored key without them is one whose process is about to show them, stopped
between the insert and the banner, or failed to write the audit entry. `CanaryCovers`: a
process that opened the sealed secret a Master was minted with opens everything stored at
that Master's request, although another process, under another configuration, may have
stored it: only a process that can open the Master's secret lets the Master in.
`OneMasterPerProcess`: a process obeys one Master from its pin to its end, whatever the
operator does to the column. `MasterReturns`: a database that has lost its Master gets
one after a restart, whatever other keys it has. Five ids suffice for two mints, a
creation and the re-mints that one edit and one stop can lead to.

**Names and access.** `AnswersAreRecent`: what `resolve` returns was DNS's answer less
than its time to live, and the time of a lookup, ago; the wait for the lock does not
count, because the entry is judged again under it. `StoredInOrder`: no older answer
replaces a newer one. `ForwardedNeedsTrust` and `OnlyBoundClients` follow both through
the two uses that a request makes of the resolver. The instance lists its host name
twice, so that `resolved` and `prime` go round their loops; `X-Real-IP` is never sent.

**Feed.** `PublishesWhatIsLeft` compares `filter_and_aggregate` and `snapshot_within`
with what they are for: the addresses of the records inside the window that touch no
excluded range, each once. `ServedWasPublished`: whatever changes between the awaits
of `serve_feed`, which reads the row, the instant of the window and the records one after
the other, the list served is one of the time of the request. `RefusedOnlyForNews`:
a 429 for a client that sends its tag means that the list has changed, or did while the
request was under way.

### Disagreements with comments and documents

- `apply_full` of a sync under way brings back the entry that `delete_endpoint`
  evicted; `README.md:186` says the entry is evicted. The entry is never served, since
  the feed looks up the row first, but it stays in memory. (In `SyncWorker`: `Visit`,
  `delete_endpoint`, `EvictDeleted`, `ApplyFull`.)
- A row skipped by a shifting page is not "picked up by the next sync cycle"
  (`vault_client.rs:181`) when that cycle is differential: the row did not change. The
  next full sync finds it. (`VaultPaging`: `Remove` between two pages.)
- The cleanup lists Vault's groups before it reads the grants, so the grant of a group
  that is created in between is dropped, although Vault has the group (`groups.rs:1-2`
  and `40-41`). (`GroupGrants`: `CleanupLists`, `VaultCreates`, `grant_key_group`,
  `CleanupReads`.)
- `bound_ips` of commas only mean "everybody" to `auth_middleware`, which looks at the
  parsed entries, and "nobody" to `serve_feed`, which looks at the text and calls
  `is_allowed` with no entries, against its comment (`bound_ips.rs:63-65`).
- `README.md:107` and `:165` say that a Master is generated on the first boot with an empty
  `api_keys`. `bootstrap_master_key` (`main.rs:51`) looks for a Master row, as
  `AGENT.MD:176` says: a database with other keys and no Master gets one as well. (`Boot`:
  `HasMaster`, `DrawMaster`; `MasterReturns` rests on it.)
- `main.rs:139-149` says that a Master secret that does not open means "every other stored
  secret is equally unreadable", and so takes one that opens for all. It vouches for what
  was stored at this Master's request: after a re-mint the secrets stored under the
  earlier Master may need another key, a Master stored in plaintext opens under every
  key, and the Master may be another one by the time it is pinned. The premises of
  `CanaryCovers` are these three.
- The guard remembers a signature for `max_age` from its first use, while a timestamp
  ahead of the clock is valid for up to twice as long (`replay.rs`, "the X-Timestamp
  window bounds how long a captured request stays valid"). `RepeatsAreSlow` states the
  relation that does hold. (`SignedRequest`: `Submit`, `Honour`, `Tick`.)
- `rotate_signing_secret` (`api/keys.rs:379`): the previous secret "stops working the
  instant this returns". A request that read the row before, and still waits for its
  body, is verified with the previous one. Likewise it is judged by the rights and the
  `bound_ips` of that row.
- Creating and rotating a key store the credentials before the audit entry. When that
  fails the answer is a 500 without them: the key is there and nobody can use it.
  (`Boot`: `AnswerLost`.)

### Fairness

Only the liveness properties assume any, and only of code that runs by itself.
`SyncWorker`: the runtime polls the worker (weak fairness of its internal steps), time
passes, and Vault answers, and the database lists the rows, infinitely often if asked
infinitely often (strong fairness of `VaultAnswers` and `ListEndpoints`). Nothing is
assumed of handlers, of changes or of restarts. `VaultPaging`: a request is answered
or times out (`REQUEST_TIMEOUT`), so the walk keeps stepping. `GroupGrants`: the
cleanup loops for ever, and neither Vault nor the database fails it every time. `Boot`:
a process that is down is started again (`restart: unless-stopped` in the compose file),
and the steps of `main` are taken, since each is a query of a local database or has a
time limit; nothing is assumed of requests, of the operator or of stops.

## 4. Proofs

All are checked by TLAPS for every value of the constants that the named assumptions
allow; the bounds of the runs (`MaxTime`, `MaxChanges` ...) are arbitrary there.

**`FeedProofs`**, on `RateLimiter` — `MemoryIsBounded`, `SpacingIsEnforced`,
`NobodyIsBanned`, `TypeCorrect`. The invariant adds to the properties that an entry is one
window after the last instant its address was let through at (`EntryIsLastAllowed`), that
instants in hand are not in the future (`ReadFromClock`), and that the map is finite. The
lemma `EvictionPopsOnce` shows that the eviction loop pops at most one address:
that is why a full queue whose head is tracked always makes room.

**`FeedProofs`**, on `IpFilter` and `Feed` — `FeedInvariant`, `ListsAreRight`
(`PublishesWhatIsLeft`), `ServedListsWerePublished` (`ServedWasPublished`),
`RevalidationIsFree` (`RefusedOnlyForNews`), `FeedUsesTheLimiter`, `FeedIsLimited`, for
addresses of any width and any rows, records and excluded ranges. Of two networks that
share an address one is inside the other (`Nested`); hence `overlaps_any`, which compares
first addresses only, finds every overlap (`OverlapsMeet`). Every address of the cover is
in a network that `aggregate` keeps, because among the networks inside the cover that hold
it there is one with the shortest prefix (`ShortestPrefix`, by a least element of the
naturals: a data induction in the one form the provers take), and two that are kept are
disjoint (`AggregateCovers`, `AggregateIsDisjoint`). A request knows the rows and the
records there were since it arrived, and what it takes to the limiter was one of its
possible lists and not the one the client has (`RequestOK`); the set of possible lists
only grows (`PossibleGrows`), so this is still so after the wait. `FeedUsesTheLimiter`:
every step of the feed is one of the limiter's or none, so that the theorems on the
limiter hold of the feed (`FeedIsLimited`).

**`SyncWorkerProofs`**, on `IpCache` and `IpCacheLoop` — `FullLoopIsCorrect`,
`DiffLoopIsCorrect`: after any number of rows of any batch the loops hold `FullRecords`,
`DiffRecords` and `Newest` of the rows so far. This justifies `SyncWorker` applying a
batch in one step (the code holds the write lock over the loop). The argument is one
lemma on how the positions of an address grow with one more row (`OneMoreRow`), and one
on maxima.

**`SyncWorkerProofs`**, on `SyncWorker` — `FullComesFirst`, `BootIsComplete`,
`CursorsNeverMoveBack`, `EditsAreKept`, `TypeCorrect`, from one inductive invariant
`IInv`. None of the properties is inductive alone: a differential could meet a missing
entry unless it is known that ids are used once, that an id being evicted has no row
(`IdsUsedOnce`), and that a differential in progress has an entry (`DiffHasEntry`); the
boot pass is complete because every endpoint without an entry is still on its list or
failed (`BootVisitsAll`); cursors advance because none is ahead of the clock
(`CursorsPast`).

`DriftIsAccountedFor` and `DriftIsExplained` (the property `DriftHasACause`) rest on
`IInv` and on six more conjuncts, `DriftInv`, that follow one row of Vault through a sync.
The request of a job, and of a row still on the pass's list, is the one its endpoint calls
for now, unless an edit of the groups has put everything in `drift` (`JobIsCurrent`,
`TodoIsCurrent`). The answer in hand is what Vault would answer now, up to the addresses
that changed since (`BatchIsCurrent`), and a differential that is lost is made again,
since its cursor has not moved (`NewsIsRepeated`). Hence an entry that has just been
refreshed is wrong only about addresses that changed since the answer or are in `drift`
(`AppliedIsFresh`), which is what lets `mark_synced` move the cursor to the present
(`MarkKeepsDrift`). The last conjunct is `DriftHasACause` without its restriction to
endpoints at rest (`EntriesCatchUp`). That failed fetches, failed UPDATEs, timeouts and
restarts need no mention among the causes is a result of the proof: they leave the cursor
where it was, or throw the entry away.

`RecordsComeFromVault` and `FullSyncsRepair` follow from the same invariant and state two
more action properties (`NothingInvented`, `FullSyncRepairs`, defined beside their proofs
and checked with the bounds of `sync_drift` first). No step but `apply_full` and
`apply_diff` writes a record, and what these write is what Vault says at that moment,
unless the address changed since it answered. And a full sync forgets every cause of
drift: this is the safety half of `EventuallyConsistent`.

**`SignedRequestProofs`**, on `ReplayGuard` — `SignaturesAreSingleUse`,
`SweepsAreSpaced`, `TypeCorrect`.
The invariant adds that no instant in hand is ahead of the clock (`ReadFromClock`);
that the latest acceptance of a signature is in the map as long as it has not expired
by the clock (`LastIsKept`), which a sweep with an old instant respects; that earlier
ones had expired (`EarlierExpired`); and that the schedule is one spacing after the
last sweep of each kind (`ScheduleFollows`).

**`SignedRequestProofs`**, on `SignedRequest` — `RequestsUseTheGuard`: the middleware's specification
implements that of the guard, every step being one of the guard's or none, so that all
theorems on the guard hold of signed requests. `RepeatsMustBeSlow`: from the guard's
invariant, which spaces acceptances, and the fact that every request honoured passed its
timestamp before `Deadline` and reached the guard no earlier (`InTime`, `HonouredInTime`).

**`BootProofs`** — `BootInvariant`, `CredentialsAreAccounted`, `CanaryIsEnough`,
`PinIsKept`. The invariant adds what a process remembers at each place of `main`
(`ProcessOK`), that a drawn Uuid is new until it is inserted and nobody else's
(`MintedOK`), that only Uuids the database once had are referred to (`KnownOK`), and the
reason the canary works (`SealedOK`): whoever opened a Master's sealed secret, or acts on
its behalf, has the cipher it was sealed with, and so has all that was stored for it.

**`AdminApiProofs`** — `AdminInvariant`, `OwnersAlwaysExist`, `RowsAreDeletedOnce`,
`SuccessesAreAudited`, `OwnershipIsMovedOnRequest`, `ColumnsAreKept`, for any number of
concurrent requests. The invariant adds that a request in progress has its call
(`Called`) and passed the checks that come before its stage (`Staged`), that audit
entries and successes belong to requests that wrote (`Trail`), and that the row a
deletion removed is gone and its id used up (`Gone`).

**`ClientAccessProofs`** — `AccessInvariant`, `AnswersStayRecent`, `EntriesAdvance`,
`HeadersNeedATrustedPeer`, `OnlyBoundGetIn`, for any number of names, addresses and
requests and any times to live. `DnsSpec` is the resolver by itself, with tasks that call
it, leave with an answer or are dropped as they like. Its invariant `DnsInv`
(`ResolverInvariant`): whoever waits for DNS holds the write lock, has waited no longer
than `LookupTime`, and asked after every answer that is cached (`AskInTime`), so that
entries are stored in order and no staler than that (`EntryInTime`) and so are the answers
taken from them (`AnswerInTime`); from it `ResolverIsRecent` and `ResolverAdvances`. Requests
and `prime_with_grace` implement `DnsSpec` (`AccessUsesTheResolver`: a task calls only when
it is outside, which needs `AccessInv`), and so have its answers. `AccessInv` adds that a
request resolves the name it has got to and none at other times
(`ResolvesItsName`) and that the proxies it has gathered were named since it arrived
(`TrustsRecent`), which holds although the answers come one await after the other.

**`GroupGrantsProofs`** — `GrantsInvariant`, `RowsStaySound` (`RowsAreSound`),
`CleanupIsRight` (`OutagesKeepGrants`). A handler knows what it read before its await
(`RequestOK`), and one that is about to check its groups has met every grant its caller
holds (`GrantsAreMet`); that the pair and the key may be gone by then is caught by the index and
the foreign key. The cleanup deletes by id, and what it found stale is still so when it
deletes it, because ids are not used again and belong to requests that insert nothing
any more (`IdsAreSettled`, `StaleIsAbsent`).

**`VaultClientProofs`**, on `RequestClock` — `ClockInvariant`, `TimestampsStayNear`,
`RepeatsMeanOverload`, for any number of callers and of requests. Every timestamp counts
up from the second that some request read (`CountsUp`), and timestamps increase as long
as no stretch of requests outnumbers its seconds by more than the limit (`Increasing`).

**`VaultClientProofs`**, on `VaultPaging` — `PagingInvariant`, `RequestsAreBounded`,
`StillWalksAreComplete`, for every listing, page size and ceiling. Requests are numbered
by the pages they ask for (`CountsRequests`); while Vault is still, what is collected is
exactly the rows of the pages that have arrived, in whatever order they do
(`CollectsPages`). The lemmas on pages are that they are disjoint (`PagesApart`), that
`div_ceil` counts enough of them (`PagesCover`), and what a short page means (`PageRows`).

`MissInvariant` and `WalksMissFew` (`MissesFew`) are about a listing that changes under the
walk. What may be lost is an untouched row at a position the walk has dealt with that is in
none of the answers; `MissInv` counts these. In the sequential walk the positions dealt
with are those of the pages passed, and only a removal brings a row into them, one at a
time (`RemoveKeepsFew`). In the concurrent walk they are those on no unanswered page: a
change shifts rows by one position, so a row gets there only over a boundary between an
unanswered page and an answered one (`PageEnds`). Each such boundary has its own
two pages, so there are at most half as many as pages (`HalfThePages`, `CrossingsAreFew`).
An answer takes what is on its page with it (`PageHolds`) and so loses nothing. At the end
no page is unanswered, and what was counted is exactly what the walk misses.

**Assumptions.** Each is a named `ASSUME` of the module that declares the constant, and
TLC evaluates it on a run that extends the module. They say that limits, windows and times
are natural numbers (positive where the code's constant is), that marks such as `NoJob`,
`NoTask` or `Old` are none of the values they stand apart from, that the values a run may
start from have the shape the code gives them (`BatchAssumption`, `HostnamesAssumption`
...), and, in `SyncWorker`, that Vault's listings can be counted (`FiniteAssumption`). Two
take more from the program: `GuardAssumption`, that the guard's window is the smaller of
`signature_max_age_seconds` and the longest window a guard has, and `PageAssumption`, that `MAX_PAGES` is at least 2
(1000 in the code), because a ceiling of one page is reached before the walk begins.

Leaves name the backend that proves them where the choice matters (`Zenon` for steps
without arithmetic).

**Only model-checked**: the liveness properties `EventuallySynced`,
`EventuallyConsistent`, `FetchEnds`, `StaleGrantsGo` and `MasterReturns` (liveness under
fairness is out of TLAPS's reach), and that each property can fail for a plausible bug.
Every safety invariant and every action property that a run checks is also stated by a
theorem.

## 5. Not modelled, and the plan

Not modelled on purpose: cryptography itself (`crypto.rs`; only which secrets open and
that signatures verify or not), parsing of the environment, of headers and of payloads,
the HTTP wiring and error texts, reads that change nothing (listings, health, identity),
the steps of the migration, the web UI. These hold no state that two actors share, so that
a unit test says as much about them as a model would.

Left for later, the most important first:

1. An abstract specification of a feed ("a copy of Vault that lags, and lies only for
   a named cause") implemented by `SyncWorker`.
2. Liveness of the resolver: a request is decided although others hold the lock.
3. A wall clock that jumps, in `SyncWorker` and `SignedRequest`.
