-------------------------------- MODULE Feed --------------------------------
(***************************************************************************)
(* GET /feed/v1/<token>/list.txt (src/feed.rs) for one endpoint, composed  *)
(* of the cached records (src/cache.rs), their filter (IpFilter) and the   *)
(* limiter (RateLimiter), while an admin edits or deletes the endpoint and *)
(* the worker replaces the records.  How the client's address is found and *)
(* held against bound_ips is in ClientAccess: a request comes here with an *)
(* address that passes.  A step runs from one await or lock to the next.   *)
(***************************************************************************)
EXTENDS RateLimiter, IpFilter

CONSTANTS
    None,               \* no If-None-Match
    Rows,               \* [max_age_seconds, flags] the endpoint may have
    NoRow,              \* the endpoint was deleted
    Batches,            \* records a sync may leave: sets of [network, last_seen_at]
    MaxWrites           \* bound: edits of the row and syncs

\* validate_max_age refuses a negative one.
ASSUME RowsAssumption == Rows \subseteq [max_age_seconds : Nat, flags : SUBSET DOMAIN Excluded]
ASSUME NoRowAssumption == NoRow \notin Rows
ASSUME BatchesAssumption == Batches \subseteq SUBSET [network : Networks, last_seen_at : Nat]

VARIABLES
    row,            \* the row of the endpoint, or NoRow
    records,        \* the records of its cache entry
    evicted,        \* delete_endpoint has evicted the entry
    writes,         \* edits of the row and syncs
    held,           \* lists that clients got with a 200
    req             \* the requests under way: a request is a caller of the limiter

limiterVars == <<next_allowed, order, call, allowed>>
stateVars == <<row, records, evicted, writes>>
feedVars == <<clock, stateVars, held, req, limiterVars>>

\* No request; otherwise the fields hold what it needs next, and as its history the
\* rows and the records there were since it arrived.
Blank == [at |-> "new", client |-> None, tag |-> None, row |-> NoRow, now |-> 0,
          list |-> {}, since |-> 0, rows |-> {}, batches |-> {}]

FeedInit ==
    /\ Init
    /\ row \in Rows
    /\ records \in Batches /\ \A rec \in records : rec.last_seen_at <= clock
    /\ evicted = FALSE
    /\ writes = 0
    /\ held = {}
    /\ req = [r \in Callers |-> Blank]

-----------------------------------------------------------------------------

\* The networks of the records inside the retention window; 0 is no window.  A window
\* that reaches back further than chrono's dates ends the request: see GiveUp.
snapshot_within(recs, max_age, now) ==
    {rec.network : rec \in {x \in recs : max_age <= 0 \/ x.last_seen_at >= now - max_age}}

\* The list, and so its ETag, that a row, records and an instant give.
Published == [rw \in Rows |-> [recs \in Batches \cup {{}} |-> [now \in 0..MaxTime |->
    filter_and_aggregate(snapshot_within(recs, rw.max_age_seconds, now), rw.flags)]]]

At(r, where) == req[r].at = where

\* The response goes out.
Reply(r) == req' = [req EXCEPT ![r] = Blank]

\* A client asks for the list, perhaps with the tag of one it holds.
Request(r, ip, tag) ==
    /\ At(r, "new")
    /\ req' = [req EXCEPT ![r] = [Blank EXCEPT
                 !.at = "row", !.client = ip, !.tag = tag, !.since = clock,
                 !.rows = {row}, !.batches = {records}]]
    /\ UNCHANGED <<clock, stateVars, held, limiterVars>>

\* The row is read: 404 if there is none.
ReadRow(r) ==
    /\ At(r, "row")
    /\ IF row = NoRow THEN Reply(r)
       ELSE req' = [req EXCEPT ![r].at = "clock", ![r].row = row]
    /\ UNCHANGED <<clock, stateVars, held, limiterVars>>

\* The instant that the window counts from; then the cache's lock is awaited.
ReadClock(r) ==
    /\ At(r, "clock")
    /\ req' = [req EXCEPT ![r].at = "snapshot", ![r].now = clock]
    /\ UNCHANGED <<clock, stateVars, held, limiterVars>>

\* 304 to a client that has the list already; any other goes to the limiter.
Send(r, list, unmodified) ==
    IF unmodified
    THEN Reply(r) /\ UNCHANGED limiterVars
    ELSE /\ req' = [req EXCEPT ![r].at = "limit", ![r].list = list, ![r].row = NoRow, ![r].now = 0]
         /\ Arrive(r, req[r].client)

\* Faulty: a list that was served is served again.
SnapshotMemo(r) ==
    LET list == IF held # {} THEN CHOOSE l \in held : TRUE
                ELSE Published[req[r].row][records][req[r].now]
    IN  /\ At(r, "snapshot")
        /\ Send(r, list, req[r].tag = list)
        /\ UNCHANGED <<clock, stateVars, held>>

\* Faulty: the limiter comes before the tag.
SnapshotLimitFirst(r) ==
    /\ At(r, "snapshot")
    /\ Send(r, Published[req[r].row][records][req[r].now], FALSE)
    /\ UNCHANGED <<clock, stateVars, held>>

\* The list is made of the records of this moment, by the instant read before.
Snapshot(r) ==
    LET list == Published[req[r].row][records][req[r].now]
    IN  /\ At(r, "snapshot")
        /\ Send(r, list, req[r].tag = list)
        /\ UNCHANGED <<clock, stateVars, held>>

\* 200.
Serve(r) ==
    /\ At(r, "limit")
    /\ Allow(r)
    /\ held' = held \cup {req[r].list}
    /\ Reply(r)
    /\ UNCHANGED stateVars

\* 429.
Throttle(r) ==
    /\ At(r, "limit")
    /\ Reject(r)
    /\ Reply(r)
    /\ UNCHANGED <<stateVars, held>>

\* The client hangs up while the request awaits, or the query fails, or the cutoff is
\* out of range for a date and the request panics.
GiveUp(r) ==
    /\ req[r].at \in {"row", "clock", "snapshot"}
    /\ Reply(r)
    /\ UNCHANGED <<clock, stateVars, held, limiterVars>>

-----------------------------------------------------------------------------

\* The row and the records change, and the requests under way know of both.
Write(rw, recs) ==
    /\ row' = rw /\ records' = recs
    /\ req' = [r \in Callers |->
                 IF At(r, "new") THEN req[r]
                 ELSE [req[r] EXCEPT !.rows = @ \cup {rw}, !.batches = @ \cup {recs}]]
    /\ UNCHANGED <<clock, held, limiterVars>>

\* update_endpoint, and delete_endpoint as far as the row.
Edit(rw) ==
    /\ row # NoRow /\ rw # row
    /\ writes < MaxWrites /\ writes' = writes + 1
    /\ Write(rw, records)
    /\ UNCHANGED evicted

\* The rest of delete_endpoint.
Evict ==
    /\ row = NoRow /\ ~evicted
    /\ evicted' = TRUE
    /\ Write(row, {})
    /\ UNCHANGED writes

\* apply_full or apply_diff, also for an endpoint that is gone by then.
Sync(recs) ==
    /\ recs # records
    /\ \A rec \in recs : rec.last_seen_at <= clock
    /\ writes < MaxWrites /\ writes' = writes + 1
    /\ Write(row, recs)
    /\ UNCHANGED evicted

FeedNext ==
    \/ Tick /\ UNCHANGED <<stateVars, held, req>>
    \/ \E r \in Callers :
          \/ \E ip \in Ips, tag \in held \cup {None} : Request(r, ip, tag)
          \/ ReadRow(r) \/ ReadClock(r) \/ Snapshot(r) \/ Serve(r) \/ Throttle(r) \/ GiveUp(r)
    \/ \E rw \in Rows \cup {NoRow} : Edit(rw)
    \/ \E recs \in Batches : Sync(recs)
    \/ Evict

FeedSpec == FeedInit /\ [][FeedNext]_feedVars

-----------------------------------------------------------------------------

(* What a request may have published: any row and any records there were since it
   arrived, at any instant since. *)
Possible(r) ==
    {Published[rw][recs][now] : rw \in req[r].rows \ {NoRow}, recs \in req[r].batches,
                                now \in req[r].since..clock}

(* A list that is served was made during the request from a row, an instant and records
   of that time, although serve_feed reads the three with an await between each and the
   next and waits for the limiter afterwards: an edit counts from the next request on, as
   snapshot_within promises. *)
ServedWasPublished ==
    [][\A r \in Callers : Serve(r) => req[r].list \in Possible(r)]_feedVars

(* A client that sends the tag of the list it holds is turned away by the limiter
   only if there is something new for it: as long as the list stays the same,
   revalidation is free, however often the client comes back. *)
RefusedOnlyForNews ==
    [][\A r \in Callers : Throttle(r) => Possible(r) # {req[r].tag}]_feedVars

(* The list covers the addresses of all records inside the retention window that do
   not touch a range the flags exclude, no others, and no address twice, whichever
   of a record and a range is the larger network. *)
PublishesWhatIsLeft ==
    row # NoRow =>
        LET list == Published[row][records][clock]
            out  == UNION {Cover(Excluded[flag]) : flag \in row.flags}
            kept == {rec \in records :
                        /\ row.max_age_seconds = 0 \/ clock - rec.last_seen_at <= row.max_age_seconds
                        /\ Hosts(rec.network) \cap out = {}}
        IN  /\ Cover(list) = UNION {Hosts(rec.network) : rec \in kept}
            /\ \A m, n \in list : m # n => Hosts(m) \cap Hosts(n) = {}

=============================================================================
