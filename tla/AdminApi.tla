------------------------------ MODULE AdminApi ------------------------------
(***************************************************************************)
(* The mutating handlers of /api/keys and /api/endpoints (src/api/keys.rs  *)
(* and src/api/endpoints.rs) over the tables they share, with the audit    *)
(* trail.  A handler is a sequence of database round-trips; between two of *)
(* them other handlers run, the client may hang up, and the database may   *)
(* fail.  The pool has one connection, so a transaction is one step.       *)
(***************************************************************************)
EXTENDS Integers, FiniteSets

CONSTANTS
    Keys,       \* api_keys.id
    Master,     \* the Master key
    Endpoints,  \* endpoints.id
    Requests,   \* requests; also the value a request writes into a column
    None        \* Option::None, and a column nobody has written since the start

ASSUME MasterAssumption == Master \in Keys
ASSUME IdsAssumption == Keys \cap Endpoints = {}
ASSUME NoneAssumption == None \notin Keys \cup Endpoints \cup Requests

VARIABLES
    keys,       \* api_keys: id -> the columns the handlers write
    endpoints,  \* endpoints: id -> owner, and the configuration columns as one
    used,       \* ids inserted so far (they are random, so never used again)
    call,       \* what each request asks for
    pc,         \* where its handler is, or the status it answered
    existing,   \* the row its handler read before it writes
    audit,      \* audit_logs: the requests with an entry
    changed     \* history: the requests whose write took effect

tables == <<keys, endpoints, used>>
vars == <<tables, call, pc, existing, audit, changed>>

KeyOps == {"update_api_key", "rotate_api_key", "rotate_signing_secret"}

\* The requests that parse.  `to` is ?reassign_to=, respectively owner_key_id; None
\* when there is none.
Calls ==
    LET Option == Keys \cup {None}
    IN       [op : {"create_api_key", "create_endpoint"}, caller : Keys]
        \cup [op : KeyOps, caller : Keys, key : Keys]
        \cup [op : {"delete_api_key"}, caller : Keys, key : Keys, to : Option]
        \cup [op : {"update_endpoint", "delete_endpoint"}, caller : Keys, endpoint : Endpoints]
        \cup [op : {"reassign_endpoint_owner"}, caller : Keys, endpoint : Endpoints, to : Option]

Columns == Requests \cup {None}
KeyRow == [profile : Columns, key_hash : Columns, signing_secret : Columns]
EndpointRow == [owner_key_id : Keys \cup {None}, config : Columns]

NewKey == [profile |-> None, key_hash |-> None, signing_secret |-> None]

Init ==
    /\ \E K \in SUBSET Keys : Master \in K /\ keys = [k \in K |-> NewKey]
    /\ \E E \in SUBSET Endpoints : \E owner \in [E -> DOMAIN keys \cup {None}] :
          endpoints = [e \in E |-> [owner_key_id |-> owner[e], config |-> None]]
    /\ used = DOMAIN keys \cup DOMAIN endpoints
    /\ call = [r \in Requests |-> None]
    /\ pc = [r \in Requests |-> "idle"]
    /\ existing = [r \in Requests |-> None]
    /\ audit = {} /\ changed = {}

InProgress == {"find", "owner", "access", "write", "audit"}

\* The handler goes on with the row it holds, or returns and drops it.
Proceed(r, where, row) ==
    /\ pc' = [pc EXCEPT ![r] = where]
    /\ existing' = [existing EXCEPT ![r] = IF where \in InProgress THEN row ELSE None]

Goto(r, where) == Proceed(r, where, existing[r])

At(r, op, where) == pc[r] = where /\ call[r].op = op

-----------------------------------------------------------------------------
(* Before the write.                                                         *)

MasterOnly == KeyOps \cup {"create_api_key", "delete_api_key", "reassign_endpoint_owner"}

FirstStep(c) ==
    IF c.op \in MasterOnly /\ c.caller # Master THEN "403"
    ELSE IF c.op = "create_api_key" THEN "write"
    ELSE IF c.op = "create_endpoint" THEN "access"
    ELSE "find"

\* auth_middleware found the caller's row; the handler works with that copy of it.
Arrive(r, c) ==
    /\ pc[r] = "idle"
    /\ c.caller \in DOMAIN keys
    /\ call' = [call EXCEPT ![r] = c]
    /\ Goto(r, FirstStep(c))
    /\ UNCHANGED <<tables, audit, changed>>

\* guard_master_delete_or_rotate; guard_master_update lets bound_ips through, and
\* an update's payload may be refused.
FoundKey(c) ==
    IF c.op = "update_api_key"
    THEN {"write", "400"} \cup (IF c.key = Master THEN {"403"} ELSE {})
    ELSE IF c.key = Master THEN {"403"}
    ELSE IF c.op = "delete_api_key" /\ c.to = c.key THEN {"400"}
    ELSE {"write"}

\* ApiKey::find_by_id(id), and the guards on what it found.
FindKey(r) ==
    LET c == call[r]
    IN  /\ pc[r] = "find"
        /\ c.op \in KeyOps \cup {"delete_api_key"}
        /\ IF c.key \notin DOMAIN keys
           THEN Goto(r, "404")
           ELSE \E next \in FoundKey(c) : Proceed(r, next, keys[c.key])
        /\ UNCHANGED <<tables, call, audit, changed>>

may_manage(caller, e) == caller = Master \/ endpoints[e].owner_key_id = caller

FoundEndpoint(c) ==
    IF c.op = "reassign_endpoint_owner" THEN "owner"
    ELSE IF ~may_manage(c.caller, c.endpoint) THEN "403"
    ELSE IF c.op = "update_endpoint" THEN "access"
    ELSE "write"

\* Endpoint::find_by_id(id), and the caller's right to it.
FindEndpoint(r) ==
    LET c == call[r]
    IN  /\ pc[r] = "find"
        /\ c.op \in {"update_endpoint", "delete_endpoint", "reassign_endpoint_owner"}
        /\ IF c.endpoint \notin DOMAIN endpoints
           THEN Goto(r, "404")
           ELSE Proceed(r, FoundEndpoint(c), endpoints[c.endpoint])
        /\ UNCHANGED <<tables, call, audit, changed>>

\* The payload's checks: GroupGrants says when validate_group_access refuses.
CheckAccess(r) ==
    /\ pc[r] = "access"
    /\ \E next \in {"write", "400"} \cup (IF call[r].caller = Master THEN {} ELSE {"403"}) :
          Goto(r, next)
    /\ UNCHANGED <<tables, call, audit, changed>>

\* reassign_endpoint_owner looks the new owner up.
FindOwner(r) ==
    /\ pc[r] = "owner"
    /\ Goto(r, IF call[r].to \in DOMAIN keys \cup {None} THEN "write" ELSE "400")
    /\ UNCHANGED <<tables, call, audit, changed>>

-----------------------------------------------------------------------------
(* The write, and the audit entry after it.                                  *)

\* Faulty: foreign keys are declared but not enforced.
FkUnchecked(k) == TRUE

\* SQLite enforces fk_endpoints_owner_key_id: connect() turns foreign_keys on.
FkHolds(k) == k \in DOMAIN keys \cup {None}

Done(r, took_effect) ==
    /\ Goto(r, IF took_effect THEN "audit" ELSE "500")
    /\ changed' = IF took_effect THEN changed \cup {r} ELSE changed
    /\ UNCHANGED <<call, audit>>

create_api_key(r) ==
    /\ At(r, "create_api_key", "write")
    /\ \E k \in Keys \ used :
          /\ keys' = [i \in DOMAIN keys \cup {k} |-> IF i = k THEN NewKey ELSE keys[i]]
          /\ used' = used \cup {k}
    /\ Done(r, TRUE)
    /\ UNCHANGED endpoints

\* ActiveModel::update: the columns that were Set, or RecordNotUpdated.
UpdateKey(r, row) ==
    LET k == call[r].key
    IN  /\ keys' = [i \in DOMAIN keys |-> IF i = k THEN row ELSE keys[i]]
        /\ Done(r, k \in DOMAIN keys)
        /\ UNCHANGED <<endpoints, used>>

update_api_key(r) ==
    /\ At(r, "update_api_key", "write")
    /\ UpdateKey(r, [keys[call[r].key] EXCEPT !.profile = r])

rotate_api_key(r) ==
    /\ At(r, "rotate_api_key", "write")
    /\ UpdateKey(r, [keys[call[r].key] EXCEPT !.key_hash = r, !.signing_secret = r])

\* Faulty: writes the row it read back, with the new secret.
rotate_signing_secret_whole_row(r) ==
    /\ At(r, "rotate_signing_secret", "write")
    /\ UpdateKey(r, [existing[r] EXCEPT !.signing_secret = r])

rotate_signing_secret(r) ==
    /\ At(r, "rotate_signing_secret", "write")
    /\ UpdateKey(r, [keys[call[r].key] EXCEPT !.signing_secret = r])

Owned(k) == {e \in DOMAIN endpoints : endpoints[e].owner_key_id = k}

\* Faulty: a second delete of a key that is gone is as good as the first.
DeleteStatusAnyRows(c) ==
    IF c.to \notin DOMAIN keys \cup {None} THEN "400"
    ELSE IF c.to = None /\ Owned(c.key) # {} THEN "409"
    ELSE "ok"

\* Why the transaction is rolled back, or that it commits.
DeleteStatus(c) ==
    IF c.to \notin DOMAIN keys \cup {None} THEN "400"
    ELSE IF c.to = None /\ Owned(c.key) # {} THEN "409"
    ELSE IF c.key \notin DOMAIN keys THEN "404"
    ELSE "ok"

\* One transaction: the inventory, the reassignment, the delete (ON DELETE SET
\* NULL finds no endpoint left to change) and the audit entry.
delete_api_key(r) ==
    LET c      == call[r]
        status == DeleteStatus(c)
    IN  /\ At(r, "delete_api_key", "write")
        /\ IF status = "ok" /\ c.caller \in DOMAIN keys
           THEN /\ endpoints' = [e \in DOMAIN endpoints |->
                                   IF e \in Owned(c.key)
                                   THEN [endpoints[e] EXCEPT !.owner_key_id = c.to]
                                   ELSE endpoints[e]]
                /\ keys' = [k \in DOMAIN keys \ {c.key} |-> keys[k]]
                /\ audit' = audit \cup {r} /\ changed' = changed \cup {r}
                /\ Goto(r, "ok")
           ELSE /\ Goto(r, IF status = "ok" THEN "500" ELSE status)
                /\ UNCHANGED <<keys, endpoints, audit, changed>>
        /\ UNCHANGED <<used, call>>

create_endpoint(r) ==
    LET owner == call[r].caller
    IN  /\ At(r, "create_endpoint", "write")
        /\ IF FkHolds(owner)
           THEN \E e \in Endpoints \ used :
                   /\ endpoints' = [i \in DOMAIN endpoints \cup {e} |->
                                      IF i = e THEN [owner_key_id |-> owner, config |-> r]
                                               ELSE endpoints[i]]
                   /\ used' = used \cup {e}
           ELSE UNCHANGED <<endpoints, used>>
        /\ Done(r, FkHolds(owner))
        /\ UNCHANGED keys

UpdateEndpoint(r, row) ==
    LET e       == call[r].endpoint
        written == e \in DOMAIN endpoints /\ FkHolds(row.owner_key_id)
    IN  /\ endpoints' = IF written THEN [endpoints EXCEPT ![e] = row] ELSE endpoints
        /\ Done(r, written)
        /\ UNCHANGED <<keys, used>>

\* Faulty: writes the row it read back, with the new configuration.
update_endpoint_whole_row(r) ==
    /\ At(r, "update_endpoint", "write")
    /\ UpdateEndpoint(r, [existing[r] EXCEPT !.config = r])

update_endpoint(r) ==
    /\ At(r, "update_endpoint", "write")
    /\ UpdateEndpoint(r, [endpoints[call[r].endpoint] EXCEPT !.config = r])

reassign_endpoint_owner(r) ==
    /\ At(r, "reassign_endpoint_owner", "write")
    /\ UpdateEndpoint(r, [endpoints[call[r].endpoint] EXCEPT !.owner_key_id = call[r].to])

\* The eviction from the cache that follows the DELETE is SyncWorker's EvictDeleted.
delete_endpoint(r) ==
    LET e == call[r].endpoint
    IN  /\ At(r, "delete_endpoint", "write")
        /\ endpoints' = [i \in DOMAIN endpoints \ {e} |-> endpoints[i]]
        /\ Goto(r, IF e \in DOMAIN endpoints THEN "audit" ELSE "404")
        /\ changed' = IF e \in DOMAIN endpoints THEN changed \cup {r} ELSE changed
        /\ UNCHANGED <<keys, used, call, audit>>

\* Faulty: the answer does not depend on the entry.
create_audit_log_best_effort(r) ==
    /\ pc[r] = "audit"
    /\ audit' = IF FkHolds(call[r].caller) THEN audit \cup {r} ELSE audit
    /\ Goto(r, "ok")
    /\ UNCHANGED <<tables, call, changed>>

\* The entry names the caller's key, which must still exist.
create_audit_log(r) ==
    /\ pc[r] = "audit"
    /\ IF FkHolds(call[r].caller)
       THEN audit' = audit \cup {r} /\ Goto(r, "ok")
       ELSE Goto(r, "500") /\ UNCHANGED audit
    /\ UNCHANGED <<tables, call, changed>>

\* A statement fails (DbErr becomes 500); a client that hangs up, whose handler is
\* dropped where it waits, leaves the same state.
Abandon(r) ==
    /\ pc[r] \in InProgress
    /\ Goto(r, "500")
    /\ UNCHANGED <<tables, call, audit, changed>>

KeyHandler(r) ==
    \/ FindKey(r)
    \/ create_api_key(r)
    \/ update_api_key(r)
    \/ rotate_api_key(r)
    \/ rotate_signing_secret(r)
    \/ delete_api_key(r)

EndpointHandler(r) ==
    \/ FindEndpoint(r)
    \/ CheckAccess(r)
    \/ FindOwner(r)
    \/ create_endpoint(r)
    \/ update_endpoint(r)
    \/ reassign_endpoint_owner(r)
    \/ delete_endpoint(r)

Next ==
    \E r \in Requests :
        \/ \E c \in Calls : Arrive(r, c)
        \/ KeyHandler(r)
        \/ EndpointHandler(r)
        \/ create_audit_log(r)
        \/ Abandon(r)

Spec == Init /\ [][Next]_vars

-----------------------------------------------------------------------------
(* What the handlers promise.                                                *)

Statuses == {"ok", "400", "403", "404", "409", "500"}

\* Every table, request and row in hand has the shape the schema gives it.
TypeOK ==
    /\ DOMAIN keys \subseteq Keys /\ \A k \in DOMAIN keys : keys[k] \in KeyRow
    /\ DOMAIN endpoints \subseteq Endpoints
    /\ \A e \in DOMAIN endpoints : endpoints[e] \in EndpointRow
    /\ used \subseteq Keys \cup Endpoints
    /\ DOMAIN keys \cup DOMAIN endpoints \subseteq used
    /\ call \in [Requests -> Calls \cup {None}]
    /\ pc \in [Requests -> InProgress \cup Statuses \cup {"idle"}]
    /\ existing \in [Requests -> KeyRow \cup EndpointRow \cup {None}]
    /\ audit \subseteq Requests /\ changed \subseteq Requests

\* The tables are well formed and an endpoint's owner exists, however creation,
\* reassignment and key deletion interleave (delete_api_key reassigns and deletes in
\* one transaction; a late INSERT or UPDATE naming a deleted key fails on the
\* foreign key).
OwnersExist ==
    /\ TypeOK
    /\ \A e \in DOMAIN endpoints : endpoints[e].owner_key_id \in DOMAIN keys \cup {None}

\* Ownership moves only where a caller asked: to the owner a reassignment names, or,
\* when its owner's key is deleted, to the key ?reassign_to= names.  In particular it
\* never falls through to NULL by the delete (ON DELETE SET NULL), and an update that
\* raced with a reassignment does not undo it.
OwnershipMovesOnRequest ==
    [][\A e \in DOMAIN endpoints \cap DOMAIN endpoints' :
          endpoints'[e].owner_key_id # endpoints[e].owner_key_id =>
             \E r \in Requests :
                /\ pc[r] = "write" /\ pc'[r] # "write"
                /\ \/ /\ call[r].op = "reassign_endpoint_owner"
                      /\ call[r].endpoint = e
                      /\ call[r].to = endpoints'[e].owner_key_id
                   \/ /\ call[r].op = "delete_api_key"
                      /\ call[r].key = endpoints[e].owner_key_id
                      /\ call[r].to = endpoints'[e].owner_key_id
                      /\ call[r].to # None]_vars

\* A key's credentials change only at a rotation and its profile only at an update: two
\* handlers that read the same row and then write it do not undo each other's columns.
ColumnsKept ==
    [][\A k \in DOMAIN keys \cap DOMAIN keys' :
          \A column \in {"profile", "key_hash", "signing_secret"} :
             keys'[k][column] # keys[k][column] =>
                \E r \in Requests :
                   /\ pc[r] = "write" /\ call[r].op \in KeyOps /\ call[r].key = k
                   /\ keys'[k][column] = r
                   /\ (call[r].op = "update_api_key") = (column = "profile")
                   /\ call[r].op = "rotate_signing_secret" => column = "signing_secret"]_vars

DeleteTarget(r) == IF call[r].op = "delete_api_key" THEN call[r].key ELSE call[r].endpoint

Deletes == {r \in Requests : call[r] # None /\ call[r].op \in {"delete_api_key", "delete_endpoint"}}

\* However many deletes of one row race, at most one has an audit entry, and then the
\* row is gone and stays gone.
DeletedOnce ==
    \A r \in Deletes \cap audit :
        /\ DeleteTarget(r) \notin DOMAIN keys \cup DOMAIN endpoints
        /\ \A s \in Deletes \cap audit : DeleteTarget(s) = DeleteTarget(r) => s = r

\* The trail and the tables agree: a request that answered success has its entry, and an
\* entry stands for a write that this request itself made.
SuccessIsAudited ==
    /\ \A r \in Requests : pc[r] = "ok" => r \in audit
    /\ audit \subseteq changed

=============================================================================
