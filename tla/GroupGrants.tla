----------------------------- MODULE GroupGrants -----------------------------
(***************************************************************************)
(* Vault-group grants: the table vault_group_permissions, the handlers     *)
(* that write it (src/api/groups.rs), the check on an endpoint's           *)
(* vault_groups that reads it (src/api/endpoints.rs), the deletion of a    *)
(* key, which cascades to it, and the worker that drops the grants of      *)
(* groups Vault no longer has (src/groups.rs).  Vault renames no group     *)
(* here, but may create one with the name of a deleted one.                *)
(***************************************************************************)
EXTENDS Integers, FiniteSets, Functions

CONSTANTS
    Keys,      \* Daughter keys
    Groups,    \* Vault group ids; an id is used once
    Names,     \* Vault group names
    Requests,  \* requests; a grant has the id of the request that inserted it
    Old,       \* the id of a grant from before the start
    None

ASSUME OldAssumption == Old \notin Requests

VARIABLES
    keys,    \* the Daughter keys that exist
    vault,   \* the groups Vault has
    named,   \* the name of every group Vault has had
    grants,  \* vault_group_permissions
    written, \* the group names that each request put into an endpoint
    call,    \* what each request in progress asks for
    pc,      \* where its handler is, or the status it answered
    worker,  \* the cleanup pass
    since,   \* history: the names its caller held between a request's arrival and its check
    absent   \* history: the groups Vault did not have when the pass listed them

requests == <<call, pc>>
vars == <<keys, vault, named, grants, written, requests, worker, since, absent>>

Grant == [id : Requests \cup {Old}, key : Keys, group : Groups, name : Names]

Calls ==
         [op : {"grant_key_group"}, key : Keys, group : Groups]
    \cup [op : {"revoke_key_group"}, key : Keys, id : Requests \cup {Old}]
    \cup [op : {"delete_api_key"}, key : Keys]
    \cup [op : {"write_endpoint"}, key : Keys, names : SUBSET Names \ {{}}]

Sleeping == [at |-> "sleep", live |-> {}, stale |-> {}]

Init ==
    /\ keys = Keys
    /\ \E g \in Groups, n \in Names :
          /\ vault = {g} /\ named = [i \in {g} |-> n]
          /\ \/ grants = {}
             \/ \E k \in Keys : grants = {[id |-> Old, key |-> k, group |-> g, name |-> n]}
    /\ absent = {}
    /\ written = [r \in Requests |-> {}] /\ since = [r \in Requests |-> {}]
    /\ call = [r \in Requests |-> None]
    /\ pc = [r \in Requests |-> "idle"]
    /\ worker = Sleeping

-----------------------------------------------------------------------------
(* Vault.                                                                    *)

VaultCreates(g, n) ==
    /\ g \notin DOMAIN named
    /\ \A i \in vault : named[i] # n
    /\ vault' = vault \cup {g}
    /\ named' = [i \in DOMAIN named \cup {g} |-> IF i = g THEN n ELSE named[i]]
    /\ UNCHANGED <<keys, grants, written, requests, worker, since, absent>>

VaultDeletes(g) ==
    /\ g \in vault
    /\ vault' = vault \ {g}
    /\ UNCHANGED <<keys, named, grants, written, requests, worker, since, absent>>

\* What client.list_groups() may return to a handler: the groups, none at all when
\* Vault answers 403, or an error.
Listing == {vault, {}}

-----------------------------------------------------------------------------
(* The handlers: the Master's, and create_endpoint and update_endpoint as a  *)
(* Daughter calls them (op write_endpoint) with groups to write.             *)

InProgress == {"find", "list", "existing", "grant", "access", "write", "audit"}

Goto(r, where) ==
    /\ pc' = [pc EXCEPT ![r] = where]
    /\ call' = [call EXCEPT ![r] = IF where \in InProgress THEN @ ELSE None]

At(r, op, where) == pc[r] = where /\ call[r].op = op
ReadOnly == UNCHANGED <<keys, vault, named, grants, written, worker, since, absent>>

FirstStep(c) ==
    CASE c.op \in {"grant_key_group", "revoke_key_group"} -> "find"
      [] c.op = "delete_api_key" -> "write"
      [] c.op = "write_endpoint" -> "access"

granted_group_names(k) == {x.name : x \in {y \in grants : y.key = k}}

Arrive(r, c) ==
    /\ pc[r] = "idle"
    /\ c.op = "write_endpoint" => c.key \in keys
    /\ call' = [call EXCEPT ![r] = c]
    /\ pc' = [pc EXCEPT ![r] = FirstStep(c)]
    /\ since' = IF c.op = "write_endpoint"
                THEN [since EXCEPT ![r] = @ \cup granted_group_names(c.key)] ELSE since
    /\ UNCHANGED <<keys, vault, named, grants, written, worker, absent>>

FindTarget(r) ==
    /\ pc[r] = "find"
    /\ Goto(r, IF call[r].key \notin keys THEN "404"
               ELSE IF call[r].op = "grant_key_group" THEN "list" ELSE "grant")
    /\ ReadOnly

\* The group must be in Vault's answer.
ListForGrant(r) ==
    /\ pc[r] = "list"
    /\ \/ \E listed \in Listing : Goto(r, IF call[r].group \in listed THEN "existing" ELSE "400")
       \/ Goto(r, "502")
    /\ ReadOnly

Held(k, g) == {x \in grants : x.key = k /\ x.group = g}

\* A pair already granted is answered with the existing row.
FindExisting(r) ==
    /\ pc[r] = "existing"
    /\ Goto(r, IF Held(call[r].key, call[r].group) # {} THEN "ok" ELSE "write")
    /\ ReadOnly

\* The foreign key and the unique index on (api_key_id, vault_group_id).
InsertAllowed(k, g) == k \in keys /\ Held(k, g) = {}

\* The row carries the name that Vault listed for the id.
grant_key_group(r) ==
    LET c   == call[r]
        row == [id |-> r, key |-> c.key, group |-> c.group, name |-> named[c.group]]
    IN  /\ At(r, "grant_key_group", "write")
        /\ IF InsertAllowed(c.key, c.group)
           THEN /\ grants' = grants \cup {row}
                /\ since' = [q \in Requests |-> IF pc[q] = "access" /\ call[q].key = c.key
                                               THEN since[q] \cup {row.name} ELSE since[q]]
                /\ Goto(r, "audit")
           ELSE Goto(r, "constraint") /\ UNCHANGED <<grants, since>>
        /\ UNCHANGED <<keys, vault, named, written, worker, absent>>

\* The grant must be one of this key.
FindGrant(r) ==
    /\ pc[r] = "grant"
    /\ Goto(r, IF \E x \in grants : x.id = call[r].id /\ x.key = call[r].key
               THEN "write" ELSE "404")
    /\ ReadOnly

\* The DELETE does not look at rows_affected.
revoke_key_group(r) ==
    /\ At(r, "revoke_key_group", "write")
    /\ grants' = {x \in grants : x.id # call[r].id}
    /\ Goto(r, "audit")
    /\ UNCHANGED <<keys, vault, named, written, worker, since, absent>>

\* The transaction of AdminApi's delete_api_key, for a key that owns no endpoint or
\* with a reassign_to; its grants go with it (ON DELETE CASCADE).
delete_api_key(r) ==
    LET k == call[r].key
    IN  /\ At(r, "delete_api_key", "write")
        /\ keys' = keys \ {k}
        /\ grants' = {x \in grants : x.key # k}
        /\ Goto(r, IF k \in keys THEN "ok" ELSE "404")
        /\ UNCHANGED <<vault, named, written, worker, since, absent>>

\* Faulty: any group held is enough.
ValidateAnyGroup(k, names) == granted_group_names(k) \cap names # {}

\* validate_group_access, for a Daughter.
validate_group_access(k, names) == names \subseteq granted_group_names(k)

CheckAccess(r) ==
    /\ pc[r] = "access"
    /\ Goto(r, IF validate_group_access(call[r].key, call[r].names) THEN "write" ELSE "403")
    /\ ReadOnly

\* The INSERT; when the caller's key is gone it fails on its foreign key.
create_endpoint(r) ==
    /\ At(r, "write_endpoint", "write")
    /\ IF call[r].key \in keys
       THEN written' = [written EXCEPT ![r] = call[r].names] /\ Goto(r, "audit")
       ELSE Goto(r, "constraint") /\ UNCHANGED written
    /\ UNCHANGED <<keys, vault, named, grants, worker, since, absent>>

\* The UPDATE finds the endpoint, whoever owns it by now: also when the caller's key is
\* gone, if the deletion reassigned it.  That the caller owned it is AdminApi's.
update_endpoint(r) ==
    /\ At(r, "write_endpoint", "write")
    /\ written' = [written EXCEPT ![r] = call[r].names]
    /\ Goto(r, "audit")
    /\ UNCHANGED <<keys, vault, named, grants, worker, since, absent>>

\* The entry itself is AdminApi's; it names the caller's key, which must still exist.
create_audit_log(r) ==
    /\ pc[r] = "audit"
    /\ Goto(r, IF call[r].op = "write_endpoint" /\ call[r].key \notin keys
               THEN "500" ELSE "ok")
    /\ ReadOnly

\* A statement fails; a client that hangs up leaves the same state.
Abandon(r) ==
    /\ pc[r] \in InProgress
    /\ Goto(r, "500")
    /\ ReadOnly

Handler(r) ==
    \/ FindTarget(r)
    \/ ListForGrant(r)
    \/ FindExisting(r)
    \/ grant_key_group(r)
    \/ FindGrant(r)
    \/ revoke_key_group(r)
    \/ delete_api_key(r)
    \/ CheckAccess(r)
    \/ create_endpoint(r)
    \/ update_endpoint(r)
    \/ create_audit_log(r)
    \/ Abandon(r)

-----------------------------------------------------------------------------
(* The monthly worker: cleanup_stale_group_permissions.                      *)

Worker(w) ==
    /\ worker' = w
    /\ UNCHANGED <<keys, vault, named, written, requests, since>>

\* Faulty: a 403 is an empty listing, as it is for the handlers.
CleanupListsForbidden ==
    /\ worker.at = "sleep"
    /\ \E listed \in Listing : Worker([at |-> "read", live |-> listed, stale |-> {}])
    /\ absent' = Groups \ vault
    /\ UNCHANGED grants

\* A pass begins with Vault's groups; when Vault errs or answers 403 there is no pass.
CleanupLists ==
    /\ worker.at = "sleep"
    /\ Worker([at |-> "read", live |-> vault, stale |-> {}])
    /\ absent' = Groups \ vault
    /\ UNCHANGED grants

\* Faulty: compares names, which Vault may use again.
CleanupReadsNames ==
    LET live  == {named[g] : g \in worker.live}
        stale == {x.id : x \in {y \in grants : y.name \notin live}}
    IN  /\ worker.at = "read"
        /\ Worker(IF stale = {} THEN Sleeping
                  ELSE [at |-> "delete", live |-> {}, stale |-> stale])
        /\ absent' = IF stale = {} THEN {} ELSE absent
        /\ UNCHANGED grants

\* The ids of the grants whose group was not listed.
CleanupReads ==
    LET stale == {x.id : x \in {y \in grants : y.group \notin worker.live}}
    IN  /\ worker.at = "read"
        /\ Worker(IF stale = {} THEN Sleeping
                  ELSE [at |-> "delete", live |-> {}, stale |-> stale])
        /\ absent' = IF stale = {} THEN {} ELSE absent
        /\ UNCHANGED grants

CleanupDeletes ==
    /\ worker.at = "delete"
    /\ grants' = {x \in grants : x.id \notin worker.stale}
    /\ Worker(Sleeping)
    /\ absent' = {}

\* The database fails: the pass ends with nothing done.
CleanupFails ==
    /\ worker.at # "sleep"
    /\ Worker(Sleeping)
    /\ absent' = {}
    /\ UNCHANGED grants

Next ==
    \/ \E g \in Groups, n \in Names : VaultCreates(g, n)
    \/ \E g \in Groups : VaultDeletes(g)
    \/ \E r \in Requests : (\E c \in Calls : Arrive(r, c)) \/ Handler(r)
    \/ CleanupLists
    \/ CleanupReads
    \/ CleanupDeletes
    \/ CleanupFails

Spec == Init /\ [][Next]_vars

\* The worker loops for ever, and neither Vault nor the database fails it every time.
Fairness ==
    /\ WF_vars(CleanupLists)
    /\ SF_vars(CleanupReads)
    /\ SF_vars(CleanupDeletes)

FairSpec == Spec /\ Fairness

-----------------------------------------------------------------------------
(* What the grants promise.                                                  *)

Statuses == {"ok", "400", "403", "404", "500", "502", "constraint"}

\* Every variable has the shape the code gives it; a grant's group has been in Vault.
TypeOK ==
    /\ keys \subseteq Keys
    /\ vault \subseteq DOMAIN named /\ DOMAIN named \subseteq Groups
    /\ \A g \in DOMAIN named : named[g] \in Names
    /\ grants \subseteq Grant
    /\ written \in [Requests -> SUBSET Names] /\ since \in [Requests -> SUBSET Names]
    /\ call \in [Requests -> Calls \cup {None}]
    /\ pc \in [Requests -> InProgress \cup Statuses \cup {"idle"}]
    /\ worker \in [at : {"sleep", "read", "delete"}, live : SUBSET Groups,
                   stale : SUBSET (Requests \cup {Old})]
    /\ absent \subseteq Groups

\* All state is well formed; the table holds one row for a key and a group, and none
\* for a key that is gone, although a grant is checked for and inserted in two
\* round-trips and its key may be deleted between them; and a name that a Daughter's
\* request puts into an endpoint was granted to that Daughter while the request was
\* under way, no matter what it was granted before or is granted later.  This speaks of
\* the Daughter that writes: reassign_endpoint_owner and a reassign_to hand an endpoint
\* over with the names it has, and the Master's own writes are not checked.
RowsAreSound ==
    /\ TypeOK
    /\ \A r \in Requests : written[r] \subseteq since[r]
    /\ \A x, y \in grants : x.key = y.key /\ x.group = y.group => x = y
    /\ \A x \in grants : x.key \in keys

\* The cleanup removes a grant only if Vault lacked its group when the pass listed the
\* groups: "couldn't ask" is never taken for "doesn't exist" (groups.rs).
OutagesKeepGrants ==
    [][\A x \in grants \ grants' :
          worker.at = "delete" /\ worker'.at = "sleep" => x.group \in absent]_vars

\* The grant of a group that Vault has dropped goes away in the end, also one inserted
\* after the group was dropped and also when the group's name is in use again.
StaleGrantsGo ==
    \A g \in Groups :
        [](g \in DOMAIN named \ vault => <>(\A x \in grants : x.group # g))

=============================================================================
