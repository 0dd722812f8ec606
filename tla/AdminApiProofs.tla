--------------------------- MODULE AdminApiProofs ---------------------------
(***************************************************************************)
(* The properties of AdminApi for any number of keys, endpoints and        *)
(* concurrent requests.                                                    *)
(***************************************************************************)
EXTENDS AdminApi, TLAPS

\* A handler knows what it was called with.
Called == \A r \in Requests : pc[r] # "idle" => call[r] \in Calls

\* The steps between the first and the write are those of the operation, and a deletion
\* that got to its write reassigns to another key.
Staged(r) ==
    /\ pc[r] = "access" => call[r].op \in {"create_endpoint", "update_endpoint"}
    /\ pc[r] = "owner" => call[r].op = "reassign_endpoint_owner"
    /\ pc[r] = "write" /\ call[r].op = "delete_api_key" => call[r].to # call[r].key

\* A request is in the trail when it answered success; its write took effect before
\* its handler audits, and nothing else of it does.
Trail ==
    /\ \A r \in Requests : pc[r] = "ok" <=> r \in audit
    /\ \A r \in Requests : pc[r] = "audit" => r \in changed
    /\ \A r \in changed : pc[r] \in {"audit", "ok", "500"}
    /\ audit \subseteq changed

\* A delete that took effect leaves an id that is used and in no table, and no other
\* delete of that id took effect.
Gone ==
    \A r \in Deletes \cap changed :
        /\ DeleteTarget(r) \in used \ (DOMAIN keys \cup DOMAIN endpoints)
        /\ \A s \in Deletes \cap changed : DeleteTarget(s) = DeleteTarget(r) => s = r

IInv == OwnersExist /\ Called /\ (\A r \in Requests : Staged(r)) /\ Trail /\ Gone

-----------------------------------------------------------------------------
(* What a call holds, and what each kind of step does.                       *)

Ops == KeyOps \cup {"create_api_key", "create_endpoint", "delete_api_key",
                    "update_endpoint", "delete_endpoint", "reassign_endpoint_owner"}

\* The fields of the requests that parse, by operation.
LEMMA CallFields ==
    ASSUME NEW c \in Calls
    PROVE  /\ c.op \in Ops /\ c.caller \in Keys
           /\ c.op \in KeyOps \cup {"delete_api_key"} => c.key \in Keys
           /\ c.op \in {"delete_api_key", "reassign_endpoint_owner"} => c.to \in Keys \cup {None}
           /\ c.op \in {"update_endpoint", "delete_endpoint", "reassign_endpoint_owner"}
                 => c.endpoint \in Endpoints
<1> USE DEF Ops, KeyOps
<1>1. CASE c \in [op : {"create_api_key", "create_endpoint"}, caller : Keys]
    BY <1>1, Zenon
<1>2. CASE c \in [op : KeyOps, caller : Keys, key : Keys]
    BY <1>2, Zenon
<1>3. CASE c \in [op : {"delete_api_key"}, caller : Keys, key : Keys, to : Keys \cup {None}]
    BY <1>3, Zenon
<1>4. CASE c \in [op : {"update_endpoint", "delete_endpoint"}, caller : Keys, endpoint : Endpoints]
    BY <1>4, Zenon
<1>5. CASE c \in [op : {"reassign_endpoint_owner"}, caller : Keys, endpoint : Endpoints,
                  to : Keys \cup {None}]
    BY <1>5, Zenon
<1> QED
    BY <1>1, <1>2, <1>3, <1>4, <1>5, Zenon DEF Calls

\* A step that reads, or ends a handler with an error.
ReadSteps(r) == FindKey(r) \/ FindEndpoint(r) \/ CheckAccess(r) \/ FindOwner(r) \/ Abandon(r)

\* Where such a step leads.
Elsewhere == (InProgress \ {"audit"}) \cup (Statuses \ {"ok"})

\* It changes no table and no trail, and holds a row of the table it read.
LEMMA ReadEffect ==
    ASSUME TypeOK, Called, NEW r \in Requests, ReadSteps(r)
    PROVE  /\ UNCHANGED <<tables, call, audit, changed>>
           /\ pc[r] \in InProgress
           /\ \E w \in Elsewhere : pc' = [pc EXCEPT ![r] = w] /\ (pc[r] = "audit" => w = "500")
           /\ existing' \in [Requests -> KeyRow \cup EndpointRow \cup {None}]
<1> USE DEF InProgress, Statuses, Elsewhere, Goto, Proceed, TypeOK
<1>0. call[r] \in Calls \/ pc[r] = "idle"
    BY Zenon DEF Called
<1>1. CASE FindKey(r)
  <2>1. pc[r] = "find" /\ call[r] \in Calls
      BY <1>0, <1>1, Zenon DEF FindKey
  <2>2. CASE call[r].key \notin DOMAIN keys
      BY <1>1, <2>1, <2>2, Zenon DEF FindKey
  <2>3. CASE call[r].key \in DOMAIN keys
    <3>1. PICK next \in FoundKey(call[r]) : Proceed(r, next, keys[call[r].key])
        BY <1>1, <2>3, Zenon DEF FindKey
    <3>2. next \in {"write", "400", "403"}
        BY Zenon DEF FoundKey
    <3>3. keys[call[r].key] \in KeyRow
        BY <2>3, Zenon
    <3> QED
        BY <1>1, <2>1, <3>1, <3>2, <3>3, Zenon DEF FindKey
  <2> QED
      BY <2>2, <2>3, Zenon
<1>2. CASE FindEndpoint(r)
  <2>1. FoundEndpoint(call[r]) \in {"owner", "403", "access", "write"}
      BY Zenon DEF FoundEndpoint
  <2> QED
      BY <1>2, <2>1, Zenon DEF FindEndpoint
<1>3. CASE CheckAccess(r)
    BY <1>3, Zenon DEF CheckAccess
<1>4. CASE FindOwner(r)
    BY <1>4, Zenon DEF FindOwner
<1>5. CASE Abandon(r)
    BY <1>5, Zenon DEF Abandon
<1> QED
    BY <1>1, <1>2, <1>3, <1>4, <1>5, Zenon DEF ReadSteps

\* The steps that write a table.
KeyWrites(r) == update_api_key(r) \/ rotate_api_key(r) \/ rotate_signing_secret(r)
EndpointWrites(r) == update_endpoint(r) \/ reassign_endpoint_owner(r)
WriteSteps(r) ==
    \/ create_api_key(r) \/ KeyWrites(r) \/ delete_api_key(r)
    \/ create_endpoint(r) \/ EndpointWrites(r) \/ delete_endpoint(r)

\* How the handler goes on: to the audit entry, to success with the entry made in the
\* same transaction, or to an error with nothing changed.
Outcome(r) ==
    /\ pc[r] = "write" /\ UNCHANGED call
    /\ existing' \in [Requests -> KeyRow \cup EndpointRow \cup {None}]
    /\ \/ pc' = [pc EXCEPT ![r] = "audit"] /\ changed' = changed \cup {r} /\ UNCHANGED audit
       \/ /\ pc' = [pc EXCEPT ![r] = "ok"]
          /\ changed' = changed \cup {r} /\ audit' = audit \cup {r}
       \/ /\ \E w \in Statuses \ {"ok"} : pc' = [pc EXCEPT ![r] = w]
          /\ UNCHANGED <<changed, audit>>

\* Every write ends in one of these ways.
LEMMA WriteOutcome ==
    ASSUME TypeOK, NEW r \in Requests, WriteSteps(r)
    PROVE  Outcome(r)
<1> USE DEF Outcome, Statuses, InProgress, TypeOK, Goto, Proceed, Done, At
<1>1. CASE create_api_key(r)
    BY <1>1, Zenon DEF create_api_key
<1>2. CASE KeyWrites(r)
    BY <1>2, Zenon
       DEF KeyWrites, update_api_key, rotate_api_key, rotate_signing_secret, UpdateKey
<1>3. CASE delete_api_key(r)
  <2>1. DeleteStatus(call[r]) \in {"400", "404", "409", "ok"}
      BY Zenon DEF DeleteStatus
  <2> QED
      BY <1>3, <2>1, Zenon DEF delete_api_key
<1>4. CASE create_endpoint(r)
    BY <1>4, Zenon DEF create_endpoint
<1>5. CASE EndpointWrites(r)
    BY <1>5, ZenonT(60)
       DEF EndpointWrites, update_endpoint, reassign_endpoint_owner, UpdateEndpoint
<1>6. CASE delete_endpoint(r)
    BY <1>6, Zenon DEF delete_endpoint
<1> QED
    BY <1>1, <1>2, <1>3, <1>4, <1>5, <1>6, Zenon DEF WriteSteps

\* The shape of the tables, and the owners in them.
TablesOK ==
    /\ DOMAIN keys \subseteq Keys /\ \A k \in DOMAIN keys : keys[k] \in KeyRow
    /\ DOMAIN endpoints \subseteq Endpoints
    /\ \A e \in DOMAIN endpoints : endpoints[e] \in EndpointRow
    /\ used \subseteq Keys \cup Endpoints
    /\ DOMAIN keys \cup DOMAIN endpoints \subseteq used
    /\ \A e \in DOMAIN endpoints : endpoints[e].owner_key_id \in DOMAIN keys \cup {None}

\* An UPDATE of api_keys: one row, and of it the columns of the operation.
LEMMA KeyWriteEffect ==
    ASSUME TypeOK, Called, NEW r \in Requests, KeyWrites(r)
    PROVE  /\ call[r].op \in KeyOps /\ pc[r] = "write"
           /\ UNCHANGED <<endpoints, used>>
           /\ DOMAIN keys' = DOMAIN keys
           /\ \A k \in DOMAIN keys : keys'[k] \in KeyRow
           /\ \A k \in DOMAIN keys : k # call[r].key => keys'[k] = keys[k]
           /\ \A k \in DOMAIN keys : k = call[r].key =>
                /\ keys'[k].profile = IF call[r].op = "update_api_key" THEN r ELSE keys[k].profile
                /\ keys'[k].key_hash = IF call[r].op = "rotate_api_key" THEN r ELSE keys[k].key_hash
                /\ keys'[k].signing_secret =
                      IF call[r].op = "update_api_key" THEN keys[k].signing_secret ELSE r
<1> USE DEF At, UpdateKey, KeyOps, KeyRow, Columns, TypeOK
<1>1. CASE update_api_key(r)
    BY <1>1 DEF update_api_key
<1>2. CASE rotate_api_key(r)
    BY <1>2, ZenonT(60) DEF rotate_api_key
<1>3. CASE rotate_signing_secret(r)
    BY <1>3 DEF rotate_signing_secret
<1> QED
    BY <1>1, <1>2, <1>3, Zenon DEF KeyWrites

\* An UPDATE of endpoints: one row at most, whose owner changes only by a reassignment
\* that the foreign key allows.
LEMMA EndpointWriteEffect ==
    ASSUME TypeOK, Called, NEW r \in Requests, EndpointWrites(r)
    PROVE  /\ call[r].op \in {"update_endpoint", "reassign_endpoint_owner"} /\ pc[r] = "write"
           /\ UNCHANGED <<keys, used>>
           /\ DOMAIN endpoints' = DOMAIN endpoints
           /\ \A e \in DOMAIN endpoints :
                /\ endpoints'[e] \in EndpointRow
                /\ \/ endpoints'[e].owner_key_id = endpoints[e].owner_key_id
                   \/ /\ call[r].op = "reassign_endpoint_owner" /\ call[r].endpoint = e
                      /\ endpoints'[e].owner_key_id = call[r].to
                      /\ call[r].to \in DOMAIN keys \cup {None}
<1>0. call[r] \in Calls /\ pc[r] = "write"
    BY Zenon DEF EndpointWrites, update_endpoint, reassign_endpoint_owner, At, Called
<1> USE DEF At, UpdateEndpoint, EndpointRow, Columns, TypeOK, FkHolds
<1>1. CASE update_endpoint(r)
    BY <1>0, <1>1, ZenonT(60) DEF update_endpoint
<1>2. CASE reassign_endpoint_owner(r)
  <2>1. call[r].to \in Keys \cup {None}
      BY <1>0, <1>2, CallFields, Zenon DEF reassign_endpoint_owner
  <2> QED
      BY <1>0, <1>2, <2>1, ZenonT(60) DEF reassign_endpoint_owner
<1> QED
    BY <1>1, <1>2, Zenon DEF EndpointWrites

\* delete_api_key: nothing happens, or the key goes, and its endpoints to the key named,
\* which is another one.
LEMMA DeleteKeyEffect ==
    ASSUME TypeOK, Called, NEW r \in Requests, delete_api_key(r)
    PROVE  /\ pc[r] = "write" /\ call[r].op = "delete_api_key"
           /\ UNCHANGED used
           /\ \/ UNCHANGED <<keys, endpoints, changed>>
              \/ /\ call[r].key \in DOMAIN keys
                 /\ call[r].to \in DOMAIN keys \cup {None}
                 /\ keys' = [k \in DOMAIN keys \ {call[r].key} |-> keys[k]]
                 /\ DOMAIN endpoints' = DOMAIN endpoints
                 /\ \A e \in DOMAIN endpoints :
                      /\ endpoints[e].owner_key_id # call[r].key => endpoints'[e] = endpoints[e]
                      /\ endpoints[e].owner_key_id = call[r].key =>
                            /\ endpoints'[e] \in EndpointRow
                            /\ endpoints'[e].owner_key_id = call[r].to
                            /\ call[r].to # None
<1>1. call[r] \in Calls /\ pc[r] = "write" /\ call[r].op = "delete_api_key"
    BY Zenon DEF delete_api_key, At, Called
<1>2. call[r].to \in Keys \cup {None}
    BY <1>1, CallFields, Zenon
<1>3. CASE DeleteStatus(call[r]) = "ok" /\ call[r].caller \in DOMAIN keys
  <2>1. /\ call[r].key \in DOMAIN keys
        /\ call[r].to \in DOMAIN keys \cup {None}
        /\ call[r].to = None => Owned(call[r].key) = {}
      BY <1>3, Zenon DEF DeleteStatus
  <2>2. endpoints' = [e \in DOMAIN endpoints |->
                        IF e \in Owned(call[r].key)
                        THEN [endpoints[e] EXCEPT !.owner_key_id = call[r].to]
                        ELSE endpoints[e]]
      BY <1>3, Zenon DEF delete_api_key
  <2>3. \A e \in DOMAIN endpoints : endpoints[e] \in EndpointRow
      BY Zenon DEF TypeOK
  <2>4. \A e \in DOMAIN endpoints :
          /\ endpoints[e].owner_key_id # call[r].key => endpoints'[e] = endpoints[e]
          /\ endpoints[e].owner_key_id = call[r].key =>
                /\ endpoints'[e] \in EndpointRow
                /\ endpoints'[e].owner_key_id = call[r].to
                /\ call[r].to # None
      BY <1>2, <2>1, <2>2, <2>3, Zenon DEF Owned, EndpointRow
  <2> QED
      BY <1>1, <1>3, <2>1, <2>2, <2>4, Zenon DEF delete_api_key
<1>4. CASE ~(DeleteStatus(call[r]) = "ok" /\ call[r].caller \in DOMAIN keys)
    BY <1>1, <1>4, Zenon DEF delete_api_key
<1> QED
    BY <1>3, <1>4, Zenon

\* The steps of AdminApi, by kind.
LEMMA StepCases ==
    ASSUME [Next]_vars
    PROVE  \/ UNCHANGED vars
           \/ \E r \in Requests :
                \/ \E c \in Calls : Arrive(r, c)
                \/ ReadSteps(r) \/ WriteSteps(r) \/ create_audit_log(r)
BY Zenon DEF Next, KeyHandler, EndpointHandler, ReadSteps, WriteSteps, KeyWrites, EndpointWrites

\* A request is handed to its handler.
LEMMA ArriveEffect ==
    ASSUME TypeOK, NEW r \in Requests, NEW c \in Calls, Arrive(r, c)
    PROVE  /\ UNCHANGED <<tables, audit, changed>> /\ pc[r] = "idle"
           /\ call' = [call EXCEPT ![r] = c]
           /\ \E w \in {"403", "write", "access", "find"} : pc' = [pc EXCEPT ![r] = w]
           /\ existing' \in [Requests -> KeyRow \cup EndpointRow \cup {None}]
<1>1. FirstStep(c) \in {"403", "write", "access", "find"}
    BY Zenon DEF FirstStep
<1> QED
    BY <1>1, Zenon DEF Arrive, Goto, Proceed, TypeOK

\* The entry is made, or the answer is an error.
LEMMA AuditEffect ==
    ASSUME TypeOK, NEW r \in Requests, create_audit_log(r)
    PROVE  /\ UNCHANGED <<tables, call, changed>> /\ pc[r] = "audit"
           /\ existing' \in [Requests -> KeyRow \cup EndpointRow \cup {None}]
           /\ \/ pc' = [pc EXCEPT ![r] = "ok"] /\ audit' = audit \cup {r}
              \/ pc' = [pc EXCEPT ![r] = "500"] /\ UNCHANGED audit
BY Zenon DEF create_audit_log, Goto, Proceed, TypeOK, InProgress

-----------------------------------------------------------------------------
(* The invariant is kept.                                                    *)

\* The shape of the requests.
RequestsOK ==
    /\ call \in [Requests -> Calls \cup {None}]
    /\ pc \in [Requests -> InProgress \cup Statuses \cup {"idle"}]
    /\ existing \in [Requests -> KeyRow \cup EndpointRow \cup {None}]
    /\ audit \subseteq Requests /\ changed \subseteq Requests

\* The requests keep it, and the trail its meaning.
LEMMA TrailStep ==
    ASSUME TypeOK, Called, Trail, [Next]_vars
    PROVE  RequestsOK' /\ Called' /\ Trail'
<1> USE DEF RequestsOK, TypeOK, Called, Trail, InProgress, Statuses
<1>1. CASE UNCHANGED vars
    BY <1>1, Zenon DEF vars
<1>2. ASSUME NEW r \in Requests, NEW c \in Calls, Arrive(r, c)
      PROVE  RequestsOK' /\ Called' /\ Trail'
    BY <1>2, ArriveEffect
<1>3. ASSUME NEW r \in Requests, ReadSteps(r)
      PROVE  RequestsOK' /\ Called' /\ Trail'
    BY <1>3, ReadEffect DEF Elsewhere
<1>4. ASSUME NEW r \in Requests, WriteSteps(r)
      PROVE  RequestsOK' /\ Called' /\ Trail'
    BY <1>4, WriteOutcome DEF Outcome
<1>5. ASSUME NEW r \in Requests, create_audit_log(r)
      PROVE  RequestsOK' /\ Called' /\ Trail'
    BY <1>5, AuditEffect
<1> QED
    BY <1>1, <1>2, <1>3, <1>4, <1>5, StepCases, Zenon

\* No request gets to a step that is not its own.
LEMMA StagedStep ==
    ASSUME TypeOK, Called, \A r \in Requests : Staged(r), [Next]_vars
    PROVE  \A r \in Requests : Staged(r)'
<1>1. CASE UNCHANGED vars
    BY <1>1, Zenon DEF vars, Staged
<1>2. ASSUME NEW q \in Requests, NEW c \in Calls, Arrive(q, c)
      PROVE  \A r \in Requests : Staged(r)'
  <2>1. /\ FirstStep(c) = "access" => c.op = "create_endpoint"
        /\ FirstStep(c) = "write" => c.op = "create_api_key"
        /\ FirstStep(c) # "owner"
      BY Zenon DEF FirstStep
  <2>2. call' = [call EXCEPT ![q] = c] /\ pc' = [pc EXCEPT ![q] = FirstStep(c)]
      BY <1>2, Zenon DEF Arrive, Goto, Proceed
  <2> QED
      BY <2>1, <2>2, ZenonT(60) DEF Staged, TypeOK
<1>3. ASSUME NEW q \in Requests, ReadSteps(q)
      PROVE  \A r \in Requests : Staged(r)'
  <2> USE DEF Staged, TypeOK, Goto, Proceed
  <2>1. CASE FindKey(q)
    <3>1. CASE call[q].key \notin DOMAIN keys
        BY <2>1, <3>1 DEF FindKey
    <3>2. CASE call[q].key \in DOMAIN keys
      <4>1. PICK next \in FoundKey(call[q]) : Proceed(q, next, keys[call[q].key])
          BY <2>1, <3>2, Zenon DEF FindKey
      <4>2. /\ next \in {"write", "400", "403"}
            /\ next = "write" /\ call[q].op = "delete_api_key" => call[q].to # call[q].key
          BY Zenon DEF FoundKey
      <4> QED
          BY <2>1, <4>1, <4>2, ZenonT(60) DEF FindKey
    <3> QED
        BY <3>1, <3>2, Zenon
  <2>2. CASE FindEndpoint(q)
    <3>1. /\ FoundEndpoint(call[q]) = "access" => call[q].op = "update_endpoint"
          /\ FoundEndpoint(call[q]) = "owner" => call[q].op = "reassign_endpoint_owner"
        BY Zenon DEF FoundEndpoint
    <3> QED
        BY <2>2, <3>1 DEF FindEndpoint
  <2>3. CASE CheckAccess(q)
      BY <2>3 DEF CheckAccess
  <2>4. CASE FindOwner(q)
      BY <2>4, Zenon DEF FindOwner
  <2>5. CASE Abandon(q)
      BY <2>5, Zenon DEF Abandon
  <2> QED
      BY <1>3, <2>1, <2>2, <2>3, <2>4, <2>5, Zenon DEF ReadSteps
<1>4. ASSUME NEW q \in Requests, WriteSteps(q)
      PROVE  \A r \in Requests : Staged(r)'
    BY <1>4, WriteOutcome, SMTT(30) DEF Outcome, Staged, TypeOK, Statuses
<1>5. ASSUME NEW q \in Requests, create_audit_log(q)
      PROVE  \A r \in Requests : Staged(r)'
    BY <1>5, AuditEffect DEF Staged, TypeOK
<1> QED
    BY <1>1, <1>2, <1>3, <1>4, <1>5, StepCases, Zenon

\* The tables keep their shape, and no owner is missing.
LEMMA TablesStep ==
    ASSUME OwnersExist, Called, \A r \in Requests : Staged(r), [Next]_vars
    PROVE  TablesOK'
<1>0. TypeOK /\ TablesOK
    BY Zenon DEF OwnersExist, TypeOK, TablesOK
<1>1. CASE UNCHANGED tables
    BY <1>0, <1>1, Zenon DEF TablesOK, tables
<1>2. ASSUME NEW r \in Requests, create_api_key(r) PROVE TablesOK'
    BY <1>0, <1>2, SMTT(30) DEF create_api_key, TablesOK, KeyRow, NewKey, Columns
<1>3. ASSUME NEW r \in Requests, KeyWrites(r) PROVE TablesOK'
    BY <1>0, <1>3, KeyWriteEffect, Zenon DEF TablesOK
<1>4. ASSUME NEW r \in Requests, delete_api_key(r) PROVE TablesOK'
  <2>1. CASE UNCHANGED <<keys, endpoints, changed>>
      BY <1>0, <1>1, <1>4, <2>1, DeleteKeyEffect, Zenon DEF tables
  <2>2. CASE ~UNCHANGED <<keys, endpoints, changed>>
    <3>1. /\ UNCHANGED used /\ DOMAIN endpoints' = DOMAIN endpoints
          /\ keys' = [k \in DOMAIN keys \ {call[r].key} |-> keys[k]]
          /\ call[r].to \in DOMAIN keys \cup {None}
        BY <1>0, <1>4, <2>2, DeleteKeyEffect, Zenon
    <3>2. \A e \in DOMAIN endpoints :
            \/ endpoints'[e] = endpoints[e] /\ endpoints[e].owner_key_id # call[r].key
            \/ endpoints'[e] \in EndpointRow /\ endpoints'[e].owner_key_id = call[r].to
        BY <1>0, <1>4, <2>2, DeleteKeyEffect, ZenonT(60)
    <3>3. call[r].to # call[r].key
        BY <1>0, <1>4, DeleteKeyEffect, Zenon DEF Staged
    <3>4. \A e \in DOMAIN endpoints : /\ endpoints'[e] \in EndpointRow
                                       /\ endpoints'[e].owner_key_id \in DOMAIN keys' \cup {None}
        BY <1>0, <3>1, <3>2, <3>3, Zenon DEF TablesOK
    <3> QED
        BY <1>0, <3>1, <3>4, Zenon DEF TablesOK
  <2> QED
      BY <2>1, <2>2, Zenon
<1>5. ASSUME NEW r \in Requests, create_endpoint(r) PROVE TablesOK'
  <2>1. call[r] \in Calls
      BY <1>5, Zenon DEF create_endpoint, At, Called
  <2>2. call[r].caller \in Keys
      BY <2>1, CallFields, Zenon
  <2>3. CASE FkHolds(call[r].caller)
    <3>1. PICK e \in Endpoints \ used :
            /\ endpoints' = [i \in DOMAIN endpoints \cup {e} |->
                               IF i = e THEN [owner_key_id |-> call[r].caller, config |-> r]
                                        ELSE endpoints[i]]
            /\ used' = used \cup {e} /\ UNCHANGED keys
        BY <1>5, <2>3, Zenon DEF create_endpoint
    <3>2. [owner_key_id |-> call[r].caller, config |-> r] \in EndpointRow
        BY <2>2, Zenon DEF EndpointRow, Columns
    <3>3. \A i \in DOMAIN endpoints' :
            \/ i \in DOMAIN endpoints /\ endpoints'[i] = endpoints[i]
            \/ endpoints'[i] \in EndpointRow /\ endpoints'[i].owner_key_id = call[r].caller
        BY <3>1, <3>2, Zenon
    <3> QED
        BY <1>0, <2>3, <3>1, <3>3, Zenon DEF TablesOK, FkHolds
  <2>4. CASE ~FkHolds(call[r].caller)
      BY <1>0, <1>1, <1>5, <2>4, Zenon DEF create_endpoint, tables
  <2> QED
      BY <2>3, <2>4, Zenon
<1>6. ASSUME NEW r \in Requests, EndpointWrites(r) PROVE TablesOK'
    BY <1>0, <1>6, EndpointWriteEffect, Zenon DEF TablesOK
<1>7. ASSUME NEW r \in Requests, delete_endpoint(r) PROVE TablesOK'
    BY <1>0, <1>7, Zenon DEF delete_endpoint, TablesOK
<1> QED
    BY <1>0, <1>1, <1>2, <1>3, <1>4, <1>5, <1>6, <1>7, StepCases, ArriveEffect, ReadEffect,
       AuditEffect, Zenon DEF WriteSteps, vars

\* A delete that took effect stays the only one, and its id unused.
LEMMA GoneStep ==
    ASSUME OwnersExist, Called, Trail, Gone, [Next]_vars
    PROVE  Gone'
<1> DEFINE Effective == Deletes \cap changed
           Tabled == DOMAIN keys \cup DOMAIN endpoints
<1>0. TypeOK /\ TablesOK
    BY Zenon DEF OwnersExist, TypeOK, TablesOK
\* A step that makes no new effective delete and brings no used id into a table.
<1>1. ASSUME Effective' = Effective, \A r \in Effective : call'[r] = call[r],
             used \subseteq used', Tabled' \cap used \subseteq Tabled
      PROVE  Gone'
  <2>1. \A r \in Effective : DeleteTarget(r)' = DeleteTarget(r)
      BY <1>1, Zenon DEF DeleteTarget
  <2> QED
      BY <1>1, <2>1 DEF Gone
\* A step that does delete an id.
<1>2. ASSUME NEW r \in Requests, r \notin changed, changed' = changed \cup {r}, UNCHANGED <<call, used>>,
             DeleteTarget(r) \in Tabled, Tabled' = Tabled \ {DeleteTarget(r)}
      PROVE  Gone'
  <2>1. Effective' \subseteq Effective \cup {r}
      BY <1>2, Zenon DEF Deletes
  <2>2. \A s \in Requests : DeleteTarget(s)' = DeleteTarget(s)
      BY <1>2, Zenon DEF DeleteTarget
  <2>3. Tabled \subseteq used
      BY <1>0, Zenon DEF TablesOK
  <2>4. Effective' \subseteq Requests
      BY Zenon DEF Deletes
  <2>5. \A s \in Effective : DeleteTarget(s) \in used \ Tabled
      BY Zenon DEF Gone
  <2> QED
      BY <1>2, <2>1, <2>2, <2>3, <2>4, <2>5 DEF Gone
<1>3. CASE UNCHANGED vars
  <2>1. UNCHANGED <<keys, endpoints, used, call, changed>>
      BY <1>3, Zenon DEF vars, tables
  <2> QED
      BY <1>1, <2>1, Zenon DEF Deletes
<1>4. ASSUME NEW r \in Requests, NEW c \in Calls, Arrive(r, c) PROVE Gone'
  <2>1. r \notin changed
      BY <1>0, <1>4, ArriveEffect, Zenon DEF Trail
  <2>2. UNCHANGED <<tables, changed>> /\ \A s \in changed : call'[s] = call[s]
      BY <1>0, <1>4, <2>1, ArriveEffect DEF TypeOK
  <2> QED
      BY <1>1, <2>2, Zenon DEF Deletes, tables
<1>5. ASSUME NEW r \in Requests, ReadSteps(r) \/ create_audit_log(r) PROVE Gone'
  <2>1. UNCHANGED <<tables, call, changed>>
      BY <1>0, <1>5, ReadEffect, AuditEffect, Zenon
  <2> QED
      BY <1>1, <2>1, Zenon DEF Deletes, tables
<1>6. ASSUME NEW r \in Requests, WriteSteps(r) PROVE Gone'
  <2>1. /\ UNCHANGED call /\ pc[r] = "write" /\ r \notin changed
        /\ changed' = changed \/ changed' = changed \cup {r}
      BY <1>0, <1>6, WriteOutcome, Zenon DEF Outcome, Trail
  <2>2. ASSUME r \notin Deletes, used \subseteq used', Tabled' \cap used \subseteq Tabled
        PROVE  Gone'
      BY <1>1, <2>1, <2>2, Zenon DEF Deletes
  <2>4. CASE create_api_key(r)
      BY <2>2, <2>4, Zenon DEF create_api_key, At, Deletes
  <2>5. CASE KeyWrites(r)
      BY <1>0, <2>2, <2>5, KeyWriteEffect DEF Deletes, KeyOps
  <2>6. CASE create_endpoint(r)
    <3>1. r \notin Deletes /\ UNCHANGED keys
        BY <2>6, Zenon DEF create_endpoint, At, Deletes
    <3>2. \/ UNCHANGED <<endpoints, used>>
          \/ \E e \in Endpoints \ used :
                DOMAIN endpoints' = DOMAIN endpoints \cup {e} /\ used' = used \cup {e}
        BY <2>6, Zenon DEF create_endpoint
    <3> QED
        BY <2>2, <3>1, <3>2, Zenon
  <2>7. CASE EndpointWrites(r)
      BY <1>0, <2>2, <2>7, EndpointWriteEffect, Zenon DEF Deletes
  <2>8. CASE delete_api_key(r)
    <3>1. CASE UNCHANGED <<keys, endpoints, changed>>
        BY <1>0, <1>1, <2>1, <2>8, <3>1, DeleteKeyEffect, SMTT(30) DEF Deletes
    <3>2. CASE ~UNCHANGED <<keys, endpoints, changed>>
      <4>1. /\ call[r].op = "delete_api_key" /\ UNCHANGED used
            /\ call[r].key \in DOMAIN keys
            /\ DOMAIN keys' = DOMAIN keys \ {call[r].key}
            /\ DOMAIN endpoints' = DOMAIN endpoints
          BY <1>0, <2>8, <3>2, DeleteKeyEffect, Zenon
      <4>2. call[r].key \notin DOMAIN endpoints
          BY <1>0, <4>1, IdsAssumption, Zenon DEF TablesOK
      <4>3. changed' = changed \cup {r}
          BY <2>1, <2>8, <3>2, Zenon DEF delete_api_key
      <4> QED
          BY <1>2, <2>1, <4>1, <4>2, <4>3, Zenon DEF DeleteTarget
    <3> QED
        BY <3>1, <3>2, Zenon
  <2>9. CASE delete_endpoint(r)
    <3>1. /\ call[r].op = "delete_endpoint" /\ UNCHANGED <<keys, used>>
          /\ DOMAIN endpoints' = DOMAIN endpoints \ {call[r].endpoint}
        BY <2>9, Zenon DEF delete_endpoint, At
    <3>2. CASE call[r].endpoint \in DOMAIN endpoints
      <4>1. changed' = changed \cup {r}
          BY <2>9, <3>2, Zenon DEF delete_endpoint
      <4>2. call[r].endpoint \notin DOMAIN keys
          BY <1>0, <3>2, IdsAssumption, Zenon DEF TablesOK
      <4> QED
          BY <1>2, <2>1, <3>1, <3>2, <4>1, <4>2, Zenon DEF DeleteTarget
    <3>3. CASE call[r].endpoint \notin DOMAIN endpoints
      <4>1. UNCHANGED changed
          BY <2>9, <3>3, Zenon DEF delete_endpoint
      <4> QED
          BY <1>1, <2>1, <3>1, <3>3, <4>1, Zenon DEF Deletes
    <3> QED
        BY <3>2, <3>3, Zenon
  <2> QED
      BY <1>6, <2>4, <2>5, <2>6, <2>7, <2>8, <2>9, Zenon DEF WriteSteps
<1> QED
    BY <1>3, <1>4, <1>5, <1>6, StepCases, Zenon

-----------------------------------------------------------------------------

\* The inductive invariant holds in every state of AdminApi.
THEOREM AdminInvariant == Spec => []IInv
<1>1. Init => IInv
  <2> SUFFICES ASSUME Init PROVE IInv
      BY Zenon
  <2>1. OwnersExist
      BY DEF Init, OwnersExist, TypeOK, KeyRow, EndpointRow, NewKey, Columns, InProgress,
         Statuses
  <2> QED
      BY <2>1, Zenon DEF Init, IInv, Called, Staged, Trail, Gone
<1>2. IInv /\ [Next]_vars => IInv'
  <2> SUFFICES ASSUME IInv, [Next]_vars PROVE IInv'
      BY Zenon
  <2>1. TypeOK /\ OwnersExist
      BY Zenon DEF IInv, OwnersExist
  <2>2. RequestsOK' /\ Called' /\ Trail'
      BY <2>1, TrailStep, Zenon DEF IInv
  <2>3. TablesOK'
      BY TablesStep, Zenon DEF IInv
  <2>4. Gone'
      BY GoneStep, Zenon DEF IInv
  <2>5. \A r \in Requests : Staged(r)'
      BY <2>1, StagedStep, Zenon DEF IInv
  <2>6. OwnersExist'
      BY <2>2, <2>3, Zenon DEF OwnersExist, TypeOK, TablesOK, RequestsOK
  <2> QED
      BY <2>2, <2>4, <2>5, <2>6, Zenon DEF IInv
<1> QED
    BY <1>1, <1>2, PTL DEF Spec

\* No endpoint is owned by a key that is gone, however many creations, reassignments and
\* deletions of keys run at once (delete_api_key, create_endpoint, reassign_endpoint_owner).
THEOREM OwnersAlwaysExist == Spec => []OwnersExist
<1>1. IInv => OwnersExist
    BY Zenon DEF IInv
<1> QED
    BY <1>1, AdminInvariant, PTL

\* Of any number of deletes of one row at most one is audited, and the row stays gone
\* (delete_api_key, delete_endpoint).
THEOREM RowsAreDeletedOnce == Spec => []DeletedOnce
<1>1. IInv => DeletedOnce
    BY Zenon DEF IInv, Trail, Gone, DeletedOnce
<1> QED
    BY <1>1, AdminInvariant, PTL

\* A success has its entry in the trail, and an entry its write (create_audit_log).
THEOREM SuccessesAreAudited == Spec => []SuccessIsAudited
<1>1. IInv => SuccessIsAudited
    BY Zenon DEF IInv, Trail, SuccessIsAudited
<1> QED
    BY <1>1, AdminInvariant, PTL

\* An endpoint's owner changes only where a reassignment, or the deletion of the owner's
\* key, asked for it (reassign_endpoint_owner, delete_api_key).
THEOREM OwnershipIsMovedOnRequest == Spec => OwnershipMovesOnRequest
<1> DEFINE Moved == \A e \in DOMAIN endpoints \cap DOMAIN endpoints' :
          endpoints'[e].owner_key_id # endpoints[e].owner_key_id =>
             \E r \in Requests :
                /\ pc[r] = "write" /\ pc'[r] # "write"
                /\ \/ /\ call[r].op = "reassign_endpoint_owner"
                      /\ call[r].endpoint = e
                      /\ call[r].to = endpoints'[e].owner_key_id
                   \/ /\ call[r].op = "delete_api_key"
                      /\ call[r].key = endpoints[e].owner_key_id
                      /\ call[r].to = endpoints'[e].owner_key_id
                      /\ call[r].to # None
<1>1. IInv /\ [Next]_vars => [Moved]_vars
  <2> SUFFICES ASSUME IInv, Next PROVE Moved
      BY Zenon DEF IInv
  <2>0. TypeOK /\ TablesOK /\ Called /\ [Next]_vars
      BY Zenon DEF IInv, OwnersExist, TypeOK, TablesOK
  <2>1. CASE UNCHANGED endpoints
      BY <2>1, Zenon
  <2>2. ASSUME NEW r \in Requests, WriteSteps(r) PROVE pc[r] = "write" /\ pc'[r] # "write"
      BY <2>0, <2>2, WriteOutcome DEF Outcome, TypeOK, Statuses
  <2>3. ASSUME NEW r \in Requests, delete_api_key(r) PROVE Moved
    <3>1. pc[r] = "write" /\ pc'[r] # "write"
        BY <2>2, <2>3, Zenon DEF WriteSteps
    <3>2. CASE UNCHANGED <<keys, endpoints, changed>>
        BY <2>1, <3>2, Zenon
    <3>3. CASE ~UNCHANGED <<keys, endpoints, changed>>
        BY <2>0, <2>3, <3>1, <3>3, DeleteKeyEffect, Zenon
    <3> QED
        BY <3>2, <3>3, Zenon
  <2>4. ASSUME NEW r \in Requests, create_endpoint(r) PROVE Moved
    <3>1. \A i \in DOMAIN endpoints : endpoints'[i] = endpoints[i]
        BY <2>0, <2>4, Zenon DEF create_endpoint, TablesOK
    <3> QED
        BY <3>1, Zenon
  <2>5. ASSUME NEW r \in Requests, EndpointWrites(r) PROVE Moved
    <3>1. pc[r] = "write" /\ pc'[r] # "write"
        BY <2>2, <2>5, Zenon DEF WriteSteps
    <3> QED
        BY <2>0, <2>5, <3>1, EndpointWriteEffect, ZenonT(60)
  <2>6. ASSUME NEW r \in Requests, delete_endpoint(r) PROVE Moved
      BY <2>6, Zenon DEF delete_endpoint
  <2>7. ASSUME NEW r \in Requests, create_api_key(r) \/ KeyWrites(r) PROVE UNCHANGED endpoints
      BY <2>0, <2>7, KeyWriteEffect, Zenon DEF create_api_key
  <2>8. ASSUME NEW r \in Requests, (\E c \in Calls : Arrive(r, c)) \/ ReadSteps(r) \/ create_audit_log(r)
        PROVE  UNCHANGED endpoints
      BY <2>0, <2>8, ArriveEffect, ReadEffect, AuditEffect, Zenon DEF tables
  <2>9. CASE UNCHANGED vars
      BY <2>1, <2>9, Zenon DEF vars, tables
  <2> QED
      BY <2>0, <2>1, <2>3, <2>4, <2>5, <2>6, <2>7, <2>8, <2>9, StepCases, Zenon
         DEF WriteSteps
<1> QED
    BY <1>1, AdminInvariant, PTL DEF Spec, OwnershipMovesOnRequest

\* A column of a key changes only by a request for it, to that request's value
\* (update_api_key, rotate_api_key, rotate_signing_secret).
THEOREM ColumnsAreKept == Spec => ColumnsKept
<1> DEFINE Kept == \A k \in DOMAIN keys \cap DOMAIN keys' :
          \A column \in {"profile", "key_hash", "signing_secret"} :
             keys'[k][column] # keys[k][column] =>
                \E r \in Requests :
                   /\ pc[r] = "write" /\ call[r].op \in KeyOps /\ call[r].key = k
                   /\ keys'[k][column] = r
                   /\ (call[r].op = "update_api_key") = (column = "profile")
                   /\ call[r].op = "rotate_signing_secret" => column = "signing_secret"
<1>1. IInv /\ [Next]_vars => [Kept]_vars
  <2> SUFFICES ASSUME IInv, Next PROVE Kept
      BY Zenon DEF IInv
  <2>0. TypeOK /\ TablesOK /\ Called /\ [Next]_vars
      BY Zenon DEF IInv, OwnersExist, TypeOK, TablesOK
  <2>1. CASE \A k \in DOMAIN keys \cap DOMAIN keys' : keys'[k] = keys[k]
      BY <2>1, Zenon
  <2>2. ASSUME NEW r \in Requests, KeyWrites(r) PROVE Kept
    <3>1. /\ call[r].op \in KeyOps /\ pc[r] = "write"
          /\ \A k \in DOMAIN keys : k # call[r].key => keys'[k] = keys[k]
          /\ \A k \in DOMAIN keys : k = call[r].key =>
               /\ keys'[k].profile = IF call[r].op = "update_api_key" THEN r ELSE keys[k].profile
               /\ keys'[k].key_hash = IF call[r].op = "rotate_api_key" THEN r ELSE keys[k].key_hash
               /\ keys'[k].signing_secret =
                     IF call[r].op = "update_api_key" THEN keys[k].signing_secret ELSE r
        BY <2>0, <2>2, KeyWriteEffect, Zenon
    <3> SUFFICES ASSUME NEW k \in DOMAIN keys \cap DOMAIN keys',
                        NEW column \in {"profile", "key_hash", "signing_secret"},
                        keys'[k][column] # keys[k][column]
                 PROVE  /\ pc[r] = "write" /\ call[r].op \in KeyOps /\ call[r].key = k
                        /\ keys'[k][column] = r
                        /\ (call[r].op = "update_api_key") = (column = "profile")
                        /\ call[r].op = "rotate_signing_secret" => column = "signing_secret"
        BY Zenon
    <3>2. k = call[r].key
        BY <3>1, Zenon
    <3>3. CASE column = "profile"
        BY <3>1, <3>2, <3>3, Zenon
    <3>4. CASE column = "key_hash"
        BY <3>1, <3>2, <3>4, Zenon
    <3>5. CASE column = "signing_secret"
        BY <3>1, <3>2, <3>5, Zenon
    <3> QED
        BY <3>3, <3>4, <3>5, Zenon
  <2>3. ASSUME NEW r \in Requests, create_api_key(r) PROVE \A k \in DOMAIN keys : keys'[k] = keys[k]
      BY <2>0, <2>3, Zenon DEF create_api_key, TablesOK
  <2>4. ASSUME NEW r \in Requests, delete_api_key(r)
        PROVE  \A k \in DOMAIN keys \cap DOMAIN keys' : keys'[k] = keys[k]
    <3>1. UNCHANGED keys \/ keys' = [k \in DOMAIN keys \ {call[r].key} |-> keys[k]]
        BY <2>0, <2>4, DeleteKeyEffect, Zenon
    <3>2. CASE UNCHANGED keys
        BY <3>2, Zenon
    <3>3. CASE keys' = [k \in DOMAIN keys \ {call[r].key} |-> keys[k]]
        BY <3>3, Zenon
    <3> QED
        BY <3>1, <3>2, <3>3, Zenon
  <2>5. ASSUME NEW r \in Requests, create_endpoint(r) \/ EndpointWrites(r) \/ delete_endpoint(r)
        PROVE  UNCHANGED keys
      BY <2>0, <2>5, EndpointWriteEffect, Zenon DEF create_endpoint, delete_endpoint
  <2>6. ASSUME NEW r \in Requests, (\E c \in Calls : Arrive(r, c)) \/ ReadSteps(r) \/ create_audit_log(r)
        PROVE  UNCHANGED keys
      BY <2>0, <2>6, ArriveEffect, ReadEffect, AuditEffect, Zenon DEF tables
  <2>7. CASE UNCHANGED vars
      BY <2>1, <2>7, Zenon DEF vars, tables
  <2> HIDE DEF Kept
  <2> QED
      BY <2>0, <2>1, <2>2, <2>3, <2>4, <2>5, <2>6, <2>7, StepCases, Zenon DEF WriteSteps
<1> QED
    BY <1>1, AdminInvariant, PTL DEF Spec, ColumnsKept

=============================================================================
