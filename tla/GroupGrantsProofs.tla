-------------------------- MODULE GroupGrantsProofs --------------------------
(***************************************************************************)
(* The grants, for any number of keys, groups, names and requests:         *)
(* RowsAreSound and OutagesKeepGrants.                                     *)
(***************************************************************************)
EXTENDS GroupGrants, TLAPS

Op(r, ops) == call[r] \in Calls /\ call[r].op \in ops

\* A request is where its handler can be, and knows what the handler read before.
RequestOK(r) ==
    /\ pc[r] = "find" => Op(r, {"grant_key_group", "revoke_key_group"})
    /\ pc[r] \in {"list", "existing"} => Op(r, {"grant_key_group"})
    /\ pc[r] = "grant" => Op(r, {"revoke_key_group"})
    /\ pc[r] = "access" => Op(r, {"write_endpoint"})
    /\ pc[r] \in {"write", "audit"} => call[r] \in Calls
    /\ pc[r] \in {"existing", "write"} /\ call[r].op = "grant_key_group"
          => call[r].group \in DOMAIN named
    /\ At(r, "write_endpoint", "write") => call[r].names \subseteq since[r]

\* The requests that may have inserted their grant.
Settled == {Old} \cup {r \in Requests : pc[r] \in {"audit"} \cup Statuses}

\* Grants have ids of their own, of requests that insert nothing any more.
IdsAreSettled ==
    /\ \A x, y \in grants : x.id = y.id => x = y
    /\ \A x \in grants : x.id \in Settled

\* What the cleanup has found to be stale is stale when it deletes it.
StaleIsAbsent ==
    /\ worker.at = "read" => absent = Groups \ worker.live
    /\ worker.at = "delete" =>
          /\ worker.stale \subseteq Settled
          /\ \A x \in grants : x.id \in worker.stale => x.group \in absent

\* A request that is about to check its groups has met every grant its caller holds.
GrantsAreMet ==
    \A r \in Requests : pc[r] = "access" => granted_group_names(call[r].key) \subseteq since[r]

\* The inductive invariant.
IInv ==
    /\ RowsAreSound
    /\ GrantsAreMet
    /\ \A r \in Requests : RequestOK(r)
    /\ IdsAreSettled
    /\ StaleIsAbsent

-----------------------------------------------------------------------------
(* The requests.                                                             *)

(* What a call holds. *)
LEMMA CallFields ==
    ASSUME NEW c \in Calls
    PROVE  /\ c.key \in Keys
           /\ c.op = "grant_key_group" => c.group \in Groups
           /\ c.op = "write_endpoint" => c.names \subseteq Names
           /\ c.op \in {"grant_key_group", "revoke_key_group", "delete_api_key",
                        "write_endpoint"}
BY Zenon DEF Calls

(* A handler that goes on, or answers, changes nothing of the other requests. *)
LEMMA GotoEffect ==
    ASSUME TypeOK, NEW r \in Requests, NEW where \in InProgress \cup Statuses, Goto(r, where)
    PROVE  /\ pc'[r] = where /\ call'[r] = (IF where \in InProgress THEN call[r] ELSE None)
           /\ \A s \in Requests : s # r => pc'[s] = pc[s] /\ call'[s] = call[s]
           /\ pc' \in [Requests -> InProgress \cup Statuses \cup {"idle"}]
           /\ call' \in [Requests -> Calls \cup {None}]
<1>1. /\ pc \in [Requests -> InProgress \cup Statuses \cup {"idle"}]
      /\ call \in [Requests -> Calls \cup {None}]
  BY Zenon DEF TypeOK
<1>2. /\ pc' = [pc EXCEPT ![r] = where]
      /\ call' = [call EXCEPT ![r] = IF where \in InProgress THEN call[r] ELSE None]
  BY Zenon DEF Goto
<1> QED BY <1>1, <1>2, Zenon

(* The step of a request leaves the others right, and who has inserted has. *)
LEMMA OthersStayRight ==
    ASSUME IInv, NEW r \in Requests, named' = named, RequestOK(r)',
           \A s \in Requests : since[s] \subseteq since'[s],
           \A s \in Requests : s # r => pc'[s] = pc[s] /\ call'[s] = call[s],
           pc[r] \in {"audit"} \cup Statuses => pc'[r] \in {"audit"} \cup Statuses
    PROVE  /\ \A s \in Requests : RequestOK(s)'
           /\ Settled \subseteq Settled'
<1>1. ASSUME NEW s \in Requests, s # r PROVE RequestOK(s)'
  <2>1. RequestOK(s) /\ pc'[s] = pc[s] /\ call'[s] = call[s] /\ since[s] \subseteq since'[s]
    BY <1>1, Zenon DEF IInv
  <2> QED BY <2>1, Zenon DEF RequestOK, Op, At
<1>2. Settled \subseteq Settled'
  BY Zenon DEF Settled
<1> QED BY <1>1, <1>2, Zenon

(* Who was about to check has met the grants there are, if none is added. *)
LEMMA GrantsStayMet ==
    ASSUME IInv, grants' \subseteq grants, \A s \in Requests : since[s] \subseteq since'[s],
           \A s \in Requests : pc'[s] = "access" => pc[s] = "access" /\ call'[s] = call[s]
    PROVE  GrantsAreMet'
<1> SUFFICES ASSUME NEW s \in Requests, pc'[s] = "access"
             PROVE  granted_group_names(call[s].key)' \subseteq since'[s]
  BY Zenon DEF GrantsAreMet
<1>1. granted_group_names(call[s].key) \subseteq since[s] /\ call'[s] = call[s]
  BY Zenon DEF IInv, GrantsAreMet
<1>2. granted_group_names(call[s].key)' \subseteq granted_group_names(call[s].key)
  BY <1>1, Zenon DEF granted_group_names
<1> QED BY <1>1, <1>2, Zenon

(* A step that writes to no table only has to answer for the request, and for what it
   has met of the grants. *)
LEMMA NoWriteIsRight ==
    ASSUME IInv, NEW r \in Requests, RequestOK(r)', GrantsAreMet',
           UNCHANGED <<keys, vault, named, grants, written, worker, absent>>,
           since' \in [Requests -> SUBSET Names],
           \A s \in Requests : since[s] \subseteq since'[s],
           \A s \in Requests : s # r => pc'[s] = pc[s] /\ call'[s] = call[s],
           pc[r] \in {"audit"} \cup Statuses => pc'[r] \in {"audit"} \cup Statuses,
           pc' \in [Requests -> InProgress \cup Statuses \cup {"idle"}],
           call' \in [Requests -> Calls \cup {None}]
    PROVE  IInv'
<1>1. (\A s \in Requests : RequestOK(s)') /\ Settled \subseteq Settled'
  BY OthersStayRight, Zenon
<1>2. TypeOK'
  BY Zenon DEF IInv, RowsAreSound, TypeOK
<1>3. RowsAreSound'
  BY <1>2, Zenon DEF IInv, RowsAreSound
<1>4. IdsAreSettled' /\ StaleIsAbsent'
  BY <1>1, Zenon DEF IInv, IdsAreSettled, StaleIsAbsent
<1> QED BY <1>1, <1>3, <1>4, Zenon DEF IInv

(* The same for a step that meets no grants. *)
LEMMA ReadOnlyIsRight ==
    ASSUME IInv, NEW r \in Requests, ReadOnly, RequestOK(r)', pc'[r] # "access",
           \A s \in Requests : s # r => pc'[s] = pc[s] /\ call'[s] = call[s],
           pc[r] \in {"audit"} \cup Statuses => pc'[r] \in {"audit"} \cup Statuses,
           pc' \in [Requests -> InProgress \cup Statuses \cup {"idle"}],
           call' \in [Requests -> Calls \cup {None}]
    PROVE  IInv'
<1>1. /\ UNCHANGED <<keys, vault, named, grants, written, worker, absent>>
      /\ since' = since /\ grants' \subseteq grants
  BY Zenon DEF ReadOnly
<1>2. since' \in [Requests -> SUBSET Names] /\ \A s \in Requests : since[s] \subseteq since'[s]
  BY <1>1, Zenon DEF IInv, RowsAreSound, TypeOK
<1>3. \A s \in Requests : pc'[s] = "access" => pc[s] = "access" /\ call'[s] = call[s]
  BY Zenon
<1>4. GrantsAreMet'
  BY <1>1, <1>2, <1>3, GrantsStayMet, Zenon
<1> QED BY <1>1, <1>2, <1>4, NoWriteIsRight, Zenon

(* Once it has answered, a request is right whatever it was. *)
LEMMA AnsweredIsRight ==
    ASSUME NEW r \in Requests, pc'[r] \in Statuses
    PROVE  RequestOK(r)'
BY Zenon DEF RequestOK, At, Statuses

(* A handler that answers without having written leaves everything right. *)
LEMMA AnswersAreRight ==
    ASSUME IInv, NEW r \in Requests, NEW status \in Statuses, Goto(r, status), ReadOnly
    PROVE  IInv'
<1>1. TypeOK /\ status \in InProgress \cup Statuses
  BY Zenon DEF IInv, RowsAreSound
<1>2. RequestOK(r)' /\ pc'[r] \in Statuses
  BY <1>1, GotoEffect, AnsweredIsRight, Zenon
<1>3. pc'[r] # "access"
  BY <1>2, Zenon DEF Statuses
<1> QED BY <1>1, <1>2, <1>3, GotoEffect, ReadOnlyIsRight, Zenon

(* Nor does a handler that goes on, if it may be where it goes. *)
LEMMA GoingOnIsRight ==
    ASSUME IInv, NEW r \in Requests, NEW where \in InProgress, Goto(r, where), ReadOnly,
           where # "access", pc[r] \in InProgress \ {"audit"}, RequestOK(r)'
    PROVE  IInv'
<1>1. TypeOK /\ where \in InProgress \cup Statuses
  BY Zenon DEF IInv, RowsAreSound
<1>2. pc[r] \notin {"audit"} \cup Statuses
  BY Zenon DEF InProgress, Statuses
<1> QED BY <1>1, <1>2, GotoEffect, ReadOnlyIsRight, Zenon

-----------------------------------------------------------------------------
(* The handlers that read.                                                   *)

(* A request that arrives has read nothing yet. *)
LEMMA ArriveKeeps ==
    ASSUME IInv, NEW r \in Requests, NEW c \in Calls, Arrive(r, c)
    PROVE  IInv'
<1>1. /\ pc \in [Requests -> InProgress \cup Statuses \cup {"idle"}] /\ pc[r] = "idle"
      /\ call \in [Requests -> Calls \cup {None}]
      /\ pc' = [pc EXCEPT ![r] = FirstStep(c)] /\ call' = [call EXCEPT ![r] = c]
      /\ UNCHANGED <<keys, vault, named, grants, written, worker, absent>>
  BY Zenon DEF IInv, RowsAreSound, TypeOK, Arrive
<1>2. \/ c.op \in {"grant_key_group", "revoke_key_group"} /\ FirstStep(c) = "find"
      \/ c.op = "delete_api_key" /\ FirstStep(c) = "write"
      \/ c.op = "write_endpoint" /\ FirstStep(c) = "access"
  BY CallFields, Zenon DEF FirstStep
<1>3. FirstStep(c) \in InProgress
  BY <1>2, Zenon DEF InProgress
<1>4. /\ pc'[r] = FirstStep(c) /\ call'[r] = c
      /\ \A s \in Requests : s # r => pc'[s] = pc[s] /\ call'[s] = call[s]
      /\ pc' \in [Requests -> InProgress \cup Statuses \cup {"idle"}]
      /\ call' \in [Requests -> Calls \cup {None}]
  BY <1>1, <1>3, Zenon
<1>5. /\ since \in [Requests -> SUBSET Names] /\ grants \subseteq Grant
      /\ since' = IF c.op = "write_endpoint"
                  THEN [since EXCEPT ![r] = since[r] \cup granted_group_names(c.key)] ELSE since
  BY Zenon DEF IInv, RowsAreSound, TypeOK, Arrive
<1>6. granted_group_names(c.key) \subseteq Names
  BY <1>5, Zenon DEF granted_group_names, Grant
<1>7. /\ since' \in [Requests -> SUBSET Names]
      /\ \A s \in Requests : since[s] \subseteq since'[s]
      /\ c.op = "write_endpoint" => granted_group_names(c.key) \subseteq since'[r]
  BY <1>5, <1>6, Zenon
<1>8. GrantsAreMet'
  <2> SUFFICES ASSUME NEW s \in Requests, pc'[s] = "access"
               PROVE  granted_group_names(call[s].key)' \subseteq since'[s]
    BY Zenon DEF GrantsAreMet
  <2>1. granted_group_names(call[s].key)' = granted_group_names(call'[s].key)
    BY <1>1, Zenon DEF granted_group_names
  <2>2. CASE s = r
    BY <1>2, <1>4, <1>7, <2>1, <2>2, Zenon
  <2>3. CASE s # r
    BY <1>4, <1>7, <2>1, <2>3, Zenon DEF IInv, GrantsAreMet
  <2> QED BY <2>2, <2>3, Zenon
<1>9. RequestOK(r)'
  BY <1>2, <1>4, Zenon DEF RequestOK, Op, At
<1>10. pc[r] \notin {"audit"} \cup Statuses
  BY <1>1, Zenon DEF Statuses
<1> QED BY <1>1, <1>4, <1>7, <1>8, <1>9, <1>10, NoWriteIsRight, Zenon

(* The key is looked for, and the handlers part. *)
LEMMA FindTargetKeeps ==
    ASSUME IInv, NEW r \in Requests, FindTarget(r)
    PROVE  IInv'
<1>1. pc[r] = "find" /\ ReadOnly /\ TypeOK /\ RequestOK(r)
  BY Zenon DEF FindTarget, IInv, RowsAreSound
<1>2. Op(r, {"grant_key_group", "revoke_key_group"})
  BY <1>1, Zenon DEF RequestOK
<1>3. CASE Goto(r, "404")
  BY <1>1, <1>3, AnswersAreRight, Zenon DEF Statuses
<1>4. ASSUME NEW where \in InProgress, Goto(r, where),
             \/ call[r].op = "grant_key_group" /\ where = "list"
             \/ call[r].op = "revoke_key_group" /\ where = "grant"
      PROVE  IInv'
  <2>1. pc'[r] = where /\ call'[r] = call[r]
    BY <1>1, <1>4, GotoEffect, Zenon
  <2>2. RequestOK(r)'
    BY <1>2, <1>4, <2>1, Zenon DEF RequestOK, Op, At
  <2> QED BY <1>1, <1>4, <2>2, GoingOnIsRight, Zenon DEF InProgress
<1>5. "list" \in InProgress /\ "grant" \in InProgress
  BY Zenon DEF InProgress
<1>6. \/ Goto(r, "404")
      \/ call[r].op = "grant_key_group" /\ Goto(r, "list")
      \/ call[r].op = "revoke_key_group" /\ Goto(r, "grant")
  BY <1>2, Zenon DEF FindTarget, Op
<1> QED BY <1>3, <1>4, <1>5, <1>6, Zenon

(* grant_key_group goes on only with a group that Vault has, or had. *)
LEMMA ListForGrantKeeps ==
    ASSUME IInv, NEW r \in Requests, ListForGrant(r)
    PROVE  IInv'
<1>1. pc[r] = "list" /\ ReadOnly /\ TypeOK /\ RequestOK(r)
  BY Zenon DEF ListForGrant, IInv, RowsAreSound
<1>2. CASE Goto(r, "400") \/ Goto(r, "502")
  BY <1>1, <1>2, AnswersAreRight, Zenon DEF Statuses
<1>3. CASE Goto(r, "existing") /\ call[r].group \in vault
  <2>1. "existing" \in InProgress
    BY Zenon DEF InProgress
  <2>2. pc'[r] = "existing" /\ call'[r] = call[r]
    BY <1>1, <1>3, <2>1, GotoEffect, Zenon
  <2>3. Op(r, {"grant_key_group"}) /\ call[r].group \in DOMAIN named /\ named' = named
    BY <1>1, <1>3, Zenon DEF RequestOK, TypeOK, ReadOnly
  <2>4. RequestOK(r)'
    BY <2>2, <2>3, Zenon DEF RequestOK, Op, At
  <2> QED BY <1>1, <1>3, <2>1, <2>4, GoingOnIsRight, Zenon DEF InProgress
<1> QED BY <1>2, <1>3, Zenon DEF ListForGrant, Listing

(* The group stays one that Vault has had while the row is looked for. *)
LEMMA FindExistingKeeps ==
    ASSUME IInv, NEW r \in Requests, FindExisting(r)
    PROVE  IInv'
<1>1. pc[r] = "existing" /\ ReadOnly /\ TypeOK /\ RequestOK(r)
  BY Zenon DEF FindExisting, IInv, RowsAreSound
<1>2. CASE Goto(r, "ok")
  BY <1>1, <1>2, AnswersAreRight, Zenon DEF Statuses
<1>3. CASE Goto(r, "write")
  <2>1. "write" \in InProgress
    BY Zenon DEF InProgress
  <2>2. pc'[r] = "write" /\ call'[r] = call[r]
    BY <1>1, <1>3, <2>1, GotoEffect, Zenon
  <2>3. Op(r, {"grant_key_group"}) /\ call[r].group \in DOMAIN named /\ named' = named
    BY <1>1, Zenon DEF RequestOK, Op, ReadOnly
  <2>4. RequestOK(r)'
    BY <2>2, <2>3, Zenon DEF RequestOK, Op, At
  <2> QED BY <1>1, <1>3, <2>1, <2>4, GoingOnIsRight, Zenon DEF InProgress
<1> QED BY <1>2, <1>3, Zenon DEF FindExisting

(* revoke_key_group goes on to its DELETE. *)
LEMMA FindGrantKeeps ==
    ASSUME IInv, NEW r \in Requests, FindGrant(r)
    PROVE  IInv'
<1>1. pc[r] = "grant" /\ ReadOnly /\ TypeOK /\ RequestOK(r)
  BY Zenon DEF FindGrant, IInv, RowsAreSound
<1>2. CASE Goto(r, "404")
  BY <1>1, <1>2, AnswersAreRight, Zenon DEF Statuses
<1>3. CASE Goto(r, "write")
  <2>1. "write" \in InProgress
    BY Zenon DEF InProgress
  <2>2. pc'[r] = "write" /\ call'[r] = call[r]
    BY <1>1, <1>3, <2>1, GotoEffect, Zenon
  <2>3. Op(r, {"revoke_key_group"})
    BY <1>1, Zenon DEF RequestOK
  <2>4. RequestOK(r)'
    BY <2>2, <2>3, Zenon DEF RequestOK, Op, At
  <2> QED BY <1>1, <1>3, <2>1, <2>4, GoingOnIsRight, Zenon DEF InProgress
<1> QED BY <1>2, <1>3, Zenon DEF FindGrant

(* validate_group_access passes only names that were granted to the key. *)
LEMMA CheckAccessKeeps ==
    ASSUME IInv, NEW r \in Requests, CheckAccess(r)
    PROVE  IInv'
<1>1. /\ pc[r] = "access" /\ ReadOnly /\ TypeOK /\ RequestOK(r)
      /\ granted_group_names(call[r].key) \subseteq since[r]
  BY Zenon DEF CheckAccess, IInv, RowsAreSound, GrantsAreMet
<1>2. CASE Goto(r, "403")
  BY <1>1, <1>2, AnswersAreRight, Zenon DEF Statuses
<1>3. CASE Goto(r, "write") /\ validate_group_access(call[r].key, call[r].names)
  <2>1. "write" \in InProgress
    BY Zenon DEF InProgress
  <2>2. pc'[r] = "write" /\ call'[r] = call[r]
    BY <1>1, <1>3, <2>1, GotoEffect, Zenon
  <2>3. Op(r, {"write_endpoint"}) /\ since' = since
    BY <1>1, Zenon DEF RequestOK, ReadOnly
  <2>4. call[r].names \subseteq since[r]
    BY <1>1, <1>3, Zenon DEF validate_group_access
  <2>5. RequestOK(r)'
    BY <2>2, <2>3, <2>4, Zenon DEF RequestOK, Op, At
  <2> QED BY <1>1, <1>3, <2>1, <2>5, GoingOnIsRight, Zenon DEF InProgress
<1> QED BY <1>2, <1>3, Zenon DEF CheckAccess

(* The last step of every handler, and a failure at any step, write to no table. *)
LEMMA AuditKeeps ==
    ASSUME IInv, NEW r \in Requests, create_audit_log(r) \/ Abandon(r)
    PROVE  IInv'
<1>1. ReadOnly /\ (Goto(r, "500") \/ Goto(r, "ok"))
  BY Zenon DEF create_audit_log, Abandon
<1> QED BY <1>1, AnswersAreRight, Zenon DEF Statuses

-----------------------------------------------------------------------------
(* The handlers that write.                                                  *)

(* What a row holds, and that rows which are told apart by key and group, or by id,
   stay so when some are deleted. *)
LEMMA FewerGrants ==
    ASSUME IInv, grants' \subseteq grants, GrantsAreMet',
           keys' \subseteq keys, \A x \in grants' : x.key \in keys',
           UNCHANGED <<vault, named, written, worker, since, absent>>, Settled \subseteq Settled',
           \A s \in Requests : RequestOK(s)',
           pc' \in [Requests -> InProgress \cup Statuses \cup {"idle"}],
           call' \in [Requests -> Calls \cup {None}]
    PROVE  IInv'
<1>1. TypeOK' /\ RowsAreSound'
  BY Zenon DEF IInv, RowsAreSound, TypeOK
<1>2. IdsAreSettled' /\ StaleIsAbsent'
  BY Zenon DEF IInv, IdsAreSettled, StaleIsAbsent
<1> QED BY <1>1, <1>2, Zenon DEF IInv

(* The INSERT of grant_key_group: the index and the foreign key refuse it when the
   pair was granted, or the key deleted, since they were looked for. *)
LEMMA GrantKeeps ==
    ASSUME IInv, NEW r \in Requests, grant_key_group(r)
    PROVE  IInv'
<1> DEFINE c == call[r]
           row == [id |-> r, key |-> c.key, group |-> c.group, name |-> named[c.group]]
<1>1. /\ TypeOK /\ RequestOK(r) /\ pc[r] = "write" /\ c.op = "grant_key_group"
      /\ UNCHANGED <<keys, vault, named, written, worker, absent>>
  BY Zenon DEF grant_key_group, At, IInv, RowsAreSound
<1>2. c \in Calls /\ c.key \in Keys /\ c.group \in Groups /\ named[c.group] \in Names
  BY <1>1, CallFields, Zenon DEF RequestOK, TypeOK
<1>3. CASE ~InsertAllowed(c.key, c.group)
  <2>1. Goto(r, "constraint") /\ ReadOnly
    BY <1>1, <1>3, Zenon DEF grant_key_group, ReadOnly
  <2> QED BY <2>1, AnswersAreRight, Zenon DEF Statuses
<1>4. CASE InsertAllowed(c.key, c.group)
  <2>1. /\ grants' = grants \cup {row} /\ Goto(r, "audit")
        /\ since' = [q \in Requests |-> IF pc[q] = "access" /\ call[q].key = c.key
                                        THEN since[q] \cup {row.name} ELSE since[q]]
    BY <1>4, Zenon DEF grant_key_group
  <2>2. "audit" \in InProgress
    BY Zenon DEF InProgress
  <2>3. /\ pc'[r] = "audit" /\ call'[r] = call[r]
        /\ \A s \in Requests : s # r => pc'[s] = pc[s] /\ call'[s] = call[s]
        /\ pc' \in [Requests -> InProgress \cup Statuses \cup {"idle"}]
        /\ call' \in [Requests -> Calls \cup {None}]
    BY <1>1, <2>1, <2>2, GotoEffect, Zenon
  <2>4. RequestOK(r)'
    BY <1>2, <2>3, Zenon DEF RequestOK, At
  <2>5. (\A s \in Requests : RequestOK(s)') /\ Settled \subseteq Settled'
    <3>1. \A s \in Requests : since[s] \subseteq since'[s]
      BY <2>1, Zenon
    <3> QED BY <1>1, <2>3, <2>4, <3>1, OthersStayRight, Zenon DEF Statuses
  <2>6. /\ row \in Grant /\ row.id = r /\ row.key = c.key /\ row.group = c.group
        /\ row.name \in Names
    BY <1>2, Zenon DEF Grant
  <2>7. /\ c.key \in keys
        /\ \A x \in grants : ~(x.key = c.key /\ x.group = c.group)
    BY <1>4, Zenon DEF InsertAllowed, Held
  <2>8. r \notin Settled /\ r \in Settled'
    BY <1>1, <2>3, OldAssumption, Zenon DEF Settled, Statuses
  <2> HIDE DEF row
  <2>9. /\ since' \in [Requests -> SUBSET Names]
        /\ \A s \in Requests : since[s] \subseteq since'[s]
        /\ \A s \in Requests : pc[s] = "access" /\ call[s].key = row.key
                                 => row.name \in since'[s]
    BY <1>1, <2>1, <2>6, Zenon DEF TypeOK
  <2>10. TypeOK'
    BY <1>1, <2>1, <2>3, <2>6, <2>9, Zenon DEF TypeOK
  <2>11. RowsAreSound'
    <3>1. \A x, y \in grants' : x.key = y.key /\ x.group = y.group => x = y
      BY <2>1, <2>6, <2>7 DEF IInv, RowsAreSound
    <3>2. \A x \in grants' : x.key \in keys'
      BY <1>1, <2>1, <2>6, <2>7, Zenon DEF IInv, RowsAreSound
    <3>3. \A s \in Requests : written'[s] \subseteq since'[s]
      BY <1>1, <2>9, Zenon DEF IInv, RowsAreSound
    <3> QED BY <2>10, <3>1, <3>2, <3>3, Zenon DEF RowsAreSound
  <2>12. GrantsAreMet'
    <3> SUFFICES ASSUME NEW s \in Requests, pc'[s] = "access"
                 PROVE  granted_group_names(call[s].key)' \subseteq since'[s]
      BY Zenon DEF GrantsAreMet
    <3>1. pc[s] = "access" /\ call'[s] = call[s]
      BY <2>3, Zenon
    <3>2. granted_group_names(call[s].key) \subseteq since[s]
      BY <3>1, Zenon DEF IInv, GrantsAreMet
    <3>3. ASSUME NEW n \in granted_group_names(call[s].key)', n # row.name \/ call[s].key # row.key
          PROVE  n \in granted_group_names(call[s].key)
      BY <2>1, <3>1, <3>3, Zenon DEF granted_group_names
    <3> QED BY <2>9, <3>1, <3>2, <3>3, Zenon
  <2>13. IdsAreSettled'
    BY <2>1, <2>5, <2>6, <2>8, Zenon DEF IInv, IdsAreSettled
  <2>14. StaleIsAbsent'
    BY <1>1, <2>1, <2>5, <2>6, <2>8, Zenon DEF IInv, StaleIsAbsent
  <2> QED BY <2>5, <2>11, <2>12, <2>13, <2>14, Zenon DEF IInv
<1> QED BY <1>3, <1>4, Zenon

(* The DELETE of revoke_key_group. *)
LEMMA RevokeKeeps ==
    ASSUME IInv, NEW r \in Requests, revoke_key_group(r)
    PROVE  IInv'
<1>1. /\ TypeOK /\ RequestOK(r) /\ pc[r] = "write" /\ call[r].op = "revoke_key_group"
      /\ grants' \subseteq grants /\ Goto(r, "audit")
      /\ UNCHANGED <<keys, vault, named, written, worker, since, absent>>
  BY Zenon DEF revoke_key_group, At, IInv, RowsAreSound
<1>2. "audit" \in InProgress
  BY Zenon DEF InProgress
<1>3. /\ pc'[r] = "audit" /\ call'[r] = call[r]
      /\ \A s \in Requests : s # r => pc'[s] = pc[s] /\ call'[s] = call[s]
      /\ pc' \in [Requests -> InProgress \cup Statuses \cup {"idle"}]
      /\ call' \in [Requests -> Calls \cup {None}]
  BY <1>1, <1>2, GotoEffect, Zenon
<1>4. RequestOK(r)'
  BY <1>1, <1>3, Zenon DEF RequestOK, At
<1>5. (\A s \in Requests : RequestOK(s)') /\ Settled \subseteq Settled'
  BY <1>1, <1>3, <1>4, OthersStayRight, Zenon DEF Statuses
<1>6. \A x \in grants' : x.key \in keys'
  BY <1>1, Zenon DEF IInv, RowsAreSound
<1>7. \A s \in Requests : pc'[s] = "access" => pc[s] = "access" /\ call'[s] = call[s]
  BY <1>3, Zenon
<1>8. GrantsAreMet'
  BY <1>1, <1>7, GrantsStayMet, Zenon
<1> QED BY <1>1, <1>3, <1>5, <1>6, <1>8, FewerGrants, Zenon

(* A key's grants go with it. *)
LEMMA DeleteKeyKeeps ==
    ASSUME IInv, NEW r \in Requests, delete_api_key(r)
    PROVE  IInv'
<1>1. /\ TypeOK /\ RequestOK(r) /\ pc[r] = "write" /\ call[r].op = "delete_api_key"
      /\ keys' = keys \ {call[r].key} /\ grants' = {x \in grants : x.key # call[r].key}
      /\ Goto(r, "ok") \/ Goto(r, "404")
      /\ UNCHANGED <<vault, named, written, worker, since, absent>>
  BY Zenon DEF delete_api_key, At, IInv, RowsAreSound
<1>2. /\ pc'[r] \in Statuses
      /\ \A s \in Requests : s # r => pc'[s] = pc[s] /\ call'[s] = call[s]
      /\ pc' \in [Requests -> InProgress \cup Statuses \cup {"idle"}]
      /\ call' \in [Requests -> Calls \cup {None}]
  <2>1. {"ok", "404"} \subseteq Statuses
    BY Zenon DEF Statuses
  <2> QED BY <1>1, <2>1, GotoEffect, Zenon
<1>3. RequestOK(r)'
  BY <1>2, AnsweredIsRight, Zenon
<1>4. (\A s \in Requests : RequestOK(s)') /\ Settled \subseteq Settled'
  BY <1>1, <1>2, <1>3, OthersStayRight, Zenon
<1>5. /\ grants' \subseteq grants /\ keys' \subseteq keys
      /\ \A x \in grants' : x.key \in keys'
  BY <1>1, Zenon DEF IInv, RowsAreSound
<1>6. \A s \in Requests : pc'[s] = "access" => pc[s] = "access" /\ call'[s] = call[s]
  BY <1>2, Zenon DEF Statuses
<1>7. GrantsAreMet'
  BY <1>1, <1>5, <1>6, GrantsStayMet, Zenon
<1> QED BY <1>1, <1>2, <1>4, <1>5, <1>7, FewerGrants, Zenon

(* An endpoint is written with names that were granted when they were checked. *)
LEMMA WriteEndpointKeeps ==
    ASSUME IInv, NEW r \in Requests, create_endpoint(r) \/ update_endpoint(r)
    PROVE  IInv'
<1>1. /\ TypeOK /\ RequestOK(r) /\ pc[r] = "write" /\ call[r].op = "write_endpoint"
      /\ UNCHANGED <<keys, vault, named, grants, worker, since, absent>>
      /\ call[r].names \subseteq since[r] /\ call[r] \in Calls
  BY Zenon DEF create_endpoint, update_endpoint, At, IInv, RowsAreSound, RequestOK
<1>2. CASE Goto(r, "constraint") /\ UNCHANGED written
  BY <1>1, <1>2, AnswersAreRight, Zenon DEF Statuses, ReadOnly
<1>3. CASE written' = [written EXCEPT ![r] = call[r].names] /\ Goto(r, "audit")
  <2>1. "audit" \in InProgress
    BY Zenon DEF InProgress
  <2>2. /\ pc'[r] = "audit" /\ call'[r] = call[r]
        /\ \A s \in Requests : s # r => pc'[s] = pc[s] /\ call'[s] = call[s]
        /\ pc' \in [Requests -> InProgress \cup Statuses \cup {"idle"}]
        /\ call' \in [Requests -> Calls \cup {None}]
    BY <1>1, <1>3, <2>1, GotoEffect, Zenon
  <2>3. RequestOK(r)'
    BY <1>1, <2>2, Zenon DEF RequestOK, At
  <2>4. (\A s \in Requests : RequestOK(s)') /\ Settled \subseteq Settled'
    BY <1>1, <2>2, <2>3, OthersStayRight, Zenon DEF Statuses
  <2>5. call[r].names \subseteq Names /\ written \in [Requests -> SUBSET Names]
    BY <1>1, CallFields, Zenon DEF TypeOK
  <2>6. /\ written' \in [Requests -> SUBSET Names]
        /\ \A s \in Requests : written'[s] \subseteq since'[s]
    BY <1>1, <1>3, <2>5, Zenon DEF IInv, RowsAreSound
  <2>7. TypeOK'
    BY <1>1, <2>2, <2>6, Zenon DEF TypeOK
  <2>8. RowsAreSound'
    BY <1>1, <2>6, <2>7, Zenon DEF IInv, RowsAreSound
  <2>9. \A s \in Requests : pc'[s] = "access" => pc[s] = "access" /\ call'[s] = call[s]
    BY <2>2, Zenon
  <2>10. GrantsAreMet'
    BY <1>1, <2>9, GrantsStayMet, Zenon
  <2>11. IdsAreSettled' /\ StaleIsAbsent'
    BY <1>1, <2>4, Zenon DEF IInv, IdsAreSettled, StaleIsAbsent
  <2> QED BY <2>4, <2>8, <2>10, <2>11, Zenon DEF IInv
<1> QED BY <1>2, <1>3, Zenon DEF create_endpoint, update_endpoint

-----------------------------------------------------------------------------
(* Vault and the worker.                                                     *)

(* A group comes or goes: what was named stays named. *)
LEMMA VaultKeeps ==
    ASSUME IInv,
           \/ \E g \in Groups, n \in Names : VaultCreates(g, n)
           \/ \E g \in Groups : VaultDeletes(g)
    PROVE  IInv'
<1>1. UNCHANGED <<keys, grants, written, call, pc, worker, since, absent>>
  BY Zenon DEF VaultCreates, VaultDeletes, requests
<1>2. /\ DOMAIN named \subseteq DOMAIN named' /\ DOMAIN named' \subseteq Groups
      /\ vault' \subseteq DOMAIN named'
      /\ \A g \in DOMAIN named' : named'[g] \in Names
  <2>1. /\ vault \subseteq DOMAIN named /\ DOMAIN named \subseteq Groups
        /\ \A g \in DOMAIN named : named[g] \in Names
    BY Zenon DEF IInv, RowsAreSound, TypeOK
  <2>2. ASSUME NEW g \in Groups, NEW n \in Names, VaultCreates(g, n)
        PROVE  <1>2!:
    <3>1. /\ vault' = vault \cup {g}
          /\ named' = [i \in DOMAIN named \cup {g} |-> IF i = g THEN n ELSE named[i]]
      BY <2>2, Zenon DEF VaultCreates
    <3> QED BY <2>1, <3>1, Zenon
  <2>3. ASSUME NEW g \in Groups, VaultDeletes(g)
        PROVE  <1>2!:
    BY <2>1, <2>3, Zenon DEF VaultDeletes
  <2> QED BY <2>2, <2>3, Zenon
<1>3. ASSUME NEW s \in Requests PROVE RequestOK(s)'
  <2>1. RequestOK(s)
    BY <1>3, Zenon DEF IInv
  <2> QED BY <1>1, <1>2, <2>1, Zenon DEF RequestOK, Op, At
<1>4. RowsAreSound'
  BY <1>1, <1>2, Zenon DEF IInv, RowsAreSound, TypeOK
<1>5. GrantsAreMet'
  BY <1>1, GrantsStayMet, Zenon
<1>6. IdsAreSettled' /\ StaleIsAbsent'
  BY <1>1, Zenon DEF IInv, IdsAreSettled, StaleIsAbsent, Settled
<1> QED BY <1>3, <1>4, <1>5, <1>6, Zenon DEF IInv

(* A step of the worker, given that what it has found is stale. *)
LEMMA WorkerIsRight ==
    ASSUME IInv, grants' \subseteq grants,
           UNCHANGED <<keys, vault, named, written, requests, since>>,
           worker' \in [at : {"sleep", "read", "delete"}, live : SUBSET Groups,
                        stale : SUBSET (Requests \cup {Old})],
           absent' \subseteq Groups, StaleIsAbsent'
    PROVE  IInv'
<1>1. UNCHANGED <<call, pc>>
  BY Zenon DEF requests
<1>2. ASSUME NEW s \in Requests PROVE RequestOK(s)'
  <2>1. RequestOK(s)
    BY <1>2, Zenon DEF IInv
  <2> QED BY <1>1, <2>1, Zenon DEF RequestOK, Op, At
<1>3. RowsAreSound'
  BY <1>1, Zenon DEF IInv, RowsAreSound, TypeOK
<1>4. GrantsAreMet'
  BY <1>1, GrantsStayMet, Zenon
<1>5. IdsAreSettled'
  BY <1>1, Zenon DEF IInv, IdsAreSettled, Settled
<1> QED BY <1>2, <1>3, <1>4, <1>5, Zenon DEF IInv

(* A pass begins: what it lists is what Vault has. *)
LEMMA ListsKeeps ==
    ASSUME IInv, CleanupLists
    PROVE  IInv'
<1>1. /\ worker' = [at |-> "read", live |-> vault, stale |-> {}]
      /\ absent' = Groups \ vault /\ grants' = grants
      /\ UNCHANGED <<keys, vault, named, written, requests, since>>
  BY Zenon DEF CleanupLists, Worker
<1>2. vault \subseteq Groups
  BY Zenon DEF IInv, RowsAreSound, TypeOK
<1>3. worker'.at = "read" /\ worker'.live = vault
  BY <1>1, Zenon
<1>4. StaleIsAbsent'
  BY <1>1, <1>3, Zenon DEF StaleIsAbsent
<1>5. worker' \in [at : {"sleep", "read", "delete"}, live : SUBSET Groups,
                   stale : SUBSET (Requests \cup {Old})]
  BY <1>1, <1>2, Zenon
<1> QED BY <1>1, <1>4, <1>5, WorkerIsRight, Zenon

(* A pass that ends leaves nothing behind. *)
LEMMA SleepKeeps ==
    ASSUME IInv, grants' \subseteq grants, Worker(Sleeping), absent' = {}
    PROVE  IInv'
<1>1. /\ worker' = Sleeping
      /\ UNCHANGED <<keys, vault, named, written, requests, since>>
  BY Zenon DEF Worker
<1>2. /\ worker'.at = "sleep"
      /\ worker' \in [at : {"sleep", "read", "delete"}, live : SUBSET Groups,
                      stale : SUBSET (Requests \cup {Old})]
  BY <1>1, Zenon DEF Sleeping
<1>3. StaleIsAbsent'
  BY <1>2, Zenon DEF StaleIsAbsent
<1> QED BY <1>1, <1>2, <1>3, WorkerIsRight, Zenon

(* The ids that a pass reads are of grants whose group Vault did not list: no other
   grant has, or will have, one of them. *)
LEMMA ReadsKeeps ==
    ASSUME IInv, CleanupReads
    PROVE  IInv'
<1>1. PICK stale : stale = {x.id : x \in {y \in grants : y.group \notin worker.live}}
  BY Zenon
<1>2. /\ worker.at = "read" /\ grants' = grants
      /\ Worker(IF stale = {} THEN Sleeping
                ELSE [at |-> "delete", live |-> {}, stale |-> stale])
      /\ absent' = IF stale = {} THEN {} ELSE absent
  BY <1>1, Zenon DEF CleanupReads
<1>3. CASE stale = {}
  BY <1>2, <1>3, SleepKeeps, Zenon
<1>4. CASE stale # {}
  <2>1. /\ worker' = [at |-> "delete", live |-> {}, stale |-> stale]
        /\ absent' = absent
        /\ UNCHANGED <<keys, vault, named, written, requests, since>>
    BY <1>2, <1>4, Zenon DEF Worker
  <2>2. /\ absent = Groups \ worker.live /\ absent \subseteq Groups
        /\ \A x \in grants : x \in Grant
        /\ \A x, y \in grants : x.id = y.id => x = y
        /\ \A x \in grants : x.id \in Settled
    BY <1>2, Zenon DEF IInv, StaleIsAbsent, RowsAreSound, TypeOK, IdsAreSettled
  <2>3. \A x \in grants : x.group \in Groups /\ x.id \in Requests \cup {Old}
    BY <2>2, Zenon DEF Grant
  <2>4. stale \subseteq Settled /\ stale \subseteq Requests \cup {Old}
    BY <1>1, <2>2, <2>3, Zenon
  <2>5. \A x \in grants : x.id \in stale => x.group \in absent
    BY <1>1, <2>2, <2>3, Zenon
  <2>6. worker'.at = "delete" /\ worker'.stale = stale
    BY <2>1, Zenon
  <2>7. Settled' = Settled
    BY <2>1, Zenon DEF Settled, requests
  <2>8. StaleIsAbsent'
    BY <1>2, <2>1, <2>4, <2>5, <2>6, <2>7, Zenon DEF StaleIsAbsent
  <2>9. worker' \in [at : {"sleep", "read", "delete"}, live : SUBSET Groups,
                     stale : SUBSET (Requests \cup {Old})]
    BY <2>1, <2>4, Zenon
  <2> QED BY <1>2, <2>1, <2>2, <2>8, <2>9, WorkerIsRight, Zenon
<1> QED BY <1>3, <1>4, Zenon

-----------------------------------------------------------------------------
(* The invariant.                                                            *)

(* A step changes nothing that the invariant speaks of. *)
LEMMA StutterKeeps ==
    ASSUME IInv, UNCHANGED vars
    PROVE  IInv'
<1>1. /\ UNCHANGED <<keys, vault, named, grants, written, worker, since, absent>>
      /\ UNCHANGED <<call, pc, requests>>
  BY Zenon DEF vars, requests
<1>2. StaleIsAbsent'
  BY <1>1, Zenon DEF IInv, StaleIsAbsent, Settled
<1>3. /\ worker \in [at : {"sleep", "read", "delete"}, live : SUBSET Groups,
                     stale : SUBSET (Requests \cup {Old})]
      /\ absent \subseteq Groups
  BY Zenon DEF IInv, RowsAreSound, TypeOK
<1> QED BY <1>1, <1>2, <1>3, WorkerIsRight, Zenon

(* The start: no request has begun, and at most one grant, of a group that Vault has. *)
LEMMA InitIsRight == Init => IInv
<1> SUFFICES ASSUME Init PROVE IInv
  BY Zenon
<1>1. PICK g \in Groups, n \in Names :
          /\ vault = {g} /\ named = [i \in {g} |-> n]
          /\ \/ grants = {}
             \/ \E k \in Keys : grants = {[id |-> Old, key |-> k, group |-> g, name |-> n]}
  BY Zenon DEF Init
<1>2. /\ keys = Keys /\ absent = {}
      /\ written = [r \in Requests |-> {}] /\ since = [r \in Requests |-> {}]
      /\ call = [r \in Requests |-> None] /\ pc = [r \in Requests |-> "idle"]
      /\ worker = Sleeping
  BY Zenon DEF Init
<1>3. /\ vault \subseteq DOMAIN named /\ DOMAIN named \subseteq Groups
      /\ \A i \in DOMAIN named : named[i] \in Names
  BY <1>1, Zenon
<1>4. /\ grants \subseteq Grant /\ \A x, y \in grants : x = y
      /\ \A x \in grants : x.key \in Keys /\ x.name \in Names /\ x.id = Old
  BY <1>1 DEF Grant
<1>5. /\ written \in [Requests -> SUBSET Names] /\ since \in [Requests -> SUBSET Names]
      /\ \A r \in Requests : written[r] \subseteq since[r]
  BY <1>2, Zenon
<1>6. /\ call \in [Requests -> Calls \cup {None}]
      /\ pc \in [Requests -> InProgress \cup Statuses \cup {"idle"}]
  BY <1>2, Zenon
<1>7. /\ worker.at = "sleep"
      /\ worker \in [at : {"sleep", "read", "delete"}, live : SUBSET Groups,
                     stale : SUBSET (Requests \cup {Old})]
  BY <1>2, Zenon DEF Sleeping
<1>8. RowsAreSound
  BY <1>2, <1>3, <1>4, <1>5, <1>6, <1>7, Zenon DEF RowsAreSound, TypeOK
<1>9. (\A r \in Requests : RequestOK(r)) /\ GrantsAreMet
  BY <1>2, Zenon DEF RequestOK, At, GrantsAreMet
<1>10. IdsAreSettled /\ StaleIsAbsent
  BY <1>4, <1>7, Zenon DEF IdsAreSettled, Settled, StaleIsAbsent
<1> QED BY <1>2, <1>8, <1>9, <1>10, Zenon DEF IInv

(* Every step keeps the invariant. *)
LEMMA NextKeeps == IInv /\ [Next]_vars => IInv'
<1> SUFFICES ASSUME IInv, [Next]_vars PROVE IInv'
  BY Zenon
<1>1. ASSUME NEW r \in Requests, NEW c \in Calls, Arrive(r, c) PROVE IInv'
  BY <1>1, ArriveKeeps, Zenon
<1>2. ASSUME NEW r \in Requests, Handler(r) PROVE IInv'
  BY <1>2, FindTargetKeeps, ListForGrantKeeps, FindExistingKeeps, GrantKeeps, FindGrantKeeps,
     RevokeKeeps, DeleteKeyKeeps, CheckAccessKeeps, WriteEndpointKeeps, AuditKeeps, Zenon DEF Handler
<1>3. CASE CleanupDeletes
  <2>1. grants' \subseteq grants
    BY <1>3, Zenon DEF CleanupDeletes
  <2> QED BY <1>3, <2>1, SleepKeeps, Zenon DEF CleanupDeletes
<1>4. CASE CleanupFails
  <2>1. grants' \subseteq grants
    BY <1>4, Zenon DEF CleanupFails
  <2> QED BY <1>4, <2>1, SleepKeeps, Zenon DEF CleanupFails
<1>5. CASE UNCHANGED vars
  BY <1>5, StutterKeeps, Zenon
<1> QED BY <1>1, <1>2, <1>3, <1>4, <1>5, VaultKeeps, ListsKeeps, ReadsKeeps, Zenon DEF Next

(* The invariant holds throughout. *)
THEOREM GrantsInvariant == Spec => []IInv
BY InitIsRight, NextKeeps, PTL DEF Spec

(* All state is well formed, the table holds at most one row for a key and a group and
   none for a key that is gone, and what a Daughter's create_endpoint or update_endpoint
   writes are names granted to that Daughter between the request's arrival and its
   check: however the two round-trips of grant_key_group, the deletion of keys, the
   writes of endpoints, Vault and the cleanup of groups.rs interleave.  Who owns the
   endpoint afterwards is another matter: a hand-over checks no grants. *)
THEOREM RowsStaySound == Spec => []RowsAreSound
<1>1. IInv => RowsAreSound
  BY Zenon DEF IInv
<1> QED BY <1>1, GrantsInvariant, PTL

(* The requests and Vault do not move the worker. *)
LEMMA OthersLeaveTheWorker ==
    ASSUME \/ \E g \in Groups, n \in Names : VaultCreates(g, n)
           \/ \E g \in Groups : VaultDeletes(g)
           \/ \E r \in Requests : (\E c \in Calls : Arrive(r, c)) \/ Handler(r)
    PROVE  worker' = worker
<1>1. ASSUME NEW r \in Requests, NEW c \in Calls, Arrive(r, c) PROVE worker' = worker
  BY <1>1, Zenon DEF Arrive, ReadOnly
<1>2. ASSUME NEW r \in Requests, Handler(r) PROVE worker' = worker
  BY <1>2, Zenon
     DEF Handler, FindTarget, ListForGrant, FindExisting, grant_key_group, FindGrant,
     revoke_key_group, delete_api_key, CheckAccess, create_endpoint, update_endpoint, create_audit_log,
     Abandon, ReadOnly
<1> QED BY <1>1, <1>2, Zenon DEF VaultCreates, VaultDeletes

(* A grant that the cleanup deletes is of a group that Vault did not have when the pass
   listed the groups: ids are not used again, so what was read stale is still stale
   when the DELETE of groups.rs names it by its id. *)
THEOREM CleanupIsRight == Spec => OutagesKeepGrants
<1>1. IInv /\ [Next]_vars =>
        [\A x \in grants \ grants' :
            worker.at = "delete" /\ worker'.at = "sleep" => x.group \in absent]_vars
  <2> SUFFICES ASSUME IInv, Next, worker.at = "delete", worker'.at = "sleep",
                      NEW x \in grants \ grants'
               PROVE  x.group \in absent
    BY Zenon
  <2>1. CASE CleanupDeletes
    <3>1. x.id \in worker.stale
      BY <2>1, Zenon DEF CleanupDeletes
    <3> QED BY <3>1, Zenon DEF IInv, StaleIsAbsent
  <2>2. CASE CleanupFails
    BY <2>2, Zenon DEF CleanupFails
  <2>3. ~CleanupLists /\ ~CleanupReads
    BY Zenon DEF CleanupLists, CleanupReads
  <2>4. worker' # worker
    BY Zenon
  <2> QED BY <2>1, <2>2, <2>3, <2>4, OthersLeaveTheWorker, Zenon DEF Next
<1> QED BY <1>1, GrantsInvariant, PTL DEF Spec, OutagesKeepGrants

=============================================================================
