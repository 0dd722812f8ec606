-------------------------------- MODULE Boot --------------------------------
(***************************************************************************)
(* The start of a process (src/main.rs) up to the listener, the Master pin *)
(* it takes (src/master.rs), and the secrets it can open afterwards        *)
(* (SecretCipher, src/crypto.rs).  Processes share one database: one is    *)
(* restarted while another still runs, possibly under another              *)
(* EXPORTER_ENCRYPTION_KEY, and any of them may stop between two awaits of *)
(* main.  The operator edits api_keys directly, as RBAC_MODEL.md section 5 *)
(* and the messages of MasterPinError tell them to.                        *)
(***************************************************************************)
EXTENDS Naturals, FiniteSets

CONSTANTS
    Procs,        \* places a process may run in
    Keys,         \* Uuids of api_keys rows, numbered; each has its own credentials
    EncKeys,      \* values of EXPORTER_ENCRYPTION_KEY
    Plaintext,    \* the cipher when none is configured; marks v1.plain secrets
    Nobody,       \* no key: an empty OnceCell, no row found
    MaxStops,     \* bound: crashes, failed calls and shutdowns
    MaxCreates,   \* bound: keys created through the API
    MaxEdits      \* bound: direct edits of the database

\* SecretCipher::from_env: Plaintext, or Sealed under a key.
Ciphers == EncKeys \cup {Plaintext}

ASSUME PlaintextAssumption == Plaintext \notin EncKeys
ASSUME KeysAssumption == Keys \subseteq Nat
ASSUME NobodyAssumption == Nobody \notin Keys

\* is_master, the cipher signing_secret is stored under, and (history) the Master
\* whose request stored it: Nobody for a secret stored by bootstrap_master_key.
ApiKey == [is_master : BOOLEAN, sealed : Ciphers, by : Keys \cup {Nobody}]

\* The two halves of a key's credentials.
Halves == {"api_key", "signing_secret"}

Steps == {"down", "bootstrap", "insert", "banner", "canary", "index", "pin", "bind", "serving"}

VARIABLES
    api_keys,   \* the table: id -> row
    index,      \* idx_api_keys_master_marker is there
    pc,         \* where each process is in main
    cipher,     \* AppState::cipher
    minted,     \* bootstrap_master_key: the Master it is about to insert, or has inserted
    opened,     \* history: the row whose secret verify_encryption_key opened
    pinned,     \* MasterPin::cell
    caller,     \* a request past auth_middleware as Master, its handler not yet run
    shown,      \* per half: keys whose present credentials somebody was shown
    lost,       \* history, per half: keys whose credentials were stored and never shown
    deleted,    \* history: rows the operator deleted
    budget      \* stops, creations and edits so far

tables  == <<api_keys, index>>
process == <<pc, cipher, minted, opened, pinned, caller>>
credentials == <<shown, lost>>
vars == <<tables, process, credentials, deleted, budget>>

Masters == {k \in DOMAIN api_keys : api_keys[k].is_master}

\* Faulty: any key will do.
HasAnyKey == api_keys # [k \in {} |-> 0]

\* What bootstrap_master_key looks for.
HasMaster == Masters # {}

\* Uuid::new_v4 repeats no Uuid that is or was in the table, or that a process has drawn.
Unused == Keys \ (DOMAIN api_keys \cup deleted \cup {minted[p] : p \in Procs})

\* Uuids are only compared for equality: the next one is as good as any.
NewKey(k) == k \in Unused /\ \A j \in Unused : k <= j

\* SecretCipher::open: a plaintext secret is readable in every mode.
open(c, stored) == stored \in {Plaintext, c}

Spend(what, bound) ==
    /\ budget[what] < bound
    /\ budget' = [budget EXCEPT ![what] = @ + 1]

Init ==
    /\ api_keys = [k \in {} |-> 0]
    /\ index = TRUE
    /\ pc = [p \in Procs |-> "down"]
    /\ cipher = [p \in Procs |-> Plaintext]
    /\ minted = [p \in Procs |-> Nobody]
    /\ opened = [p \in Procs |-> Nobody]
    /\ pinned = [p \in Procs |-> Nobody]
    /\ caller = [p \in Procs |-> Nobody]
    /\ shown = [h \in Halves |-> {}]
    /\ lost = [h \in Halves |-> {}]
    /\ deleted = {}
    /\ budget = [stops |-> 0, creates |-> 0, edits |-> 0]

-----------------------------------------------------------------------------
(* main *)

\* k is put into the sets of some halves of its credentials, or taken out of them.
With(sets, halves, k) == [h \in Halves |-> IF h \in halves THEN sets[h] \cup {k} ELSE sets[h]]
Without(sets, halves, k) == [h \in Halves |-> IF h \in halves THEN sets[h] \ {k} ELSE sets[h]]

Goto(p, where) == pc' = [pc EXCEPT ![p] = where]

\* RuntimeConfig, database connection, migrations (which leave the marker index in
\* place the first time) and SecretCipher::from_env, in that order.
Start(p, c) ==
    /\ pc[p] = "down"
    /\ Goto(p, "bootstrap")
    /\ cipher' = [cipher EXCEPT ![p] = c]
    /\ UNCHANGED <<tables, minted, opened, pinned, caller, credentials, deleted, budget>>

\* What a process leaves behind when it exits: nothing but the database.
Exit(p) ==
    /\ Goto(p, "down")
    /\ cipher' = [cipher EXCEPT ![p] = Plaintext]
    /\ minted' = [minted EXCEPT ![p] = Nobody]
    /\ opened' = [opened EXCEPT ![p] = Nobody]
    /\ pinned' = [pinned EXCEPT ![p] = Nobody]
    /\ caller' = [caller EXCEPT ![p] = Nobody]

\* The process is killed, shut down, or a call of main returns an error.
Stop(p) ==
    /\ pc[p] # "down"
    /\ Spend("stops", MaxStops)
    /\ Exit(p)
    /\ lost' = IF pc[p] = "banner" THEN With(lost, Halves, minted[p]) ELSE lost
    /\ UNCHANGED <<tables, shown, deleted>>

\* bootstrap_master_key: a Master is there already.
MasterFound(p) ==
    /\ pc[p] = "bootstrap"
    /\ HasMaster
    /\ Goto(p, "canary")
    /\ UNCHANGED <<tables, cipher, minted, opened, pinned, caller, credentials, deleted, budget>>

\* Faulty: the banner before the insert.
DrawAndShow(p, k) ==
    /\ pc[p] = "bootstrap"
    /\ ~HasMaster
    /\ NewKey(k)
    /\ minted' = [minted EXCEPT ![p] = k]
    /\ shown' = With(shown, Halves, k)
    /\ Goto(p, "insert")
    /\ UNCHANGED <<tables, cipher, opened, pinned, caller, lost, deleted, budget>>

\* None is: draw one.
DrawMaster(p, k) ==
    /\ pc[p] = "bootstrap"
    /\ ~HasMaster
    /\ NewKey(k)
    /\ minted' = [minted EXCEPT ![p] = k]
    /\ Goto(p, "insert")
    /\ UNCHANGED <<tables, cipher, opened, pinned, caller, credentials, deleted, budget>>

\* The generated marker column under its unique index: one Master at most.
MarkerFree == index => Masters = {}

\* model.insert(db), with the secret sealed by this process's cipher.
InsertMaster(p) ==
    /\ pc[p] = "insert"
    /\ MarkerFree
    /\ api_keys' = [k \in DOMAIN api_keys \cup {minted[p]} |->
                       IF k = minted[p]
                       THEN [is_master |-> TRUE, sealed |-> cipher[p], by |-> Nobody]
                       ELSE api_keys[k]]
    /\ Goto(p, "banner")
    /\ UNCHANGED <<index, cipher, minted, opened, pinned, caller, credentials, deleted, budget>>

\* Another process was first: the insert fails, and main returns the error.
InsertRefused(p) ==
    /\ pc[p] = "insert"
    /\ ~MarkerFree
    /\ Exit(p)
    /\ UNCHANGED <<tables, credentials, deleted, budget>>

\* The banner: the only time the Master's credentials are shown.
Banner(p) ==
    /\ pc[p] = "banner"
    /\ shown' = With(shown, Halves, minted[p])
    /\ minted' = [minted EXCEPT ![p] = Nobody]
    /\ Goto(p, "canary")
    /\ UNCHANGED <<tables, cipher, opened, pinned, caller, lost, deleted, budget>>

\* Faulty: the secret is read and not opened.
CanaryUnread(p) ==
    /\ pc[p] = "canary"
    /\ \/ \E k \in Masters : opened' = [opened EXCEPT ![p] = k]
       \/ Masters = {} /\ UNCHANGED opened
    /\ Goto(p, "index")
    /\ UNCHANGED <<tables, cipher, minted, pinned, caller, credentials, deleted, budget>>

\* verify_encryption_key: the Master's secret opens, or there is no Master to ask.
CanaryPasses(p) ==
    /\ pc[p] = "canary"
    /\ \/ \E k \in Masters : /\ open(cipher[p], api_keys[k].sealed)
                             /\ opened' = [opened EXCEPT ![p] = k]
       \/ Masters = {} /\ UNCHANGED opened
    /\ Goto(p, "index")
    /\ UNCHANGED <<tables, cipher, minted, pinned, caller, credentials, deleted, budget>>

\* EncryptionKeyMismatch: std::process::exit(1).
CanaryFails(p) ==
    /\ pc[p] = "canary"
    /\ \E k \in Masters : ~open(cipher[p], api_keys[k].sealed)
    /\ Exit(p)
    /\ UNCHANGED <<tables, credentials, deleted, budget>>

\* pin_at_boot: has_index, or MissingConstraint.
IndexThere(p) ==
    /\ pc[p] = "index"
    /\ index
    /\ Goto(p, "pin")
    /\ UNCHANGED <<tables, cipher, minted, opened, pinned, caller, credentials, deleted, budget>>

IndexMissing(p) ==
    /\ pc[p] = "index"
    /\ ~index
    /\ Exit(p)
    /\ UNCHANGED <<tables, credentials, deleted, budget>>

\* resolve_inner finds exactly one Master: self.cell.set(id).
PinMaster(p) ==
    /\ pc[p] = "pin"
    /\ \E k \in Masters : Masters = {k} /\ pinned' = [pinned EXCEPT ![p] = k]
    /\ Goto(p, "bind")
    /\ UNCHANGED <<tables, cipher, minted, opened, caller, credentials, deleted, budget>>

\* NoMaster or Duplicates.
PinRefused(p) ==
    /\ pc[p] = "pin"
    /\ Cardinality(Masters) # 1
    /\ Exit(p)
    /\ UNCHANGED <<tables, credentials, deleted, budget>>

\* The boot sync, the workers and the listener; the boot sync never fails.
Bind(p) ==
    /\ pc[p] = "bind"
    /\ Goto(p, "serving")
    /\ UNCHANGED <<tables, cipher, minted, opened, pinned, caller, credentials, deleted, budget>>

-----------------------------------------------------------------------------
(* Requests.  Only whoever was shown a key's credentials can sign with them. *)

\* recover_signing_secret; without it no signature of k verifies.
recover_signing_secret(p, k) == open(cipher[p], api_keys[k].sealed)

\* Faulty: the is_master column alone decides.
AuthenticateByColumn(p, k) ==
    /\ pc[p] = "serving"
    /\ caller[p] = Nobody
    /\ k \in Masters /\ \A h \in Halves : k \in shown[h]
    /\ recover_signing_secret(p, k)
    /\ caller' = [caller EXCEPT ![p] = k]
    /\ UNCHANGED <<tables, pc, cipher, minted, opened, pinned, credentials, deleted, budget>>

\* MasterPin::authenticate leaves is_master on a row, the pinned one, and
\* recover_signing_secret opens its secret.
AuthenticateMaster(p, k) ==
    /\ pc[p] = "serving"
    /\ caller[p] = Nobody
    /\ k \in Masters /\ \A h \in Halves : k \in shown[h]
    /\ pinned[p] = k
    /\ recover_signing_secret(p, k)
    /\ caller' = [caller EXCEPT ![p] = k]
    /\ UNCHANGED <<tables, pc, cipher, minted, opened, pinned, credentials, deleted, budget>>

\* seal(&signing_secret) under this process's cipher, in a row that is no Master.
Store(p, k) ==
    /\ caller[p] # Nobody
    /\ api_keys' = [j \in DOMAIN api_keys \cup {k} |->
                       IF j = k THEN [is_master |-> FALSE, sealed |-> cipher[p], by |-> caller[p]]
                                ELSE api_keys[j]]
    /\ caller' = [caller EXCEPT ![p] = Nobody]
    /\ UNCHANGED <<index, pc, cipher, minted, opened, pinned, deleted>>

\* The answer with the new credentials.
Answer(k, halves) ==
    /\ shown' = With(shown, halves, k)
    /\ lost' = Without(lost, halves, k)

\* create_audit_log fails after the row was written: a 500 without the credentials.
AnswerLost(k, halves) ==
    /\ Spend("stops", MaxStops)
    /\ shown' = Without(shown, halves, k)
    /\ lost' = With(lost, halves, k)

\* create_api_key
CreateKey(p, k) ==
    /\ NewKey(k)
    /\ Store(p, k)
    /\ \/ Answer(k, Halves) /\ Spend("creates", MaxCreates)
       \/ AnswerLost(k, Halves)

\* 403 for the Master's row.
guard_master_delete_or_rotate(k) == k \notin Masters

\* rotate_api_key
RotateApiKey(p, k) ==
    /\ k \in DOMAIN api_keys /\ guard_master_delete_or_rotate(k)
    /\ Store(p, k)
    /\ \/ Answer(k, Halves) /\ UNCHANGED budget
       \/ AnswerLost(k, Halves)

\* rotate_signing_secret leaves the X-API-Key alone.
RotateSigningSecret(p, k) ==
    /\ k \in DOMAIN api_keys /\ guard_master_delete_or_rotate(k)
    /\ Store(p, k)
    /\ \/ Answer(k, {"signing_secret"}) /\ UNCHANGED budget
       \/ AnswerLost(k, {"signing_secret"})

-----------------------------------------------------------------------------
(* The operator, with direct access to the database (external). *)

Edit ==
    /\ Spend("edits", MaxEdits)
    /\ UNCHANGED <<process, credentials>>

\* "Regeneration is: delete the row directly in the database."
DeleteRow(k) ==
    /\ Edit
    /\ k \in DOMAIN api_keys
    /\ api_keys' = [j \in DOMAIN api_keys \ {k} |-> api_keys[j]]
    /\ deleted' = deleted \cup {k}
    /\ UNCHANGED index

\* UPDATE api_keys SET is_master = ...; the marker index refuses a second Master.
SetMaster(k, flag) ==
    /\ Edit
    /\ k \in DOMAIN api_keys /\ api_keys[k].is_master # flag
    /\ flag => MarkerFree
    /\ api_keys' = [api_keys EXCEPT ![k] = [is_master |-> flag, sealed |-> @.sealed, by |-> @.by]]
    /\ UNCHANGED <<index, deleted>>

DropIndex ==
    /\ Edit
    /\ index /\ index' = FALSE
    /\ UNCHANGED <<api_keys, deleted>>

Operator ==
    \/ \E k \in Keys : DeleteRow(k) \/ \E flag \in BOOLEAN : SetMaster(k, flag)
    \/ DropIndex

BootStep(p) ==
    \/ MasterFound(p) \/ \E k \in Keys : DrawMaster(p, k)
    \/ InsertMaster(p) \/ InsertRefused(p) \/ Banner(p)
    \/ CanaryPasses(p) \/ CanaryFails(p)
    \/ IndexThere(p) \/ IndexMissing(p) \/ PinMaster(p) \/ PinRefused(p)
    \/ Bind(p)

Handle(p) ==
    \E k \in Keys : AuthenticateMaster(p, k) \/ CreateKey(p, k)
                     \/ RotateApiKey(p, k) \/ RotateSigningSecret(p, k)

Next ==
    \/ \E p \in Procs :
          \/ \E c \in Ciphers : Start(p, c)
          \/ BootStep(p) \/ Handle(p) \/ Stop(p)
    \/ Operator

Spec == Init /\ [][Next]_vars

\* restart: unless-stopped, and nothing in main blocks for ever: every call is a
\* query of a local database or has a time limit.
Fairness ==
    \A p \in Procs : WF_vars(\E c \in Ciphers : Start(p, c)) /\ WF_vars(BootStep(p))

FairSpec == Spec /\ Fairness

-----------------------------------------------------------------------------

TypeOK ==
    /\ DOMAIN api_keys \subseteq Keys /\ api_keys \in [DOMAIN api_keys -> ApiKey]
    /\ index \in BOOLEAN
    /\ pc \in [Procs -> Steps]
    /\ cipher \in [Procs -> Ciphers]
    /\ minted \in [Procs -> Keys \cup {Nobody}] /\ opened \in [Procs -> Keys \cup {Nobody}]
    /\ pinned \in [Procs -> Keys \cup {Nobody}] /\ caller \in [Procs -> Keys \cup {Nobody}]
    /\ shown \in [Halves -> SUBSET Keys] /\ lost \in [Halves -> SUBSET Keys]
    /\ deleted \subseteq Keys
    /\ budget \in [{"stops", "creates", "edits"} -> Nat]

(* bootstrap_master_key and the handlers of api/keys.rs: credentials are shown only
   for a key the database took, and a stored key without them belongs to a process
   about to show it, or to one that stopped, or failed to audit, in between. *)
CredentialsAccounted ==
    \A h \in Halves :
       /\ shown[h] \subseteq DOMAIN api_keys \cup deleted
       /\ \A k \in DOMAIN api_keys \ shown[h] :
             k \in lost[h] \/ \E p \in Procs : pc[p] = "banner" /\ minted[p] = k

(* MasterPin: a process knows one Master all its life, the one it pinned before it
   served, and lets no other act as Master whatever becomes of the is_master column. *)
OneMasterPerProcess ==
    [][\A p \in Procs : pinned[p] # Nobody =>
          \/ pc'[p] = "down"
          \/ pinned'[p] = pinned[p] /\ caller'[p] \in {Nobody, pinned[p]}]_vars

(* verify_encryption_key: a process that opened the sealed secret a Master was minted
   with can open every secret stored at that Master's request since, by whichever
   process and under whatever key that one was configured with. *)
CanaryCovers ==
    \A p \in Procs : \A m, k \in DOMAIN api_keys :
        /\ opened[p] = m /\ api_keys[m].by = Nobody /\ api_keys[m].sealed # Plaintext
        /\ api_keys[k].by = m
        => open(cipher[p], api_keys[k].sealed)

(* "restart the service and the bootstrap path will re-mint it" (MasterPinError::NoMaster):
   a database without a Master gets one, whatever other keys it holds, once the
   processes over it are down. *)
MasterReturns ==
    (\A p \in Procs : pc[p] = "down") /\ Masters = {} ~> Masters # {}

=============================================================================
