----------------------------- MODULE BootProofs -----------------------------
(***************************************************************************)
(* Boot for every set of processes, keys and encryption keys.              *)
(***************************************************************************)
EXTENDS Boot, TLAPS

\* Uuids the database has taken at some time.
Known == DOMAIN api_keys \cup deleted

\* What each process remembers goes with where it is in main.
ProcessOK ==
    \A p \in Procs :
        /\ pc[p] = "down" => opened[p] = Nobody
        /\ caller[p] # Nobody => pc[p] = "serving" /\ caller[p] = pinned[p]
        /\ pinned[p] # Nobody => pc[p] \in {"bind", "serving"}
        /\ minted[p] # Nobody <=> pc[p] \in {"insert", "banner"}

\* A drawn Uuid is new until it is inserted, and no two processes draw the same.
MintedOK ==
    /\ \A p \in Procs :
          /\ pc[p] = "insert" => minted[p] \notin Known
          /\ pc[p] = "banner" => minted[p] \in Known
    /\ \A p, q \in Procs : p # q /\ minted[p] = minted[q] => minted[p] = Nobody

\* Only Uuids the database has taken are referred to.
KnownOK ==
    /\ \A p \in Procs : opened[p] \in Known \cup {Nobody} /\ caller[p] \in Known \cup {Nobody}
    /\ \A k \in DOMAIN api_keys : api_keys[k].by \in Known \cup {Nobody}

\* Whoever opened, or acts as, a Master with the secret it was minted with has its
\* cipher; so has every secret stored at its request, unless it is in plaintext.
SealedOK ==
    /\ \A p \in Procs : \A m \in DOMAIN api_keys :
          api_keys[m].by = Nobody /\ m \in {opened[p], caller[p]}
             => open(cipher[p], api_keys[m].sealed)
    /\ \A m, k \in DOMAIN api_keys :
          /\ api_keys[m].by = Nobody /\ api_keys[m].sealed # Plaintext
          /\ api_keys[k].by = m
          => api_keys[k].sealed = api_keys[m].sealed

IInv == TypeOK /\ ProcessOK /\ MintedOK /\ KnownOK /\ SealedOK /\ CredentialsAccounted

-----------------------------------------------------------------------------
(* Every step is one of these; the helper keeps the case splits below short. *)

\* The steps of a process that leave the table of keys alone.
ProcessSteps(p) ==
    \/ \E c \in Ciphers : Start(p, c)
    \/ MasterFound(p) \/ (\E k \in Keys : DrawMaster(p, k))
    \/ InsertRefused(p) \/ Banner(p) \/ CanaryPasses(p) \/ CanaryFails(p)
    \/ IndexThere(p) \/ IndexMissing(p) \/ PinMaster(p) \/ PinRefused(p)
    \/ Bind(p) \/ Stop(p) \/ (\E k \in Keys : AuthenticateMaster(p, k))

\* The handlers that store a secret.
StoreSteps(p, k) == CreateKey(p, k) \/ RotateApiKey(p, k) \/ RotateSigningSecret(p, k)

\* A step of main, of a handler or of the operator; bound of the case splits below.
LEMMA StepCases ==
    ASSUME Next
    PROVE  \/ \E p \in Procs : ProcessSteps(p) \/ InsertMaster(p)
                                  \/ \E k \in Keys : StoreSteps(p, k)
           \/ Operator
BY Zenon DEF Next, BootStep, Handle, ProcessSteps, StoreSteps

\* While a process holds a Uuid it drew, that is a Uuid.
LEMMA MintedIsKey ==
    ASSUME TypeOK, ProcessOK, NEW p \in Procs, pc[p] \in {"insert", "banner"}
    PROVE  minted[p] \in Keys /\ minted[p] # Nobody
BY Zenon DEF TypeOK, ProcessOK

\* The table after a handler has stored a secret.
LEMMA StoreEffect ==
    ASSUME TypeOK, NEW p \in Procs, NEW k \in Keys, Store(p, k)
    PROVE  /\ DOMAIN api_keys' = DOMAIN api_keys \cup {k}
           /\ api_keys'[k].sealed = cipher[p] /\ api_keys'[k].by = caller[p]
           /\ \A j \in DOMAIN api_keys' : j # k => j \in DOMAIN api_keys /\ api_keys'[j] = api_keys[j]
           /\ caller[p] \in Keys /\ caller[p] # Nobody
           /\ caller' = [caller EXCEPT ![p] = Nobody]
           /\ UNCHANGED <<index, pc, cipher, minted, opened, pinned, deleted>>
BY Zenon DEF Store, TypeOK

\* What is shown and lost of other keys stays so; of k, a half is one or the other, or
\* is left as it was.
KeptBut(h, k) ==
    /\ shown'[h] \subseteq shown[h] \cup {k}
    /\ \A j \in (shown[h] \cup lost[h]) \ {k} :
          j \in shown'[h] \cup lost'[h] /\ (j \in shown[h] => j \in shown'[h])
    /\ \/ k \in shown'[h] \cup lost'[h]
       \/ shown'[h] = shown[h] /\ lost'[h] = lost[h] /\ k \in DOMAIN api_keys

\* A handler stores a secret, and what it tells its caller concerns that key only.
LEMMA StoreStepEffect ==
    ASSUME TypeOK, NEW p \in Procs, NEW k \in Keys, StoreSteps(p, k)
    PROVE  /\ Store(p, k)
           /\ k \in Unused \/ k \in DOMAIN api_keys
           /\ shown' \in [Halves -> SUBSET Keys] /\ lost' \in [Halves -> SUBSET Keys]
           /\ budget' \in [{"stops", "creates", "edits"} -> Nat]
           /\ \A h \in Halves : KeptBut(h, k)
<1> USE DEF TypeOK, Answer, AnswerLost, With, Without, KeptBut, Spend
<1>1. CASE CreateKey(p, k)
    BY <1>1 DEF CreateKey, NewKey
<1>2. CASE RotateApiKey(p, k)
    BY <1>2 DEF RotateApiKey
<1>3. CASE RotateSigningSecret(p, k)
    BY <1>3 DEF RotateSigningSecret
<1> QED
    BY <1>1, <1>2, <1>3, Zenon DEF StoreSteps

\* A step that keeps secrets where they are, and forgets no Uuid.
TableKept ==
    /\ index' \in BOOLEAN
    /\ DOMAIN api_keys' \subseteq DOMAIN api_keys
    /\ api_keys' \in [DOMAIN api_keys' -> ApiKey]
    /\ \A k \in DOMAIN api_keys' :
          api_keys'[k].sealed = api_keys[k].sealed /\ api_keys'[k].by = api_keys[k].by
    /\ deleted' \subseteq Keys
    /\ Known' = Known

\* The operator's edits touch the database only.
LEMMA OperatorEffect ==
    ASSUME TypeOK, Operator
    PROVE  /\ UNCHANGED <<process, credentials>>
           /\ budget' \in [{"stops", "creates", "edits"} -> Nat]
           /\ TableKept
<1>1. Edit
    BY Zenon DEF Operator, DeleteRow, SetMaster, DropIndex
<1>2. ASSUME NEW k \in Keys, DeleteRow(k) PROVE TableKept
    BY <1>2, Zenon DEF DeleteRow, TypeOK, TableKept, Known
<1>3. ASSUME NEW k \in Keys, NEW flag \in BOOLEAN, SetMaster(k, flag) PROVE TableKept
    BY <1>3, Zenon DEF SetMaster, TypeOK, TableKept, Known, ApiKey
<1>4. ASSUME DropIndex PROVE TableKept
    BY <1>4, Zenon DEF DropIndex, TypeOK, TableKept, Known
<1>5. budget' \in [{"stops", "creates", "edits"} -> Nat]
    BY <1>1 DEF Edit, Spend, TypeOK
<1> QED
    BY <1>1, <1>2, <1>3, <1>4, <1>5, Zenon DEF Operator, Edit

\* TypeOK is kept by every step.
LEMMA TypeStep == TypeOK /\ ProcessOK /\ [Next]_vars => TypeOK'
<1> SUFFICES ASSUME TypeOK, ProcessOK, [Next]_vars PROVE TypeOK'
    BY Zenon
<1> USE DEF tables, process, credentials
<1>1. CASE UNCHANGED vars
    BY <1>1, Zenon DEF vars, TypeOK
<1>2. ASSUME NEW p \in Procs, ProcessSteps(p) PROVE TypeOK'
  <2> USE DEF TypeOK, Steps, Goto, Exit, Spend
  <2>1. ASSUME NEW c \in Ciphers, Start(p, c) PROVE TypeOK'
      BY <2>1, Zenon DEF Start
  <2>2. CASE MasterFound(p) \/ IndexThere(p) \/ Bind(p)
      BY <2>2, Zenon DEF MasterFound, IndexThere, Bind
  <2>3. ASSUME NEW k \in Keys, DrawMaster(p, k) PROVE TypeOK'
      BY <2>3, Zenon DEF DrawMaster
  <2>4. CASE InsertRefused(p) \/ CanaryFails(p) \/ IndexMissing(p) \/ PinRefused(p)
      BY <2>4, SMTT(30) DEF InsertRefused, CanaryFails, IndexMissing, PinRefused, Ciphers
  <2>5. CASE Banner(p)
      BY <2>5, MintedIsKey, Zenon DEF Banner, With
  <2>6. CASE CanaryPasses(p)
      BY <2>6 DEF CanaryPasses, Masters
  <2>7. CASE PinMaster(p)
      BY <2>7, Zenon DEF PinMaster, Masters
  <2>8. CASE Stop(p)
      BY <2>8, MintedIsKey DEF Stop, Ciphers, With
  <2>9. ASSUME NEW k \in Keys, AuthenticateMaster(p, k) PROVE TypeOK'
      BY <2>9, Zenon DEF AuthenticateMaster
  <2> QED
      BY <1>2, <2>1, <2>2, <2>3, <2>4, <2>5, <2>6, <2>7, <2>8, <2>9, Zenon DEF ProcessSteps
<1>3. ASSUME NEW p \in Procs, InsertMaster(p) PROVE TypeOK'
  <2>1. minted[p] \in Keys
      BY <1>3, MintedIsKey, Zenon DEF InsertMaster
  <2>2. /\ DOMAIN api_keys' \subseteq Keys
        /\ api_keys' \in [DOMAIN api_keys' -> ApiKey]
      BY <1>3, <2>1, Zenon DEF InsertMaster, TypeOK, ApiKey
  <2> QED
      BY <1>3, <2>2, Zenon DEF InsertMaster, TypeOK, Goto, Steps
<1>4. ASSUME NEW p \in Procs, NEW k \in Keys, StoreSteps(p, k) PROVE TypeOK'
  <2>1. Store(p, k) /\ shown' \in [Halves -> SUBSET Keys] /\ lost' \in [Halves -> SUBSET Keys]
        /\ budget' \in [{"stops", "creates", "edits"} -> Nat]
      BY <1>4, StoreStepEffect, Zenon
  <2>2. /\ DOMAIN api_keys' \subseteq Keys
        /\ api_keys' \in [DOMAIN api_keys' -> ApiKey]
      BY <2>1, Zenon DEF Store, TypeOK, ApiKey
  <2> QED
      BY <2>1, <2>2, StoreEffect, ZenonT(60) DEF TypeOK
<1>5. CASE Operator
    BY <1>5, OperatorEffect, Zenon DEF TypeOK, TableKept
<1> QED
    BY <1>1, <1>2, <1>3, <1>4, <1>5, StepCases, Zenon

\* ProcessOK is kept by every step.
LEMMA ProcessStep == TypeOK /\ ProcessOK /\ [Next]_vars => ProcessOK'
<1> SUFFICES ASSUME TypeOK, ProcessOK, [Next]_vars PROVE ProcessOK'
    BY Zenon
<1> USE NobodyAssumption DEF tables, process, credentials
<1>1. CASE UNCHANGED vars
    BY <1>1, Zenon DEF vars, ProcessOK
<1>2. ASSUME NEW p \in Procs, ProcessSteps(p) PROVE ProcessOK'
  <2> USE DEF TypeOK, ProcessOK, Goto, Exit
  <2>1. ASSUME NEW c \in Ciphers, Start(p, c) PROVE ProcessOK'
      BY <2>1, Zenon DEF Start
  <2>2. CASE MasterFound(p) \/ IndexThere(p) \/ Bind(p) \/ Banner(p) \/ CanaryPasses(p)
      BY <2>2 DEF MasterFound, IndexThere, Bind, Banner, CanaryPasses
  <2>3. ASSUME NEW k \in Keys, DrawMaster(p, k) PROVE ProcessOK'
      BY <2>3, Zenon DEF DrawMaster
  <2>4. CASE InsertRefused(p) \/ CanaryFails(p) \/ IndexMissing(p) \/ PinRefused(p) \/ Stop(p)
      BY <2>4 DEF InsertRefused, CanaryFails, IndexMissing, PinRefused, Stop
  <2>5. CASE PinMaster(p)
      BY <2>5, Zenon DEF PinMaster
  <2>6. ASSUME NEW k \in Keys, AuthenticateMaster(p, k) PROVE ProcessOK'
      BY <2>6, Zenon DEF AuthenticateMaster
  <2> QED
      BY <1>2, <2>1, <2>2, <2>3, <2>4, <2>5, <2>6, Zenon DEF ProcessSteps
<1>3. ASSUME NEW p \in Procs, InsertMaster(p) PROVE ProcessOK'
    BY <1>3, Zenon DEF InsertMaster, TypeOK, ProcessOK, Goto
<1>4. ASSUME NEW p \in Procs, NEW k \in Keys, StoreSteps(p, k) PROVE ProcessOK'
  <2>1. Store(p, k)
      BY <1>4, StoreStepEffect, Zenon
  <2>2. caller' = [caller EXCEPT ![p] = Nobody] /\ UNCHANGED <<pc, minted, opened, pinned>>
      BY <2>1, StoreEffect, Zenon
  <2> QED
      BY <2>2, Zenon DEF TypeOK, ProcessOK
<1>5. CASE Operator
    BY <1>5, OperatorEffect, Zenon DEF ProcessOK
<1> QED
    BY <1>1, <1>2, <1>3, <1>4, <1>5, StepCases, Zenon

\* MintedOK is kept by every step.
LEMMA MintedStep == TypeOK /\ ProcessOK /\ MintedOK /\ [Next]_vars => MintedOK'
<1> SUFFICES ASSUME TypeOK, ProcessOK, MintedOK, [Next]_vars PROVE MintedOK'
    BY Zenon
<1> USE NobodyAssumption DEF tables, process, credentials
<1>1. CASE UNCHANGED vars
    BY <1>1, Zenon DEF vars, MintedOK, Known
<1>2. ASSUME NEW p \in Procs, ProcessSteps(p) PROVE MintedOK'
  <2> USE DEF TypeOK, ProcessOK, MintedOK, Known, Goto, Exit
  <2>1. ASSUME NEW c \in Ciphers, Start(p, c) PROVE MintedOK'
      BY <2>1, Zenon DEF Start
  <2>2. CASE MasterFound(p) \/ IndexThere(p) \/ Bind(p) \/ CanaryPasses(p) \/ PinMaster(p)
      BY <2>2 DEF MasterFound, IndexThere, Bind, CanaryPasses, PinMaster
  <2>3. ASSUME NEW k \in Keys, DrawMaster(p, k) PROVE MintedOK'
      BY <2>3, SMTT(30) DEF DrawMaster, NewKey, Unused
  <2>4. CASE InsertRefused(p) \/ CanaryFails(p) \/ IndexMissing(p) \/ PinRefused(p) \/ Stop(p)
      BY <2>4, SMTT(30) DEF InsertRefused, CanaryFails, IndexMissing, PinRefused, Stop
  <2>5. CASE Banner(p)
      BY <2>5, ZenonT(60) DEF Banner
  <2>6. ASSUME NEW k \in Keys, AuthenticateMaster(p, k) PROVE MintedOK'
      BY <2>6, Zenon DEF AuthenticateMaster
  <2> QED
      BY <1>2, <2>1, <2>2, <2>3, <2>4, <2>5, <2>6, Zenon DEF ProcessSteps
<1>3. ASSUME NEW p \in Procs, InsertMaster(p) PROVE MintedOK'
  <2>1. Known' = Known \cup {minted[p]} /\ minted' = minted
      BY <1>3, Zenon DEF InsertMaster, Known
  <2>2. pc' = [pc EXCEPT ![p] = "banner"] /\ pc[p] = "insert"
      BY <1>3, Zenon DEF InsertMaster, Goto
  <2> QED
      BY <2>1, <2>2, MintedIsKey, Zenon DEF TypeOK, MintedOK
<1>4. ASSUME NEW p \in Procs, NEW k \in Keys, StoreSteps(p, k) PROVE MintedOK'
  <2>1. Store(p, k) /\ (k \in Unused \/ k \in DOMAIN api_keys)
      BY <1>4, StoreStepEffect, Zenon
  <2>2. UNCHANGED <<pc, minted>> /\ Known' = Known \cup {k}
      BY <2>1, StoreEffect, Zenon DEF Known
  <2> QED
      BY <2>1, <2>2, Zenon DEF MintedOK, Known, Unused
<1>5. CASE Operator
    BY <1>5, OperatorEffect, Zenon DEF MintedOK, TableKept
<1> QED
    BY <1>1, <1>2, <1>3, <1>4, <1>5, StepCases, Zenon

\* KnownOK is kept by every step: a Uuid, once taken, stays known.
LEMMA KnownStep == TypeOK /\ KnownOK /\ [Next]_vars => KnownOK'
<1> SUFFICES ASSUME TypeOK, KnownOK, [Next]_vars PROVE KnownOK'
    BY Zenon
<1> USE DEF tables, process, credentials
<1>1. CASE UNCHANGED vars
    BY <1>1, Zenon DEF vars, KnownOK, Known
<1>2. ASSUME NEW p \in Procs, ProcessSteps(p) PROVE KnownOK'
  <2>1. UNCHANGED <<api_keys, deleted>>
      BY <1>2, Zenon
         DEF ProcessSteps, Start, MasterFound, DrawMaster, InsertRefused, Banner, CanaryPasses,
                  CanaryFails, IndexThere, IndexMissing, PinMaster, PinRefused, Bind, Stop,
                  AuthenticateMaster
  <2>2. \/ UNCHANGED opened
        \/ opened' = [opened EXCEPT ![p] = Nobody]
        \/ \E k \in DOMAIN api_keys : opened' = [opened EXCEPT ![p] = k]
      BY <1>2, Zenon
         DEF ProcessSteps, Start, MasterFound, DrawMaster, InsertRefused, Banner, CanaryPasses,
                  CanaryFails, IndexThere, IndexMissing, PinMaster, PinRefused, Bind, Stop,
                  AuthenticateMaster, Exit, Masters
  <2>3. \/ UNCHANGED caller
        \/ caller' = [caller EXCEPT ![p] = Nobody]
        \/ \E k \in DOMAIN api_keys : caller' = [caller EXCEPT ![p] = k]
      BY <1>2, Zenon
         DEF ProcessSteps, Start, MasterFound, DrawMaster, InsertRefused, Banner, CanaryPasses,
                  CanaryFails, IndexThere, IndexMissing, PinMaster, PinRefused, Bind, Stop,
                  AuthenticateMaster, Exit, Masters
  <2> QED
      BY <2>1, <2>2, <2>3, ZenonT(60) DEF KnownOK, Known, TypeOK
<1>3. ASSUME NEW p \in Procs, InsertMaster(p) PROVE KnownOK'
    BY <1>3, Zenon DEF InsertMaster, KnownOK, Known
<1>4. ASSUME NEW p \in Procs, NEW k \in Keys, StoreSteps(p, k) PROVE KnownOK'
  <2>1. Store(p, k)
      BY <1>4, StoreStepEffect, Zenon
  <2>2. /\ caller' = [caller EXCEPT ![p] = Nobody] /\ UNCHANGED opened
        /\ Known' = Known \cup {k}
      BY <2>1, StoreEffect, Zenon DEF Known
  <2>3. \A j \in DOMAIN api_keys' : api_keys'[j].by \in Known' \cup {Nobody}
    <3>1. api_keys'[k].by = caller[p]
        BY <2>1, StoreEffect, Zenon
    <3>2. \A j \in DOMAIN api_keys' : j # k => j \in DOMAIN api_keys /\ api_keys'[j] = api_keys[j]
        BY <2>1, StoreEffect, Zenon
    <3> QED
        BY <2>2, <3>1, <3>2, Zenon DEF KnownOK
  <2> QED
      BY <2>2, <2>3, Zenon DEF KnownOK, TypeOK
<1>5. CASE Operator
    BY <1>5, OperatorEffect, Zenon DEF KnownOK, TableKept
<1> QED
    BY <1>1, <1>2, <1>3, <1>4, <1>5, StepCases, Zenon

\* SealedOK is kept by every step.  A secret is stored by a process that acts for a
\* Master it has authenticated, and so has opened that Master's secret.
LEMMA SealedStep == TypeOK /\ ProcessOK /\ MintedOK /\ KnownOK /\ SealedOK /\ [Next]_vars => SealedOK'
<1> SUFFICES ASSUME TypeOK, ProcessOK, MintedOK, KnownOK, SealedOK, [Next]_vars
             PROVE  SealedOK'
    BY Zenon
<1> USE NobodyAssumption DEF tables, process, credentials
<1>1. CASE UNCHANGED vars
    BY <1>1, ZenonT(60) DEF vars, SealedOK, open
<1>2. ASSUME NEW p \in Procs, ProcessSteps(p) PROVE SealedOK'
  <2> USE DEF TypeOK, ProcessOK, SealedOK, open
  <2>1. ASSUME NEW c \in Ciphers, Start(p, c) PROVE SealedOK'
    <3>1. opened[p] = Nobody /\ caller[p] = Nobody
        BY <2>1, Zenon DEF Start
    <3> QED
        BY <2>1, <3>1 DEF Start
  <2>2. CASE UNCHANGED <<api_keys, cipher, opened, caller>>
      BY <2>2
  <2>3. CASE Exit(p) /\ UNCHANGED api_keys
      BY <2>3 DEF Exit
  <2>4. CASE CanaryPasses(p)
      BY <2>4 DEF CanaryPasses
  <2>5. ASSUME NEW k \in Keys, AuthenticateMaster(p, k) PROVE SealedOK'
      BY <2>5, SMTT(30) DEF AuthenticateMaster, recover_signing_secret
  <2> QED
      BY <1>2, <2>1, <2>2, <2>3, <2>4, <2>5, Zenon
      DEF ProcessSteps, MasterFound, DrawMaster, InsertRefused, Banner, CanaryFails, IndexThere,
          IndexMissing, PinMaster, PinRefused, Bind, Stop
<1>3. ASSUME NEW p \in Procs, InsertMaster(p) PROVE SealedOK'
  <2>1. minted[p] \notin Known /\ minted[p] # Nobody
      BY <1>3, MintedIsKey, Zenon DEF InsertMaster, MintedOK
  <2>2. /\ DOMAIN api_keys' = DOMAIN api_keys \cup {minted[p]}
        /\ \A j \in DOMAIN api_keys : api_keys'[j] = api_keys[j]
        /\ api_keys'[minted[p]].by = Nobody
        /\ UNCHANGED <<cipher, opened, caller>>
      BY <1>3, <2>1, Zenon DEF InsertMaster, Known
  <2>3. \A q \in Procs : minted[p] \notin {opened[q], caller[q]}
      BY <2>1 DEF KnownOK
  <2>4. \A j \in DOMAIN api_keys : api_keys[j].by # minted[p]
      BY <2>1, Zenon DEF KnownOK
  <2>5. ASSUME NEW q \in Procs, NEW m \in DOMAIN api_keys', api_keys'[m].by = Nobody,
               m \in {opened'[q], caller'[q]}
        PROVE  open(cipher'[q], api_keys'[m].sealed)
    <3>1. m \in DOMAIN api_keys /\ api_keys'[m] = api_keys[m]
        BY <2>2, <2>3, <2>5, Zenon
    <3> QED
        BY <2>2, <2>5, <3>1, Zenon DEF SealedOK
  <2>6. ASSUME NEW m \in DOMAIN api_keys', NEW j \in DOMAIN api_keys',
               api_keys'[m].by = Nobody, api_keys'[m].sealed # Plaintext, api_keys'[j].by = m
        PROVE  api_keys'[j].sealed = api_keys'[m].sealed
    <3>1. j \in DOMAIN api_keys /\ api_keys'[j] = api_keys[j]
        BY <2>1, <2>2, <2>6, Zenon DEF TypeOK
    <3>2. m \in DOMAIN api_keys /\ api_keys'[m] = api_keys[m]
        BY <2>2, <2>4, <2>6, <3>1, Zenon
    <3> QED
        BY <2>6, <3>1, <3>2 DEF SealedOK
  <2> QED
      BY <2>5, <2>6, Zenon DEF SealedOK, open
<1>4. ASSUME NEW p \in Procs, NEW k \in Keys, StoreSteps(p, k) PROVE SealedOK'
  <2>1. Store(p, k)
      BY <1>4, StoreStepEffect, Zenon
  <2>2. /\ DOMAIN api_keys' = DOMAIN api_keys \cup {k}
        /\ api_keys'[k].sealed = cipher[p] /\ api_keys'[k].by = caller[p]
        /\ \A j \in DOMAIN api_keys' : j # k => j \in DOMAIN api_keys /\ api_keys'[j] = api_keys[j]
        /\ caller[p] # Nobody
        /\ caller' = [caller EXCEPT ![p] = Nobody]
        /\ UNCHANGED <<cipher, opened>>
      BY <2>1, StoreEffect, Zenon
  <2>3. \A q \in Procs : caller'[q] \in {caller[q], Nobody}
      BY <2>2, Zenon DEF TypeOK
  <2>4. ASSUME NEW q \in Procs, NEW m \in DOMAIN api_keys', api_keys'[m].by = Nobody,
               m \in {opened'[q], caller'[q]}
        PROVE  open(cipher'[q], api_keys'[m].sealed)
      BY <2>2, <2>3, <2>4 DEF SealedOK, TypeOK
  <2>5. ASSUME NEW m \in DOMAIN api_keys', NEW j \in DOMAIN api_keys',
               api_keys'[m].by = Nobody, api_keys'[m].sealed # Plaintext, api_keys'[j].by = m
        PROVE  api_keys'[j].sealed = api_keys'[m].sealed
    <3>1. m # k /\ m \in DOMAIN api_keys /\ api_keys'[m] = api_keys[m]
        BY <2>2, <2>5, Zenon
    <3>2. CASE j = k
        BY <2>2, <2>5, <3>1, <3>2, SMTT(30) DEF SealedOK, open
    <3>3. CASE j # k
        BY <2>2, <2>5, <3>1, <3>3 DEF SealedOK
    <3> QED
        BY <3>2, <3>3, Zenon
  <2> QED
      BY <2>4, <2>5, Zenon DEF SealedOK, open
<1>5. CASE Operator
    BY <1>5, OperatorEffect DEF SealedOK, TableKept, open
<1> QED
    BY <1>1, <1>2, <1>3, <1>4, <1>5, StepCases, Zenon

\* CredentialsAccounted is kept by every step.
LEMMA AccountedStep ==
    TypeOK /\ ProcessOK /\ MintedOK /\ CredentialsAccounted /\ [Next]_vars => CredentialsAccounted'
<1> SUFFICES ASSUME TypeOK, ProcessOK, MintedOK, CredentialsAccounted, [Next]_vars
             PROVE  CredentialsAccounted'
    BY Zenon
<1> USE NobodyAssumption DEF tables, process, credentials
<1>1. CASE UNCHANGED vars
    BY <1>1, Zenon DEF vars, CredentialsAccounted
<1>2. ASSUME NEW p \in Procs, ProcessSteps(p) PROVE CredentialsAccounted'
  <2> USE DEF TypeOK, ProcessOK, MintedOK, Known, CredentialsAccounted, Goto, Exit
  <2>1. ASSUME NEW c \in Ciphers, Start(p, c) PROVE CredentialsAccounted'
      BY <2>1, ZenonT(60) DEF Start
  <2>2. CASE MasterFound(p) \/ IndexThere(p) \/ Bind(p) \/ CanaryPasses(p) \/ PinMaster(p)
      BY <2>2 DEF MasterFound, IndexThere, Bind, CanaryPasses, PinMaster
  <2>3. ASSUME NEW k \in Keys, DrawMaster(p, k) PROVE CredentialsAccounted'
      BY <2>3, Zenon DEF DrawMaster
  <2>4. CASE InsertRefused(p) \/ CanaryFails(p) \/ IndexMissing(p) \/ PinRefused(p)
      BY <2>4, SMTT(30) DEF InsertRefused, CanaryFails, IndexMissing, PinRefused
  <2>5. CASE Stop(p)
      BY <2>5 DEF Stop, With
  <2>6. CASE Banner(p)
      BY <2>6, SMTT(30) DEF Banner, With
  <2>7. ASSUME NEW k \in Keys, AuthenticateMaster(p, k) PROVE CredentialsAccounted'
      BY <2>7 DEF AuthenticateMaster
  <2> QED
      BY <1>2, <2>1, <2>2, <2>3, <2>4, <2>5, <2>6, <2>7, Zenon DEF ProcessSteps
<1>3. ASSUME NEW p \in Procs, InsertMaster(p) PROVE CredentialsAccounted'
    BY <1>3, SMTT(30) DEF InsertMaster, TypeOK, CredentialsAccounted, Goto
<1>4. ASSUME NEW p \in Procs, NEW k \in Keys, StoreSteps(p, k) PROVE CredentialsAccounted'
  <2>1. Store(p, k) /\ \A h \in Halves : KeptBut(h, k)
      BY <1>4, StoreStepEffect, Zenon
  <2>2. DOMAIN api_keys' = DOMAIN api_keys \cup {k} /\ UNCHANGED <<pc, minted, deleted>>
      BY <2>1, StoreEffect, Zenon
  <2> QED
      BY <2>1, <2>2 DEF CredentialsAccounted, KeptBut
<1>5. CASE Operator
    BY <1>5, OperatorEffect, Zenon DEF CredentialsAccounted, TableKept, Known
<1> QED
    BY <1>1, <1>2, <1>3, <1>4, <1>5, StepCases, Zenon

-----------------------------------------------------------------------------

\* The inductive invariant, for every set of processes and keys.
THEOREM BootInvariant == Spec => []IInv
<1>1. Init => IInv
  <2> SUFFICES ASSUME Init PROVE IInv
      BY Zenon
  <2>1. DOMAIN api_keys = {} /\ TypeOK
      BY DEF Init, TypeOK, Steps, Ciphers
  <2>2. ProcessOK /\ MintedOK
      BY Zenon DEF Init, ProcessOK, MintedOK
  <2>3. KnownOK /\ SealedOK /\ CredentialsAccounted
      BY <2>1, Zenon DEF Init, KnownOK, SealedOK, CredentialsAccounted
  <2> QED
      BY <2>1, <2>2, <2>3, Zenon DEF IInv
<1>2. IInv /\ [Next]_vars => IInv'
    BY TypeStep, ProcessStep, MintedStep, KnownStep, SealedStep, AccountedStep, Zenon DEF IInv
<1> QED
    BY <1>1, <1>2, PTL DEF Spec

\* bootstrap_master_key, create_api_key and the rotations never show credentials the
\* database did not take, and leave a stored key without them only in the known gaps.
THEOREM CredentialsAreAccounted == Spec => []CredentialsAccounted
<1>1. IInv => CredentialsAccounted
    BY Zenon DEF IInv
<1> QED
    BY <1>1, BootInvariant, PTL

\* verify_encryption_key: one secret opened at boot vouches for every secret stored at
\* that Master's request, by any number of processes under any encryption keys.
THEOREM CanaryIsEnough == Spec => []CanaryCovers
<1>1. IInv => CanaryCovers
    BY Zenon DEF IInv, SealedOK, CanaryCovers, open
<1> QED
    BY <1>1, BootInvariant, PTL

\* MasterPin: between two starts a process obeys one Master, whatever the operator does
\* to the table meanwhile.
THEOREM PinIsKept == Spec => OneMasterPerProcess
<1> DEFINE Kept == \A p \in Procs : pinned[p] # Nobody =>
                      \/ pc'[p] = "down"
                      \/ pinned'[p] = pinned[p] /\ caller'[p] \in {Nobody, pinned[p]}
<1>1. IInv /\ [Next]_vars => [Kept]_vars
  <2> SUFFICES ASSUME TypeOK, ProcessOK, Next PROVE Kept
      BY Zenon DEF IInv
  <2> USE DEF tables, process, credentials
  <2>1. ASSUME NEW p \in Procs, ProcessSteps(p) PROVE Kept
    <3> USE DEF TypeOK, ProcessOK
    <3>1. CASE Exit(p)
        BY <3>1, Zenon DEF Exit, Goto
    <3>2. CASE UNCHANGED <<pinned, caller>>
        BY <3>2, Zenon
    <3>3. CASE PinMaster(p)
        BY <3>3, Zenon DEF PinMaster
    <3>4. ASSUME NEW k \in Keys, AuthenticateMaster(p, k) PROVE Kept
        BY <3>4, Zenon DEF AuthenticateMaster
    <3> QED
        BY <2>1, <3>1, <3>2, <3>3, <3>4, Zenon
        DEF ProcessSteps, Start, MasterFound, DrawMaster, InsertRefused, Banner, CanaryPasses,
            CanaryFails, IndexThere, IndexMissing, PinRefused, Bind, Stop
  <2>2. ASSUME NEW p \in Procs, InsertMaster(p) PROVE Kept
      BY <2>2, Zenon DEF InsertMaster, ProcessOK
  <2>3. ASSUME NEW p \in Procs, NEW k \in Keys, StoreSteps(p, k) PROVE Kept
    <3>1. Store(p, k)
        BY <2>3, StoreStepEffect, Zenon
    <3>2. caller' = [caller EXCEPT ![p] = Nobody] /\ UNCHANGED pinned
        BY <3>1, StoreEffect, Zenon
    <3> QED
        BY <3>2, Zenon DEF TypeOK, ProcessOK
  <2>4. CASE Operator
      BY <2>4, OperatorEffect, Zenon DEF ProcessOK
  <2> QED
      BY <2>1, <2>2, <2>3, <2>4, StepCases, Zenon
<1> QED
    BY <1>1, BootInvariant, PTL DEF Spec, OneMasterPerProcess

=============================================================================
