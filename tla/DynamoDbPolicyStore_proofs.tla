---------------------- MODULE DynamoDbPolicyStore_proofs ----------------------
(***************************************************************************)
(* Proofs about the DynamoDB store.                                        *)
(*                                                                         *)
(* First what holds of every use of it - any number of tasks, every        *)
(* operation, stale reads, crashes: AnyUse.  Then, of every tenant that no *)
(* unconditional put has raced, the stronger OneVersion and from it that no *)
(* version is lost or shares its epoch.  Last, which uses race no tenant   *)
(* (Disciplined).                                                          *)
(***************************************************************************)
EXTENDS DynamoDbPolicyStore, PolicyModel_proofs, TLAPS

-----------------------------------------------------------------------------
(* The inductive invariant of every use.                                   *)

(* get() returns versions of the table, so the table's item must be one; a  *)
(* tenant that has had a version still has a policy.                       *)
TableIsAVersion ==
    \A t \in Tenants : /\ table[t] # NoPolicy => table[t] \in versions[t]
                       /\ versions[t] # {} => table[t] # NoPolicy

(* A call in progress started from a version, and once it is to archive or *)
(* to put it holds that version's successor; before it puts, the epoch it  *)
(* started from is archived.                                               *)
CallStartsFromAVersion ==
    \A k \in Tasks : call[k] # NoCall =>
        /\ call[k].current \in versions[call[k].tenant]
        /\ call[k].next # "get_target" =>
              /\ call[k].updated \in Policies
              /\ call[k].updated.policy_epoch = call[k].current.policy_epoch + 1
        /\ (call[k].next = "put" /\ HistoryTable) =>
              call[k].current.policy_epoch \in EpochsOf(archived[call[k].tenant])

AnyUse ==
    /\ TypeOK
    /\ TableIsAVersion
    /\ CallStartsFromAVersion
    /\ ArchivedWasLive
    /\ HistoryHasNoGap
    /\ RollbackRestoresAVersion

LEMMA AnyUseInit == Init => AnyUse
BY DEF Init, AnyUse, TypeOK, TableIsAVersion, CallStartsFromAVersion, ArchivedWasLive,
       HistoryHasNoGap, RollbackRestoresAVersion

-----------------------------------------------------------------------------
(* What the steps do, in terms of the invariant. *)

(* Whatever get() returns is a version. *)
LEMMA ReadableAreVersions ==
    ASSUME TypeOK, TableIsAVersion, NEW t \in Tenants
    PROVE  Readable(t) \subseteq versions[t] /\ versions[t] \subseteq Policies
BY DEF Readable, TypeOK, TableIsAVersion

(* A call begins with a version it read; only rollback has no update yet. *)
LEMMA StartBegins ==
    ASSUME TypeOK, TableIsAVersion, NEW k \in Tasks, NEW t \in Tenants, Start(k, t)
    PROVE  /\ UNCHANGED <<table, archived, versions, raced>>
           /\ call[k] = NoCall
           /\ \E c \in Calls :
                 /\ call' = [call EXCEPT ![k] = c]
                 /\ c.tenant = t
                 /\ c.current \in Readable(t)
                 /\ c.next # "put"
                 /\ c.next = "get_target" => c.updated = NoPolicy
                 /\ c.next = "archive" =>
                       /\ c.target_epoch = 0
                       /\ c.updated \in Policies
                       /\ c.updated.policy_epoch = c.current.policy_epoch + 1
                 /\ c.conditional \/ ~ConditionalWritesOnly
<1>. USE InputAssumption, ReadableAreVersions
<1>1. CASE \E state \in StateInputs : SetState(k, t, state)
  <2>1. PICK state \in StateInputs, current \in Readable(t) :
          Begin(k, "set_state", t, "archive", current, WithState(current, state), FALSE, 0)
    BY <1>1 DEF SetState
  <2>2. current \in Policies /\ WithState(current, state) \in Policies
        /\ WithState(current, state).policy_epoch = current.policy_epoch + 1
    BY <2>1, UpdatesArePolicies
  <2>. DEFINE c == [next |-> "archive", tenant |-> t, current |-> current,
                    updated |-> WithState(current, state), conditional |-> FALSE,
                    target_epoch |-> 0]
  <2>3. c \in Calls
    BY <2>2 DEF Calls
  <2>. QED  BY <2>1, <2>2, <2>3 DEF Begin, ConditionalWritesOnly
<1>2. CASE \E changes \in ChangeInputs, epoch \in 1..MaxEpoch : ApplyChange(k, t, changes, epoch)
  <2>1. PICK changes \in ChangeInputs, current \in Readable(t) :
          Begin(k, "apply_change", t, "archive", current,
                ApplyFieldChanges(current, changes), TRUE, 0)
    BY <1>2 DEF ApplyChange
  <2>2. current \in Policies /\ ApplyFieldChanges(current, changes) \in Policies
        /\ ApplyFieldChanges(current, changes).policy_epoch = current.policy_epoch + 1
    BY <2>1, UpdatesArePolicies
  <2>. DEFINE c == [next |-> "archive", tenant |-> t, current |-> current,
                    updated |-> ApplyFieldChanges(current, changes), conditional |-> TRUE,
                    target_epoch |-> 0]
  <2>3. c \in Calls
    BY <2>2 DEF Calls
  <2>. QED  BY <2>1, <2>2, <2>3 DEF Begin, ConditionalWritesOnly
<1>3. CASE \E epoch \in 1..MaxEpoch : Rollback(k, t, epoch)
  <2>1. PICK epoch \in 1..MaxEpoch, current \in Readable(t) :
          Begin(k, "rollback", t, "get_target", current, NoPolicy, FALSE, epoch)
    BY <1>3 DEF Rollback
  <2>2. current \in Policies /\ epoch \in Nat
    BY <2>1
  <2>. DEFINE c == [next |-> "get_target", tenant |-> t, current |-> current,
                    updated |-> NoPolicy, conditional |-> FALSE, target_epoch |-> epoch]
  <2>3. c \in Calls
    BY <2>2 DEF Calls
  <2>. QED  BY <2>1, <2>2, <2>3 DEF Begin, ConditionalWritesOnly
<1>. QED  BY <1>1, <1>2, <1>3 DEF Start

(* A put stores exactly the policy it was given. *)
LEMMA PutItemStores ==
    ASSUME NEW t \in Tenants, NEW policy \in Policies, TypeOK, PutItem(t, policy)
    PROVE  /\ table' = [table EXCEPT ![t] = policy]
           /\ versions' = [versions EXCEPT ![t] = @ \cup {policy}]
           /\ TypeOK => /\ table' \in [Tenants -> Policies \cup {NoPolicy}]
                        /\ versions' \in [Tenants -> SUBSET Policies]
BY StoredIsIdentity DEF PutItem, TypeOK

-----------------------------------------------------------------------------
(* AnyUse is inductive: one lemma per kind of step. *)

LEMMA AnyUseCreate ==
    ASSUME AnyUse, NEW t \in Tenants, NEW config \in NewConfigs, Create(t, config)
    PROVE  AnyUse'
<1>. USE DEF AnyUse
<1>1. NewPolicy(config) \in Policies /\ NewPolicy(config).policy_epoch = 1
  BY NewPolicyIsAPolicy, InputAssumption
<1>2. /\ table' = [table EXCEPT ![t] = NewPolicy(config)]
      /\ versions' = [versions EXCEPT ![t] = @ \cup {NewPolicy(config)}]
      /\ archived' = archived /\ call' = call /\ raced' = raced
  BY <1>1, PutItemStores DEF Create
<1>3. TypeOK'
  BY <1>1, <1>2 DEF TypeOK
<1>4. TableIsAVersion'
  BY <1>1, <1>2, PolicyModelAssumption DEF TableIsAVersion, TypeOK
<1>5. \A u \in Tenants : versions[u] \subseteq versions'[u]
  BY <1>2 DEF TypeOK
<1>6. \A k \in Tasks : call[k] # NoCall => call[k].tenant \in Tenants
  BY DEF TypeOK, Calls
<1>7. CallStartsFromAVersion' /\ ArchivedWasLive' /\ RollbackRestoresAVersion'
  BY <1>2, <1>5, <1>6 DEF CallStartsFromAVersion, ArchivedWasLive, RollbackRestoresAVersion, EpochsOf
<1>8. HistoryHasNoGap'
  <2>1. 1..(NewPolicy(config).policy_epoch - 1) = {}
    BY <1>1
  <2>. QED  BY <1>2, <2>1 DEF HistoryHasNoGap, TypeOK, EpochsOf
<1>. QED  BY <1>3, <1>4, <1>7, <1>8

(* Steps that only move a call forward leave the tables as they were. *)
LEMMA AnyUseSameTables ==
    ASSUME AnyUse, UNCHANGED <<table, archived, versions, raced>>,
           TypeOK', CallStartsFromAVersion', RollbackRestoresAVersion'
    PROVE  AnyUse'
BY DEF AnyUse, TableIsAVersion, ArchivedWasLive, HistoryHasNoGap, EpochsOf

LEMMA AnyUseStart ==
    ASSUME AnyUse, NEW k \in Tasks, NEW t \in Tenants, Start(k, t)
    PROVE  AnyUse'
<1>. USE DEF AnyUse
<1>1. PICK c \in Calls :
        /\ UNCHANGED <<table, archived, versions, raced>>
        /\ call' = [call EXCEPT ![k] = c]
        /\ c.tenant = t
        /\ c.current \in Readable(t)
        /\ c.next # "put"
        /\ c.next = "get_target" => c.updated = NoPolicy
        /\ c.next = "archive" =>
              /\ c.target_epoch = 0
              /\ c.updated \in Policies
              /\ c.updated.policy_epoch = c.current.policy_epoch + 1
  BY StartBegins
<1>2. call'[k] = c /\ \A l \in Tasks : l # k => call'[l] = call[l]
  BY <1>1 DEF TypeOK
<1>3. c.current \in versions[c.tenant] /\ c.next \in {"get_target", "archive"}
  BY <1>1, ReadableAreVersions DEF Calls
<1>4. TypeOK'
  BY <1>1 DEF TypeOK
<1>5. CallStartsFromAVersion'
  BY <1>1, <1>2, <1>3 DEF CallStartsFromAVersion
<1>6. RollbackRestoresAVersion'
  BY <1>1, <1>2, <1>3 DEF RollbackRestoresAVersion
<1>. QED  BY <1>1, <1>4, <1>5, <1>6, AnyUseSameTables

LEMMA AnyUseGetTarget ==
    ASSUME AnyUse, NEW k \in Tasks, GetTarget(k)
    PROVE  AnyUse'
<1>. USE DEF AnyUse
<1>1. PICK target \in archived[call[k].tenant] :
        /\ target.policy_epoch = call[k].target_epoch
        /\ call' = [call EXCEPT ![k].next = "archive",
                                ![k].updated = Restored(target, call[k].current)]
        /\ UNCHANGED <<table, archived, versions, raced>>
        /\ call[k] # NoCall
  BY DEF GetTarget
<1>2. call[k] \in Calls /\ call[k].tenant \in Tenants /\ call[k].current \in Policies
  BY <1>1 DEF TypeOK, Calls
<1>3. target \in versions[call[k].tenant] /\ target \in Policies
  BY <1>1, <1>2 DEF ArchivedWasLive, TypeOK
<1>4. /\ Restored(target, call[k].current) \in Policies
      /\ Restored(target, call[k].current).policy_epoch = call[k].current.policy_epoch + 1
  BY <1>2, <1>3, UpdatesArePolicies
<1>5. /\ call'[k] = [call[k] EXCEPT !.next = "archive", !.updated = Restored(target, call[k].current)]
      /\ \A l \in Tasks : l # k => call'[l] = call[l]
  BY <1>1 DEF TypeOK
<1>6. call'[k] \in Calls /\ call'[k].next = "archive"
      /\ call'[k].updated = Restored(target, call[k].current)
      /\ call'[k].current = call[k].current /\ call'[k].tenant = call[k].tenant
      /\ call'[k].target_epoch = call[k].target_epoch
  BY <1>2, <1>4, <1>5 DEF Calls
<1>7. TypeOK'
  BY <1>1, <1>6 DEF TypeOK
<1>8. CallStartsFromAVersion'
  BY <1>1, <1>4, <1>5, <1>6 DEF CallStartsFromAVersion
<1>9. RollbackRestoresAVersion'
  <2>. SUFFICES ASSUME NEW l \in Tasks, call'[l] # NoCall, call'[l].target_epoch # 0,
                       call'[l].updated # NoPolicy
                PROVE  \E v \in versions'[call'[l].tenant] :
                          /\ v.policy_epoch = call'[l].target_epoch
                          /\ call'[l].updated = Restored(v, call'[l].current)
    BY DEF RollbackRestoresAVersion
  <2>1. CASE l = k
    BY <1>1, <1>3, <1>6, <2>1
  <2>2. CASE l # k
    <3>1. call'[l] = call[l] /\ versions' = versions
      BY <1>1, <1>5, <2>2
    <3>. QED  BY <3>1 DEF RollbackRestoresAVersion
  <2>. QED  BY <2>1, <2>2
<1>. QED  BY <1>1, <1>7, <1>8, <1>9, AnyUseSameTables

(* A call that raises, is refused or dies leaves nothing else behind. *)
LEMMA AnyUseEnd ==
    ASSUME AnyUse, NEW k \in Tasks,
           call' = [call EXCEPT ![k] = NoCall], UNCHANGED <<table, archived, versions, raced>>
    PROVE  AnyUse'
<1>. USE DEF AnyUse
<1>1. call'[k] = NoCall /\ \A l \in Tasks : l # k => call'[l] = call[l]
  BY DEF TypeOK
<1>2. TypeOK'
  BY DEF TypeOK
<1>3. CallStartsFromAVersion' /\ RollbackRestoresAVersion'
  BY <1>1 DEF CallStartsFromAVersion, RollbackRestoresAVersion
<1>. QED  BY <1>2, <1>3, AnyUseSameTables

LEMMA AnyUseArchive ==
    ASSUME AnyUse, NEW k \in Tasks, Archive(k)
    PROVE  AnyUse'
<1>. USE DEF AnyUse
<1>. DEFINE t == call[k].tenant
            current == call[k].current
<1>1. /\ call[k] \in Calls /\ call[k] # NoCall /\ call[k].next = "archive"
      /\ t \in Tenants /\ current \in Policies /\ current \in versions[t]
      /\ call[k].updated \in Policies
  BY DEF Archive, TypeOK, Calls, CallStartsFromAVersion
<1>2. /\ call' = [call EXCEPT ![k].next = "put"]
      /\ UNCHANGED <<table, versions, raced>>
      /\ archived' = IF HistoryTable THEN [archived EXCEPT ![t] = PutVersion(@, current)]
                                     ELSE archived
  BY <1>1, StoredIsIdentity DEF Archive
<1>3. /\ call'[k] \in Calls
      /\ call'[k].next = "put" /\ call'[k].tenant = t /\ call'[k].current = current
      /\ call'[k].updated = call[k].updated /\ call'[k].target_epoch = call[k].target_epoch
      /\ \A l \in Tasks : l # k => call'[l] = call[l]
  BY <1>1, <1>2 DEF TypeOK, Calls
<1>4. \A u \in Tenants : archived'[u] \subseteq archived[u] \cup (IF u = t THEN {current} ELSE {})
  BY <1>2 DEF TypeOK, PutVersion
<1>5. \A u \in Tenants : EpochsOf(archived[u]) \subseteq EpochsOf(archived'[u])
  BY <1>1, <1>2 DEF TypeOK, PutVersion, EpochsOf
<1>6. HistoryTable => current.policy_epoch \in EpochsOf(archived'[t])
  BY <1>1, <1>2 DEF TypeOK, PutVersion, EpochsOf
<1>7. TypeOK'
  <2>1. archived' \in [Tenants -> SUBSET Policies]
    BY <1>1, <1>2 DEF TypeOK, PutVersion
  <2>. QED  BY <2>1, <1>2, <1>3 DEF TypeOK
<1>8. TableIsAVersion'
  BY <1>2 DEF TableIsAVersion
<1>9. ArchivedWasLive'
  BY <1>1, <1>2, <1>4 DEF ArchivedWasLive
<1>10. CallStartsFromAVersion'
  <2>. SUFFICES ASSUME NEW l \in Tasks, call'[l] # NoCall
                PROVE  /\ call'[l].current \in versions'[call'[l].tenant]
                       /\ call'[l].next # "get_target" =>
                             /\ call'[l].updated \in Policies
                             /\ call'[l].updated.policy_epoch = call'[l].current.policy_epoch + 1
                       /\ (call'[l].next = "put" /\ HistoryTable) =>
                             call'[l].current.policy_epoch \in EpochsOf(archived'[call'[l].tenant])
    BY DEF CallStartsFromAVersion, EpochsOf
  <2>1. CASE l = k
    BY <1>1, <1>2, <1>3, <1>6, <2>1 DEF CallStartsFromAVersion
  <2>2. CASE l # k
    <3>1. call[l].tenant \in Tenants
      BY <1>3, <2>2 DEF TypeOK, Calls
    <3>. QED  BY <1>2, <1>3, <1>5, <2>2, <3>1 DEF CallStartsFromAVersion
  <2>. QED  BY <2>1, <2>2
<1>11. HistoryHasNoGap'
  BY <1>2, <1>5 DEF HistoryHasNoGap, EpochsOf
<1>12. RollbackRestoresAVersion'
  <2>. SUFFICES ASSUME NEW l \in Tasks, call'[l] # NoCall, call'[l].target_epoch # 0,
                       call'[l].updated # NoPolicy
                PROVE  \E v \in versions'[call'[l].tenant] :
                          /\ v.policy_epoch = call'[l].target_epoch
                          /\ call'[l].updated = Restored(v, call'[l].current)
    BY DEF RollbackRestoresAVersion
  <2>1. CASE l = k
    BY <1>1, <1>2, <1>3, <2>1 DEF RollbackRestoresAVersion
  <2>2. CASE l # k
    BY <1>2, <1>3, <2>2 DEF RollbackRestoresAVersion
  <2>. QED  BY <2>1, <2>2
<1>. QED  BY <1>7, <1>8, <1>9, <1>10, <1>11, <1>12

LEMMA AnyUsePut ==
    ASSUME AnyUse, NEW k \in Tasks, Put(k)
    PROVE  AnyUse'
<1>. USE DEF AnyUse
<1>. DEFINE t == call[k].tenant
            current == call[k].current
            updated == call[k].updated
<1>1. /\ call[k] \in Calls /\ call[k] # NoCall /\ call[k].next = "put"
      /\ t \in Tenants /\ current \in Policies /\ current \in versions[t]
      /\ updated \in Policies /\ updated.policy_epoch = current.policy_epoch + 1
      /\ HistoryTable => current.policy_epoch \in EpochsOf(archived[t])
  BY DEF Put, TypeOK, Calls, CallStartsFromAVersion
<1>2. /\ call' = [call EXCEPT ![k] = NoCall]
      /\ archived' = archived
      /\ table' = [table EXCEPT ![t] = updated]
      /\ versions' = [versions EXCEPT ![t] = @ \cup {updated}]
      /\ raced' \subseteq Tenants
  BY <1>1, PutItemStores DEF Put, TypeOK
<1>3. call'[k] = NoCall /\ \A l \in Tasks : l # k => call'[l] = call[l]
  BY <1>2 DEF TypeOK
<1>4. \A u \in Tenants : versions[u] \subseteq versions'[u]
  BY <1>2 DEF TypeOK
<1>5. TypeOK'
  BY <1>1, <1>2 DEF TypeOK
<1>6. TableIsAVersion'
  BY <1>1, <1>2, PolicyModelAssumption DEF TableIsAVersion, TypeOK
<1>7. \A l \in Tasks : call'[l] # NoCall => call'[l] = call[l] /\ call[l].tenant \in Tenants
  BY <1>3 DEF TypeOK, Calls
<1>8. CallStartsFromAVersion' /\ ArchivedWasLive' /\ RollbackRestoresAVersion'
  BY <1>2, <1>4, <1>7 DEF CallStartsFromAVersion, ArchivedWasLive, RollbackRestoresAVersion, EpochsOf
<1>9. HistoryHasNoGap'
  <2>. SUFFICES ASSUME HistoryTable, NEW u \in Tenants, NEW p \in versions'[u],
                       NEW n \in 1..(p.policy_epoch - 1)
                PROVE  n \in EpochsOf(archived[u])
    BY <1>2 DEF HistoryHasNoGap, EpochsOf
  <2>1. CASE p \in versions[u]
    BY <2>1 DEF HistoryHasNoGap
  <2>2. CASE p \notin versions[u]
    <3>1. u = t /\ p = updated
      BY <1>2, <2>2 DEF TypeOK
    <3>2. n \in 1..(current.policy_epoch - 1) \/ n = current.policy_epoch
      BY <1>1, <3>1 DEF Policies, Epochs
    <3>. QED  BY <1>1, <3>1, <3>2 DEF HistoryHasNoGap
  <2>. QED  BY <2>1, <2>2
<1>. QED  BY <1>5, <1>6, <1>8, <1>9

LEMMA AnyUseStep == AnyUse /\ [Next]_storeVars => AnyUse'
<1>. SUFFICES ASSUME AnyUse, [Next]_storeVars PROVE AnyUse'
  OBVIOUS
<1>1. CASE UNCHANGED storeVars
  BY <1>1 DEF storeVars, AnyUse, TypeOK, TableIsAVersion, CallStartsFromAVersion,
              ArchivedWasLive, HistoryHasNoGap, RollbackRestoresAVersion, EpochsOf
<1>2. CASE \E t \in Tenants, config \in NewConfigs : Create(t, config)
  BY <1>2, AnyUseCreate
<1>3. CASE \E k \in Tasks, t \in Tenants : Start(k, t)
  BY <1>3, AnyUseStart
<1>4. ASSUME NEW k \in Tasks, Continue(k) PROVE AnyUse'
  <2>1. CASE NoTarget(k) \/ PutRefused(k) \/ Abort(k)
    BY <2>1, AnyUseEnd DEF NoTarget, PutRefused, Abort
  <2>. QED
    BY <1>4, <2>1, AnyUseGetTarget, AnyUseArchive, AnyUsePut DEF Continue
<1>. QED  BY <1>1, <1>2, <1>3, <1>4 DEF Next

LEMMA AnyUseHolds == Spec => []AnyUse
BY AnyUseInit, AnyUseStep, PTL DEF Spec

(* The type invariant, for every number of tasks and every use. *)
THEOREM StoreTyping == Spec => []TypeOK
BY AnyUseHolds, PTL DEF AnyUse

(* The history table only ever holds versions the tenant was governed by.  *)
THEOREM HistoryWasLive == Spec => []ArchivedWasLive
BY AnyUseHolds, PTL DEF AnyUse

(* Every epoch below a version's is in the history table, even when calls   *)
(* raced or failed halfway.                                                *)
THEOREM NoGapInHistory == Spec => []HistoryHasNoGap
BY AnyUseHolds, PTL DEF AnyUse

(* A rollback writes a version that was live at the epoch asked for. *)
THEOREM RollbacksRestore == Spec => []RollbackRestoresAVersion
BY AnyUseHolds, PTL DEF AnyUse

-----------------------------------------------------------------------------
(* The inductive invariant of a tenant until it is raced.                  *)

(* The table's item has the highest epoch of all its versions. *)
TableIsNewest ==
    \A t \in Tenants \ raced : \A p \in versions[t] : p.policy_epoch <= table[t].policy_epoch

(* A call that is to put has archived the version it started from. *)
PutAfterArchive ==
    HistoryTable => \A k \in Tasks :
        (call[k] # NoCall /\ call[k].next = "put" /\ call[k].tenant \notin raced) =>
            call[k].current \in archived[call[k].tenant]

OneVersion ==
    /\ EpochNamesOneVersion
    /\ HistoryKeepsEveryVersion
    /\ TableIsNewest
    /\ PutAfterArchive

LEMMA OneVersionInit == Init => OneVersion
BY DEF Init, OneVersion, EpochNamesOneVersion, HistoryKeepsEveryVersion, TableIsNewest,
       PutAfterArchive

(* While a row is overwritten only by itself, archiving is adding. *)
LEMMA ArchiveAdds ==
    ASSUME AnyUse, OneVersion, HistoryTable, NEW k \in Tasks, Archive(k),
           call[k].tenant \notin raced
    PROVE  archived' = [archived EXCEPT ![call[k].tenant] = @ \cup {call[k].current}]
<1>. DEFINE t == call[k].tenant
            current == call[k].current
<1>1. /\ call[k] # NoCall /\ t \in Tenants /\ current \in Policies /\ current \in versions[t]
  BY DEF Archive, AnyUse, TypeOK, Calls, CallStartsFromAVersion
<1>2. \A row \in archived[t] : row.policy_epoch = current.policy_epoch => row = current
  BY <1>1 DEF AnyUse, ArchivedWasLive, OneVersion, EpochNamesOneVersion
<1>3. PutVersion(archived[t], current) = archived[t] \cup {current}
  BY <1>2 DEF PutVersion
<1>4. archived' = [archived EXCEPT ![t] = PutVersion(@, current)]
  BY <1>1, StoredIsIdentity DEF Archive
<1>. QED  BY <1>3, <1>4

(* Of the other tenants archiving touches nothing. *)
LEMMA ArchiveIsOfOneTenant ==
    ASSUME AnyUse, OneVersion, NEW k \in Tasks, Archive(k), NEW t \in Tenants \ raced
    PROVE  /\ archived[t] \subseteq archived'[t]
           /\ (HistoryTable /\ call[k].tenant = t) => call[k].current \in archived'[t]
<1>1. call[k].tenant \in Tenants /\ archived \in [Tenants -> SUBSET Policies]
  BY DEF Archive, AnyUse, TypeOK, Calls
<1>2. CASE ~HistoryTable
  BY <1>2 DEF Archive
<1>3. CASE HistoryTable /\ call[k].tenant = t
  BY <1>1, <1>3, ArchiveAdds
<1>4. CASE HistoryTable /\ call[k].tenant # t
  BY <1>1, <1>4 DEF Archive
<1>. QED  BY <1>2, <1>3, <1>4

(* What any put does to the tables. *)
LEMMA PutWrites ==
    ASSUME AnyUse, NEW k \in Tasks, Put(k)
    PROVE  /\ call[k] # NoCall /\ call[k].next = "put"
           /\ call[k].tenant \in Tenants
           /\ call[k].current \in Policies /\ call[k].current \in versions[call[k].tenant]
           /\ call[k].updated \in Policies
           /\ call[k].updated.policy_epoch = call[k].current.policy_epoch + 1
           /\ table[call[k].tenant] # NoPolicy
           /\ table[call[k].tenant] \in Policies
           /\ table' = [table EXCEPT ![call[k].tenant] = call[k].updated]
           /\ versions' = [versions EXCEPT ![call[k].tenant] = @ \cup {call[k].updated}]
           /\ archived' = archived
           /\ call' = [call EXCEPT ![k] = NoCall]
           /\ raced \subseteq raced' /\ raced' \subseteq raced \cup {call[k].tenant}
<1>. DEFINE t == call[k].tenant
<1>1. /\ call[k] # NoCall /\ call[k].next = "put" /\ t \in Tenants
      /\ call[k].current \in Policies /\ call[k].current \in versions[t]
      /\ call[k].updated \in Policies
      /\ call[k].updated.policy_epoch = call[k].current.policy_epoch + 1
  BY DEF Put, AnyUse, TypeOK, Calls, CallStartsFromAVersion
<1>2. table[t] # NoPolicy /\ table[t] \in Policies
  BY <1>1 DEF AnyUse, TableIsAVersion, TypeOK
<1>3. /\ table' = [table EXCEPT ![t] = call[k].updated]
      /\ versions' = [versions EXCEPT ![t] = @ \cup {call[k].updated}]
  BY <1>1, PutItemStores DEF Put, AnyUse
<1>. QED  BY <1>1, <1>2, <1>3 DEF Put

(* A put that leaves its tenant unraced replaces the version its call started *)
(* from: on a condition, or because nobody else wrote.                      *)
LEMMA PutReplacesCurrent ==
    ASSUME AnyUse, OneVersion, NEW k \in Tasks, Put(k), call[k].tenant \notin raced'
    PROVE  call[k].current = table[call[k].tenant]
<1>. DEFINE t == call[k].tenant
<1>1. /\ call[k].current \in versions[t] /\ t \in Tenants \ raced
      /\ table[t] # NoPolicy /\ table[t] \in versions[t]
  BY PutWrites DEF AnyUse, TableIsAVersion
<1>2. CASE call[k].conditional
  BY <1>1, <1>2 DEF Put, ConditionHolds, OneVersion, EpochNamesOneVersion
<1>3. CASE ~call[k].conditional
  BY <1>3 DEF Put, Races
<1>. QED  BY <1>2, <1>3

LEMMA OneVersionCreate ==
    ASSUME AnyUse, OneVersion, NEW t \in Tenants, NEW config \in NewConfigs, Create(t, config)
    PROVE  OneVersion'
<1>. USE DEF OneVersion
<1>1. NewPolicy(config) \in Policies /\ NewPolicy(config).policy_epoch = 1
      /\ NewPolicy(config) # NoPolicy
  BY NewPolicyIsAPolicy, InputAssumption, PolicyModelAssumption
<1>2. /\ table' = [table EXCEPT ![t] = NewPolicy(config)]
      /\ versions' = [versions EXCEPT ![t] = @ \cup {NewPolicy(config)}]
      /\ archived' = archived /\ call' = call /\ raced' = raced
  BY <1>1, PutItemStores DEF Create, AnyUse
<1>3. table[t] = NoPolicy /\ versions[t] = {}
  BY DEF Create, AnyUse, TableIsAVersion
<1>4. /\ table'[t] = NewPolicy(config) /\ versions'[t] = {NewPolicy(config)}
      /\ \A u \in Tenants : u # t => table'[u] = table[u] /\ versions'[u] = versions[u]
  BY <1>2, <1>3 DEF AnyUse, TypeOK
<1>5. EpochNamesOneVersion'
  BY <1>2, <1>4 DEF EpochNamesOneVersion
<1>6. HistoryKeepsEveryVersion'
  BY <1>2, <1>4 DEF HistoryKeepsEveryVersion
<1>7. TableIsNewest'
  BY <1>1, <1>2, <1>4 DEF TableIsNewest
<1>8. PutAfterArchive'
  BY <1>2 DEF PutAfterArchive
<1>. QED  BY <1>5, <1>6, <1>7, <1>8

(* Steps that only move a call forward leave the tables as they were. *)
LEMMA OneVersionSameTables ==
    ASSUME OneVersion, UNCHANGED <<table, archived, versions, raced>>, PutAfterArchive'
    PROVE  OneVersion'
BY DEF OneVersion, EpochNamesOneVersion, HistoryKeepsEveryVersion, TableIsNewest

LEMMA OneVersionStart ==
    ASSUME AnyUse, OneVersion, NEW k \in Tasks, NEW t \in Tenants, Start(k, t)
    PROVE  OneVersion'
<1>1. PICK c \in Calls :
        /\ UNCHANGED <<table, archived, versions, raced>>
        /\ call' = [call EXCEPT ![k] = c]
        /\ c.next # "put"
  BY StartBegins DEF AnyUse
<1>2. call'[k] = c /\ \A l \in Tasks : l # k => call'[l] = call[l]
  BY <1>1 DEF AnyUse, TypeOK
<1>3. PutAfterArchive'
  BY <1>1, <1>2 DEF OneVersion, PutAfterArchive
<1>. QED  BY <1>1, <1>3, OneVersionSameTables

LEMMA OneVersionGetTarget ==
    ASSUME AnyUse, OneVersion, NEW k \in Tasks, GetTarget(k)
    PROVE  OneVersion'
<1>1. call[k] \in Calls /\ call[k] # NoCall
  BY DEF GetTarget, AnyUse, TypeOK
<1>2. /\ UNCHANGED <<table, archived, versions, raced>>
      /\ call'[k].next = "archive"
      /\ \A l \in Tasks : l # k => call'[l] = call[l]
  BY <1>1 DEF GetTarget, AnyUse, TypeOK, Calls
<1>3. PutAfterArchive'
  BY <1>2 DEF OneVersion, PutAfterArchive
<1>. QED  BY <1>2, <1>3, OneVersionSameTables

LEMMA OneVersionEnd ==
    ASSUME AnyUse, OneVersion, NEW k \in Tasks,
           call' = [call EXCEPT ![k] = NoCall], UNCHANGED <<table, archived, versions, raced>>
    PROVE  OneVersion'
<1>1. call'[k] = NoCall /\ \A l \in Tasks : l # k => call'[l] = call[l]
  BY DEF AnyUse, TypeOK
<1>2. PutAfterArchive'
  BY <1>1 DEF OneVersion, PutAfterArchive
<1>. QED  BY <1>2, OneVersionSameTables

LEMMA OneVersionArchive ==
    ASSUME AnyUse, OneVersion, NEW k \in Tasks, Archive(k)
    PROVE  OneVersion'
<1>. USE DEF OneVersion
<1>1. call[k] \in Calls /\ call[k] # NoCall /\ call[k].tenant \in Tenants
  BY DEF Archive, AnyUse, TypeOK, Calls
<1>2. /\ UNCHANGED <<table, versions, raced>>
      /\ call'[k].tenant = call[k].tenant /\ call'[k].current = call[k].current
      /\ \A l \in Tasks : l # k => call'[l] = call[l]
  BY <1>1 DEF Archive, AnyUse, TypeOK, Calls
<1>3. EpochNamesOneVersion' /\ TableIsNewest'
  BY <1>2 DEF EpochNamesOneVersion, TableIsNewest
<1>4. HistoryKeepsEveryVersion'
  BY <1>2, ArchiveIsOfOneTenant DEF HistoryKeepsEveryVersion
<1>5. PutAfterArchive'
  <2>. SUFFICES ASSUME HistoryTable, NEW l \in Tasks, call'[l] # NoCall, call'[l].next = "put",
                       call'[l].tenant \notin raced
                PROVE  call'[l].current \in archived'[call'[l].tenant]
    BY <1>2 DEF PutAfterArchive
  <2>1. CASE l = k
    BY <1>1, <1>2, <2>1, ArchiveIsOfOneTenant
  <2>2. CASE l # k
    <3>1. call'[l] = call[l] /\ call[l].tenant \in Tenants
      BY <1>2, <2>2 DEF AnyUse, TypeOK, Calls
    <3>2. call[l].current \in archived[call[l].tenant]
      BY <3>1 DEF PutAfterArchive
    <3>. QED  BY <3>1, <3>2, ArchiveIsOfOneTenant
  <2>. QED  BY <2>1, <2>2
<1>. QED  BY <1>3, <1>4, <1>5

(* A put that does not race its tenant puts a new version on top. *)
LEMMA OneVersionPutOnTop ==
    ASSUME AnyUse, OneVersion, NEW k \in Tasks, Put(k), NEW t \in Tenants \ raced',
           call[k].tenant = t
    PROVE  /\ \A p, q \in versions'[t] : p.policy_epoch = q.policy_epoch => p = q
           /\ HistoryTable => \A p \in versions'[t] : p = table'[t] \/ p \in archived'[t]
           /\ \A p \in versions'[t] : p.policy_epoch <= table'[t].policy_epoch
<1>. USE DEF OneVersion
<1>. DEFINE updated == call[k].updated
<1>1. /\ t \in Tenants \ raced
      /\ table[t] \in Policies
      /\ call[k].current = table[t]
      /\ updated \in Policies
      /\ updated.policy_epoch = table[t].policy_epoch + 1
      /\ archived' = archived
  BY PutWrites, PutReplacesCurrent
<1>2. table'[t] = updated /\ versions'[t] = versions[t] \cup {updated}
  BY PutWrites DEF AnyUse, TypeOK
<1>3. versions[t] \subseteq Policies
  BY DEF AnyUse, TypeOK
<1>4. \A p \in versions[t] : p.policy_epoch <= table[t].policy_epoch
                             /\ p.policy_epoch < updated.policy_epoch
  BY <1>1, <1>3 DEF TableIsNewest, Policies, Epochs
<1>5. ASSUME NEW p \in versions'[t], NEW q \in versions'[t], p.policy_epoch = q.policy_epoch
      PROVE  p = q
  <2>1. CASE p = updated \/ q = updated
    BY <1>1, <1>2, <1>3, <1>4, <1>5, <2>1 DEF Policies, Epochs
  <2>2. CASE p # updated /\ q # updated
    BY <1>1, <1>2, <1>5, <2>2 DEF EpochNamesOneVersion
  <2>. QED  BY <2>1, <2>2
<1>6. HistoryTable => table[t] \in archived[t]
  BY <1>1, PutWrites DEF PutAfterArchive
<1>7. HistoryTable => \A p \in versions'[t] : p = table'[t] \/ p \in archived'[t]
  BY <1>1, <1>2, <1>6 DEF HistoryKeepsEveryVersion
<1>8. \A p \in versions'[t] : p.policy_epoch <= table'[t].policy_epoch
  BY <1>1, <1>2, <1>3, <1>4 DEF Policies, Epochs
<1>. QED  BY <1>5, <1>7, <1>8

LEMMA OneVersionPut ==
    ASSUME AnyUse, OneVersion, NEW k \in Tasks, Put(k)
    PROVE  OneVersion'
<1>. USE DEF OneVersion
<1>1. ASSUME NEW t \in Tenants \ raced'
      PROVE  /\ \A p, q \in versions'[t] : p.policy_epoch = q.policy_epoch => p = q
             /\ HistoryTable => \A p \in versions'[t] : p = table'[t] \/ p \in archived'[t]
             /\ \A p \in versions'[t] : p.policy_epoch <= table'[t].policy_epoch
  <2>1. CASE call[k].tenant = t
    BY <2>1, OneVersionPutOnTop
  <2>2. CASE call[k].tenant # t
    <3>1. /\ t \notin raced /\ archived' = archived
          /\ table'[t] = table[t] /\ versions'[t] = versions[t]
      BY <2>2, PutWrites DEF AnyUse, TypeOK
    <3>. QED
      BY <3>1 DEF EpochNamesOneVersion, HistoryKeepsEveryVersion, TableIsNewest
  <2>. QED  BY <2>1, <2>2
<1>2. PutAfterArchive'
  <2>1. /\ archived' = archived /\ raced \subseteq raced'
        /\ call'[k] = NoCall /\ \A l \in Tasks : l # k => call'[l] = call[l]
    BY PutWrites DEF AnyUse, TypeOK
  <2>. QED  BY <2>1 DEF PutAfterArchive
<1>. QED
  BY <1>1, <1>2 DEF EpochNamesOneVersion, HistoryKeepsEveryVersion, TableIsNewest

LEMMA OneVersionStep == AnyUse /\ OneVersion /\ [Next]_storeVars => OneVersion'
<1>. SUFFICES ASSUME AnyUse, OneVersion, [Next]_storeVars PROVE OneVersion'
  OBVIOUS
<1>1. CASE UNCHANGED storeVars
  BY <1>1 DEF storeVars, OneVersion, EpochNamesOneVersion, HistoryKeepsEveryVersion,
              TableIsNewest, PutAfterArchive
<1>2. CASE \E t \in Tenants, config \in NewConfigs : Create(t, config)
  BY <1>2, OneVersionCreate
<1>3. CASE \E k \in Tasks, t \in Tenants : Start(k, t)
  BY <1>3, OneVersionStart
<1>4. ASSUME NEW k \in Tasks, Continue(k) PROVE OneVersion'
  <2>1. CASE NoTarget(k) \/ PutRefused(k) \/ Abort(k)
    BY <2>1, OneVersionEnd DEF NoTarget, PutRefused, Abort
  <2>. QED
    BY <1>4, <2>1, OneVersionGetTarget, OneVersionArchive, OneVersionPut DEF Continue
<1>. QED  BY <1>1, <1>2, <1>3, <1>4 DEF Next

LEMMA OneVersionHolds == Spec => []OneVersion
BY OneVersionInit, OneVersionStep, AnyUseHolds, PTL DEF Spec

(* Until an unconditional put of a tenant races, an epoch number identifies  *)
(* a version of it.                                                        *)
THEOREM EpochIsAVersion == Spec => []EpochNamesOneVersion
BY OneVersionHolds, PTL DEF OneVersion

(* ... and no version is lost from the history. *)
THEOREM NoVersionIsLost == Spec => []HistoryKeepsEveryVersion
BY OneVersionHolds, PTL DEF OneVersion

(* Only archiving touches the history table, and it adds a row. *)
LEMMA RowsStay ==
    ASSUME AnyUse, OneVersion, [Next]_storeVars, NEW t \in Tenants \ raced
    PROVE  archived[t] \subseteq archived'[t]
<1>1. CASE UNCHANGED storeVars
  BY <1>1 DEF storeVars
<1>2. ASSUME NEW u \in Tenants, NEW config \in NewConfigs, Create(u, config)
      PROVE  archived' = archived
  BY <1>2 DEF Create
<1>3. ASSUME NEW k \in Tasks, NEW u \in Tenants, Start(k, u)
      PROVE  archived' = archived
  BY <1>3, StartBegins DEF AnyUse
<1>4. ASSUME NEW k \in Tasks, GetTarget(k) \/ NoTarget(k) \/ Put(k) \/ PutRefused(k) \/ Abort(k)
      PROVE  archived' = archived
  BY <1>4 DEF GetTarget, NoTarget, Put, PutRefused, Abort
<1>. QED  BY <1>1, <1>2, <1>3, <1>4, ArchiveIsOfOneTenant DEF Next, Continue

(* A rollback "never rewrites history in place" (admin_routes.py): nor does *)
(* any other call, whichever crashed after archiving, of a tenant not raced. *)
THEOREM ArchivedRowsStay == Spec => HistoryRowsStay
<1>1. AnyUse /\ OneVersion /\ [Next]_storeVars
        => [\A t \in Tenants \ raced : archived[t] \subseteq archived'[t]]_storeVars
  BY RowsStay
<1>. QED  BY <1>1, AnyUseHolds, OneVersionHolds, PTL DEF Spec, HistoryRowsStay

-----------------------------------------------------------------------------
(* A disciplined use races no tenant.                                      *)

(* No call can write over a version it did not start from. *)
WritesOnWhatItRead ==
    \/ /\ ConditionalWritesOnly
       /\ \A k \in Tasks : call[k] # NoCall => call[k].conditional
    \/ /\ OneTaskReadingItsWrites
       /\ \A k \in Tasks : call[k] # NoCall => call[k].current = table[call[k].tenant]

LEMMA DisciplineStep ==
    ASSUME AnyUse, WritesOnWhatItRead, NoRaces, [Next]_storeVars
    PROVE  WritesOnWhatItRead' /\ NoRaces'
<1>. USE DEF ConditionalWritesOnly, OneTaskReadingItsWrites, NoRaces
<1>0. call \in [Tasks -> Calls \cup {NoCall}] /\ table \in [Tenants -> Policies \cup {NoPolicy}]
  BY DEF AnyUse, TypeOK
<1>1. CASE UNCHANGED storeVars
  BY <1>1 DEF storeVars, WritesOnWhatItRead
<1>2. ASSUME NEW t \in Tenants, NEW config \in NewConfigs, Create(t, config)
      PROVE  WritesOnWhatItRead' /\ NoRaces'
  <2>1. \A k \in Tasks : call[k] # NoCall => call[k].tenant \in Tenants /\ call[k].tenant # t
    BY <1>0, <1>2 DEF AnyUse, Calls, CallStartsFromAVersion, TableIsAVersion, Create
  <2>2. /\ call' = call /\ raced' = raced
        /\ \A u \in Tenants : u # t => table'[u] = table[u]
    BY <1>0, <1>2 DEF Create, PutItem
  <2>. QED  BY <2>1, <2>2 DEF WritesOnWhatItRead
<1>3. ASSUME NEW k \in Tasks, NEW t \in Tenants, Start(k, t)
      PROVE  WritesOnWhatItRead' /\ NoRaces'
  <2>1. PICK c \in Calls :
          /\ UNCHANGED <<table, archived, versions, raced>>
          /\ call' = [call EXCEPT ![k] = c]
          /\ c.tenant = t
          /\ c.current \in Readable(t)
          /\ c.conditional \/ ~ConditionalWritesOnly
    BY <1>3, StartBegins DEF AnyUse
  <2>2. call'[k] = c /\ \A l \in Tasks : l # k => call'[l] = call[l]
    BY <1>0, <2>1
  <2>3. ~EventualReads => c.current = table[t]
    BY <2>1 DEF Readable
  <2>. QED  BY <2>1, <2>2, <2>3 DEF WritesOnWhatItRead
<1>4. ASSUME NEW k \in Tasks, GetTarget(k) \/ Archive(k)
      PROVE  WritesOnWhatItRead' /\ NoRaces'
  <2>1. /\ call[k] # NoCall /\ UNCHANGED <<table, raced>>
        /\ call'[k].tenant = call[k].tenant
        /\ call'[k].current = call[k].current /\ call'[k].conditional = call[k].conditional
        /\ \A l \in Tasks : l # k => call'[l] = call[l]
    BY <1>0, <1>4 DEF GetTarget, Archive, Calls
  <2>. QED  BY <2>1 DEF WritesOnWhatItRead
<1>5. ASSUME NEW k \in Tasks, NoTarget(k) \/ PutRefused(k) \/ Abort(k)
      PROVE  WritesOnWhatItRead' /\ NoRaces'
  <2>1. /\ UNCHANGED <<table, raced>>
        /\ call'[k] = NoCall /\ \A l \in Tasks : l # k => call'[l] = call[l]
    BY <1>0, <1>5 DEF NoTarget, PutRefused, Abort
  <2>. QED  BY <2>1 DEF WritesOnWhatItRead
<1>6. ASSUME NEW k \in Tasks, Put(k)
      PROVE  WritesOnWhatItRead' /\ NoRaces'
  <2>1. call'[k] = NoCall /\ \A l \in Tasks : l # k => call'[l] = call[l]
    BY <1>0, <1>6 DEF Put
  <2>2. ~Races(k)
    BY <1>6 DEF Put, Races, WritesOnWhatItRead
  <2>3. NoRaces'
    BY <1>6, <2>2 DEF Put
  <2>. QED  BY <2>1, <2>3 DEF WritesOnWhatItRead
<1>. QED  BY <1>1, <1>2, <1>3, <1>4, <1>5, <1>6 DEF Next, Continue

(* With conditional operations only, or one task reading its own writes, no  *)
(* tenant is ever raced: all of the above holds of all of them for ever.   *)
THEOREM DisciplineRacesNone == ASSUME Disciplined PROVE Spec => []NoRaces
<1>1. Init => WritesOnWhatItRead /\ NoRaces
  BY DEF Disciplined, Init, WritesOnWhatItRead, NoRaces
<1>. QED  BY <1>1, DisciplineStep, AnyUseHolds, PTL DEF Spec
=============================================================================
