---------------------- MODULE DynamoDbRefinement_proofs ----------------------
(***************************************************************************)
(* The DynamoDB store implements the atomic one (InMemoryPolicyStore) as   *)
(* long as no unconditional put races: a creation is a creation, a put is  *)
(* the whole state change, edit or rollback, and every other request is a  *)
(* stutter.                                                                *)
(*                                                                         *)
(* One rollback is not the atomic store's.  An aborted call leaves the     *)
(* current version in the history table, where the atomic store does not   *)
(* have it; a rollback to the current epoch finds it there and writes it   *)
(* once more.  That is what setting the state it has does.                 *)
(***************************************************************************)
EXTENDS DynamoDbPolicyStore_proofs

(* A call carries the update its method computed from what it read; what a  *)
(* rollback carries is what RollbackRestoresAVersion says.                 *)
IsUpdateOf(updated, current) ==
    \/ \E state \in StateInputs : updated = WithState(current, state)
    \/ \E changes \in ChangeInputs : updated = ApplyFieldChanges(current, changes)

CallsCarryUpdates ==
    \A k \in Tasks : call[k] # NoCall =>
        /\ call[k].current.policy_epoch < MaxEpoch
        /\ call[k].target_epoch = 0 => IsUpdateOf(call[k].updated, call[k].current)
        /\ (call[k].target_epoch = 0 /\ ~call[k].conditional) =>
              \E state \in StateInputs : call[k].updated = WithState(call[k].current, state)
        /\ call[k].target_epoch # 0 => /\ call[k].target_epoch \in 1..MaxEpoch
                                       /\ "rollback" \in Operations
        /\ call[k].next = "get_target" => call[k].target_epoch # 0

(* The assumptions on the use of the store. *)
NoRollback == "rollback" \notin Operations
AnyStateMayBeSet == TenantStates \subseteq StateInputs

(* A call begins by carrying an update. *)
LEMMA StartCarriesUpdate ==
    ASSUME AnyUse, NEW k \in Tasks, NEW t \in Tenants, Start(k, t)
    PROVE  \E c : /\ call' = [call EXCEPT ![k] = c]
                  /\ c.current.policy_epoch < MaxEpoch
                  /\ c.target_epoch = 0 => IsUpdateOf(c.updated, c.current)
                  /\ (c.target_epoch = 0 /\ ~c.conditional) =>
                        \E state \in StateInputs : c.updated = WithState(c.current, state)
                  /\ c.target_epoch # 0 => /\ c.target_epoch \in 1..MaxEpoch
                                           /\ "rollback" \in Operations
                  /\ c.next = "get_target" => c.target_epoch # 0
<1>1. CASE \E state \in StateInputs : SetState(k, t, state)
  <2>1. PICK state \in StateInputs, current \in Readable(t) :
          Begin(k, "set_state", t, "archive", current, WithState(current, state), FALSE, 0)
    BY <1>1 DEF SetState
  <2>. WITNESS [next |-> "archive", tenant |-> t, current |-> current,
                updated |-> WithState(current, state), conditional |-> FALSE,
                target_epoch |-> 0]
  <2>. QED  BY <2>1 DEF Begin, IsUpdateOf
<1>2. CASE \E changes \in ChangeInputs, epoch \in 1..MaxEpoch : ApplyChange(k, t, changes, epoch)
  <2>1. PICK changes \in ChangeInputs, current \in Readable(t) :
          Begin(k, "apply_change", t, "archive", current,
                ApplyFieldChanges(current, changes), TRUE, 0)
    BY <1>2 DEF ApplyChange
  <2>. WITNESS [next |-> "archive", tenant |-> t, current |-> current,
                updated |-> ApplyFieldChanges(current, changes), conditional |-> TRUE,
                target_epoch |-> 0]
  <2>. QED  BY <2>1 DEF Begin, IsUpdateOf
<1>3. CASE \E epoch \in 1..MaxEpoch : Rollback(k, t, epoch)
  <2>1. PICK epoch \in 1..MaxEpoch, current \in Readable(t) :
          Begin(k, "rollback", t, "get_target", current, NoPolicy, FALSE, epoch)
    BY <1>3 DEF Rollback
  <2>. WITNESS [next |-> "get_target", tenant |-> t, current |-> current,
                updated |-> NoPolicy, conditional |-> FALSE, target_epoch |-> epoch]
  <2>. QED  BY <2>1, InputAssumption DEF Begin
<1>. QED  BY <1>1, <1>2, <1>3 DEF Start

(* No later request changes what a call carries. *)
LEMMA CarryStep ==
    ASSUME AnyUse, CallsCarryUpdates, [Next]_storeVars
    PROVE  CallsCarryUpdates'
<1>1. CASE UNCHANGED storeVars
  BY <1>1 DEF storeVars, CallsCarryUpdates
<1>2. CASE \E t \in Tenants, config \in NewConfigs : Create(t, config)
  BY <1>2 DEF Create, CallsCarryUpdates
<1>3. ASSUME NEW k \in Tasks, NEW t \in Tenants, Start(k, t) PROVE CallsCarryUpdates'
  <2>1. PICK c : /\ call' = [call EXCEPT ![k] = c]
                 /\ c.current.policy_epoch < MaxEpoch
                 /\ c.target_epoch = 0 => IsUpdateOf(c.updated, c.current)
                 /\ (c.target_epoch = 0 /\ ~c.conditional) =>
                       \E state \in StateInputs : c.updated = WithState(c.current, state)
                 /\ c.target_epoch # 0 => /\ c.target_epoch \in 1..MaxEpoch
                                          /\ "rollback" \in Operations
                 /\ c.next = "get_target" => c.target_epoch # 0
    BY <1>3, StartCarriesUpdate
  <2>2. call'[k] = c /\ \A l \in Tasks : l # k => call'[l] = call[l]
    BY <2>1 DEF AnyUse, TypeOK
  <2>. QED  BY <2>1, <2>2 DEF CallsCarryUpdates
<1>4. ASSUME NEW k \in Tasks, Continue(k) PROVE CallsCarryUpdates'
  <2>1. CASE GetTarget(k)
    <3>1. /\ call[k] # NoCall /\ call[k].next = "get_target"
          /\ call'[k].next = "archive" /\ call'[k].current = call[k].current
          /\ call'[k].target_epoch = call[k].target_epoch
          /\ call'[k].conditional = call[k].conditional
          /\ \A l \in Tasks : l # k => call'[l] = call[l]
      BY <2>1 DEF GetTarget, AnyUse, TypeOK, Calls
    <3>. QED  BY <3>1 DEF CallsCarryUpdates
  <2>2. CASE Archive(k)
    <3>1. /\ call[k] # NoCall
          /\ call'[k].next = "put" /\ call'[k].current = call[k].current
          /\ call'[k].updated = call[k].updated
          /\ call'[k].target_epoch = call[k].target_epoch
          /\ call'[k].conditional = call[k].conditional
          /\ \A l \in Tasks : l # k => call'[l] = call[l]
      BY <2>2 DEF Archive, AnyUse, TypeOK, Calls
    <3>. QED  BY <3>1 DEF CallsCarryUpdates
  <2>3. CASE NoTarget(k) \/ Put(k) \/ PutRefused(k) \/ Abort(k)
    <3>1. call' = [call EXCEPT ![k] = NoCall]
      BY <2>3 DEF NoTarget, Put, PutRefused, Abort
    <3>2. call'[k] = NoCall /\ \A l \in Tasks : l # k => call'[l] = call[l]
      BY <3>1 DEF AnyUse, TypeOK
    <3>. QED  BY <3>2 DEF CallsCarryUpdates
  <2>. QED  BY <1>4, <2>1, <2>2, <2>3 DEF Continue
<1>. QED  BY <1>1, <1>2, <1>3, <1>4 DEF Next

LEMMA CarryHolds == Spec => []CallsCarryUpdates
<1>1. Init => CallsCarryUpdates
  BY DEF Init, CallsCarryUpdates
<1>. QED  BY <1>1, CarryStep, AnyUseHolds, PTL DEF Spec

-----------------------------------------------------------------------------
(* Each kind of step, through the refinement mapping. *)

RefinementInv == AnyUse /\ OneVersion /\ CallsCarryUpdates /\ NoRaces

(* A creation is a creation. *)
LEMMA CreateIsCreate ==
    ASSUME RefinementInv, NEW t \in Tenants, NEW config \in NewConfigs, Create(t, config)
    PROVE  Atomic!Create(t, config)
<1>1. NewPolicy(config) \in Policies /\ NewPolicy(config).policy_epoch = 1
  BY InputAssumption, NewPolicyIsAPolicy
<1>2. /\ table[t] = NoPolicy
      /\ table' = [table EXCEPT ![t] = NewPolicy(config)]
      /\ archived' = archived
  BY <1>1, PutItemStores DEF Create, RefinementInv, AnyUse
<1>3. \A u \in Tenants : archived[u] \subseteq Policies
  BY DEF RefinementInv, AnyUse, TypeOK
<1>4. ASSUME NEW u \in Tenants
      PROVE  {p \in archived'[u] : table'[u] # NoPolicy /\ p.policy_epoch < table'[u].policy_epoch}
               = {p \in archived[u] : table[u] # NoPolicy /\ p.policy_epoch < table[u].policy_epoch}
  <2>1. CASE u = t
    <3>1. table'[u].policy_epoch = 1
      BY <1>1, <1>2, <2>1 DEF RefinementInv, AnyUse, TypeOK
    <3>2. \A p \in archived[u] : ~(p.policy_epoch < 1)
      BY <1>3 DEF Policies, Epochs
    <3>. QED  BY <1>2, <2>1, <3>1, <3>2
  <2>2. CASE u # t
    BY <1>2, <2>2 DEF RefinementInv, AnyUse, TypeOK
  <2>. QED  BY <2>1, <2>2
<1>5. HistoryBeforeCurrent' = HistoryBeforeCurrent
  BY <1>4 DEF HistoryBeforeCurrent
<1>. QED  BY <1>2, <1>5 DEF Atomic!Create, Atomic!NewPolicy, NewPolicy

(* Archiving shows nothing new: the version is current, or archived already. *)
LEMMA ArchiveStutters ==
    ASSUME RefinementInv, HistoryTable, NEW k \in Tasks, Archive(k)
    PROVE  UNCHANGED <<table, HistoryBeforeCurrent>>
<1>. DEFINE t == call[k].tenant
            current == call[k].current
<1>1. /\ t \in Tenants /\ current \in versions[t] /\ table' = table
      /\ archived' = [archived EXCEPT ![t] = @ \cup {current}]
  BY ArchiveAdds
     DEF RefinementInv, NoRaces, Archive, AnyUse, TypeOK, Calls, CallStartsFromAVersion
<1>2. current = table[t] \/ current \in archived[t]
  BY <1>1 DEF RefinementInv, NoRaces, OneVersion, HistoryKeepsEveryVersion
<1>3. table[t] # NoPolicy => ~(table[t].policy_epoch < table[t].policy_epoch)
  BY <1>1 DEF RefinementInv, AnyUse, TypeOK, Policies, Epochs
<1>4. ASSUME NEW u \in Tenants
      PROVE  {p \in archived'[u] : table'[u] # NoPolicy /\ p.policy_epoch < table'[u].policy_epoch}
               = {p \in archived[u] : table[u] # NoPolicy /\ p.policy_epoch < table[u].policy_epoch}
  BY <1>1, <1>2, <1>3 DEF RefinementInv, AnyUse, TypeOK
<1>. QED  BY <1>1, <1>4 DEF HistoryBeforeCurrent

(* A put replaces the current version and archives it. *)
LEMMA PutIsReplace ==
    ASSUME RefinementInv, HistoryTable, NEW k \in Tasks, Put(k), NoRaces'
    PROVE  /\ Atomic!Writable(call[k].tenant)
           /\ Atomic!Replace(call[k].tenant, call[k].updated)
<1>. DEFINE t == call[k].tenant
            updated == call[k].updated
            before(u) == {p \in archived[u] : table[u] # NoPolicy
                                              /\ p.policy_epoch < table[u].policy_epoch}
<1>1. /\ call[k].current = table[t] /\ t \in Tenants
      /\ table[t] \in Policies /\ table[t] # NoPolicy
      /\ updated \in Policies /\ updated # NoPolicy
      /\ updated.policy_epoch = table[t].policy_epoch + 1
      /\ table' = [table EXCEPT ![t] = updated]
      /\ archived' = archived
  BY PutReplacesCurrent, PutWrites, PolicyModelAssumption DEF RefinementInv, NoRaces
<1>2. table'[t] = updated /\ \A u \in Tenants : u # t => table'[u] = table[u]
  BY <1>1 DEF RefinementInv, AnyUse, TypeOK
<1>3. call[k] # NoCall /\ call[k].next = "put"
  BY DEF Put
<1>4. table[t] \in archived[t]
  BY <1>1, <1>3 DEF RefinementInv, NoRaces, OneVersion, PutAfterArchive
<1>5. \A p \in archived[t] : p \in Policies /\ p \in versions[t]
                             /\ (p.policy_epoch = table[t].policy_epoch => p = table[t])
  BY <1>1, <1>4 DEF RefinementInv, NoRaces, AnyUse, TypeOK, ArchivedWasLive, OneVersion,
                    EpochNamesOneVersion
<1>6. {p \in archived[t] : p.policy_epoch < updated.policy_epoch} = before(t) \cup {table[t]}
  <2>1. \A p \in archived[t] : p.policy_epoch < updated.policy_epoch <=>
           (p.policy_epoch < table[t].policy_epoch \/ p.policy_epoch = table[t].policy_epoch)
    BY <1>1, <1>5 DEF Policies, Epochs
  <2>. QED  BY <1>1, <1>4, <1>5, <2>1
<1>7. PutVersion(before(t), table[t]) = before(t) \cup {table[t]}
  <2>1. \A p \in before(t) : p.policy_epoch # table[t].policy_epoch
    BY <1>1, <1>5 DEF Policies, Epochs
  <2>. QED  BY <2>1 DEF PutVersion
<1>8. HistoryBeforeCurrent' = [HistoryBeforeCurrent EXCEPT ![t] = PutVersion(@, table[t])]
  <2>1. HistoryBeforeCurrent = [u \in Tenants |-> before(u)]
    BY DEF HistoryBeforeCurrent
  <2>2. HistoryBeforeCurrent' =
          [u \in Tenants |-> {p \in archived[u] : table'[u] # NoPolicy
                                                  /\ p.policy_epoch < table'[u].policy_epoch}]
    BY <1>1 DEF HistoryBeforeCurrent
  <2>3. \A u \in Tenants : u # t =>
          {p \in archived[u] : table'[u] # NoPolicy /\ p.policy_epoch < table'[u].policy_epoch}
            = before(u)
    BY <1>2
  <2>4. {p \in archived[t] : table'[t] # NoPolicy /\ p.policy_epoch < table'[t].policy_epoch}
          = PutVersion(before(t), table[t])
    BY <1>1, <1>2, <1>6, <1>7
  <2>. HIDE DEF before
  <2>. QED  BY <1>1, <2>1, <2>2, <2>3, <2>4
<1>9. Atomic!Writable(t)
  BY <1>1, <1>3 DEF Atomic!Writable, RefinementInv, CallsCarryUpdates
<1>. QED  BY <1>1, <1>8, <1>9 DEF Atomic!Replace, Atomic!PutVersion, PutVersion

(* ... so it is the state change, the edit or the rollback the call was     *)
(* made for.                                                               *)
LEMMA PutIsAWrite ==
    ASSUME RefinementInv, HistoryTable, NoRollback \/ AnyStateMayBeSet,
           NEW k \in Tasks, Put(k), NoRaces'
    PROVE  Atomic!Next
<1>. DEFINE t == call[k].tenant
            updated == call[k].updated
<1>1. /\ call[k] # NoCall
      /\ call[k].current = table[t] /\ t \in Tenants
      /\ table[t] \in Policies /\ table[t] # NoPolicy
      /\ updated # NoPolicy
  BY PutReplacesCurrent, PutWrites, PolicyModelAssumption DEF RefinementInv, NoRaces
<1>2. Atomic!Writable(t) /\ Atomic!Replace(t, updated)
  BY PutIsReplace
<1>3. table[t].policy_epoch < MaxEpoch /\ table[t].policy_epoch \in 1..MaxEpoch
  BY <1>1, InputAssumption DEF RefinementInv, CallsCarryUpdates, Policies, Epochs
<1>4. CASE call[k].target_epoch = 0 /\ \E state \in StateInputs : updated = WithState(table[t], state)
  <2>1. PICK state \in StateInputs : updated = WithState(table[t], state)
    BY <1>4
  <2>2. Atomic!SetState(t, state)
    BY <1>2, <2>1 DEF Atomic!SetState, Atomic!WithState, WithState
  <2>. QED  BY <1>1, <2>2 DEF Atomic!Next
<1>5. CASE call[k].target_epoch = 0
           /\ \E changes \in ChangeInputs : updated = ApplyFieldChanges(table[t], changes)
  <2>1. PICK changes \in ChangeInputs : updated = ApplyFieldChanges(table[t], changes)
    BY <1>5
  <2>2. Atomic!ApplyChange(t, changes, table[t].policy_epoch)
    BY <1>2, <2>1 DEF Atomic!ApplyChange, Atomic!ApplyFieldChanges, ApplyFieldChanges
  <2>. QED  BY <1>1, <1>3, <2>2 DEF Atomic!Next
<1>6. CASE call[k].target_epoch # 0
  <2>1. PICK target \in versions[t] : /\ target.policy_epoch = call[k].target_epoch
                                      /\ updated = Restored(target, table[t])
    BY <1>1, <1>6 DEF RefinementInv, AnyUse, RollbackRestoresAVersion
  <2>2. call[k].target_epoch \in 1..MaxEpoch /\ "rollback" \in Operations
    BY <1>1, <1>6 DEF RefinementInv, CallsCarryUpdates
  <2>3. table[t] \in versions[t] /\ target.policy_epoch <= table[t].policy_epoch
    BY <1>1 DEF RefinementInv, NoRaces, AnyUse, TableIsAVersion, OneVersion, TableIsNewest
  <2>4. CASE target.policy_epoch = table[t].policy_epoch
    <3>1. target = table[t]
      BY <1>1, <2>3, <2>4 DEF RefinementInv, NoRaces, OneVersion, EpochNamesOneVersion
    <3>2. updated = WithState(table[t], table[t].state)
      BY <2>1, <3>1 DEF Restored, WithState
    <3>3. table[t].state \in StateInputs
      BY <1>1, <2>2 DEF NoRollback, AnyStateMayBeSet, Policies
    <3>4. Atomic!SetState(t, table[t].state)
      BY <1>2, <3>2 DEF Atomic!SetState, Atomic!WithState, WithState
    <3>. QED  BY <1>1, <3>3, <3>4 DEF Atomic!Next
  <2>5. CASE target.policy_epoch # table[t].policy_epoch
    <3>1. target.policy_epoch < table[t].policy_epoch
      BY <1>1, <2>1, <2>2, <2>3, <2>5 DEF Policies, Epochs
    <3>2. target \in archived[t]
      BY <1>1, <2>5 DEF RefinementInv, NoRaces, OneVersion, HistoryKeepsEveryVersion
    <3>3. target \in HistoryBeforeCurrent[t]
      BY <1>1, <3>1, <3>2 DEF HistoryBeforeCurrent
    <3>4. Atomic!Rollback(t, call[k].target_epoch)
      BY <1>2, <2>1, <3>3 DEF Atomic!Rollback, Atomic!Restored, Restored
    <3>. QED  BY <1>1, <2>2, <3>4 DEF Atomic!Next
  <2>. QED  BY <2>4, <2>5
<1>. QED
  BY <1>1, <1>4, <1>5, <1>6 DEF RefinementInv, CallsCarryUpdates, IsUpdateOf

LEMMA StepIsAtomic ==
    ASSUME RefinementInv, HistoryTable, NoRollback \/ AnyStateMayBeSet, [Next]_storeVars, NoRaces'
    PROVE  [Atomic!Next]_(Atomic!vars)
<1>. USE DEF Atomic!vars
<1>1. CASE UNCHANGED storeVars
  BY <1>1 DEF storeVars, HistoryBeforeCurrent
<1>2. ASSUME NEW t \in Tenants, NEW config \in NewConfigs, Create(t, config)
      PROVE  Atomic!Next
  BY <1>2, CreateIsCreate DEF Atomic!Next
<1>3. ASSUME NEW k \in Tasks, NEW t \in Tenants, Start(k, t)
      PROVE  UNCHANGED <<table, HistoryBeforeCurrent>>
  BY <1>3, StartBegins DEF RefinementInv, AnyUse, HistoryBeforeCurrent
<1>4. ASSUME NEW k \in Tasks, Continue(k)
      PROVE  Atomic!Next \/ UNCHANGED <<table, HistoryBeforeCurrent>>
  <2>1. CASE GetTarget(k) \/ NoTarget(k) \/ PutRefused(k) \/ Abort(k)
    BY <2>1 DEF GetTarget, NoTarget, PutRefused, Abort, HistoryBeforeCurrent
  <2>. QED  BY <1>4, <2>1, ArchiveStutters, PutIsAWrite DEF Continue
<1>. QED  BY <1>1, <1>2, <1>3, <1>4 DEF Next

LEMMA InitIsAtomic == Init => Atomic!Init
BY DEF Init, Atomic!Init, HistoryBeforeCurrent

LEMMA RefinementInvHolds == Spec /\ []NoRaces => []RefinementInv
BY AnyUseHolds, OneVersionHolds, CarryHolds, PTL DEF RefinementInv

(* While no unconditional put races, the two tables and all the interleaved *)
(* requests are one atomic versioned store, however calls fail halfway.     *)
(* Rollbacks are the atomic store's too, as every lifecycle state may be    *)
(* set.                                                                    *)
THEOREM StoreIsAtomic ==
    ASSUME HistoryTable, NoRollback \/ AnyStateMayBeSet
    PROVE  Spec /\ []NoRaces => ImplementsAtomicStore
<1>1. RefinementInv /\ NoRaces' /\ [Next]_storeVars => [Atomic!Next]_(Atomic!vars)
  BY StepIsAtomic
<1>. QED
  BY <1>1, InitIsAtomic, RefinementInvHolds, PTL DEF Spec, ImplementsAtomicStore, Atomic!Spec
=============================================================================
