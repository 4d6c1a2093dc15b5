---------------------- MODULE InMemoryPolicyStore_proofs ----------------------
(***************************************************************************)
(* Proofs about the atomic store: types, complete history, append-only     *)
(* history, one epoch per write.                                           *)
(***************************************************************************)
EXTENDS InMemoryPolicyStore, PolicyModel_proofs, TLAPS

-----------------------------------------------------------------------------
LEMMA TypeInit == Init => TypeOK
BY DEF Init, TypeOK

(* One write to an existing tenant: what every mutating call but create is. *)
Write(t, updated) ==
    /\ Writable(t)
    /\ updated \in Policies
    /\ updated.policy_epoch = policies[t].policy_epoch + 1
    /\ Replace(t, updated)

(* Every step creates a tenant or is one write. *)
LEMMA StepIsAWrite ==
    ASSUME TypeOK, Next
    PROVE  \E t \in Tenants :
              \/ \E config \in NewConfigs : Create(t, config)
              \/ \E updated \in Policies : Write(t, updated)
<1>. USE InputAssumption
<1>1. PICK t \in Tenants :
        \/ \E config \in NewConfigs : Create(t, config)
        \/ \E state \in StateInputs : SetState(t, state)
        \/ \E changes \in ChangeInputs, epoch \in 1..MaxEpoch : ApplyChange(t, changes, epoch)
        \/ \E epoch \in 1..MaxEpoch : Rollback(t, epoch)
  BY DEF Next
<1>2. Writable(t) => policies[t] \in Policies
  BY DEF Writable, TypeOK
<1>3. CASE \E config \in NewConfigs : Create(t, config)
  BY <1>3
<1>4. CASE \E state \in StateInputs : SetState(t, state)
  BY <1>2, <1>4, UpdatesArePolicies DEF SetState, Write
<1>5. CASE \E changes \in ChangeInputs, epoch \in 1..MaxEpoch : ApplyChange(t, changes, epoch)
  BY <1>2, <1>5, UpdatesArePolicies DEF ApplyChange, Write
<1>6. CASE \E epoch \in 1..MaxEpoch : Rollback(t, epoch)
  <2>1. PICK target \in history[t] : Writable(t) /\ Replace(t, Restored(target, policies[t]))
    BY <1>6 DEF Rollback
  <2>2. target \in Policies
    BY <2>1 DEF TypeOK
  <2>. QED  BY <1>2, <2>1, <2>2, UpdatesArePolicies DEF Write
<1>. QED  BY <1>1, <1>3, <1>4, <1>5, <1>6

(* The type invariant. *)
THEOREM Typing == Spec => []TypeOK
<1>1. TypeOK /\ [Next]_vars => TypeOK'
  <2>. SUFFICES ASSUME TypeOK, [Next]_vars PROVE TypeOK'
    OBVIOUS
  <2>1. CASE UNCHANGED vars
    BY <2>1 DEF TypeOK, vars
  <2>2. CASE Next
    <3>1. PICK t \in Tenants :
            \/ \E config \in NewConfigs : Create(t, config)
            \/ \E updated \in Policies : Write(t, updated)
      BY <2>2, StepIsAWrite
    <3>2. CASE \E config \in NewConfigs : Create(t, config)
      BY <3>2, NewPolicyIsAPolicy, InputAssumption DEF Create, TypeOK
    <3>3. CASE \E updated \in Policies : Write(t, updated)
      BY <3>3 DEF Write, Writable, Replace, PutVersion, TypeOK
    <3>. QED  BY <3>1, <3>2, <3>3
  <2>. QED  BY <2>1, <2>2
<1>. QED  BY <1>1, TypeInit, PTL DEF Spec

-----------------------------------------------------------------------------
(* The history is complete; with it, archiving the current version never   *)
(* meets a row of the same epoch, which is why the history only grows.     *)

(* A write archives under an epoch the history does not hold yet. *)
LEMMA WriteAppends ==
    ASSUME TypeOK, HistoryComplete, NEW t \in Tenants, NEW updated, Write(t, updated)
    PROVE  /\ history'[t] = history[t] \cup {policies[t]}
           /\ \A u \in Tenants : u # t => history'[u] = history[u]
<1>1. policies[t] \in Policies /\ history[t] \subseteq Policies
  BY DEF Write, Writable, TypeOK
<1>2. \A row \in history[t] : row.policy_epoch # policies[t].policy_epoch
  <2>1. EpochsOf(history[t]) = 1..(policies[t].policy_epoch - 1)
    BY <1>1 DEF HistoryComplete, Write, Writable
  <2>. QED  BY <1>1, <2>1 DEF EpochsOf, Policies, Epochs
<1>. QED  BY <1>2 DEF Write, Replace, PutVersion, TypeOK

LEMMA CompleteStep == TypeOK /\ HistoryComplete /\ [Next]_vars => HistoryComplete'
<1>. SUFFICES ASSUME TypeOK, HistoryComplete, [Next]_vars PROVE HistoryComplete'
  OBVIOUS
<1>1. CASE UNCHANGED vars
  BY <1>1 DEF HistoryComplete, vars
<1>2. CASE Next
  <2>1. PICK t \in Tenants :
          \/ \E config \in NewConfigs : Create(t, config)
          \/ \E updated \in Policies : Write(t, updated)
    BY <1>2, StepIsAWrite
  <2>2. CASE \E config \in NewConfigs : Create(t, config)
    <3>1. PICK config \in NewConfigs : Create(t, config)
      BY <2>2
    <3>2. policies'[t] = NewPolicy(config) /\ history' = history /\ history[t] = {}
      BY <3>1 DEF Create, TypeOK, HistoryComplete
    <3>3. \A u \in Tenants : u # t => policies'[u] = policies[u]
      BY <3>1 DEF Create, TypeOK
    <3>4. policies'[t] # NoPolicy /\ policies'[t].policy_epoch = 1
      BY <3>2, NewPolicyIsAPolicy, InputAssumption, PolicyModelAssumption
    <3>5. EpochsOf({}) = 1..(1 - 1)
      BY DEF EpochsOf
    <3>6. ASSUME NEW u \in Tenants
          PROVE  /\ policies'[u] = NoPolicy => history'[u] = {}
                 /\ policies'[u] # NoPolicy =>
                       /\ EpochsOf(history'[u]) = 1..(policies'[u].policy_epoch - 1)
                       /\ \A p, q \in history'[u] : p.policy_epoch = q.policy_epoch => p = q
      <4>1. CASE u = t
        BY <4>1, <3>2, <3>4, <3>5
      <4>2. CASE u # t
        BY <4>2, <3>2, <3>3 DEF HistoryComplete
      <4>. QED  BY <4>1, <4>2
    <3>. QED  BY <3>6 DEF HistoryComplete, EpochsOf
  <2>3. CASE \E updated \in Policies : Write(t, updated)
    <3>1. PICK updated \in Policies : Write(t, updated)
      BY <2>3
    <3>2. /\ policies[t] \in Policies /\ policies[t] # NoPolicy /\ history[t] \subseteq Policies
          /\ policies'[t] = updated /\ updated.policy_epoch = policies[t].policy_epoch + 1
      BY <3>1 DEF Write, Writable, Replace, TypeOK
    <3>3. \A u \in Tenants : u # t => policies'[u] = policies[u] /\ history'[u] = history[u]
      BY <3>1, WriteAppends DEF Write, Replace, TypeOK
    <3>4. history'[t] = history[t] \cup {policies[t]}
      BY <3>1, WriteAppends
    <3>5. EpochsOf(history[t]) = 1..(policies[t].policy_epoch - 1)
      BY <3>2 DEF HistoryComplete
    <3>6. EpochsOf(history'[t]) = EpochsOf(history[t]) \cup {policies[t].policy_epoch}
      BY <3>4 DEF EpochsOf
    <3>7. EpochsOf(history'[t]) = 1..(policies'[t].policy_epoch - 1)
      BY <3>2, <3>5, <3>6 DEF Policies, Epochs
    <3>8. \A p, q \in history'[t] : p.policy_epoch = q.policy_epoch => p = q
      <4>1. \A p \in history[t] : p.policy_epoch \in 1..(policies[t].policy_epoch - 1)
        BY <3>5 DEF EpochsOf
      <4>2. \A p \in history[t] : p.policy_epoch # policies[t].policy_epoch
        BY <3>2, <4>1 DEF Policies, Epochs
      <4>. QED  BY <3>2, <3>4, <4>2 DEF HistoryComplete
    <3>9. policies'[t] # NoPolicy
      BY <3>2, PolicyModelAssumption
    <3>. QED  BY <3>3, <3>7, <3>8, <3>9 DEF HistoryComplete, EpochsOf
  <2>. QED  BY <2>1, <2>2, <2>3
<1>. QED  BY <1>1, <1>2

(* Whatever calls are made, the history holds every earlier epoch, once,   *)
(* and never the current one.                                              *)
THEOREM HistoryIsComplete == Spec => []HistoryComplete
<1>1. Init => HistoryComplete
  BY DEF Init, HistoryComplete
<1>. QED  BY <1>1, CompleteStep, Typing, PTL DEF Spec

(* No archived version is ever dropped or rewritten. *)
THEOREM HistoryIsAppendOnly == Spec => HistoryAppendOnly
<1>1. TypeOK /\ HistoryComplete /\ [Next]_vars
         => [\A t \in Tenants : history[t] \subseteq history'[t]]_vars
  <2>. SUFFICES ASSUME TypeOK, HistoryComplete, Next
                PROVE  \A t \in Tenants : history[t] \subseteq history'[t]
    BY DEF vars
  <2>1. PICK t \in Tenants :
          \/ \E config \in NewConfigs : Create(t, config)
          \/ \E updated \in Policies : Write(t, updated)
    BY StepIsAWrite
  <2>2. CASE \E config \in NewConfigs : Create(t, config)
    BY <2>2 DEF Create
  <2>3. CASE \E updated \in Policies : Write(t, updated)
    BY <2>3, WriteAppends
  <2>. QED  BY <2>1, <2>2, <2>3
<1>. QED  BY <1>1, Typing, HistoryIsComplete, PTL DEF Spec, HistoryAppendOnly

(* Every write to an existing tenant takes the next epoch and archives the *)
(* version it replaces.                                                    *)
THEOREM WritesAreNewEpochs == Spec => EveryWriteIsANewEpoch
<1>1. TypeOK /\ HistoryComplete /\ [Next]_vars
         => [\A t \in Tenants :
                (policies[t] # NoPolicy /\ policies'[t] # policies[t]) =>
                   /\ policies'[t] # NoPolicy
                   /\ policies'[t].policy_epoch = policies[t].policy_epoch + 1
                   /\ policies[t] \in history'[t]]_vars
  <2>. SUFFICES ASSUME TypeOK, HistoryComplete, Next, NEW t \in Tenants,
                       policies[t] # NoPolicy, policies'[t] # policies[t]
                PROVE  /\ policies'[t] # NoPolicy
                       /\ policies'[t].policy_epoch = policies[t].policy_epoch + 1
                       /\ policies[t] \in history'[t]
    BY DEF vars
  <2>1. PICK u \in Tenants :
          \/ \E config \in NewConfigs : Create(u, config)
          \/ \E updated \in Policies : Write(u, updated)
    BY StepIsAWrite
  <2>2. u = t
    BY <2>1 DEF Create, Write, Replace, TypeOK
  <2>3. PICK updated \in Policies : Write(t, updated)
    BY <2>1, <2>2 DEF Create, TypeOK
  <2>4. policies'[t] = updated
    BY <2>3 DEF Write, Replace, TypeOK
  <2>. QED  BY <2>3, <2>4, WriteAppends, PolicyModelAssumption DEF Write
<1>. QED  BY <1>1, Typing, HistoryIsComplete, PTL DEF Spec, EveryWriteIsANewEpoch
=============================================================================
