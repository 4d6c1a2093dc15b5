------------------------- MODULE InMemoryPolicyStore -------------------------
(***************************************************************************)
(* InMemoryPolicyStore of policy/store.py: the versioned policy store with *)
(* every operation atomic (one process, synchronous methods).  It is the   *)
(* store a deployment without DynamoDB tables uses, and it is the meaning  *)
(* of the ProvisionedPolicyStore protocol: DynamoDbPolicyStore is compared *)
(* with it.  A call that raises changes nothing and is no step here.       *)
(***************************************************************************)
EXTENDS PolicyModel

VARIABLES
    policies,       \* tenant_id -> its current policy (self._policies)
    history         \* tenant_id -> the versions archived (self._history)

vars == <<policies, history>>

Init ==
    /\ policies = [t \in Tenants |-> NoPolicy]
    /\ history = [t \in Tenants |-> {}]

(* Mutant of Replace: the version overwritten is not archived. *)
ReplaceWithoutArchive(t, updated) ==
    /\ policies' = [policies EXCEPT ![t] = updated]
    /\ UNCHANGED history

(* _replace: archive the current version, then overwrite it. *)
Replace(t, updated) ==
    /\ history' = [history EXCEPT ![t] = PutVersion(@, policies[t])]
    /\ policies' = [policies EXCEPT ![t] = updated]

Writable(t) == policies[t] # NoPolicy /\ policies[t].policy_epoch < MaxEpoch

Create(t, config) ==
    /\ policies[t] = NoPolicy
    /\ policies' = [policies EXCEPT ![t] = NewPolicy(config)]
    /\ UNCHANGED history

SetState(t, state) ==
    /\ Writable(t)
    /\ Replace(t, WithState(policies[t], state))

ApplyChange(t, changes, expected_epoch) ==
    /\ Writable(t)
    /\ policies[t].policy_epoch = expected_epoch
    /\ Replace(t, ApplyFieldChanges(policies[t], changes))

Rollback(t, target_epoch) ==
    /\ Writable(t)
    /\ \E target \in history[t] :
          /\ target.policy_epoch = target_epoch
          /\ Replace(t, Restored(target, policies[t]))

Next ==
    \E t \in Tenants :
        \/ \E config \in NewConfigs : Create(t, config)
        \/ \E state \in StateInputs : SetState(t, state)
        \/ \E changes \in ChangeInputs, epoch \in 1..MaxEpoch : ApplyChange(t, changes, epoch)
        \/ \E epoch \in 1..MaxEpoch : Rollback(t, epoch)

Spec == Init /\ [][Next]_vars

-----------------------------------------------------------------------------
(* The store's variables stay in their types. *)
TypeOK ==
    /\ policies \in [Tenants -> Policies \cup {NoPolicy}]
    /\ history \in [Tenants -> SUBSET Policies]

(* list_history holds exactly one version for every epoch before the       *)
(* current one and none for the current or a later one: whatever mixture   *)
(* of state changes, edits and rollbacks led here, nothing is missing and  *)
(* the current version is not listed (ProvisionedPolicyStore.list_history). *)
HistoryComplete ==
    \A t \in Tenants :
        /\ policies[t] = NoPolicy => history[t] = {}
        /\ policies[t] # NoPolicy =>
              /\ EpochsOf(history[t]) = 1..(policies[t].policy_epoch - 1)
              /\ \A p, q \in history[t] : p.policy_epoch = q.policy_epoch => p = q

(* A version, once archived, is never dropped or rewritten by any later    *)
(* call, a rollback included.                                              *)
HistoryAppendOnly == [][\A t \in Tenants : history[t] \subseteq history'[t]]_vars

(* Every write to an existing tenant moves to the next epoch, never        *)
(* backward or sideways, and keeps the version it replaces in the history. *)
EveryWriteIsANewEpoch ==
    [][\A t \in Tenants :
          (policies[t] # NoPolicy /\ policies'[t] # policies[t]) =>
             /\ policies'[t] # NoPolicy
             /\ policies'[t].policy_epoch = policies[t].policy_epoch + 1
             /\ policies[t] \in history'[t]]_vars
=============================================================================
