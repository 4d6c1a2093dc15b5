-------------------------- MODULE PolicyModel_proofs --------------------------
(***************************************************************************)
(* What the functions of PolicyModel return, for every policy.             *)
(***************************************************************************)
EXTENDS PolicyModel, TLAPS

(* Every write of a policy yields a policy, one epoch up. *)
LEMMA UpdatesArePolicies ==
    ASSUME NEW current \in Policies
    PROVE  /\ \A state \in TenantStates :
                 /\ WithState(current, state) \in Policies
                 /\ WithState(current, state).policy_epoch = current.policy_epoch + 1
           /\ \A changes \in ChangeSets :
                 /\ ApplyFieldChanges(current, changes) \in Policies
                 /\ ApplyFieldChanges(current, changes).policy_epoch = current.policy_epoch + 1
           /\ \A target \in Policies :
                 /\ Restored(target, current) \in Policies
                 /\ Restored(target, current).policy_epoch = current.policy_epoch + 1
<1>1. current.policy_epoch + 1 \in Epochs
  BY DEF Policies, Epochs
<1>2. ASSUME NEW changes \in ChangeSets
      PROVE  [f \in Fields |-> IF f \in DOMAIN changes THEN changes[f]
                                                       ELSE current.config[f]] \in Configs
  <2>1. PICK D \in SUBSET Fields : changes \in [D -> Values]
    BY DEF ChangeSets
  <2>2. \A f \in Fields : current.config[f] \in Values
    BY DEF Policies, Configs
  <2>. QED  BY <2>1, <2>2 DEF Configs
<1>. QED
  BY <1>1, <1>2 DEF WithState, ApplyFieldChanges, Restored, Policies

(* Putting a version leaves the rows of other epochs alone and makes its    *)
(* own row the only one of its epoch.                                      *)
LEMMA PutVersionRows ==
    ASSUME NEW rows, NEW policy
    PROVE  /\ policy \in PutVersion(rows, policy)
           /\ \A row : row \in PutVersion(rows, policy) <=>
                 row = policy \/ (row \in rows /\ row.policy_epoch # policy.policy_epoch)
BY DEF PutVersion

LEMMA NewPolicyIsAPolicy ==
    ASSUME NEW config \in Configs
    PROVE  NewPolicy(config) \in Policies /\ NewPolicy(config).policy_epoch = 1
BY DEF NewPolicy, Policies, TenantStates, Epochs

(* The item codec loses nothing: what is read is what was put. *)
THEOREM StoredIsIdentity ==
    ASSUME NEW policy \in Policies
    PROVE  Stored(policy) = policy
<1>1. \A f \in Fields : ItemToPolicy(PolicyToItem(policy)).config[f] = policy.config[f]
  BY DEF ItemToPolicy, PolicyToItem
<1>2. ItemToPolicy(PolicyToItem(policy)).config = policy.config
  BY <1>1 DEF ItemToPolicy, PolicyToItem, Policies, Configs
<1>. QED
  BY <1>2 DEF Stored, ItemToPolicy, PolicyToItem, Policies
=============================================================================
