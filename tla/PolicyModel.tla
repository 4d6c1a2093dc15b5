----------------------------- MODULE PolicyModel -----------------------------
(***************************************************************************)
(* The tenant policy document and the pure functions the policy stores     *)
(* share: policy/models.py and the helpers of policy/store.py.             *)
(*                                                                         *)
(* A TenantPolicy is a lifecycle state, a policy_epoch and some twenty     *)
(* configuration fields.  Nothing in the stores depends on what a field    *)
(* means, so the fields are a set of names with values from one set; a     *)
(* nested leaf (slo.p95_latency_ms) is a field of its own, which is what   *)
(* the merge in _apply_field_changes makes of it.                          *)
(***************************************************************************)
EXTENDS Naturals

CONSTANTS
    Tenants,        \* tenant_ids
    Fields,         \* the editable fields of a policy (validation.py _KNOWN_FIELDS)
    Values,         \* the values a field may take
    Default,        \* what a field is when nobody set it, one value per field
    AlwaysStored,   \* the fields _policy_to_item writes even at their default
    NoPolicy        \* "no such tenant": get() raising UnknownTenantError

\* The calls a run makes: every operation takes its arguments from these.
CONSTANTS
    NewConfigs,     \* the configurations onboarding requests ask for
    StateInputs,    \* the states set_state is called with
    ChangeInputs,   \* the change sets apply_change is called with
    MaxEpoch        \* bound: no write starts from a policy at this epoch

(* The lifecycle states of a tenant. *)
TenantStates == {"ACTIVE", "THROTTLED", "READ_ONLY", "SUSPENDED", "EMERGENCY_BLOCK"}

Epochs == Nat \ {0}
Configs == [Fields -> Values]
Policies == [state: TenantStates, config: Configs, policy_epoch: Epochs]

(* The body of a change request: some fields, at least one, each with its  *)
(* new value.  validate_policy_changes refuses everything else, state and  *)
(* policy_epoch included.                                                  *)
ChangeSets == UNION {[D -> Values] : D \in (SUBSET Fields) \ {{}}}

ASSUME PolicyModelAssumption ==
    /\ Default \in Configs
    /\ AlwaysStored \subseteq Fields
    /\ NoPolicy \notin Policies

ASSUME InputAssumption ==
    /\ NewConfigs \subseteq Configs
    /\ StateInputs \subseteq TenantStates
    /\ ChangeInputs \subseteq ChangeSets
    /\ MaxEpoch \in Nat

-----------------------------------------------------------------------------
(* What a write makes of the policy it starts from. *)

(* _apply_field_changes: the named fields replaced, the others kept, one epoch up. *)
ApplyFieldChanges(current, changes) ==
    [state |-> current.state,
     config |-> [f \in Fields |-> IF f \in DOMAIN changes THEN changes[f]
                                                          ELSE current.config[f]],
     policy_epoch |-> current.policy_epoch + 1]

(* set_state's dataclasses.replace: only the state, one epoch up. *)
WithState(current, state) ==
    [state |-> state, config |-> current.config,
     policy_epoch |-> current.policy_epoch + 1]

(* Mutants of Restored: the target's own epoch plus one; minus one. *)
RestoredAtOldEpoch(target, current) ==
    [state |-> target.state, config |-> target.config,
     policy_epoch |-> target.policy_epoch + 1]
RestoredBelowEpoch(target, current) ==
    [state |-> target.state, config |-> target.config,
     policy_epoch |-> target.policy_epoch - 1]

(* rollback's dataclasses.replace: all of the target, one epoch above the current. *)
Restored(target, current) ==
    [state |-> target.state, config |-> target.config,
     policy_epoch |-> current.policy_epoch + 1]

(* The policy provisioning creates: ACTIVE, at the dataclass default epoch. *)
NewPolicy(config) == [state |-> "ACTIVE", config |-> config, policy_epoch |-> 1]

(* Mutant of PutVersion: only the last version is kept. *)
PutLastVersion(rows, policy) == {policy}

(* A version store keyed by policy_epoch (the dict _history[tenant_id], or *)
(* the history table's (tenant_id, policy_epoch) key) is the set of its    *)
(* rows; putting a row replaces the one with its key.                      *)
PutVersion(rows, policy) ==
    {row \in rows : row.policy_epoch # policy.policy_epoch} \cup {policy}

EpochsOf(rows) == {row.policy_epoch : row \in rows}

-----------------------------------------------------------------------------
(* The DynamoDB item of a policy.  An optional field at its default is left *)
(* out of the item and filled in again on the way back.                    *)

(* Mutant of PolicyToItem: an optional field is forgotten. *)
PolicyToItemRequiredOnly(policy) ==
    [state |-> policy.state,
     policy_epoch |-> policy.policy_epoch,
     attributes |-> [f \in AlwaysStored |-> policy.config[f]]]

PolicyToItem(policy) ==
    LET present == {f \in Fields : f \in AlwaysStored \/ policy.config[f] # Default[f]}
    IN  [state |-> policy.state,
         policy_epoch |-> policy.policy_epoch,
         attributes |-> [f \in present |-> policy.config[f]]]

ItemToPolicy(item) ==
    [state |-> item.state,
     config |-> [f \in Fields |-> IF f \in DOMAIN item.attributes THEN item.attributes[f]
                                                                  ELSE Default[f]],
     policy_epoch |-> item.policy_epoch]

(* What a get_item returns of a policy that put_item stored. *)
Stored(policy) == ItemToPolicy(PolicyToItem(policy))
=============================================================================
