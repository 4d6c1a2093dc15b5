------------------------- MODULE DynamoDbPolicyStore -------------------------
(***************************************************************************)
(* DynamoDbPolicyStore of policy/store.py as several backend tasks use it. *)
(* The backend runs one or more ECS tasks; a task handles one request at a *)
(* time (async handlers with synchronous bodies), but the calls of two     *)
(* tasks interleave, one DynamoDB request at a time.  Every write is       *)
(*                                                                         *)
(*   get_item -> [get_item of the history row] -> put_item into history    *)
(*            -> put_item into the policy table                            *)
(*                                                                         *)
(* and the task may die, or a request raise, between any two of them.      *)
(* Only create and apply_change put the policy on a condition.             *)
(***************************************************************************)
EXTENDS PolicyModel

CONSTANTS
    Tasks,          \* the running backend tasks
    Operations,     \* the store operations the run makes
    EventualReads,  \* get_item is not a ConsistentRead: may it return an old version?
    HistoryTable,   \* whether the optional history table is configured
    NoCall          \* a task that is not inside a store call

ASSUME StoreAssumption ==
    /\ EventualReads \in BOOLEAN
    /\ HistoryTable \in BOOLEAN

VARIABLES
    table,          \* the policy table: tenant_id -> its item (decoded)
    archived,       \* the history table: tenant_id -> its rows (decoded)
    versions,       \* tenant_id -> every version the policy table ever held
    call            \* task -> the store call it is executing

\* History variable: it records what happened and constrains no step.
VARIABLE
    raced           \* tenants whose policy an unconditional put replaced unread

storeVars == <<table, archived, versions, call, raced>>

(* A store call between two DynamoDB requests: the locals of the method.   *)
(* next is the request it is about to make.                                *)
Calls == [next: {"get_target", "archive", "put"},
          tenant: Tenants,
          current: Policies,                    \* what its get() returned
          updated: Policies \cup {NoPolicy},    \* what it will put
          conditional: BOOLEAN,                 \* put with a ConditionExpression?
          target_epoch: Nat]                    \* rollback's argument, 0 otherwise

Init ==
    /\ table = [t \in Tenants |-> NoPolicy]
    /\ archived = [t \in Tenants |-> {}]
    /\ versions = [t \in Tenants |-> {}]
    /\ call = [k \in Tasks |-> NoCall]
    /\ raced = {}

-----------------------------------------------------------------------------
(* DynamoDB, as the code uses it. *)

(* get(): the item now, or, with eventually consistent reads, any version   *)
(* the item has had.  No version to return is UnknownTenantError, which    *)
(* ends the call before it did anything and is no step.                    *)
Readable(t) == IF EventualReads THEN versions[t] ELSE {table[t]} \ {NoPolicy}

(* put_item into the policy table. *)
PutItem(t, policy) ==
    /\ table' = [table EXCEPT ![t] = Stored(policy)]
    /\ versions' = [versions EXCEPT ![t] = @ \cup {Stored(policy)}]

-----------------------------------------------------------------------------
(* The store's methods. *)

(* create: one conditional put.  A row that exists fails the condition     *)
(* (TenantAlreadyExistsError) and nothing changes.                         *)
Create(t, config) ==
    /\ "create" \in Operations
    /\ table[t] = NoPolicy
    /\ PutItem(t, NewPolicy(config))
    /\ UNCHANGED <<archived, call, raced>>

(* The first request of every other method is get(). *)
Begin(k, op, t, next, current, updated, conditional, target_epoch) ==
    /\ op \in Operations
    /\ call[k] = NoCall
    /\ current.policy_epoch < MaxEpoch
    /\ call' = [call EXCEPT ![k] = [next |-> next, tenant |-> t,
                                    current |-> current, updated |-> updated,
                                    conditional |-> conditional,
                                    target_epoch |-> target_epoch]]
    /\ UNCHANGED <<table, archived, versions, raced>>

SetState(k, t, state) ==
    \E current \in Readable(t) :
        Begin(k, "set_state", t, "archive", current, WithState(current, state), FALSE, 0)

(* Mutant of ApplyChange: it checks the epoch it read, and not again when it puts. *)
ApplyUnconditionally(k, t, changes, expected_epoch) ==
    \E current \in Readable(t) :
        /\ current.policy_epoch = expected_epoch
        /\ Begin(k, "apply_change", t, "archive", current,
                 ApplyFieldChanges(current, changes), FALSE, 0)

(* An epoch other than the expected one is PolicyEpochConflictError, at once. *)
ApplyChange(k, t, changes, expected_epoch) ==
    \E current \in Readable(t) :
        /\ current.policy_epoch = expected_epoch
        /\ Begin(k, "apply_change", t, "archive", current,
                 ApplyFieldChanges(current, changes), TRUE, 0)

Rollback(k, t, target_epoch) ==
    /\ HistoryTable
    /\ \E current \in Readable(t) :
           Begin(k, "rollback", t, "get_target", current, NoPolicy, FALSE, target_epoch)

(* Mutant of GetTarget: any row of the tenant will do. *)
GetAnyTarget(k) ==
    /\ call[k] # NoCall
    /\ call[k].next = "get_target"
    /\ \E target \in archived[call[k].tenant] :
          call' = [call EXCEPT ![k].next = "archive",
                               ![k].updated = Restored(target, call[k].current)]
    /\ UNCHANGED <<table, archived, versions, raced>>

(* rollback's second request: the history row of the target epoch. *)
GetTarget(k) ==
    /\ call[k] # NoCall
    /\ call[k].next = "get_target"
    /\ \E target \in archived[call[k].tenant] :
          /\ target.policy_epoch = call[k].target_epoch
          /\ call' = [call EXCEPT ![k].next = "archive",
                                  ![k].updated = Restored(target, call[k].current)]
    /\ UNCHANGED <<table, archived, versions, raced>>

(* NoPriorPolicyVersionError: the row is not there, or an eventually       *)
(* consistent read does not see it yet.                                    *)
NoTarget(k) ==
    /\ call[k] # NoCall
    /\ call[k].next = "get_target"
    /\ EventualReads \/ call[k].target_epoch \notin EpochsOf(archived[call[k].tenant])
    /\ call' = [call EXCEPT ![k] = NoCall]
    /\ UNCHANGED <<table, archived, versions, raced>>

(* Mutants of Archive: it stores the new version; it stores nothing. *)
ArchiveUpdated(k) ==
    /\ call[k] # NoCall
    /\ call[k].next = "archive"
    /\ archived' = [archived EXCEPT ![call[k].tenant] = PutVersion(@, Stored(call[k].updated))]
    /\ call' = [call EXCEPT ![k].next = "put"]
    /\ UNCHANGED <<table, versions, raced>>
ArchiveSkipped(k) ==
    /\ call[k] # NoCall
    /\ call[k].next = "archive"
    /\ call' = [call EXCEPT ![k].next = "put"]
    /\ UNCHANGED <<table, archived, versions, raced>>

(* _archive: an unconditional put keyed by (tenant_id, policy_epoch). *)
Archive(k) ==
    /\ call[k] # NoCall
    /\ call[k].next = "archive"
    /\ archived' = IF HistoryTable
                   THEN [archived EXCEPT ![call[k].tenant] = PutVersion(@, Stored(call[k].current))]
                   ELSE archived
    /\ call' = [call EXCEPT ![k].next = "put"]
    /\ UNCHANGED <<table, versions, raced>>

(* Mutant of ConditionHolds: only that the tenant exists. *)
ConditionOnExistence(k) == call[k].conditional => table[call[k].tenant] # NoPolicy

(* The condition of the final put: "policy_epoch = :expected". *)
ConditionHolds(k) ==
    call[k].conditional =>
        /\ table[call[k].tenant] # NoPolicy
        /\ table[call[k].tenant].policy_epoch = call[k].current.policy_epoch

(* An unconditional put races: another write has replaced the version its  *)
(* call read, and it replaces that write's without having read it.         *)
Races(k) == ~call[k].conditional /\ table[call[k].tenant] # call[k].current

Put(k) ==
    /\ call[k] # NoCall
    /\ call[k].next = "put"
    /\ ConditionHolds(k)
    /\ PutItem(call[k].tenant, call[k].updated)
    /\ raced' = IF Races(k) THEN raced \cup {call[k].tenant} ELSE raced
    /\ call' = [call EXCEPT ![k] = NoCall]
    /\ UNCHANGED archived

(* The condition failed: PolicyEpochConflictError, nothing written. *)
PutRefused(k) ==
    /\ call[k] # NoCall
    /\ call[k].next = "put"
    /\ ~ConditionHolds(k)
    /\ call' = [call EXCEPT ![k] = NoCall]
    /\ UNCHANGED <<table, archived, versions, raced>>

(* The task dies, or a request raises, between two requests. *)
Abort(k) ==
    /\ call[k] # NoCall
    /\ call' = [call EXCEPT ![k] = NoCall]
    /\ UNCHANGED <<table, archived, versions, raced>>

Start(k, t) ==
    \/ \E state \in StateInputs : SetState(k, t, state)
    \/ \E changes \in ChangeInputs, epoch \in 1..MaxEpoch : ApplyChange(k, t, changes, epoch)
    \/ \E epoch \in 1..MaxEpoch : Rollback(k, t, epoch)

Continue(k) ==
    GetTarget(k) \/ NoTarget(k) \/ Archive(k) \/ Put(k) \/ PutRefused(k) \/ Abort(k)

Next ==
    \/ \E t \in Tenants, config \in NewConfigs : Create(t, config)
    \/ \E k \in Tasks, t \in Tenants : Start(k, t)
    \/ \E k \in Tasks : Continue(k)

Spec == Init /\ [][Next]_storeVars

-----------------------------------------------------------------------------
(* What holds whatever the tasks do: any number of them, every operation,  *)
(* stale reads, crashes.                                                   *)

TypeOK ==
    /\ table \in [Tenants -> Policies \cup {NoPolicy}]
    /\ archived \in [Tenants -> SUBSET Policies]
    /\ versions \in [Tenants -> SUBSET Policies]
    /\ call \in [Tasks -> Calls \cup {NoCall}]
    /\ raced \subseteq Tenants

(* The history table never shows a version the tenant was never governed   *)
(* by: a row archived by a call that then failed, or read stale, is still  *)
(* a version that was live.                                                *)
ArchivedWasLive == \A t \in Tenants : archived[t] \subseteq versions[t]

(* Archiving before writing leaves no hole: for every version the tenant   *)
(* ever had there is a rollback target at each epoch below it, even when    *)
(* calls crash halfway or race.                                            *)
HistoryHasNoGap ==
    HistoryTable =>
        \A t \in Tenants : \A p \in versions[t] :
            1..(p.policy_epoch - 1) \subseteq EpochsOf(archived[t])

(* What a rollback is about to write is a version that was live at the     *)
(* epoch it was asked for, renumbered - never a mix of two versions.       *)
RollbackRestoresAVersion ==
    \A k \in Tasks :
        (call[k] # NoCall /\ call[k].target_epoch # 0 /\ call[k].updated # NoPolicy) =>
            \E target \in versions[call[k].tenant] :
                /\ target.policy_epoch = call[k].target_epoch
                /\ call[k].updated = Restored(target, call[k].current)

-----------------------------------------------------------------------------
(* What holds of a tenant until an unconditional put of it races.  None does *)
(* when only the conditional operations are used, or when one task does all *)
(* the writing and reads its own writes.                                   *)

ConditionalWritesOnly == Operations \cap {"set_state", "rollback"} = {}

OneTaskReadingItsWrites ==
    /\ ~EventualReads
    /\ \A k, l \in Tasks : k = l

Disciplined == ConditionalWritesOnly \/ OneTaskReadingItsWrites

(* No unconditional put has overtaken another write: nothing was lost.     *)
NoRaces == raced = {}

(* A policy_epoch names one version: an approval based on "epoch n" means  *)
(* the policy its proposer saw.                                            *)
EpochNamesOneVersion ==
    \A t \in Tenants \ raced :
        \A p, q \in versions[t] : p.policy_epoch = q.policy_epoch => p = q

(* Every version that is no longer current can be found in the history. *)
HistoryKeepsEveryVersion ==
    HistoryTable =>
        \A t \in Tenants \ raced : \A p \in versions[t] : p = table[t] \/ p \in archived[t]

(* _archive's unconditional put never replaces a row by another version     *)
(* (admin_routes.py, rollback: "never rewrites history in place").          *)
HistoryRowsStay ==
    [][\A t \in Tenants \ raced : archived[t] \subseteq archived'[t]]_storeVars

(* The store is the atomic store of InMemoryPolicyStore: its history is    *)
(* the rows older than the current version (a call that archived the       *)
(* current version and then failed has left one more).                     *)
HistoryBeforeCurrent ==
    [t \in Tenants |-> {p \in archived[t] : table[t] # NoPolicy /\ p.policy_epoch < table[t].policy_epoch}]

Atomic == INSTANCE InMemoryPolicyStore WITH policies <- table, history <- HistoryBeforeCurrent

(* Every write of the detailed store is one call of the atomic one. *)
ImplementsAtomicStore == Atomic!Spec

=============================================================================
