------------------------ MODULE PolicyChangeWorkflow ------------------------
(***************************************************************************)
(* The admin endpoints that change a tenant's policy (api/admin_routes.py) *)
(* over the DynamoDB stores: propose, approve and reject of a policy       *)
(* change request (policy/change_requests.py), rollback, the kill switch   *)
(* (set_tenant_state), the audit trail each of them writes and the         *)
(* per-task policy snapshot cache (policy/cache.py) each of them evicts.   *)
(*                                                                         *)
(* A request runs on one task from its first DynamoDB call to its last;    *)
(* the calls of the policy store are those of DynamoDbPolicyStore.         *)
(***************************************************************************)
EXTENDS DynamoDbPolicyStore

CONSTANTS
    ChangeIds,      \* change_ids (uuids: never used twice)
    NoChange,       \* no such change request
    NoRequest       \* a task that is handling no request

VARIABLES
    changeTable,    \* the policy change table: change_id -> its item
    request,        \* task -> the request it is handling
    cache,          \* task -> tenant_id -> the snapshot its process caches
    loading,        \* task -> the snapshot policy_cache.get has read and not cached yet
    audit           \* the audit table: the events recorded

\* History variables: they record what happened and constrain no step.
VARIABLES
    basis,          \* change_id -> the version its proposer was looking at
    applied,        \* change_id -> how often its edit was written (2: more than once)
    interrupted,    \* change_ids one of whose handlers was cut short
    unread          \* task -> the tenants it acknowledged a write of and has not read since

changeVars == <<changeTable, audit, basis, applied, interrupted>>
cacheVars == <<cache, loading, unread>>
vars == <<storeVars, request, changeVars, cacheVars>>

Statuses == {"PENDING_APPROVAL", "APPLIED", "REJECTED"}
ChangeRecords == [tenant: Tenants, changes: ChangeSets, base_policy_epoch: Epochs,
                  status: Statuses]

(* A request between two calls: its next step, the change or rollback it   *)
(* is about, and the change record it will put.  A rollback's audit event   *)
(* names the tenant, the new epoch and ("restored to epoch") the target.   *)
Subjects == ChangeIds \cup {NoChange} \cup (Tenants \X Epochs \X Epochs)
Requests == [step: {"apply", "store", "put_change", "audit"},
             subject: Subjects,
             record: ChangeRecords \cup {NoChange}]

Loads == [tenant: Tenants, policy: Policies]

(* What a change request is about, its status apart (ReviewedPolicyStore). *)
Proposals == [tenant: Tenants, changes: ChangeSets, seen: Policies]

ASSUME WorkflowAssumption ==
    /\ NoChange \notin ChangeRecords \cup Proposals
    /\ NoPolicy \notin Loads
    /\ NoRequest \notin Requests

WorkflowInit ==
    /\ Init
    /\ changeTable = [c \in ChangeIds |-> NoChange]
    /\ request = [k \in Tasks |-> NoRequest]
    /\ cache = [k \in Tasks |-> [t \in Tenants |-> NoPolicy]]
    /\ loading = [k \in Tasks |-> NoPolicy]
    /\ audit = {}
    /\ basis = [c \in ChangeIds |-> NoPolicy]
    /\ applied = [c \in ChangeIds |-> 0]
    /\ interrupted = {}
    /\ unread = [k \in Tasks |-> {}]

(* A handler is an async function with a synchronous body: its task does   *)
(* nothing else until it ends, so get and invalidate never interleave on a  *)
(* task, although get refetches outside the cache's lock.                   *)
Idle(k) == request[k] = NoRequest /\ loading[k] = NoPolicy
AtStep(k, step) == request[k] # NoRequest /\ request[k].step = step
Finish(k) == request' = [request EXCEPT ![k] = NoRequest]

Handles(k, c) ==
    request[k] # NoRequest /\ request[k].record # NoChange /\ request[k].subject = c

(* The handler ends where the code does not say so. *)
CutShort(k) ==
    /\ Finish(k)
    /\ interrupted' = interrupted \cup {c \in ChangeIds : Handles(k, c)}

Acknowledge(k, t) == unread' = [unread EXCEPT ![k] = @ \cup {t}]

(* Mutant of Evict: the write is acknowledged without an invalidate. *)
EvictNothing(k, t) == Acknowledge(k, t) /\ UNCHANGED <<cache, loading>>

(* policy_cache.invalidate, and the answer that follows it. *)
Evict(k, t) ==
    /\ cache' = [cache EXCEPT ![k][t] = NoPolicy]
    /\ Acknowledge(k, t)
    /\ UNCHANGED loading

-----------------------------------------------------------------------------
(* The first call of each request. *)

(* Provisioning creates the tenant (onboarding/provisioning.py). *)
Onboard(t, config) ==
    /\ Create(t, config)
    /\ UNCHANGED <<request, changeVars, cacheVars>>

(* set_tenant_state.  Its extra get() in LayeredPolicyStore.set_state only *)
(* tells a provisioned tenant from a file-managed one.                     *)
SetTenantState(k, t, state) ==
    /\ Idle(k)
    /\ SetState(k, t, state)
    /\ request' = [request EXCEPT ![k] = [step |-> "store", subject |-> NoChange,
                                          record |-> NoChange]]
    /\ UNCHANGED <<changeVars, cacheVars>>

RollbackPolicy(k, t, target_epoch) ==
    /\ Idle(k)
    /\ Rollback(k, t, target_epoch)
    /\ request' = [request EXCEPT ![k] = [step |-> "store", subject |-> NoChange,
                                          record |-> NoChange]]
    /\ UNCHANGED <<changeVars, cacheVars>>

(* propose_policy_change: the tenant is read only to see that it exists;   *)
(* base_policy_epoch is the epoch of the version the proposer looked at.   *)
Propose(k, c, t, changes, seen) ==
    /\ "propose" \in Operations
    /\ Idle(k)
    /\ changeTable[c] = NoChange
    /\ \A l \in Tasks : ~Handles(l, c)
    /\ Readable(t) # {}
    /\ seen \in versions[t]
    /\ seen.policy_epoch < MaxEpoch
    /\ request' = [request EXCEPT ![k] =
                      [step |-> "put_change", subject |-> c,
                       record |-> [tenant |-> t, changes |-> changes,
                                   base_policy_epoch |-> seen.policy_epoch,
                                   status |-> "PENDING_APPROVAL"]]]
    /\ basis' = [basis EXCEPT ![c] = seen]
    /\ UNCHANGED <<storeVars, changeTable, audit, applied, interrupted, cacheVars>>

(* policy_change_store.get: the record now, or the pending one it was. *)
ReadsPending(c) ==
    /\ changeTable[c] # NoChange
    /\ changeTable[c].status = "PENDING_APPROVAL" \/ EventualReads

Decide(k, c, op, step, status) ==
    /\ op \in Operations
    /\ Idle(k)
    /\ ReadsPending(c)
    /\ request' = [request EXCEPT ![k] =
                      [step |-> step, subject |-> c,
                       record |-> [changeTable[c] EXCEPT !.status = status]]]
    /\ UNCHANGED <<storeVars, changeVars, cacheVars>>

(* Mutant of Approve: the record it is to put is the one it read. *)
ApproveStillPending(k, c) == Decide(k, c, "approve", "apply", "PENDING_APPROVAL")

(* Mutant of Approve: it writes onboarding's status, not its own. *)
ApproveAsOnboarding(k, c) == Decide(k, c, "approve", "apply", "APPROVED")

Approve(k, c) == Decide(k, c, "approve", "apply", "APPLIED")
Reject(k, c) == Decide(k, c, "reject", "put_change", "REJECTED")

-----------------------------------------------------------------------------
(* The calls that follow. *)

(* Mutant of Apply: it expects the epoch there is, not the record's. *)
ApplyToAnyEpoch(k) ==
    /\ AtStep(k, "apply")
    /\ \E epoch \in 1..MaxEpoch :
          ApplyChange(k, request[k].record.tenant, request[k].record.changes, epoch)
    /\ request' = [request EXCEPT ![k].step = "store"]
    /\ UNCHANGED <<changeVars, cacheVars>>

(* approve: apply_change of the policy store, from its get() on. *)
Apply(k) ==
    /\ AtStep(k, "apply")
    /\ ApplyChange(k, request[k].record.tenant, request[k].record.changes,
                   request[k].record.base_policy_epoch)
    /\ request' = [request EXCEPT ![k].step = "store"]
    /\ UNCHANGED <<changeVars, cacheVars>>

(* get() showed another epoch: 409 POLICY_EPOCH_CONFLICT, still pending. *)
ApplyConflict(k) ==
    /\ AtStep(k, "apply")
    /\ \E current \in Readable(request[k].record.tenant) :
          current.policy_epoch # request[k].record.base_policy_epoch
    /\ Finish(k)
    /\ UNCHANGED <<storeVars, changeVars, cacheVars>>

StoreStep(k) ==
    /\ GetTarget(k) \/ Archive(k)
    /\ UNCHANGED <<request, changeVars, cacheVars>>

(* Mutant of StoreRaises: approve carries on after a conflict. *)
ConflictIgnored(k) ==
    /\ NoTarget(k) \/ PutRefused(k)
    /\ IF request[k].record # NoChange
       THEN request' = [request EXCEPT ![k].step = "put_change"]
       ELSE Finish(k)
    /\ UNCHANGED <<changeVars, cacheVars>>

(* The store raised: 404 NO_PRIOR_POLICY_VERSION or 409 POLICY_EPOCH_CONFLICT. *)
StoreRaises(k) ==
    /\ NoTarget(k) \/ PutRefused(k)
    /\ Finish(k)
    /\ UNCHANGED <<changeVars, cacheVars>>

IsApproval(k) == request[k].record # NoChange

(* The final put took effect. *)
Written(k) ==
    /\ AtStep(k, "store")
    /\ Put(k)
    /\ applied' = IF IsApproval(k)
                  THEN [applied EXCEPT ![request[k].subject] = IF @ < 2 THEN @ + 1 ELSE @]
                  ELSE applied

(* ... and returned.  The kill switch and rollback evict the snapshot at   *)
(* once, approve does after its next put; the kill switch has no audit.    *)
PutReturns(k) ==
    /\ Written(k)
    /\ IF IsApproval(k)
       THEN /\ request' = [request EXCEPT ![k].step = "put_change"]
            /\ UNCHANGED cacheVars
       ELSE /\ Evict(k, call[k].tenant)
            /\ request' = IF call[k].target_epoch = 0
                          THEN [request EXCEPT ![k] = NoRequest]
                          ELSE [request EXCEPT ![k].step = "audit",
                                   ![k].subject = <<call[k].tenant, call[k].updated.policy_epoch,
                                                    call[k].target_epoch>>]
    /\ UNCHANGED <<changeTable, audit, basis, interrupted>>

(* ... but its answer was lost.  The SDK's retry of a conditional put then *)
(* fails its own condition and is reported as a conflict; an unconditional *)
(* one raises when the retries run out.  Either way the handler ends.      *)
PutReplyLost(k) ==
    /\ Written(k)
    /\ CutShort(k)
    /\ UNCHANGED <<changeTable, audit, basis, cacheVars>>

(* policy_change_store.put took effect: the whole record, unconditionally. *)
RecordWritten(k) ==
    /\ AtStep(k, "put_change")
    /\ changeTable' = [changeTable EXCEPT ![request[k].subject] = request[k].record]
    /\ UNCHANGED <<storeVars, audit, basis, applied>>

(* ... and returned; approve evicts the tenant's snapshot next, a step of   *)
(* this process that nothing comes between.                                *)
PutChange(k) ==
    /\ RecordWritten(k)
    /\ IF request[k].record.status = "APPLIED"
       THEN Evict(k, request[k].record.tenant)
       ELSE UNCHANGED cacheVars
    /\ request' = [request EXCEPT ![k].step = "audit"]
    /\ UNCHANGED interrupted

(* ... but its answer was lost: the handler ends, and what follows the put  *)
(* is not done.                                                            *)
ChangeReplyLost(k) ==
    /\ RecordWritten(k)
    /\ CutShort(k)
    /\ UNCHANGED cacheVars

(* audit_store.record, the last call of every request that has one. *)
RecordAudit(k) ==
    /\ AtStep(k, "audit")
    /\ audit' = audit \cup {[request_id |-> request[k].subject,
                             event |-> IF IsApproval(k) THEN request[k].record.status
                                                        ELSE "POLICY_ROLLED_BACK"]}
    /\ Finish(k)
    /\ UNCHANGED <<storeVars, changeTable, basis, applied, interrupted, cacheVars>>

-----------------------------------------------------------------------------
(* Failures, and the cache between requests. *)

Unload(k) == loading' = [loading EXCEPT ![k] = NoPolicy]

(* A call raises: the request ends with a 500.  What get() was about to     *)
(* cache is dropped, what it had cached stays.                             *)
Fail(k) ==
    /\ ~Idle(k)
    /\ Abort(k) \/ (call[k] = NoCall /\ UNCHANGED storeVars)
    /\ CutShort(k)
    /\ Unload(k)
    /\ UNCHANGED <<changeTable, audit, basis, applied, cache, unread>>

(* The task dies and is replaced: its memory is gone. *)
Restart(k) ==
    /\ Abort(k) \/ (call[k] = NoCall /\ UNCHANGED storeVars)
    /\ CutShort(k)
    /\ Unload(k)
    /\ cache' = [cache EXCEPT ![k] = [t \in Tenants |-> NoPolicy]]
    /\ UNCHANGED <<changeTable, audit, basis, applied, unread>>

(* policy_cache.get, called by a usage or tenant listing, misses and reads  *)
(* the store.  When it misses is up to the clock (PolicySnapshotCache), so *)
(* here it may at any time; an expired snapshot stays until it is replaced. *)
ReadSnapshot(k, t) ==
    /\ "read" \in Operations
    /\ Idle(k)
    /\ \E policy \in Readable(t) :
          loading' = [loading EXCEPT ![k] = [tenant |-> t, policy |-> policy]]
    /\ unread' = [unread EXCEPT ![k] = @ \ {t}]
    /\ UNCHANGED <<storeVars, request, changeVars, cache>>

(* ... and caches what it read. *)
StoreSnapshot(k) ==
    /\ loading[k] # NoPolicy
    /\ cache' = [cache EXCEPT ![k][loading[k].tenant] = loading[k].policy]
    /\ Unload(k)
    /\ UNCHANGED <<storeVars, request, changeVars, unread>>

Receive(k) ==
    \/ \E t \in Tenants, state \in StateInputs : SetTenantState(k, t, state)
    \/ \E t \in Tenants, epoch \in 1..MaxEpoch : RollbackPolicy(k, t, epoch)
    \/ \E c \in ChangeIds, t \in Tenants, changes \in ChangeInputs :
          \E seen \in versions[t] : Propose(k, c, t, changes, seen)
    \/ \E c \in ChangeIds : Approve(k, c) \/ Reject(k, c)

Handle(k) ==
    \/ Apply(k) \/ ApplyConflict(k) \/ StoreStep(k) \/ StoreRaises(k)
    \/ PutReturns(k) \/ PutReplyLost(k)
    \/ PutChange(k) \/ ChangeReplyLost(k) \/ RecordAudit(k)

RequestNext ==
    \/ \E t \in Tenants, config \in NewConfigs : Onboard(t, config)
    \/ \E k \in Tasks : Receive(k) \/ Handle(k) \/ Fail(k) \/ Restart(k)

WorkflowNext ==
    \/ RequestNext
    \/ \E k \in Tasks, t \in Tenants : ReadSnapshot(k, t)
    \/ \E k \in Tasks : StoreSnapshot(k)

WorkflowSpec == WorkflowInit /\ [][WorkflowNext]_vars

-----------------------------------------------------------------------------
WorkflowTypeOK ==
    /\ TypeOK
    /\ changeTable \in [ChangeIds -> ChangeRecords \cup {NoChange}]
    /\ request \in [Tasks -> Requests \cup {NoRequest}]
    /\ cache \in [Tasks -> [Tenants -> Policies \cup {NoPolicy}]]
    /\ loading \in [Tasks -> Loads \cup {NoPolicy}]
    /\ audit \subseteq [request_id: Subjects, event: Statuses \cup {"POLICY_ROLLED_BACK"}]
    /\ basis \in [ChangeIds -> Policies \cup {NoPolicy}]
    /\ applied \in [ChangeIds -> 0..2]
    /\ interrupted \subseteq ChangeIds
    /\ unread \in [Tasks -> SUBSET Tenants]

(* An approval is never reported that did not happen: a record says        *)
(* APPLIED, or the audit trail does, only if the edit was written - whatever *)
(* requests raced, crashed or read stale data on the way.                  *)
AppliedIsTrue ==
    \A c \in ChangeIds :
        (\/ changeTable[c] # NoChange /\ changeTable[c].status = "APPLIED"
         \/ [request_id |-> c, event |-> "APPLIED"] \in audit) => applied[c] > 0

(* ... and the other way round: an edit that was written is not forgotten.   *)
(* Once nobody handles its change any more, the record is no longer        *)
(* pending and the audit trail says APPLIED - even if another admin's       *)
(* rejection raced the approval - unless a handler of it was cut short.     *)
AppliedIsReported ==
    \A c \in ChangeIds :
        (applied[c] > 0 /\ c \notin interrupted /\ \A k \in Tasks : ~Handles(k, c)) =>
            /\ changeTable[c].status \in {"APPLIED", "REJECTED"}
            /\ [request_id |-> c, event |-> "APPLIED"] \in audit

(* The version an audit event names has the state and the configuration of *)
(* the version of the target epoch, of the same tenant.                    *)
WasRolledBack(event) ==
    LET t == event[1]
    IN  \E restored, target \in versions[t] :
            /\ restored.policy_epoch = event[2]
            /\ target.policy_epoch = event[3]
            /\ restored.state = target.state /\ restored.config = target.config

(* "restored to epoch n" in the audit trail is true, although other tasks   *)
(* may have used either epoch twice.                                       *)
RollbacksAreTrue ==
    \A row \in audit : row.event = "POLICY_ROLLED_BACK" => WasRolledBack(row.request_id)

WritesEdit(k) == AtStep(k, "store") /\ IsApproval(k) /\ table' # table /\ call'[k] # call[k]

(* What base_policy_epoch guarantees however the table is used: an approval *)
(* never takes the place of a policy with another epoch than its record    *)
(* names, though between get() and put anything may have been written.     *)
AppliedOnItsEpoch ==
    [][\A k \in Tasks : WritesEdit(k) =>
              /\ table[request[k].record.tenant] # NoPolicy
              /\ table[request[k].record.tenant].policy_epoch
                    = request[k].record.base_policy_epoch]_vars

-----------------------------------------------------------------------------
(* What the conditional write of apply_change buys a tenant until an        *)
(* unconditional put of its policy races (raced): crashes, lost answers,   *)
(* stale reads and repeated approvals of the same change are all harmless. *)

(* An edit is written at most once, however often it is approved. *)
AppliedAtMostOnce ==
    \A c \in ChangeIds : applied[c] > 1 => changeTable[c].tenant \in raced

(* Of the edits proposed against one version of a tenant, at most one is    *)
(* ever written (the race the comment in apply_change is about).           *)
OneEditPerVersion ==
    \A c, d \in ChangeIds :
        (/\ c # d
         /\ applied[c] > 0 /\ applied[d] > 0
         /\ changeTable[c].tenant = changeTable[d].tenant
         /\ changeTable[c].tenant \notin raced) =>
            basis[c].policy_epoch # basis[d].policy_epoch

OnItsBasis(k) == table[request[k].record.tenant] = basis[request[k].subject]

(* change_requests.py, base_policy_epoch: "an approval can never silently   *)
(* apply on top of an intervening, unrelated write".  The edit goes on top  *)
(* of exactly the version its proposer looked at ...                       *)
AppliedOnItsBasis == [][\A k \in Tasks : WritesEdit(k) => OnItsBasis(k)]_vars

(* ... which the code keeps for every tenant none of whose kill switches or *)
(* rollbacks has raced, whatever has become of the other tenants.          *)
OnlyRacesMissTheBasis ==
    [][\A k \in Tasks :
          (WritesEdit(k) /\ request[k].record.tenant \notin raced) => OnItsBasis(k)]_vars

(* All of it at once: tasks, requests, stale reads, lost answers and crashes *)
(* are the reviewed store of ReviewedPolicyStore.  A change is proposed when *)
(* its record is first put, and written when the policy table's put takes   *)
(* effect, whatever becomes of the answer, the record and the audit event;  *)
(* of a tenant that was raced the reviewed store promises less.            *)
Proposal(c) ==
    IF changeTable[c] = NoChange
    THEN NoChange
    ELSE [tenant |-> changeTable[c].tenant, changes |-> changeTable[c].changes, seen |-> basis[c]]

Reviewed == INSTANCE ReviewedPolicyStore WITH
    policies <- table,
    proposals <- [c \in ChangeIds |-> Proposal(c)],
    written <- {c \in ChangeIds : applied[c] > 0},
    Overrides <- ~ConditionalWritesOnly

ImplementsReviewedStore == Reviewed!Spec

(* invalidate's promise, "the next get() refetches": whatever a task caches  *)
(* of a tenant, it read after the last write of that tenant it             *)
(* acknowledged.  No route forgets to evict, and no read that was under way *)
(* puts an older snapshot back afterwards.                                 *)
RefetchedAfterOwnWrites ==
    \A k \in Tasks, t \in Tenants : cache[k][t] # NoPolicy => t \notin unread[k]

(* change_requests.py, module docstring: PENDING_APPROVAL -> APPLIED or     *)
(* REJECTED, "approving *is* applying, one atomic DynamoDB write, not a     *)
(* multi-step process that can fail partway through".                      *)
RejectedIsNotApplied ==
    \A c \in ChangeIds :
        (changeTable[c] # NoChange /\ changeTable[c].status = "REJECTED") => applied[c] = 0
=============================================================================
