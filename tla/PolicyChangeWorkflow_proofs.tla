---------------------- MODULE PolicyChangeWorkflow_proofs ----------------------
(***************************************************************************)
(* Proofs about the admin endpoints: they use the policy store as          *)
(* DynamoDbPolicyStore says it may be used, so everything proved of the    *)
(* store holds under them; and what they report applied was written.       *)
(***************************************************************************)
EXTENDS PolicyChangeWorkflow, DynamoDbRefinement_proofs

(* The change records that propose stores. *)
UsableRecords ==
    {r \in ChangeRecords : r.changes \in ChangeInputs /\ r.base_policy_epoch \in 1..MaxEpoch}

RollbackEvents == Tenants \X Epochs \X Epochs

(* What a handler in progress may count on: the record it carries came from *)
(* propose, and once it is to report APPLIED, or a rollback, the edit has   *)
(* been written, or the version restored.                                  *)
SoundRequest(r) ==
    /\ r \in Requests
    /\ r.record # NoChange => r.record \in UsableRecords /\ r.subject \in ChangeIds
    /\ r.step \in {"apply", "put_change"} => r.record # NoChange
    /\ (r.step = "store" /\ r.record = NoChange) => ~ConditionalWritesOnly
    /\ (r.step = "audit" /\ r.record = NoChange) =>
          r.subject \in RollbackEvents /\ WasRolledBack(r.subject)
    /\ (/\ r.step \in {"put_change", "audit"}
        /\ r.record # NoChange
        /\ r.record.status = "APPLIED") => applied[r.subject] > 0

RequestsSound == \A k \in Tasks : request[k] # NoRequest => SoundRequest(request[k])
RollbackRows ==
    \A row \in audit : row.event = "POLICY_ROLLED_BACK" => row.request_id \in RollbackEvents
RecordsUsable == \A c \in ChangeIds : changeTable[c] # NoChange => changeTable[c] \in UsableRecords

WorkflowInv ==
    /\ AnyUse
    /\ WorkflowTypeOK
    /\ RequestsSound
    /\ RecordsUsable
    /\ AppliedIsTrue
    /\ RollbackRows
    /\ RollbacksAreTrue

LEMMA WorkflowInvInit == WorkflowInit => WorkflowInv
BY AnyUseInit, WorkflowAssumption
   DEF WorkflowInit, WorkflowInv, AnyUse, WorkflowTypeOK, RequestsSound, RecordsUsable,
       AppliedIsTrue, RollbackRows, RollbacksAreTrue

-----------------------------------------------------------------------------
(* Every endpoint step is a step of the store, or leaves it alone. *)
LEMMA StepUsesStore ==
    ASSUME WorkflowInv, [WorkflowNext]_vars
    PROVE  [Next]_storeVars
<1>1. CASE UNCHANGED vars
  BY <1>1 DEF vars
<1>2. ASSUME NEW t \in Tenants, NEW config \in NewConfigs, Onboard(t, config)
      PROVE  Next
  BY <1>2 DEF Onboard, Next
<1>3. ASSUME NEW k \in Tasks, Receive(k)
      PROVE  [Next]_storeVars
  <2>1. ASSUME NEW t \in Tenants, NEW state \in StateInputs, SetTenantState(k, t, state)
        PROVE  Next
    BY <2>1 DEF SetTenantState, Start, Next
  <2>2. ASSUME NEW t \in Tenants, NEW epoch \in 1..MaxEpoch, RollbackPolicy(k, t, epoch)
        PROVE  Next
    BY <2>2 DEF RollbackPolicy, Start, Next
  <2>3. ASSUME NEW c \in ChangeIds, NEW t \in Tenants, NEW changes \in ChangeInputs,
               NEW seen \in versions[t], Propose(k, c, t, changes, seen)
        PROVE  UNCHANGED storeVars
    BY <2>3 DEF Propose
  <2>4. ASSUME NEW c \in ChangeIds, Approve(k, c) \/ Reject(k, c)
        PROVE  UNCHANGED storeVars
    BY <2>4 DEF Approve, Reject, Decide
  <2>. QED  BY <1>3, <2>1, <2>2, <2>3, <2>4 DEF Receive
<1>4. ASSUME NEW k \in Tasks, Handle(k)
      PROVE  [Next]_storeVars
  <2>1. CASE Apply(k)
    <3>1. request[k].record \in UsableRecords
      BY <2>1 DEF Apply, AtStep, WorkflowInv, RequestsSound, SoundRequest
    <3>2. /\ request[k].record.tenant \in Tenants
          /\ request[k].record.changes \in ChangeInputs
          /\ request[k].record.base_policy_epoch \in 1..MaxEpoch
      BY <3>1 DEF UsableRecords, ChangeRecords
    <3>. QED  BY <2>1, <3>2 DEF Apply, Start, Next
  <2>2. CASE StoreStep(k) \/ StoreRaises(k) \/ PutReturns(k) \/ PutReplyLost(k)
    BY <2>2 DEF StoreStep, StoreRaises, PutReturns, PutReplyLost, Written, Continue, Next
  <2>3. CASE ApplyConflict(k) \/ PutChange(k) \/ ChangeReplyLost(k) \/ RecordAudit(k)
    BY <2>3 DEF ApplyConflict, PutChange, ChangeReplyLost, RecordWritten, RecordAudit
  <2>. QED  BY <1>4, <2>1, <2>2, <2>3 DEF Handle
<1>5. ASSUME NEW k \in Tasks, Fail(k) \/ Restart(k)
      PROVE  [Next]_storeVars
  BY <1>5 DEF Fail, Restart, Continue, Next
<1>6. ASSUME NEW k \in Tasks,
             (\E t \in Tenants : ReadSnapshot(k, t)) \/ StoreSnapshot(k)
      PROVE  UNCHANGED storeVars
  BY <1>6 DEF ReadSnapshot, StoreSnapshot
<1>. QED  BY <1>1, <1>2, <1>3, <1>4, <1>5, <1>6 DEF WorkflowNext, RequestNext

-----------------------------------------------------------------------------
(* What the steps have in common. *)

(* The store's part of a step; a version once live is one for ever. *)
StoreMoved ==
    /\ AnyUse'
    /\ \A t \in Tenants : versions[t] \subseteq versions'[t]

LEMMA VersionsOnlyGrow ==
    ASSUME AnyUse, [Next]_storeVars
    PROVE  \A t \in Tenants : versions[t] \subseteq versions'[t]
<1>1. versions \in [Tenants -> SUBSET Policies]
  BY DEF AnyUse, TypeOK
<1>2. ASSUME NEW t, NEW policy, PutItem(t, policy)
      PROVE  \A u \in Tenants : versions[u] \subseteq versions'[u]
  BY <1>1, <1>2 DEF PutItem
<1>3. ASSUME NEW k \in Tasks, NEW t \in Tenants, Start(k, t)
      PROVE  versions' = versions
  BY <1>3, StartBegins DEF AnyUse
<1>. QED
  BY <1>2, <1>3
     DEF Next, Create, Continue, storeVars, GetTarget, NoTarget, Archive, Put, PutRefused, Abort

(* What was written stays written, edits and versions. *)
WritesStay ==
    /\ applied' \in [ChangeIds -> 0..2]
    /\ \A c \in ChangeIds : applied[c] > 0 => applied'[c] > 0
    /\ \A t \in Tenants : versions[t] \subseteq versions'[t]

LEMMA SameWritesStay == ASSUME WorkflowInv, StoreMoved, applied' = applied PROVE WritesStay
BY DEF WritesStay, StoreMoved, WorkflowInv, WorkflowTypeOK

(* A rollback that happened has happened for ever. *)
LEMMA RollbackStays ==
    ASSUME WritesStay, NEW e \in RollbackEvents, WasRolledBack(e)
    PROVE  WasRolledBack(e)'
<1>1. e[1] \in Tenants
  BY DEF RollbackEvents
<1>. QED  BY <1>1 DEF WasRolledBack, WritesStay

(* A handler that moves on, or ends, disturbs no other. *)
LEMMA HandlerMoves ==
    ASSUME WorkflowInv, WritesStay, NEW k \in Tasks, NEW r,
           request' = [request EXCEPT ![k] = r],
           r # NoRequest => SoundRequest(r)'
    PROVE  RequestsSound' /\ request' \in [Tasks -> Requests \cup {NoRequest}]
<1>1. request \in [Tasks -> Requests \cup {NoRequest}]
  BY DEF WorkflowInv, WorkflowTypeOK
<1>2. request'[k] = r /\ \A l \in Tasks : l # k => request'[l] = request[l]
  BY <1>1
<1>3. ASSUME NEW l \in Tasks, l # k, request[l] # NoRequest
      PROVE  SoundRequest(request[l])'
  <2>1. SoundRequest(request[l])
    BY <1>3 DEF WorkflowInv, RequestsSound
  <2>2. request'[l] = request[l]
    BY <1>2, <1>3
  <2>. QED  BY <2>1, <2>2, RollbackStays DEF SoundRequest, WritesStay
<1>4. RequestsSound'
  BY <1>2, <1>3 DEF RequestsSound
<1>. QED  BY <1>1, <1>2, <1>4 DEF SoundRequest

(* Nothing is reported that was not. *)
LEMMA SameReports ==
    ASSUME WorkflowInv, WritesStay, changeTable' = changeTable, audit' = audit
    PROVE  RecordsUsable' /\ AppliedIsTrue' /\ RollbackRows' /\ RollbacksAreTrue'
<1>1. RecordsUsable' /\ AppliedIsTrue' /\ RollbackRows'
  BY DEF WorkflowInv, WritesStay, RecordsUsable, AppliedIsTrue, RollbackRows
<1>2. RollbacksAreTrue'
  BY RollbackStays DEF WorkflowInv, RollbackRows, RollbacksAreTrue
<1>. QED  BY <1>1, <1>2

(* The eviction keeps the types of what it changes. *)
LEMMA EvictTypes ==
    ASSUME WorkflowInv, NEW k \in Tasks, NEW t \in Tenants, Evict(k, t)
    PROVE  /\ cache' \in [Tasks -> [Tenants -> Policies \cup {NoPolicy}]]
           /\ loading' \in [Tasks -> Loads \cup {NoPolicy}]
           /\ unread' \in [Tasks -> SUBSET Tenants]
BY DEF Evict, Acknowledge, WorkflowInv, WorkflowTypeOK

-----------------------------------------------------------------------------
(* The first call of each request. *)
LEMMA ReceiveKeeps ==
    ASSUME WorkflowInv, StoreMoved, NEW k \in Tasks, Receive(k)
    PROVE  WorkflowInv'
<1>. USE DEF WorkflowInv
<1>1. ASSUME NEW t \in Tenants, NEW state \in StateInputs, SetTenantState(k, t, state)
      PROVE  WorkflowInv'
  <2>. DEFINE r == [step |-> "store", subject |-> NoChange, record |-> NoChange]
  <2>1. request' = [request EXCEPT ![k] = r] /\ UNCHANGED <<changeVars, cacheVars>>
    BY <1>1 DEF SetTenantState
  <2>2. SoundRequest(r)'
    BY <1>1 DEF SetTenantState, SetState, Begin, ConditionalWritesOnly, SoundRequest, Requests,
                Subjects
  <2>3. RequestsSound' /\ request' \in [Tasks -> Requests \cup {NoRequest}]
    BY <2>1, <2>2, HandlerMoves, SameWritesStay DEF changeVars
  <2>. QED
    BY <2>1, <2>3, SameReports, SameWritesStay
       DEF changeVars, cacheVars, WorkflowTypeOK, AnyUse, StoreMoved
<1>2. ASSUME NEW t \in Tenants, NEW epoch \in 1..MaxEpoch, RollbackPolicy(k, t, epoch)
      PROVE  WorkflowInv'
  <2>. DEFINE r == [step |-> "store", subject |-> NoChange, record |-> NoChange]
  <2>1. request' = [request EXCEPT ![k] = r] /\ UNCHANGED <<changeVars, cacheVars>>
    BY <1>2 DEF RollbackPolicy
  <2>2. SoundRequest(r)'
    BY <1>2 DEF RollbackPolicy, Rollback, Begin, ConditionalWritesOnly, SoundRequest, Requests,
                Subjects
  <2>3. RequestsSound' /\ request' \in [Tasks -> Requests \cup {NoRequest}]
    BY <2>1, <2>2, HandlerMoves, SameWritesStay DEF changeVars
  <2>. QED
    BY <2>1, <2>3, SameReports, SameWritesStay
       DEF changeVars, cacheVars, WorkflowTypeOK, AnyUse, StoreMoved
<1>3. ASSUME NEW c \in ChangeIds, NEW t \in Tenants, NEW changes \in ChangeInputs,
             NEW seen \in versions[t], Propose(k, c, t, changes, seen)
      PROVE  WorkflowInv'
  <2>. DEFINE record == [tenant |-> t, changes |-> changes,
                         base_policy_epoch |-> seen.policy_epoch,
                         status |-> "PENDING_APPROVAL"]
              r == [step |-> "put_change", subject |-> c, record |-> record]
  <2>1. /\ request' = [request EXCEPT ![k] = r]
        /\ basis' = [basis EXCEPT ![c] = seen]
        /\ UNCHANGED <<storeVars, changeTable, audit, applied, interrupted, cacheVars>>
        /\ seen.policy_epoch < MaxEpoch
    BY <1>3 DEF Propose
  <2>2. seen \in Policies
    BY DEF AnyUse, TypeOK
  <2>3. record \in UsableRecords
    BY <2>1, <2>2, InputAssumption DEF UsableRecords, ChangeRecords, Statuses, Policies, Epochs
  <2>4. SoundRequest(r)'
    BY <2>3, WorkflowAssumption DEF SoundRequest, Requests, Subjects, UsableRecords
  <2>. HIDE DEF r
  <2>5. RequestsSound' /\ request' \in [Tasks -> Requests \cup {NoRequest}]
    BY <2>1, <2>4, HandlerMoves, SameWritesStay
  <2>. QED
    BY <2>1, <2>2, <2>5, SameReports, SameWritesStay DEF cacheVars, WorkflowTypeOK, AnyUse, StoreMoved
<1>4. ASSUME NEW c \in ChangeIds, NEW op, NEW step \in {"apply", "put_change"},
             NEW status \in Statuses, Decide(k, c, op, step, status),
             status = "APPLIED" => step = "apply"
      PROVE  WorkflowInv'
  <2>. DEFINE record == [changeTable[c] EXCEPT !.status = status]
  <2>. PICK r : r = [step |-> step, subject |-> c, record |-> record]
    OBVIOUS
  <2>1. /\ request' = [request EXCEPT ![k] = r]
        /\ UNCHANGED <<storeVars, changeVars, cacheVars>>
        /\ changeTable[c] # NoChange
    BY <1>4 DEF Decide, ReadsPending
  <2>2. record \in UsableRecords /\ record.status = status
    BY <2>1 DEF RecordsUsable, UsableRecords, ChangeRecords
  <2>3. SoundRequest(r)'
    BY <1>4, <2>2, WorkflowAssumption DEF SoundRequest, Requests, Subjects, UsableRecords
  <2>4. RequestsSound' /\ request' \in [Tasks -> Requests \cup {NoRequest}]
    BY <2>1, <2>3, HandlerMoves, SameWritesStay DEF changeVars
  <2>. QED
    BY <2>1, <2>4, SameReports, SameWritesStay
       DEF changeVars, cacheVars, WorkflowTypeOK, AnyUse, StoreMoved
<1>. QED  BY <1>1, <1>2, <1>3, <1>4 DEF Receive, Approve, Reject, Statuses

(* A request that ends without having written: a conflict, an error, a crash. *)
LEMMA EndKeeps ==
    ASSUME WorkflowInv, StoreMoved, NEW k \in Tasks, Finish(k),
           UNCHANGED <<changeTable, audit, basis, applied, unread>>,
           interrupted' \subseteq ChangeIds,
           cache' \in [Tasks -> [Tenants -> Policies \cup {NoPolicy}]],
           loading' \in [Tasks -> Loads \cup {NoPolicy}]
    PROVE  WorkflowInv'
<1>1. RequestsSound' /\ request' \in [Tasks -> Requests \cup {NoRequest}]
  BY HandlerMoves, SameWritesStay DEF Finish
<1>. QED
  BY <1>1, SameReports, SameWritesStay DEF WorkflowInv, WorkflowTypeOK, AnyUse, StoreMoved

(* apply_change begins inside approve. *)
LEMMA ApplyKeeps ==
    ASSUME WorkflowInv, StoreMoved, NEW k \in Tasks, Apply(k)
    PROVE  WorkflowInv'
<1>. PICK r : r = [request[k] EXCEPT !.step = "store"]
  OBVIOUS
<1>1. /\ request[k] # NoRequest
      /\ request' = [request EXCEPT ![k] = r]
      /\ UNCHANGED <<changeVars, cacheVars>>
  BY DEF Apply, AtStep
<1>2. SoundRequest(r)'
  <2>1. SoundRequest(request[k]) /\ request[k].step = "apply"
    BY <1>1 DEF Apply, AtStep, WorkflowInv, RequestsSound
  <2>2. /\ r \in Requests /\ r.step = "store"
        /\ r.subject = request[k].subject /\ r.record = request[k].record
    BY <2>1 DEF SoundRequest, Requests
  <2>. QED  BY <2>1, <2>2 DEF SoundRequest
<1>3. RequestsSound' /\ request' \in [Tasks -> Requests \cup {NoRequest}]
  BY <1>1, <1>2, HandlerMoves, SameWritesStay DEF changeVars
<1>. QED
  BY <1>1, <1>3, SameReports, SameWritesStay
     DEF WorkflowInv, changeVars, cacheVars, WorkflowTypeOK, AnyUse, StoreMoved

(* The final put of the store: an approval's is counted. *)
LEMMA WrittenApplies ==
    ASSUME WorkflowInv, StoreMoved, NEW k \in Tasks, Written(k)
    PROVE  /\ WritesStay
           /\ IsApproval(k) => request[k].subject \in ChangeIds
                               /\ applied'[request[k].subject] > 0
<1>1. applied \in [ChangeIds -> 0..2]
  BY DEF WorkflowInv, WorkflowTypeOK
<1>2. CASE IsApproval(k)
  <2>1. request[k].subject \in ChangeIds
    BY <1>2 DEF Written, AtStep, IsApproval, WorkflowInv, RequestsSound, SoundRequest
  <2>2. applied' = [applied EXCEPT ![request[k].subject] = IF @ < 2 THEN @ + 1 ELSE @]
    BY <1>2 DEF Written
  <2>. QED  BY <1>1, <2>1, <2>2 DEF WritesStay, StoreMoved
<1>3. CASE ~IsApproval(k)
  BY <1>1, <1>3 DEF Written, WritesStay, StoreMoved
<1>. QED  BY <1>2, <1>3

(* A rollback's put writes the target version, renumbered. *)
LEMMA PutRestores ==
    ASSUME WorkflowInv, StoreMoved, NEW k \in Tasks, Put(k), call[k].target_epoch # 0,
           NEW e, e = <<call[k].tenant, call[k].updated.policy_epoch, call[k].target_epoch>>
    PROVE  WasRolledBack(e)'
<1>1. /\ call[k] # NoCall /\ call[k].tenant \in Tenants
      /\ call[k].updated \in Policies /\ call[k].updated # NoPolicy
  BY PolicyModelAssumption
     DEF Put, WorkflowInv, AnyUse, TypeOK, Calls, CallStartsFromAVersion
<1>2. PICK target \in versions[call[k].tenant] :
         /\ target.policy_epoch = call[k].target_epoch
         /\ call[k].updated = Restored(target, call[k].current)
  BY <1>1 DEF WorkflowInv, AnyUse, RollbackRestoresAVersion
<1>3. target \in versions'[call[k].tenant]
  BY <1>1 DEF StoreMoved
<1>4. call[k].updated \in versions'[call[k].tenant]
  BY <1>1, PutItemStores DEF Put, WorkflowInv, AnyUse, TypeOK
<1>5. call[k].updated.state = target.state /\ call[k].updated.config = target.config
  BY <1>2 DEF Restored
<1>. QED  BY <1>2, <1>3, <1>4, <1>5 DEF WasRolledBack

LEMMA PutReplyLostKeeps ==
    ASSUME WorkflowInv, StoreMoved, NEW k \in Tasks, PutReplyLost(k)
    PROVE  WorkflowInv'
<1>1. WritesStay
  BY WrittenApplies DEF PutReplyLost
<1>2. RequestsSound' /\ request' \in [Tasks -> Requests \cup {NoRequest}]
  BY <1>1, HandlerMoves DEF PutReplyLost, CutShort, Finish
<1>. QED
  BY <1>1, <1>2, SameReports
     DEF PutReplyLost, CutShort, WorkflowInv, cacheVars, WorkflowTypeOK, AnyUse, StoreMoved,
         WritesStay

LEMMA PutReturnsKeeps ==
    ASSUME WorkflowInv, StoreMoved, NEW k \in Tasks, PutReturns(k)
    PROVE  WorkflowInv'
<1>1. WritesStay
  BY WrittenApplies DEF PutReturns
<1>2. /\ request[k] # NoRequest /\ SoundRequest(request[k])
      /\ UNCHANGED <<changeTable, audit, basis, interrupted>>
  BY DEF PutReturns, Written, AtStep, WorkflowInv, RequestsSound
<1>3. /\ call[k] # NoCall /\ call[k].tenant \in Tenants
      /\ call[k].updated \in Policies
      /\ call[k].target_epoch \in Nat
  BY DEF PutReturns, Written, Put, WorkflowInv, AnyUse, TypeOK, Calls, CallStartsFromAVersion
<1>4. call[k].updated.policy_epoch \in Epochs
  BY <1>3 DEF Policies
<1>5. CASE IsApproval(k)
  <2>. PICK r : r = [request[k] EXCEPT !.step = "put_change"]
    OBVIOUS
  <2>1. request' = [request EXCEPT ![k] = r] /\ UNCHANGED cacheVars
    BY <1>5 DEF PutReturns
  <2>2. SoundRequest(r)'
    BY <1>2, <1>5, WrittenApplies DEF PutReturns, SoundRequest, Requests, IsApproval
  <2>3. RequestsSound' /\ request' \in [Tasks -> Requests \cup {NoRequest}]
    BY <1>1, <2>1, <2>2, HandlerMoves
  <2>. QED
    BY <1>1, <1>2, <2>1, <2>3, SameReports
       DEF WorkflowInv, cacheVars, WorkflowTypeOK, AnyUse, StoreMoved, WritesStay
<1>6. CASE ~IsApproval(k)
  <2>1. Evict(k, call[k].tenant)
    BY <1>6 DEF PutReturns
  <2>2. /\ cache' \in [Tasks -> [Tenants -> Policies \cup {NoPolicy}]]
        /\ loading' \in [Tasks -> Loads \cup {NoPolicy}]
        /\ unread' \in [Tasks -> SUBSET Tenants]
    BY <1>3, <2>1, EvictTypes
  <2>3. RequestsSound' /\ request' \in [Tasks -> Requests \cup {NoRequest}]
    <3>1. CASE call[k].target_epoch = 0
      <4>1. request' = [request EXCEPT ![k] = NoRequest]
        BY <1>6, <3>1 DEF PutReturns
      <4>. QED  BY <1>1, <4>1, HandlerMoves
    <3>2. CASE call[k].target_epoch # 0
      <4>. PICK subject :
             subject = <<call[k].tenant, call[k].updated.policy_epoch, call[k].target_epoch>>
        OBVIOUS
      <4>. PICK r : r = [request[k] EXCEPT !.step = "audit", !.subject = subject]
        OBVIOUS
      <4>1. request' = [request EXCEPT ![k] = r]
        BY <1>6, <3>2 DEF PutReturns
      <4>2. subject \in RollbackEvents /\ subject \in Subjects
        BY <1>3, <1>4, <3>2 DEF Subjects, RollbackEvents, Epochs
      <4>3. WasRolledBack(subject)'
        BY <3>2, PutRestores DEF PutReturns, Written
      <4>4. SoundRequest(r)'
        BY <1>2, <1>6, <4>2, <4>3 DEF SoundRequest, Requests, IsApproval
      <4>. QED  BY <1>1, <4>1, <4>4, HandlerMoves
    <3>. QED  BY <3>1, <3>2
  <2>. QED
    BY <1>1, <1>2, <2>2, <2>3, SameReports
       DEF WorkflowInv, WorkflowTypeOK, AnyUse, StoreMoved, WritesStay
<1>. QED  BY <1>5, <1>6

(* The change record is written, APPLIED only after the edit; then the       *)
(* handler moves on to its audit event, or it ends.                        *)
LEMMA RecordWrittenKeeps ==
    ASSUME WorkflowInv, StoreMoved, NEW k \in Tasks, RecordWritten(k),
           NEW r, request' = [request EXCEPT ![k] = r],
           r \in {NoRequest, [request[k] EXCEPT !.step = "audit"]},
           interrupted' \subseteq ChangeIds,
           cache' \in [Tasks -> [Tenants -> Policies \cup {NoPolicy}]],
           loading' \in [Tasks -> Loads \cup {NoPolicy}],
           unread' \in [Tasks -> SUBSET Tenants]
    PROVE  WorkflowInv'
<1>. DEFINE c == request[k].subject
            record == request[k].record
<1>1. /\ request[k] # NoRequest /\ request[k].step = "put_change"
      /\ SoundRequest(request[k])
  BY DEF RecordWritten, AtStep, WorkflowInv, RequestsSound
<1>2. /\ c \in ChangeIds /\ record \in UsableRecords
      /\ record.status = "APPLIED" => applied[c] > 0
  BY <1>1 DEF SoundRequest
<1>3. /\ changeTable' = [changeTable EXCEPT ![c] = record]
      /\ UNCHANGED <<storeVars, audit, basis, applied>>
  BY DEF RecordWritten
<1>4. r # NoRequest => SoundRequest(r)'
  BY <1>1, <1>3 DEF SoundRequest, Requests
<1>5. /\ changeTable' \in [ChangeIds -> ChangeRecords \cup {NoChange}]
      /\ RecordsUsable' /\ AppliedIsTrue' /\ RollbackRows' /\ RollbacksAreTrue'
  <2>1. changeTable \in [ChangeIds -> ChangeRecords \cup {NoChange}]
    BY DEF WorkflowInv, WorkflowTypeOK
  <2>2. changeTable'[c] = record /\ \A d \in ChangeIds : d # c => changeTable'[d] = changeTable[d]
    BY <1>2, <1>3, <2>1
  <2>. HIDE DEF c, record
  <2>. QED
    BY <1>2, <1>3, <2>1, <2>2
       DEF WorkflowInv, RecordsUsable, AppliedIsTrue, UsableRecords, RollbackRows,
           RollbacksAreTrue, WasRolledBack, storeVars
<1>6. RequestsSound' /\ request' \in [Tasks -> Requests \cup {NoRequest}]
  BY <1>3, <1>4, HandlerMoves, SameWritesStay
<1>. QED
  BY <1>3, <1>5, <1>6 DEF WorkflowInv, WorkflowTypeOK, AnyUse, StoreMoved

LEMMA PutChangeKeeps ==
    ASSUME WorkflowInv, StoreMoved, NEW k \in Tasks, PutChange(k) \/ ChangeReplyLost(k)
    PROVE  WorkflowInv'
<1>1. RecordWritten(k)
  BY DEF PutChange, ChangeReplyLost
<1>2. CASE PutChange(k)
  <2>1. request[k].record.tenant \in Tenants
    <3>1. request[k].record \in UsableRecords
      BY <1>1 DEF RecordWritten, AtStep, WorkflowInv, RequestsSound, SoundRequest
    <3>. QED  BY <3>1 DEF UsableRecords, ChangeRecords
  <2>2. /\ cache' \in [Tasks -> [Tenants -> Policies \cup {NoPolicy}]]
        /\ loading' \in [Tasks -> Loads \cup {NoPolicy}]
        /\ unread' \in [Tasks -> SUBSET Tenants]
    <3>1. CASE request[k].record.status = "APPLIED"
      BY <1>2, <2>1, <3>1, EvictTypes DEF PutChange
    <3>2. CASE request[k].record.status # "APPLIED"
      BY <1>2, <3>2 DEF PutChange, cacheVars, WorkflowInv, WorkflowTypeOK
    <3>. QED  BY <3>1, <3>2
  <2>3. /\ request' = [request EXCEPT ![k] = [request[k] EXCEPT !.step = "audit"]]
        /\ interrupted' \subseteq ChangeIds
    BY <1>2 DEF PutChange, WorkflowInv, WorkflowTypeOK
  <2>. QED  BY <1>1, <2>2, <2>3, RecordWrittenKeeps
<1>3. CASE ChangeReplyLost(k)
  <2>1. /\ UNCHANGED cacheVars /\ interrupted' \subseteq ChangeIds
        /\ request' = [request EXCEPT ![k] = NoRequest]
    BY <1>3 DEF ChangeReplyLost, CutShort, Finish, WorkflowInv, WorkflowTypeOK
  <2>2. /\ cache' \in [Tasks -> [Tenants -> Policies \cup {NoPolicy}]]
        /\ loading' \in [Tasks -> Loads \cup {NoPolicy}]
        /\ unread' \in [Tasks -> SUBSET Tenants]
    BY <2>1 DEF cacheVars, WorkflowInv, WorkflowTypeOK
  <2>. QED  BY <1>1, <2>1, <2>2, RecordWrittenKeeps
<1>. QED  BY <1>2, <1>3

(* The event is recorded: APPLIED only after the edit. *)
LEMMA RecordAuditKeeps ==
    ASSUME WorkflowInv, StoreMoved, NEW k \in Tasks, RecordAudit(k)
    PROVE  WorkflowInv'
<1>. DEFINE event == IF IsApproval(k) THEN request[k].record.status ELSE "POLICY_ROLLED_BACK"
            row == [request_id |-> request[k].subject, event |-> event]
<1>1. /\ request[k] # NoRequest /\ request[k].step = "audit"
      /\ SoundRequest(request[k])
  BY DEF RecordAudit, AtStep, WorkflowInv, RequestsSound
<1>2. /\ audit' = audit \cup {row} /\ Finish(k)
      /\ UNCHANGED <<storeVars, changeTable, basis, applied, interrupted, cacheVars>>
  BY DEF RecordAudit
<1>3. event \in Statuses \cup {"POLICY_ROLLED_BACK"} /\ request[k].subject \in Subjects
  BY <1>1 DEF SoundRequest, Requests, IsApproval, UsableRecords, ChangeRecords
<1>4. event = "APPLIED" => applied[request[k].subject] > 0
  BY <1>1 DEF SoundRequest, IsApproval
<1>. HIDE DEF event
<1>5. AppliedIsTrue' /\ RecordsUsable'
  BY <1>2, <1>4 DEF WorkflowInv, AppliedIsTrue, RecordsUsable
<1>6. RollbackRows' /\ RollbacksAreTrue'
  <2>1. event = "POLICY_ROLLED_BACK" =>
           request[k].subject \in RollbackEvents /\ WasRolledBack(request[k].subject)
    BY <1>1 DEF event, SoundRequest, IsApproval, UsableRecords, ChangeRecords, Statuses
  <2>. QED
    BY <1>2, <2>1 DEF WorkflowInv, RollbackRows, RollbacksAreTrue, WasRolledBack, storeVars
<1>7. RequestsSound' /\ request' \in [Tasks -> Requests \cup {NoRequest}]
  BY <1>2, HandlerMoves, SameWritesStay DEF Finish
<1>. QED
  BY <1>2, <1>3, <1>5, <1>6, <1>7 DEF WorkflowInv, cacheVars, WorkflowTypeOK, AnyUse, StoreMoved

(* The steps that move no handler: provisioning, the store, the cache. *)
LEMMA OthersKeep ==
    ASSUME WorkflowInv, StoreMoved, UNCHANGED <<request, changeVars>>,
           unread' \in [Tasks -> SUBSET Tenants],
           cache' \in [Tasks -> [Tenants -> Policies \cup {NoPolicy}]],
           loading' \in [Tasks -> Loads \cup {NoPolicy}]
    PROVE  WorkflowInv'
<1>1. RequestsSound'
  BY RollbackStays, SameWritesStay
     DEF WorkflowInv, RequestsSound, SoundRequest, changeVars
<1>. QED
  BY <1>1, SameReports, SameWritesStay DEF WorkflowInv, changeVars, WorkflowTypeOK, AnyUse, StoreMoved

LEMMA WorkflowInvStep ==
    ASSUME WorkflowInv, [WorkflowNext]_vars
    PROVE  WorkflowInv'
<1>1. StoreMoved
  BY StepUsesStore, AnyUseStep, VersionsOnlyGrow DEF WorkflowInv, StoreMoved
<1>2. /\ cache \in [Tasks -> [Tenants -> Policies \cup {NoPolicy}]]
      /\ loading \in [Tasks -> Loads \cup {NoPolicy}]
      /\ unread \in [Tasks -> SUBSET Tenants]
  BY DEF WorkflowInv, WorkflowTypeOK
<1>3. CASE UNCHANGED vars
  BY <1>1, <1>2, <1>3, OthersKeep DEF vars, cacheVars
<1>4. CASE \E t \in Tenants, config \in NewConfigs : Onboard(t, config)
  BY <1>1, <1>2, <1>4, OthersKeep DEF Onboard, cacheVars
<1>5. ASSUME NEW k \in Tasks, Receive(k) PROVE WorkflowInv'
  BY <1>1, <1>5, ReceiveKeeps
<1>6. ASSUME NEW k \in Tasks, Handle(k) PROVE WorkflowInv'
  <2>1. CASE ApplyConflict(k) \/ StoreRaises(k)
    BY <1>1, <1>2, <2>1, EndKeeps
       DEF ApplyConflict, StoreRaises, changeVars, cacheVars, WorkflowInv, WorkflowTypeOK
  <2>2. CASE StoreStep(k)
    BY <1>1, <1>2, <2>2, OthersKeep DEF StoreStep, cacheVars
  <2>. QED
    BY <1>1, <1>6, <2>1, <2>2, ApplyKeeps, PutReturnsKeeps, PutReplyLostKeeps, PutChangeKeeps,
       RecordAuditKeeps DEF Handle
<1>7. ASSUME NEW k \in Tasks, Fail(k) \/ Restart(k) PROVE WorkflowInv'
  <2>1. /\ cache' \in [Tasks -> [Tenants -> Policies \cup {NoPolicy}]]
        /\ loading' \in [Tasks -> Loads \cup {NoPolicy}]
    BY <1>2, <1>7 DEF Fail, Restart, Unload
  <2>2. Finish(k) /\ interrupted' \subseteq ChangeIds
    BY <1>7 DEF Fail, Restart, CutShort, WorkflowInv, WorkflowTypeOK
  <2>. QED  BY <1>1, <1>7, <2>1, <2>2, EndKeeps DEF Fail, Restart
<1>8. ASSUME NEW k \in Tasks, NEW t \in Tenants, ReadSnapshot(k, t)
      PROVE  WorkflowInv'
  <2>1. loading' \in [Tasks -> Loads \cup {NoPolicy}]
    BY <1>2, <1>8, ReadableAreVersions DEF ReadSnapshot, WorkflowInv, AnyUse, Loads
  <2>2. unread' \in [Tasks -> SUBSET Tenants]
    BY <1>2, <1>8 DEF ReadSnapshot
  <2>. QED  BY <1>1, <1>2, <1>8, <2>1, <2>2, OthersKeep DEF ReadSnapshot
<1>9. ASSUME NEW k \in Tasks, StoreSnapshot(k)
      PROVE  WorkflowInv'
  <2>1. loading[k] \in Loads
    BY <1>2, <1>9 DEF StoreSnapshot
  <2>2. loading[k].tenant \in Tenants /\ loading[k].policy \in Policies
    BY <2>1 DEF Loads
  <2>3. /\ cache' \in [Tasks -> [Tenants -> Policies \cup {NoPolicy}]]
        /\ loading' \in [Tasks -> Loads \cup {NoPolicy}]
    BY <1>2, <1>9, <2>2 DEF StoreSnapshot, Unload
  <2>. QED  BY <1>1, <1>2, <1>9, <2>3, OthersKeep DEF StoreSnapshot
<1>. QED
  BY <1>3, <1>4, <1>5, <1>6, <1>7, <1>8, <1>9 DEF WorkflowNext, RequestNext

LEMMA WorkflowInvHolds == WorkflowSpec => []WorkflowInv
BY WorkflowInvInit, WorkflowInvStep, PTL DEF WorkflowSpec

-----------------------------------------------------------------------------
(* The type invariant of the admin endpoints. *)
THEOREM WorkflowTyping == WorkflowSpec => []WorkflowTypeOK
BY WorkflowInvHolds, PTL DEF WorkflowInv

(* Whatever the endpoints do, they use the policy store as the store's own  *)
(* specification says: what is proved of every use of it holds under them. *)
THEOREM WorkflowUsesStore == WorkflowSpec => Spec
<1>1. WorkflowInit => Init
  BY DEF WorkflowInit
<1>2. WorkflowInv /\ [WorkflowNext]_vars => [Next]_storeVars
  BY StepUsesStore
<1>. QED  BY <1>1, <1>2, WorkflowInvHolds, PTL DEF WorkflowSpec, Spec

(* No approval is reported - by record or audit trail - that was not        *)
(* written, whatever requests raced, failed, crashed or read stale data.   *)
THEOREM ReportsAreTrue == WorkflowSpec => []AppliedIsTrue
BY WorkflowInvHolds, PTL DEF WorkflowInv

(* What the audit trail says was restored was, and is what it says. *)
THEOREM RollbackReportsAreTrue == WorkflowSpec => []RollbacksAreTrue
BY WorkflowInvHolds, PTL DEF WorkflowInv

(* The history under the admin endpoints has no hole: every epoch below a   *)
(* version that was ever live can be rolled back to.                       *)
THEOREM WorkflowHistoryHasNoGap == WorkflowSpec => []HistoryHasNoGap
BY WorkflowUsesStore, NoGapInHistory

(* Under the endpoints as under the store alone, of a tenant no kill switch *)
(* or rollback has raced: an epoch is one version, no version is missing   *)
(* from the history and no row of it is ever replaced.                     *)
THEOREM WorkflowHistoryIsComplete ==
    /\ WorkflowSpec => []EpochNamesOneVersion
    /\ WorkflowSpec => []HistoryKeepsEveryVersion
    /\ WorkflowSpec => HistoryRowsStay
BY WorkflowUsesStore, EpochIsAVersion, NoVersionIsLost, ArchivedRowsStay

(* Nothing races where no kill switch or rollback is used, or where one     *)
(* task that reads its own writes does all the writing.                    *)
THEOREM WorkflowRacesNone ==
    ASSUME Disciplined
    PROVE  WorkflowSpec => []NoRaces
BY WorkflowUsesStore, DisciplineRacesNone

(* While nothing races the requests of all endpoints together are one      *)
(* atomic store.                                                           *)
THEOREM WorkflowStoreIsAtomic ==
    ASSUME HistoryTable, NoRollback \/ AnyStateMayBeSet
    PROVE  WorkflowSpec /\ []NoRaces => ImplementsAtomicStore
BY WorkflowUsesStore, StoreIsAtomic

-----------------------------------------------------------------------------
(* What a request's call of the store is, whatever else goes on.           *)

(* An approval's is conditional, on the epoch its record names, and for the *)
(* record's edit of the record's tenant; no other's is conditional.         *)
CallFits(k) ==
    (request[k] # NoRequest /\ request[k].step = "store" /\ call[k] # NoCall) =>
        /\ request[k].record # NoChange =>
              /\ call[k].conditional
              /\ call[k].next # "get_target"
              /\ call[k].tenant = request[k].record.tenant
              /\ call[k].current.policy_epoch = request[k].record.base_policy_epoch
              /\ call[k].updated = ApplyFieldChanges(call[k].current, request[k].record.changes)
        /\ request[k].record = NoChange => ~call[k].conditional
ApprovalCalls == \A k \in Tasks : CallFits(k)

LEMMA ApprovalCallsInit == WorkflowInit => ApprovalCalls
BY DEF WorkflowInit, ApprovalCalls, CallFits

(* A step of one task, after which its own call fits. *)
LEMMA OtherCallsFit ==
    ASSUME ApprovalCalls, NEW k \in Tasks, CallFits(k)',
           \A l \in Tasks : l # k => request'[l] = request[l] /\ call'[l] = call[l]
    PROVE  ApprovalCalls'
BY DEF ApprovalCalls, CallFits

LEMMA ApprovalCallsStep ==
    ASSUME WorkflowInv, ApprovalCalls, [WorkflowNext]_vars
    PROVE  ApprovalCalls'
<1>1. /\ call \in [Tasks -> Calls \cup {NoCall}]
      /\ request \in [Tasks -> Requests \cup {NoRequest}]
  BY DEF WorkflowInv, WorkflowTypeOK, TypeOK
<1>2. CASE UNCHANGED <<request, call>>
  BY <1>2 DEF ApprovalCalls, CallFits
<1>3. ASSUME NEW t \in Tenants, NEW config \in NewConfigs, Onboard(t, config)
      PROVE  UNCHANGED <<request, call>>
  BY <1>3 DEF Onboard, Create
<1>4. ASSUME NEW k \in Tasks, Receive(k) PROVE ApprovalCalls'
  <2>1. \A l \in Tasks : l # k => request'[l] = request[l] /\ call'[l] = call[l]
    BY <1>1, <1>4 DEF Receive, SetTenantState, SetState, RollbackPolicy, Rollback, Begin, Propose,
                      Approve, Reject, Decide, storeVars
  <2>2. request'[k].step = "store" => request'[k].record = NoChange /\ ~call'[k].conditional
    BY <1>1, <1>4 DEF Receive, SetTenantState, SetState, RollbackPolicy, Rollback, Begin, Propose,
                      Approve, Reject, Decide
  <2>. QED  BY <2>1, <2>2, OtherCallsFit DEF CallFits
<1>5. ASSUME NEW k \in Tasks, Handle(k) PROVE ApprovalCalls'
  <2>1. CASE Apply(k)
    <3>1. PICK current :
            /\ current.policy_epoch = request[k].record.base_policy_epoch
            /\ call' = [call EXCEPT ![k] =
                          [next |-> "archive", tenant |-> request[k].record.tenant,
                           current |-> current,
                           updated |-> ApplyFieldChanges(current, request[k].record.changes),
                           conditional |-> TRUE, target_epoch |-> 0]]
      BY <2>1 DEF Apply, ApplyChange, Begin
    <3>2. /\ request[k] \in Requests
          /\ request' = [request EXCEPT ![k].step = "store"]
      BY <1>1, <2>1 DEF Apply, AtStep
    <3>3. /\ request'[k].record = request[k].record
          /\ \A l \in Tasks : l # k => request'[l] = request[l] /\ call'[l] = call[l]
      BY <1>1, <3>1, <3>2 DEF Requests
    <3>4. CallFits(k)'
      <4>1. request[k].record # NoChange
        BY <2>1 DEF Apply, AtStep, WorkflowInv, RequestsSound, SoundRequest
      <4>. QED  BY <1>1, <3>1, <3>3, <4>1 DEF CallFits
    <3>. QED  BY <3>3, <3>4, OtherCallsFit
  <2>2. CASE StoreStep(k)
    <3>1. /\ call[k] # NoCall /\ request' = request
          /\ \A l \in Tasks : l # k => call'[l] = call[l]
          /\ call'[k].conditional = call[k].conditional
          /\ call[k].next # "get_target" => /\ call'[k].next # "get_target"
                                            /\ call'[k].tenant = call[k].tenant
                                            /\ call'[k].current = call[k].current
                                            /\ call'[k].updated = call[k].updated
      BY <1>1, <2>2 DEF StoreStep, GetTarget, Archive, Calls
    <3>2. CallFits(k)'
      BY <3>1 DEF ApprovalCalls, CallFits
    <3>. QED  BY <3>1, <3>2, OtherCallsFit
  <2>3. CASE ApplyConflict(k) \/ StoreRaises(k) \/ PutReturns(k) \/ PutReplyLost(k)
             \/ PutChange(k) \/ ChangeReplyLost(k) \/ RecordAudit(k)
    <3>1. \A l \in Tasks : l # k => request'[l] = request[l] /\ call'[l] = call[l]
      BY <1>1, <2>3 DEF ApplyConflict, StoreRaises, NoTarget, PutRefused, PutReturns, PutReplyLost,
                        Written, Put, CutShort, PutChange, ChangeReplyLost, RecordWritten,
                        RecordAudit, Finish, storeVars
    <3>2. request'[k] = NoRequest \/ request'[k].step # "store"
      <4>1. CASE \/ ApplyConflict(k) \/ StoreRaises(k) \/ PutReplyLost(k)
                 \/ ChangeReplyLost(k) \/ RecordAudit(k)
        BY <1>1, <4>1 DEF ApplyConflict, StoreRaises, PutReplyLost, ChangeReplyLost, CutShort,
                          RecordAudit, Finish
      <4>2. CASE PutReturns(k) \/ PutChange(k)
        <5>1. request[k] \in Requests
          BY <1>1, <4>2 DEF PutReturns, Written, PutChange, RecordWritten, AtStep
        <5>. QED  BY <1>1, <4>2, <5>1 DEF PutReturns, PutChange, Requests
      <4>. QED  BY <2>3, <4>1, <4>2
    <3>. QED  BY <3>1, <3>2, OtherCallsFit DEF CallFits
  <2>. QED  BY <1>5, <2>1, <2>2, <2>3 DEF Handle
<1>6. ASSUME NEW k \in Tasks, Fail(k) \/ Restart(k) PROVE ApprovalCalls'
  <2>1. /\ request'[k] = NoRequest
        /\ \A l \in Tasks : l # k => request'[l] = request[l] /\ call'[l] = call[l]
    BY <1>1, <1>6 DEF Fail, Restart, CutShort, Abort, Finish, storeVars
  <2>. QED  BY <2>1, OtherCallsFit DEF CallFits
<1>7. ASSUME NEW k \in Tasks, (\E t \in Tenants : ReadSnapshot(k, t)) \/ StoreSnapshot(k)
      PROVE  UNCHANGED <<request, call>>
  BY <1>7 DEF ReadSnapshot, StoreSnapshot, storeVars
<1>8. CASE UNCHANGED vars
  BY <1>2, <1>8 DEF vars, storeVars
<1>. QED
  BY <1>2, <1>3, <1>4, <1>5, <1>6, <1>7, <1>8 DEF WorkflowNext, RequestNext

(* The steps that write a policy and end a task's store call are its puts. *)
LEMMA WritesAreWritten ==
    ASSUME WorkflowInv, WorkflowNext, table' # table, NEW k \in Tasks, call'[k] # call[k]
    PROVE  Written(k) /\ UNCHANGED <<changeTable, basis>>
<1>1. call \in [Tasks -> Calls \cup {NoCall}]
  BY DEF WorkflowInv, AnyUse, TypeOK
<1>2. ASSUME NEW l \in Tasks, Written(l) PROVE l = k
  BY <1>1, <1>2 DEF Written, Put
<1>3. \E l \in Tasks : PutReturns(l) \/ PutReplyLost(l)
  <2>1. ASSUME NEW t \in Tenants, NEW config \in NewConfigs, Onboard(t, config)
        PROVE  call' = call
    BY <2>1 DEF Onboard, Create
  <2>2. ASSUME NEW l \in Tasks, Receive(l)
        PROVE  table' = table
    BY <2>2 DEF Receive, SetTenantState, SetState, RollbackPolicy, Rollback, Begin, Propose,
                Approve, Reject, Decide, storeVars
  <2>3. ASSUME NEW l \in Tasks, Handle(l), ~PutReturns(l), ~PutReplyLost(l)
        PROVE  table' = table
    BY <2>3 DEF Handle, Apply, ApplyChange, Begin, ApplyConflict, StoreStep, GetTarget, Archive,
                StoreRaises, NoTarget, PutRefused, PutChange, ChangeReplyLost, RecordWritten,
                RecordAudit, storeVars
  <2>4. ASSUME NEW l \in Tasks, Fail(l) \/ Restart(l)
        PROVE  table' = table
    BY <2>4 DEF Fail, Restart, Abort, storeVars
  <2>5. ASSUME NEW l \in Tasks, (\E t \in Tenants : ReadSnapshot(l, t)) \/ StoreSnapshot(l)
        PROVE  table' = table
    BY <2>5 DEF ReadSnapshot, StoreSnapshot, storeVars
  <2>. QED  BY <2>1, <2>2, <2>3, <2>4, <2>5 DEF WorkflowNext, RequestNext
<1>. QED  BY <1>2, <1>3 DEF PutReturns, PutReplyLost

(* What base_policy_epoch guarantees however the table is used: an approval *)
(* only ever takes the place of a policy of the epoch its record names.    *)
THEOREM EditsStayOnTheirEpoch == WorkflowSpec => AppliedOnItsEpoch
<1>. DEFINE OnEpoch == \A k \in Tasks : WritesEdit(k) =>
                  /\ table[request[k].record.tenant] # NoPolicy
                  /\ table[request[k].record.tenant].policy_epoch
                        = request[k].record.base_policy_epoch
<1>1. WorkflowInv /\ ApprovalCalls /\ [WorkflowNext]_vars => [OnEpoch]_vars
  <2>. SUFFICES ASSUME WorkflowInv, ApprovalCalls, WorkflowNext, NEW k \in Tasks,
                       WritesEdit(k)
                PROVE  /\ table[request[k].record.tenant] # NoPolicy
                       /\ table[request[k].record.tenant].policy_epoch
                             = request[k].record.base_policy_epoch
    OBVIOUS
  <2>1. Put(k) /\ call[k] # NoCall
    BY WritesAreWritten DEF WritesEdit, Written, Put
  <2>2. /\ call[k].conditional /\ call[k].tenant = request[k].record.tenant
        /\ call[k].current.policy_epoch = request[k].record.base_policy_epoch
    BY <2>1 DEF WritesEdit, AtStep, IsApproval, ApprovalCalls, CallFits
  <2>. QED  BY <2>1, <2>2 DEF Put, ConditionHolds
<1>2. WorkflowSpec => []ApprovalCalls
  BY ApprovalCallsInit, ApprovalCallsStep, WorkflowInvHolds, PTL DEF WorkflowSpec
<1>. QED  BY <1>1, <1>2, WorkflowInvHolds, PTL DEF WorkflowSpec, AppliedOnItsEpoch

-----------------------------------------------------------------------------
(* An edit that was written is reported, unless a handler is cut short.    *)

(* While a change has no record, at most one handler is about it: the one   *)
(* that is to put it.                                                      *)
FirstPut(k, c) ==
    /\ request[k].step = "put_change"
    /\ request[k].record.status = "PENDING_APPROVAL"
    /\ \A l \in Tasks : Handles(l, c) => l = k
ProposedFirst ==
    \A c \in ChangeIds : changeTable[c] = NoChange =>
        /\ applied[c] = 0
        /\ \A k \in Tasks : Handles(k, c) => FirstPut(k, c)

(* Only its proposer puts a change as pending, and only approvals of it      *)
(* reach the store, whose calls are all made in step "store".              *)
HandlerFits(k) ==
    /\ (request[k] # NoRequest /\ request[k].record # NoChange) =>
          /\ request[k].step \in {"apply", "store"} => request[k].record.status = "APPLIED"
          /\ (request[k].step = "put_change" /\ request[k].record.status = "PENDING_APPROVAL") =>
                changeTable[request[k].subject] = NoChange
    /\ call[k] # NoCall => request[k] # NoRequest /\ request[k].step = "store"
HandlersFit == \A k \in Tasks : HandlerFits(k)

Decided(c) == changeTable[c].status \in {"APPLIED", "REJECTED"}
Reported(c) == Decided(c) /\ [request_id |-> c, event |-> "APPLIED"] \in audit

(* Task k has the edit written and its report ahead. *)
WillReport(k, c) ==
    /\ Handles(k, c)
    /\ request[k].record.status = "APPLIED"
    /\ request[k].step = "put_change" \/ (request[k].step = "audit" /\ Decided(c))
ReportAhead(c) == c \in interrupted \/ Reported(c) \/ \E k \in Tasks : WillReport(k, c)
ReportsAhead == \A c \in ChangeIds : applied[c] > 0 => ReportAhead(c)

ReportInv == ProposedFirst /\ HandlersFit /\ ReportsAhead

LEMMA ReportInvInit == WorkflowInit => ReportInv
BY DEF WorkflowInit, Init, ReportInv, ProposedFirst, HandlersFit, HandlerFits, ReportsAhead, Handles

(* What the steps change: the handler of one task, or none. *)
OneTaskMoves(k) ==
    \A l \in Tasks : l # k => request'[l] = request[l] /\ call'[l] = call[l]

(* A step that changes no record, writes no edit and leaves no new handler  *)
(* of a change, and no report undone.                                      *)
LEMMA HandlerStepReports ==
    ASSUME ReportInv, NEW k \in Tasks, OneTaskMoves(k),
           UNCHANGED <<changeTable, applied>>, audit \subseteq audit',
           interrupted \subseteq interrupted',
           HandlerFits(k)',
           \A c \in ChangeIds : Handles(k, c)' =>
              changeTable[c] # NoChange \/ (Handles(k, c) /\ FirstPut(k, c) /\ request'[k] = request[k]),
           \A c \in ChangeIds : WillReport(k, c) => ReportAhead(c)'
    PROVE  ReportInv'
<1>1. ProposedFirst'
  <2>. SUFFICES ASSUME NEW c \in ChangeIds, changeTable[c] = NoChange, NEW l \in Tasks, Handles(l, c)'
                PROVE  FirstPut(l, c)'
    BY DEF ReportInv, ProposedFirst
  <2>1. Handles(l, c) /\ request'[l] = request[l]
    BY DEF OneTaskMoves, Handles
  <2>2. FirstPut(l, c)
    BY <2>1 DEF ReportInv, ProposedFirst
  <2>3. \A m \in Tasks : Handles(m, c)' => Handles(m, c)
    BY DEF OneTaskMoves, Handles
  <2>. QED  BY <2>1, <2>2, <2>3 DEF FirstPut
<1>2. HandlersFit'
  BY DEF ReportInv, HandlersFit, HandlerFits, OneTaskMoves
<1>3. ReportsAhead'
  <2>. SUFFICES ASSUME NEW c \in ChangeIds, applied[c] > 0 PROVE ReportAhead(c)'
    BY DEF ReportsAhead
  <2>1. ReportAhead(c)
    BY DEF ReportInv, ReportsAhead
  <2>2. CASE c \in interrupted \/ Reported(c)
    BY <2>2 DEF ReportAhead, Reported, Decided
  <2>3. ASSUME NEW l \in Tasks, l # k, WillReport(l, c) PROVE ReportAhead(c)'
    BY <2>3 DEF OneTaskMoves, WillReport, ReportAhead, Handles, Decided
  <2>. QED  BY <2>1, <2>2, <2>3 DEF ReportAhead
<1>. QED  BY <1>1, <1>2, <1>3 DEF ReportInv

(* The first call of each request. *)
LEMMA ProposeReports ==
    ASSUME WorkflowInv, ReportInv, NEW k \in Tasks, NEW c \in ChangeIds, NEW t \in Tenants,
           NEW changes \in ChangeInputs, NEW seen \in versions[t], Propose(k, c, t, changes, seen)
    PROVE  ReportInv'
<1>1. /\ request[k] = NoRequest /\ changeTable[c] = NoChange
      /\ \A l \in Tasks : ~Handles(l, c)
      /\ UNCHANGED <<call, changeTable, applied, audit, interrupted>>
  BY DEF Propose, Idle, storeVars
<1>2. /\ request'[k].step = "put_change" /\ request'[k].subject = c
      /\ request'[k].record.status = "PENDING_APPROVAL"
      /\ \A l \in Tasks : l # k => request'[l] = request[l]
  BY DEF Propose, WorkflowInv, WorkflowTypeOK
<1>3. ProposedFirst'
  <2>. SUFFICES ASSUME NEW d \in ChangeIds, changeTable[d] = NoChange, NEW l \in Tasks, Handles(l, d)'
                PROVE  FirstPut(l, d)'
    BY <1>1 DEF ReportInv, ProposedFirst
  <2>1. CASE d = c
    BY <1>1, <1>2, <2>1 DEF FirstPut, Handles
  <2>2. CASE d # c
    <3>1. l # k /\ \A m \in Tasks : Handles(m, d)' => m # k /\ Handles(m, d)
      BY <1>2, <2>2 DEF Handles
    <3>. QED  BY <1>2, <3>1 DEF ReportInv, ProposedFirst, FirstPut
  <2>. QED  BY <2>1, <2>2
<1>4. HandlersFit'
  BY <1>1, <1>2 DEF ReportInv, HandlersFit, HandlerFits
<1>5. ReportsAhead'
  <2>1. \A d \in ChangeIds, l \in Tasks : WillReport(l, d) => WillReport(l, d)'
    BY <1>1, <1>2 DEF WillReport, Handles, Decided
  <2>. QED  BY <1>1, <2>1 DEF ReportInv, ReportsAhead, ReportAhead, Reported, Decided
<1>. QED  BY <1>3, <1>4, <1>5 DEF ReportInv

LEMMA ReceiveReports ==
    ASSUME WorkflowInv, ReportInv, NEW k \in Tasks, Receive(k)
    PROVE  ReportInv'
<1>1. /\ call \in [Tasks -> Calls \cup {NoCall}]
      /\ request \in [Tasks -> Requests \cup {NoRequest}]
  BY DEF WorkflowInv, WorkflowTypeOK, TypeOK
<1>2. ASSUME NEW t \in Tenants,
             \/ \E state \in StateInputs : SetTenantState(k, t, state)
             \/ \E epoch \in 1..MaxEpoch : RollbackPolicy(k, t, epoch)
      PROVE  ReportInv'
  <2>1. /\ request[k] = NoRequest /\ UNCHANGED changeVars /\ OneTaskMoves(k)
    BY <1>1, <1>2 DEF SetTenantState, SetState, RollbackPolicy, Rollback, Begin, Idle, OneTaskMoves
  <2>2. request'[k].step = "store" /\ request'[k].record = NoChange /\ request'[k] # NoRequest
    BY <1>1, <1>2, WorkflowAssumption
       DEF SetTenantState, RollbackPolicy, Requests, Subjects
  <2>3. HandlerFits(k)' /\ \A c \in ChangeIds : ~Handles(k, c)' /\ ~WillReport(k, c)
    BY <2>1, <2>2 DEF HandlerFits, Handles, WillReport
  <2>. QED  BY <2>1, <2>3, HandlerStepReports DEF changeVars
<1>3. ASSUME NEW c \in ChangeIds, Approve(k, c) \/ Reject(k, c)
      PROVE  ReportInv'
  <2>1. /\ request[k] = NoRequest /\ UNCHANGED <<storeVars, changeVars>> /\ OneTaskMoves(k)
        /\ changeTable[c] # NoChange /\ changeTable[c] \in ChangeRecords
    BY <1>1, <1>3
       DEF Approve, Reject, Decide, ReadsPending, Idle, OneTaskMoves, storeVars, WorkflowInv,
           WorkflowTypeOK
  <2>2. /\ request'[k].subject = c
        /\ \/ request'[k].step = "apply" /\ request'[k].record.status = "APPLIED"
           \/ request'[k].step = "put_change" /\ request'[k].record.status = "REJECTED"
    BY <1>1, <1>3, <2>1 DEF Approve, Reject, Decide, ChangeRecords
  <2>3. /\ HandlerFits(k)'
        /\ \A d \in ChangeIds : (Handles(k, d)' => d = c) /\ ~WillReport(k, d)
    BY <2>1, <2>2 DEF HandlerFits, Handles, WillReport, ReportInv, HandlersFit, storeVars
  <2>. QED  BY <2>1, <2>3, HandlerStepReports DEF changeVars
<1>. QED  BY <1>2, <1>3, ProposeReports DEF Receive

(* The other calls of a request. *)
LEMMA StoreCallReports ==
    ASSUME WorkflowInv, ReportInv, NEW k \in Tasks,
           Apply(k) \/ ApplyConflict(k) \/ StoreStep(k) \/ StoreRaises(k)
    PROVE  ReportInv'
<1>1. /\ call \in [Tasks -> Calls \cup {NoCall}]
      /\ request \in [Tasks -> Requests \cup {NoRequest}]
  BY DEF WorkflowInv, WorkflowTypeOK, TypeOK
<1>2. HandlerFits(k)
  BY DEF ReportInv, HandlersFit
<1>3. UNCHANGED changeVars /\ OneTaskMoves(k)
  BY <1>1 DEF Apply, ApplyChange, Begin, ApplyConflict, StoreStep, GetTarget, Archive, StoreRaises,
              NoTarget, PutRefused, Finish, OneTaskMoves, storeVars
<1>4. request[k] # NoRequest /\ request[k].step \in {"apply", "store"}
  BY <1>2 DEF Apply, ApplyConflict, StoreStep, GetTarget, Archive, StoreRaises, NoTarget, PutRefused,
              AtStep, HandlerFits
<1>5. \A c \in ChangeIds : (Handles(k, c) => changeTable[c] # NoChange) /\ ~WillReport(k, c)
  BY <1>4 DEF ReportInv, ProposedFirst, FirstPut, WillReport
<1>6. CASE Apply(k)
  <2>1. /\ request'[k].step = "store" /\ request'[k] # NoRequest
        /\ request'[k].record = request[k].record /\ request'[k].subject = request[k].subject
    <3>1. request[k] \in Requests /\ request' = [request EXCEPT ![k].step = "store"]
      BY <1>1, <1>4, <1>6 DEF Apply
    <3>2. request'[k] \in Requests
      BY <1>1, <3>1 DEF Requests
    <3>. QED  BY <1>1, <3>1, <3>2, WorkflowAssumption DEF Requests
  <2>2. request[k].step = "apply"
    BY <1>6 DEF Apply, AtStep
  <2>3. HandlerFits(k)' /\ \A c \in ChangeIds : Handles(k, c)' => Handles(k, c)
    BY <1>2, <1>4, <2>1, <2>2 DEF HandlerFits, Handles
  <2>. QED  BY <1>3, <1>5, <2>3, HandlerStepReports DEF changeVars
<1>7. CASE StoreStep(k)
  <2>1. request' = request /\ call[k] # NoCall
    BY <1>7 DEF StoreStep, GetTarget, Archive
  <2>2. HandlerFits(k)' /\ \A c \in ChangeIds : Handles(k, c)' => Handles(k, c)
    BY <1>2, <1>3, <2>1 DEF HandlerFits, Handles, changeVars
  <2>. QED  BY <1>3, <1>5, <2>2, HandlerStepReports DEF changeVars
<1>8. CASE ApplyConflict(k) \/ StoreRaises(k)
  <2>1. request'[k] = NoRequest /\ call'[k] = NoCall
    BY <1>1, <1>2, <1>8
       DEF ApplyConflict, StoreRaises, NoTarget, PutRefused, Finish, AtStep, HandlerFits, storeVars
  <2>2. HandlerFits(k)' /\ \A c \in ChangeIds : ~Handles(k, c)'
    BY <2>1 DEF HandlerFits, Handles
  <2>. QED  BY <1>3, <1>5, <2>2, HandlerStepReports DEF changeVars
<1>. QED  BY <1>6, <1>7, <1>8

(* A handler that ends: it has reported, or it was cut short. *)
LEMMA EndReports ==
    ASSUME WorkflowInv, ReportInv, NEW k \in Tasks, RecordAudit(k) \/ Fail(k) \/ Restart(k)
    PROVE  ReportInv'
<1>1. /\ call \in [Tasks -> Calls \cup {NoCall}]
      /\ request \in [Tasks -> Requests \cup {NoRequest}]
  BY DEF WorkflowInv, WorkflowTypeOK, TypeOK
<1>2. /\ Finish(k) /\ OneTaskMoves(k) /\ UNCHANGED <<changeTable, applied>>
      /\ audit \subseteq audit' /\ interrupted \subseteq interrupted'
  BY <1>1 DEF RecordAudit, Fail, Restart, CutShort, Finish, Abort, OneTaskMoves, storeVars
<1>3. request'[k] = NoRequest /\ call'[k] = NoCall
  <2>1. CASE RecordAudit(k)
    BY <1>1, <1>2, <2>1 DEF RecordAudit, AtStep, Finish, ReportInv, HandlersFit, HandlerFits, storeVars
  <2>2. CASE Fail(k) \/ Restart(k)
    BY <1>1, <1>2, <2>2 DEF Fail, Restart, Abort, Finish, storeVars
  <2>. QED  BY <2>1, <2>2
<1>4. HandlerFits(k)' /\ \A c \in ChangeIds : ~Handles(k, c)'
  BY <1>3 DEF HandlerFits, Handles
<1>5. ASSUME NEW c \in ChangeIds, WillReport(k, c) PROVE ReportAhead(c)'
  <2>1. CASE RecordAudit(k)
    <3>1. Decided(c) /\ [request_id |-> c, event |-> "APPLIED"] \in audit'
      BY <1>5, <2>1 DEF RecordAudit, AtStep, IsApproval, WillReport, Handles
    <3>. QED  BY <1>2, <3>1 DEF ReportAhead, Reported, Decided
  <2>2. CASE Fail(k) \/ Restart(k)
    BY <1>5, <2>2 DEF Fail, Restart, CutShort, WillReport, ReportAhead
  <2>. QED  BY <2>1, <2>2
<1>. QED  BY <1>2, <1>4, <1>5, HandlerStepReports

(* The edit is written: its handler reports it, unless the answer is lost. *)
LEMMA WrittenReports ==
    ASSUME WorkflowInv, ReportInv, NEW k \in Tasks, PutReturns(k) \/ PutReplyLost(k)
    PROVE  ReportInv'
<1>1. /\ call \in [Tasks -> Calls \cup {NoCall}]
      /\ request \in [Tasks -> Requests \cup {NoRequest}]
      /\ applied \in [ChangeIds -> 0..2]
  BY DEF WorkflowInv, WorkflowTypeOK, TypeOK
<1>2. /\ Written(k) /\ UNCHANGED <<changeTable, audit>> /\ interrupted \subseteq interrupted'
  BY DEF PutReturns, PutReplyLost, CutShort
<1>3. /\ request[k] # NoRequest /\ request[k] \in Requests /\ request[k].step = "store"
      /\ SoundRequest(request[k])
  BY <1>1, <1>2 DEF Written, AtStep, WorkflowInv, RequestsSound
<1>4. OneTaskMoves(k) /\ call'[k] = NoCall
  <2>1. \A l \in Tasks : l # k => request'[l] = request[l]
    BY <1>1 DEF PutReturns, PutReplyLost, CutShort, Finish
  <2>. QED  BY <1>1, <1>2, <2>1 DEF Written, Put, OneTaskMoves
<1>5. CASE ~IsApproval(k)
  <2>1. applied' = applied /\ \A c \in ChangeIds : ~WillReport(k, c)
    BY <1>2, <1>5 DEF Written, IsApproval, WillReport, Handles
  <2>2. request'[k] = NoRequest \/ request'[k].record = NoChange
    <3>1. CASE PutReturns(k)
      BY <1>1, <1>3, <1>5, <3>1 DEF PutReturns, IsApproval, Requests
    <3>2. CASE PutReplyLost(k)
      BY <1>1, <3>2 DEF PutReplyLost, CutShort, Finish
    <3>. QED  BY <3>1, <3>2
  <2>3. HandlerFits(k)' /\ \A c \in ChangeIds : ~Handles(k, c)'
    BY <1>4, <2>2 DEF HandlerFits, Handles
  <2>. QED  BY <1>2, <1>4, <2>1, <2>3, HandlerStepReports
<1>6. CASE IsApproval(k)
  <2>. PICK c \in ChangeIds : c = request[k].subject
    BY <1>3, <1>6 DEF SoundRequest, IsApproval
  <2>1. Handles(k, c) /\ changeTable[c] # NoChange
    BY <1>3, <1>6 DEF IsApproval, Handles, ReportInv, ProposedFirst, FirstPut
  <2>2. \A d \in ChangeIds : d # c => applied'[d] = applied[d]
    BY <1>1, <1>2, <1>6 DEF Written
  <2>3. request[k].record.status = "APPLIED"
    BY <1>3, <1>6 DEF ReportInv, HandlersFit, HandlerFits, IsApproval
  <2>4. \/ request'[k] = NoRequest /\ c \in interrupted'
        \/ /\ request'[k] # NoRequest /\ request'[k].step = "put_change"
           /\ request'[k].subject = c /\ request'[k].record = request[k].record
    <3>1. CASE PutReplyLost(k)
      BY <1>1, <2>1, <3>1 DEF PutReplyLost, CutShort, Finish
    <3>2. CASE PutReturns(k)
      <4>1. request' = [request EXCEPT ![k].step = "put_change"]
        BY <1>6, <3>2 DEF PutReturns
      <4>2. request'[k] \in Requests
        BY <1>1, <1>3, <4>1 DEF Requests
      <4>. QED  BY <1>1, <1>3, <4>1, <4>2, WorkflowAssumption DEF Requests
    <3>. QED  BY <3>1, <3>2
  <2>5. \A d \in ChangeIds : (Handles(k, d)' => d = c) /\ ~WillReport(k, d)
    BY <1>3, <2>4 DEF Handles, WillReport
  <2>6. ProposedFirst'
    <3>. SUFFICES ASSUME NEW d \in ChangeIds, changeTable[d] = NoChange
                  PROVE  applied'[d] = 0 /\ \A l \in Tasks : Handles(l, d)' => FirstPut(l, d)'
      BY <1>2 DEF ProposedFirst
    <3>1. d # c /\ applied'[d] = 0
      BY <2>1, <2>2 DEF ReportInv, ProposedFirst
    <3>2. \A l \in Tasks : Handles(l, d)' => l # k /\ Handles(l, d)
      BY <1>4, <2>5, <3>1 DEF OneTaskMoves, Handles
    <3>. QED  BY <1>4, <3>1, <3>2 DEF ReportInv, ProposedFirst, FirstPut, OneTaskMoves
  <2>7. HandlersFit'
    BY <1>2, <1>4, <2>3, <2>4 DEF ReportInv, HandlersFit, HandlerFits, OneTaskMoves
  <2>8. ReportsAhead'
    <3>. SUFFICES ASSUME NEW d \in ChangeIds, applied'[d] > 0 PROVE ReportAhead(d)'
      BY DEF ReportsAhead
    <3>1. CASE d = c
      BY <2>3, <2>4, <2>1, <3>1 DEF ReportAhead, WillReport, Handles
    <3>2. CASE d # c
      <4>1. ReportAhead(d)
        BY <2>2, <3>2 DEF ReportInv, ReportsAhead
      <4>2. ASSUME NEW l \in Tasks, WillReport(l, d) PROVE WillReport(l, d)'
        BY <1>2, <1>4, <2>5, <4>2 DEF OneTaskMoves, WillReport, Handles, Decided
      <4>. QED  BY <1>2, <4>1, <4>2 DEF ReportAhead, Reported, Decided
    <3>. QED  BY <3>1, <3>2
  <2>. QED  BY <2>6, <2>7, <2>8 DEF ReportInv
<1>. QED  BY <1>5, <1>6

(* The record is put: as pending only the first time, so never over a report. *)
LEMMA PutChangeReports ==
    ASSUME WorkflowInv, ReportInv, NEW k \in Tasks, PutChange(k) \/ ChangeReplyLost(k)
    PROVE  ReportInv'
<1>1. /\ call \in [Tasks -> Calls \cup {NoCall}]
      /\ request \in [Tasks -> Requests \cup {NoRequest}]
      /\ changeTable \in [ChangeIds -> ChangeRecords \cup {NoChange}]
  BY DEF WorkflowInv, WorkflowTypeOK, TypeOK
<1>2. /\ request[k] # NoRequest /\ request[k] \in Requests /\ request[k].step = "put_change"
      /\ SoundRequest(request[k])
  BY <1>1 DEF PutChange, ChangeReplyLost, RecordWritten, AtStep, WorkflowInv, RequestsSound
<1>. PICK c \in ChangeIds : c = request[k].subject
  BY <1>2 DEF SoundRequest
<1>. PICK record : record = request[k].record
  OBVIOUS
<1>3. /\ record # NoChange /\ record.status \in Statuses /\ Handles(k, c)
  BY <1>2 DEF SoundRequest, UsableRecords, ChangeRecords, Handles
<1>4. /\ UNCHANGED <<call, applied, audit>> /\ interrupted \subseteq interrupted'
      /\ changeTable'[c] = record
      /\ \A d \in ChangeIds : d # c => changeTable'[d] = changeTable[d]
  BY <1>1 DEF PutChange, ChangeReplyLost, CutShort, RecordWritten, storeVars
<1>5. /\ \/ request'[k] = NoRequest /\ c \in interrupted'
         \/ /\ request'[k] # NoRequest /\ request'[k].step = "audit"
            /\ request'[k].subject = c /\ request'[k].record = record
      /\ \A l \in Tasks : l # k => request'[l] = request[l]
  <2>1. CASE PutChange(k)
    <3>1. request' = [request EXCEPT ![k].step = "audit"]
      BY <2>1 DEF PutChange
    <3>2. request'[k] \in Requests
      BY <1>1, <1>2, <3>1 DEF Requests
    <3>. QED  BY <1>1, <1>2, <3>1, <3>2, WorkflowAssumption DEF Requests
  <2>2. CASE ChangeReplyLost(k)
    BY <1>1, <1>3, <2>2 DEF ChangeReplyLost, CutShort, Finish
  <2>. QED  BY <2>1, <2>2
<1>6. record.status = "PENDING_APPROVAL" => changeTable[c] = NoChange
  BY <1>2, <1>3 DEF ReportInv, HandlersFit, HandlerFits
<1>7. applied[c] > 0 => Decided(c)'
  BY <1>3, <1>4, <1>6 DEF ReportInv, ProposedFirst, Decided, Statuses
<1>8. ProposedFirst'
  <2>. SUFFICES ASSUME NEW d \in ChangeIds, d # c, changeTable[d] = NoChange
                PROVE  applied[d] = 0 /\ \A l \in Tasks : Handles(l, d)' => FirstPut(l, d)'
    BY <1>3, <1>4 DEF ProposedFirst
  <2>1. \A l \in Tasks : Handles(l, d)' => l # k /\ Handles(l, d)
    BY <1>5 DEF Handles
  <2>. QED  BY <1>5, <2>1 DEF ReportInv, ProposedFirst, FirstPut
<1>9. HandlersFit'
  <2>1. call[k] = NoCall
    BY <1>2 DEF ReportInv, HandlersFit, HandlerFits
  <2>2. HandlerFits(k)'
    BY <1>4, <1>5, <2>1 DEF HandlerFits
  <2>3. ASSUME NEW l \in Tasks, l # k PROVE HandlerFits(l)'
    <3>1. HandlerFits(l) /\ request'[l] = request[l] /\ call'[l] = call[l]
      BY <1>4, <1>5, <2>3 DEF ReportInv, HandlersFit
    <3>2. ASSUME request[l] # NoRequest, request[l].record # NoChange, request[l].step = "put_change",
                 request[l].record.status = "PENDING_APPROVAL"
          PROVE  changeTable'[request[l].subject] = NoChange
      <4>1. request[l].subject \in ChangeIds /\ Handles(l, request[l].subject)
        BY <3>2 DEF WorkflowInv, RequestsSound, SoundRequest, Handles
      <4>2. changeTable[request[l].subject] = NoChange
        BY <3>1, <3>2 DEF HandlerFits
      <4>3. request[l].subject # c
        BY <1>3, <2>3, <4>1, <4>2 DEF ReportInv, ProposedFirst, FirstPut
      <4>. QED  BY <1>4, <4>1, <4>2, <4>3
    <3>. QED  BY <3>1, <3>2 DEF HandlerFits
  <2>. QED  BY <2>2, <2>3 DEF HandlersFit
<1>10. ReportsAhead'
  <2>. SUFFICES ASSUME NEW d \in ChangeIds, applied[d] > 0 PROVE ReportAhead(d)'
    BY <1>4 DEF ReportsAhead
  <2>1. ReportAhead(d) /\ (Decided(d) => Decided(d)')
    BY <1>4, <1>7 DEF ReportInv, ReportsAhead, Decided
  <2>2. ASSUME NEW l \in Tasks, WillReport(l, d) PROVE WillReport(l, d)' \/ d \in interrupted'
    <3>1. CASE l = k
      BY <1>2, <1>5, <1>7, <2>2, <3>1 DEF WillReport, Handles
    <3>2. CASE l # k
      BY <1>5, <2>1, <2>2, <3>2 DEF WillReport, Handles
    <3>. QED  BY <3>1, <3>2
  <2>. QED  BY <1>4, <2>1, <2>2 DEF ReportAhead, Reported
<1>. QED  BY <1>8, <1>9, <1>10 DEF ReportInv

LEMMA ReportInvStep ==
    ASSUME WorkflowInv, ReportInv, [WorkflowNext]_vars
    PROVE  ReportInv'
<1>1. CASE UNCHANGED <<request, call, changeVars>>
  BY <1>1
     DEF changeVars, ReportInv, ProposedFirst, FirstPut, HandlersFit, HandlerFits, ReportsAhead,
         ReportAhead, Reported, WillReport, Decided, Handles
<1>2. ASSUME NEW t \in Tenants, NEW config \in NewConfigs, Onboard(t, config)
      PROVE  UNCHANGED <<request, call, changeVars>>
  BY <1>2 DEF Onboard, Create
<1>3. ASSUME NEW k \in Tasks, (\E t \in Tenants : ReadSnapshot(k, t)) \/ StoreSnapshot(k)
      PROVE  UNCHANGED <<request, call, changeVars>>
  BY <1>3 DEF ReadSnapshot, StoreSnapshot, storeVars
<1>4. CASE UNCHANGED vars
  BY <1>1, <1>4 DEF vars, storeVars
<1>5. ASSUME NEW k \in Tasks, Handle(k) PROVE ReportInv'
  BY <1>5, StoreCallReports, WrittenReports, PutChangeReports, EndReports DEF Handle
<1>. QED
  BY <1>1, <1>2, <1>3, <1>4, <1>5, ReceiveReports, EndReports DEF WorkflowNext, RequestNext

(* An edit that took effect is never left pending or off the audit trail,   *)
(* whoever else approves or rejects it meanwhile, unless a handler of the  *)
(* change raised, died or lost the answer of its put.                      *)
THEOREM EditsAreReported == WorkflowSpec => []AppliedIsReported
<1>1. ReportInv => AppliedIsReported
  BY DEF ReportInv, ReportsAhead, ReportAhead, WillReport, Reported, Decided, AppliedIsReported
<1>. QED
  BY <1>1, ReportInvInit, ReportInvStep, WorkflowInvHolds, PTL DEF WorkflowSpec

-----------------------------------------------------------------------------
(* What the conditional write of apply_change buys a tenant, until an       *)
(* unconditional put of it races.                                          *)

(* The records of a change: the stored one, and those handlers carry. *)
RecordsOf(c) ==
    ({changeTable[c]} \cup
     {request[k].record : k \in {l \in Tasks : request[l] # NoRequest /\ request[l].subject = c}})
        \ {NoChange}

(* All of them are one edit of one tenant, and of the version the proposer saw. *)
RecordsAgree ==
    \A c \in ChangeIds : \A r, s \in RecordsOf(c) :
        r.tenant = s.tenant /\ r.changes = s.changes
RecordsOnBasis ==
    \A c \in ChangeIds : \A r \in RecordsOf(c) :
        /\ basis[c] \in versions[r.tenant]
        /\ basis[c].policy_epoch = r.base_policy_epoch

(* An approval in progress is of a stored change. *)
ApprovesStored(k) ==
    (/\ request[k] # NoRequest
     /\ request[k].record # NoChange
     /\ request[k].step \in {"apply", "store"}) => changeTable[request[k].subject] # NoChange
ApprovalsOfStored == \A k \in Tasks : ApprovesStored(k)

(* Once an edit is written its tenant has left the version it was based on. *)
AppliedMovedOn ==
    \A c \in ChangeIds : applied[c] > 0 =>
        /\ changeTable[c] # NoChange
        /\ changeTable[c].tenant \notin raced =>
              table[changeTable[c].tenant].policy_epoch > basis[c].policy_epoch

EditInv ==
    /\ WorkflowInv
    /\ ApprovalCalls
    /\ OneVersion
    /\ RecordsAgree
    /\ RecordsOnBasis
    /\ ApprovalsOfStored
    /\ AppliedMovedOn
    /\ AppliedAtMostOnce
    /\ OneEditPerVersion

LEMMA EditInvInit == WorkflowInit => EditInv
<1>. SUFFICES ASSUME WorkflowInit PROVE EditInv
  OBVIOUS
<1>1. WorkflowInv /\ OneVersion /\ ApprovalCalls
  BY WorkflowInvInit, OneVersionInit, ApprovalCallsInit DEF WorkflowInit
<1>2. \A c \in ChangeIds : RecordsOf(c) = {}
  BY DEF WorkflowInit, RecordsOf
<1>. QED
  BY <1>1, <1>2
     DEF WorkflowInit, EditInv, RecordsAgree, RecordsOnBasis, ApprovalsOfStored, ApprovesStored,
         AppliedMovedOn, AppliedAtMostOnce, OneEditPerVersion

(* No version disappears, and the epoch of no tenant that is not raced goes  *)
(* back.                                                                   *)
EpochsGrow ==
    /\ raced \subseteq raced'
    /\ \A t \in Tenants : versions[t] \subseteq versions'[t]
    /\ \A t \in Tenants \ raced' : table[t] # NoPolicy =>
          /\ table'[t] # NoPolicy
          /\ table[t].policy_epoch <= table'[t].policy_epoch

LEMMA EpochsOnlyGrow ==
    ASSUME AnyUse, OneVersion, [Next]_storeVars
    PROVE  EpochsGrow
<1>1. /\ table \in [Tenants -> Policies \cup {NoPolicy}]
      /\ \A t \in Tenants : versions[t] \subseteq versions'[t]
  BY VersionsOnlyGrow DEF AnyUse, TypeOK
<1>2. \A p \in Policies : p.policy_epoch \in Nat /\ p # NoPolicy
  BY PolicyModelAssumption DEF Policies, Epochs
<1>3. CASE UNCHANGED <<table, raced>>
  BY <1>1, <1>2, <1>3 DEF EpochsGrow
<1>4. ASSUME NEW t \in Tenants, NEW config \in NewConfigs, Create(t, config)
      PROVE  EpochsGrow
  <2>1. NewPolicy(config) \in Policies
    BY NewPolicyIsAPolicy, InputAssumption
  <2>2. table' = [table EXCEPT ![t] = NewPolicy(config)] /\ table[t] = NoPolicy /\ raced' = raced
    BY <1>4, <2>1, PutItemStores DEF Create, AnyUse
  <2>. QED  BY <1>1, <1>2, <2>2 DEF EpochsGrow
<1>5. ASSUME NEW k \in Tasks, Put(k)
      PROVE  EpochsGrow
  <2>. PICK u : u = call[k].tenant
    OBVIOUS
  <2>1. /\ u \in Tenants /\ raced \subseteq raced'
        /\ table' = [table EXCEPT ![u] = call[k].updated]
        /\ call[k].updated \in Policies
    BY <1>5, PutWrites
  <2>2. u \notin raced' => /\ table[u] \in Policies
                           /\ call[k].updated.policy_epoch = table[u].policy_epoch + 1
    BY <1>5, PutWrites, PutReplacesCurrent
  <2>. QED  BY <1>1, <1>2, <2>1, <2>2 DEF EpochsGrow
<1>6. ASSUME NEW k \in Tasks, NEW t \in Tenants, Start(k, t)
      PROVE  UNCHANGED <<table, raced>>
  BY <1>6, StartBegins DEF AnyUse
<1>. QED
  BY <1>3, <1>4, <1>5, <1>6
     DEF Next, Continue, storeVars, GetTarget, NoTarget, Archive, PutRefused, Abort

LEMMA RecordsAreUsable ==
    ASSUME WorkflowInv, NEW c \in ChangeIds
    PROVE  RecordsOf(c) \subseteq UsableRecords
BY DEF RecordsOf, WorkflowInv, RecordsUsable, RequestsSound, SoundRequest

(* Where the records of a step come from: no new edit but propose's. *)
SameEdit(r, s) ==
    /\ r.tenant = s.tenant
    /\ r.changes = s.changes
    /\ r.base_policy_epoch = s.base_policy_epoch
RecordsKept ==
    \A c \in ChangeIds : \A r \in RecordsOf(c)' : \E s \in RecordsOf(c) : SameEdit(r, s)

(* A handler that moves on with the record it has, or one of the stored change. *)
LEMMA HandlerKeepsRecords ==
    ASSUME WorkflowInv, NEW k \in Tasks, NEW r,
           request' = [request EXCEPT ![k] = r], changeTable' = changeTable,
           (r # NoRequest /\ r.record # NoChange) =>
               \E s \in RecordsOf(r.subject) : SameEdit(r.record, s)
    PROVE  RecordsKept
<1>. SUFFICES ASSUME NEW c \in ChangeIds, NEW d \in RecordsOf(c)'
              PROVE  \E s \in RecordsOf(c) : SameEdit(d, s)
  BY DEF RecordsKept
<1>1. request'[k] = r /\ \A l \in Tasks : l # k => request'[l] = request[l]
  BY DEF WorkflowInv, WorkflowTypeOK
<1>2. CASE d = changeTable'[c]
  BY <1>2 DEF RecordsOf, SameEdit
<1>3. ASSUME NEW l \in Tasks, request'[l] # NoRequest, request'[l].subject = c,
             d = request'[l].record, d # NoChange
      PROVE  \E s \in RecordsOf(c) : SameEdit(d, s)
  <2>1. CASE l = k
    BY <1>1, <1>3, <2>1
  <2>2. CASE l # k
    BY <1>1, <1>3, <2>2 DEF RecordsOf, SameEdit
  <2>. QED  BY <2>1, <2>2
<1>. QED  BY <1>2, <1>3 DEF RecordsOf

(* What a step gives the next lemmas: the store's part of it, and that a    *)
(* stored change stays stored.                                             *)
StoreMovesOn ==
    /\ WorkflowInv'
    /\ ApprovalCalls'
    /\ OneVersion'
    /\ EpochsGrow

LEMMA RecordsStay ==
    ASSUME EditInv, StoreMovesOn, RecordsKept, basis' = basis
    PROVE  RecordsAgree' /\ RecordsOnBasis'
<1>1. RecordsAgree'
  BY DEF EditInv, RecordsAgree, RecordsKept, SameEdit
<1>2. ASSUME NEW c \in ChangeIds, NEW r \in RecordsOf(c)'
      PROVE  basis[c] \in versions'[r.tenant] /\ basis[c].policy_epoch = r.base_policy_epoch
  <2>1. PICK s \in RecordsOf(c) : SameEdit(r, s)
    BY <1>2 DEF RecordsKept
  <2>2. s.tenant \in Tenants
    BY RecordsAreUsable DEF EditInv, UsableRecords, ChangeRecords
  <2>. QED  BY <2>1, <2>2 DEF SameEdit, EditInv, RecordsOnBasis, StoreMovesOn, EpochsGrow
<1>. QED  BY <1>1, <1>2 DEF RecordsOnBasis

(* An edit that was written was based on an epoch, and is of a tenant with a policy. *)
LEMMA AppliedTypes ==
    ASSUME EditInv, NEW c \in ChangeIds, changeTable[c] # NoChange
    PROVE  /\ changeTable[c] \in RecordsOf(c)
           /\ changeTable[c].tenant \in Tenants
           /\ basis[c] \in versions[changeTable[c].tenant]
           /\ basis[c].policy_epoch \in Nat
           /\ table[changeTable[c].tenant] # NoPolicy
           /\ table[changeTable[c].tenant].policy_epoch \in Nat
<1>1. changeTable[c] \in RecordsOf(c)
  BY DEF RecordsOf
<1>2. changeTable[c].tenant \in Tenants
  BY <1>1, RecordsAreUsable DEF EditInv, UsableRecords, ChangeRecords
<1>3. basis[c] \in versions[changeTable[c].tenant]
  BY <1>1 DEF EditInv, RecordsOnBasis
<1>4. table[changeTable[c].tenant] # NoPolicy
  BY <1>2, <1>3 DEF EditInv, WorkflowInv, AnyUse, TableIsAVersion
<1>. QED
  BY <1>1, <1>2, <1>3, <1>4 DEF EditInv, WorkflowInv, AnyUse, TypeOK, Policies, Epochs

(* The tenant of an edit that was written is raced, or stays past its basis. *)
LEMMA MovedOnStays ==
    ASSUME EditInv, StoreMovesOn, NEW c \in ChangeIds, applied[c] > 0,
           changeTable[c].tenant \notin raced'
    PROVE  table'[changeTable[c].tenant].policy_epoch > basis[c].policy_epoch
<1>. PICK t : t = changeTable[c].tenant
  OBVIOUS
<1>1. /\ changeTable[c] # NoChange
      /\ t \notin raced
      /\ table[t].policy_epoch > basis[c].policy_epoch
  BY DEF EditInv, AppliedMovedOn, StoreMovesOn, EpochsGrow
<1>2. /\ t \in Tenants /\ basis[c].policy_epoch \in Nat
      /\ table[t] # NoPolicy /\ table[t].policy_epoch \in Nat
  BY <1>1, AppliedTypes
<1>3. table'[t] # NoPolicy /\ table[t].policy_epoch <= table'[t].policy_epoch
  BY <1>2 DEF StoreMovesOn, EpochsGrow
<1>4. table'[t].policy_epoch \in Nat
  BY <1>2, <1>3 DEF StoreMovesOn, WorkflowInv, AnyUse, TypeOK, Policies, Epochs
<1>. QED  BY <1>1, <1>2, <1>3, <1>4

LEMMA AppliedStaysBehind ==
    ASSUME EditInv, StoreMovesOn, UNCHANGED <<basis, applied>>,
           \A c \in ChangeIds : changeTable[c] # NoChange =>
               changeTable'[c] # NoChange /\ changeTable'[c].tenant = changeTable[c].tenant
    PROVE  AppliedMovedOn' /\ AppliedAtMostOnce' /\ OneEditPerVersion'
<1>1. /\ raced \subseteq raced'
      /\ applied \in [ChangeIds -> 0..2]
      /\ \A c \in ChangeIds : applied[c] > 0 =>
            /\ changeTable'[c] # NoChange
            /\ changeTable'[c].tenant = changeTable[c].tenant
  BY DEF StoreMovesOn, EpochsGrow, EditInv, WorkflowInv, WorkflowTypeOK, AppliedMovedOn
<1>2. AppliedMovedOn'
  BY <1>1, MovedOnStays DEF AppliedMovedOn
<1>3. AppliedAtMostOnce'
  BY <1>1 DEF EditInv, AppliedAtMostOnce
<1>4. OneEditPerVersion'
  BY <1>1 DEF EditInv, OneEditPerVersion
<1>. QED  BY <1>2, <1>3, <1>4

(* The calls of the other tasks stay what they were. *)
LEMMA OtherCallsStay ==
    ASSUME EditInv, NEW k \in Tasks,
           \A l \in Tasks : l # k => request'[l] = request[l] /\ call'[l] = call[l],
           \A c \in ChangeIds : changeTable[c] # NoChange => changeTable'[c] # NoChange,
           ApprovesStored(k)'
    PROVE  ApprovalsOfStored'
<1>. SUFFICES ASSUME NEW l \in Tasks, l # k PROVE ApprovesStored(l)'
  BY DEF ApprovalsOfStored
<1>1. ApprovesStored(l) /\ request'[l] = request[l] /\ call'[l] = call[l]
  BY DEF EditInv, ApprovalsOfStored
<1>2. (request[l] # NoRequest /\ request[l].record # NoChange) => request[l].subject \in ChangeIds
  BY DEF EditInv, WorkflowInv, RequestsSound, SoundRequest
<1>. QED  BY <1>1, <1>2 DEF ApprovesStored

(* A step of one handler that leaves the changes as they are. *)
LEMMA MoveKeepsEdits ==
    ASSUME EditInv, StoreMovesOn, UNCHANGED <<changeTable, basis, applied>>,
           NEW k \in Tasks, NEW r, request' = [request EXCEPT ![k] = r],
           (r # NoRequest /\ r.record # NoChange) =>
               \E s \in RecordsOf(r.subject) : SameEdit(r.record, s),
           \A l \in Tasks : l # k => call'[l] = call[l],
           ApprovesStored(k)'
    PROVE  EditInv'
<1>1. RecordsAgree' /\ RecordsOnBasis'
  BY HandlerKeepsRecords, RecordsStay DEF EditInv
<1>2. AppliedMovedOn' /\ AppliedAtMostOnce' /\ OneEditPerVersion'
  BY AppliedStaysBehind
<1>3. \A l \in Tasks : l # k => request'[l] = request[l]
  BY DEF EditInv, WorkflowInv, WorkflowTypeOK
<1>4. ApprovalsOfStored'
  BY <1>3, OtherCallsStay
<1>. QED  BY <1>1, <1>2, <1>4 DEF EditInv, StoreMovesOn

(* A handler in progress carries a record of its subject. *)
LEMMA HandlerHasARecord ==
    ASSUME WorkflowInv, NEW k \in Tasks, request[k] # NoRequest, request[k].record # NoChange
    PROVE  /\ request[k].subject \in ChangeIds
           /\ request[k].record \in RecordsOf(request[k].subject)
           /\ request[k].record \in UsableRecords
BY DEF RecordsOf, WorkflowInv, RequestsSound, SoundRequest

(* Handlers that end. *)
LEMMA FinishKeepsEdits ==
    ASSUME EditInv, StoreMovesOn, UNCHANGED <<changeTable, basis, applied>>,
           NEW k \in Tasks, Finish(k), \A l \in Tasks : l # k => call'[l] = call[l]
    PROVE  EditInv'
<1>1. request'[k] = NoRequest
  BY DEF Finish, EditInv, WorkflowInv, WorkflowTypeOK
<1>. QED  BY <1>1, MoveKeepsEdits DEF Finish, ApprovesStored

(* Steps of no handler. *)
LEMMA OthersKeepEdits ==
    ASSUME EditInv, StoreMovesOn, UNCHANGED <<changeTable, basis, applied, request, call>>
    PROVE  EditInv'
<1>1. RecordsKept
  BY DEF RecordsKept, RecordsOf, SameEdit
<1>2. RecordsAgree' /\ RecordsOnBasis'
  BY <1>1, RecordsStay
<1>3. AppliedMovedOn' /\ AppliedAtMostOnce' /\ OneEditPerVersion'
  BY AppliedStaysBehind
<1>4. ApprovalsOfStored'
  BY DEF EditInv, ApprovalsOfStored, ApprovesStored
<1>. QED  BY <1>2, <1>3, <1>4 DEF EditInv, StoreMovesOn

LEMMA ReceiveKeepsEdits ==
    ASSUME EditInv, StoreMovesOn, NEW k \in Tasks, Receive(k)
    PROVE  EditInv'
<1>0. /\ request \in [Tasks -> Requests \cup {NoRequest}]
      /\ call \in [Tasks -> Calls \cup {NoCall}]
      /\ basis \in [ChangeIds -> Policies \cup {NoPolicy}]
  BY DEF EditInv, WorkflowInv, WorkflowTypeOK, TypeOK
<1>1. CASE (\E t \in Tenants, state \in StateInputs : SetTenantState(k, t, state))
           \/ (\E t \in Tenants, epoch \in 1..MaxEpoch : RollbackPolicy(k, t, epoch))
  <2>. PICK r : r = [step |-> "store", subject |-> NoChange, record |-> NoChange]
    OBVIOUS
  <2>1. /\ request' = [request EXCEPT ![k] = r]
        /\ UNCHANGED <<changeTable, basis, applied>>
        /\ \A l \in Tasks : l # k => call'[l] = call[l]
    BY <1>0, <1>1 DEF SetTenantState, RollbackPolicy, SetState, Rollback, Begin, changeVars
  <2>2. ApprovesStored(k)'
    BY <1>0, <2>1 DEF ApprovesStored
  <2>. QED  BY <2>1, <2>2, MoveKeepsEdits
<1>2. ASSUME NEW c \in ChangeIds, NEW t \in Tenants, NEW changes \in ChangeInputs,
             NEW seen \in versions[t], Propose(k, c, t, changes, seen)
      PROVE  EditInv'
  <2>. PICK record : record = [tenant |-> t, changes |-> changes,
                               base_policy_epoch |-> seen.policy_epoch,
                               status |-> "PENDING_APPROVAL"]
    OBVIOUS
  <2>. PICK r : r = [step |-> "put_change", subject |-> c, record |-> record]
    OBVIOUS
  <2>1. /\ request' = [request EXCEPT ![k] = r]
        /\ basis' = [basis EXCEPT ![c] = seen]
        /\ UNCHANGED <<storeVars, changeTable, applied>>
        /\ changeTable[c] = NoChange /\ request[k] = NoRequest
        /\ RecordsOf(c) = {}
    BY <1>2 DEF Propose, Idle, Handles, RecordsOf
  <2>2. /\ basis'[c] = seen /\ \A d \in ChangeIds : d # c => basis'[d] = basis[d]
        /\ request'[k] = r /\ \A l \in Tasks : l # k => request'[l] = request[l]
    BY <1>0, <2>1
  <2>3. /\ RecordsOf(c)' \subseteq {record}
        /\ \A d \in ChangeIds : d # c => RecordsOf(d)' \subseteq RecordsOf(d)
    BY <2>1, <2>2 DEF RecordsOf
  <2>4. RecordsAgree' /\ RecordsOnBasis'
    BY <2>1, <2>2, <2>3 DEF EditInv, RecordsAgree, RecordsOnBasis, storeVars
  <2>5. ApprovalsOfStored'
    BY <2>1, <2>2 DEF EditInv, ApprovalsOfStored, ApprovesStored, storeVars
  <2>6. AppliedMovedOn' /\ AppliedAtMostOnce' /\ OneEditPerVersion'
    <3>1. applied[c] > 0 => FALSE
      BY <2>1 DEF EditInv, AppliedMovedOn
    <3>. QED
      BY <2>1, <2>2, <3>1
         DEF EditInv, AppliedMovedOn, AppliedAtMostOnce, OneEditPerVersion, storeVars
  <2>. QED  BY <2>4, <2>5, <2>6 DEF EditInv, StoreMovesOn
<1>3. ASSUME NEW c \in ChangeIds, NEW op, NEW step \in {"apply", "put_change"}, NEW status,
             Decide(k, c, op, step, status)
      PROVE  EditInv'
  <2>. PICK record : record = [changeTable[c] EXCEPT !.status = status]
    OBVIOUS
  <2>. PICK r : r = [step |-> step, subject |-> c, record |-> record]
    OBVIOUS
  <2>1. /\ request' = [request EXCEPT ![k] = r]
        /\ UNCHANGED <<storeVars, changeTable, basis, applied>>
        /\ changeTable[c] # NoChange
    BY <1>3 DEF Decide, ReadsPending, changeVars
  <2>2. changeTable[c] \in RecordsOf(c) /\ SameEdit(record, changeTable[c])
    <3>1. changeTable[c] \in ChangeRecords
      BY <2>1 DEF EditInv, WorkflowInv, WorkflowTypeOK
    <3>. QED  BY <2>1, <3>1 DEF RecordsOf, SameEdit, ChangeRecords
  <2>3. ApprovesStored(k)'
    BY <1>0, <2>1 DEF ApprovesStored, storeVars
  <2>. QED  BY <2>1, <2>2, <2>3, MoveKeepsEdits DEF storeVars
<1>. QED  BY <1>1, <1>2, <1>3 DEF Receive, Approve, Reject

(* apply_change inside approve starts from the epoch the record names. *)
LEMMA ApplyKeepsEdits ==
    ASSUME EditInv, StoreMovesOn, NEW k \in Tasks, Apply(k)
    PROVE  EditInv'
<1>. PICK r : r = [request[k] EXCEPT !.step = "store"]
  OBVIOUS
<1>1. /\ request[k] # NoRequest /\ request[k].step = "apply"
      /\ request' = [request EXCEPT ![k] = r]
      /\ UNCHANGED <<changeTable, basis, applied>>
  BY DEF Apply, AtStep, changeVars
<1>2. /\ request \in [Tasks -> Requests \cup {NoRequest}] /\ request[k] \in Requests
      /\ call \in [Tasks -> Calls \cup {NoCall}]
      /\ request[k].record # NoChange
  BY <1>1 DEF EditInv, WorkflowInv, WorkflowTypeOK, TypeOK, RequestsSound, SoundRequest
<1>3. /\ r.subject = request[k].subject /\ r.record = request[k].record
      /\ request'[k] = r
  BY <1>1, <1>2 DEF Requests
<1>4. \E x : call' = [call EXCEPT ![k] = x]
  BY DEF Apply, ApplyChange, Begin
<1>5. ApprovesStored(k)'
  BY <1>1, <1>2, <1>3, <1>4 DEF ApprovesStored, EditInv, ApprovalsOfStored
<1>6. \A l \in Tasks : l # k => call'[l] = call[l]
  BY <1>2, <1>4
<1>7. request[k].record \in RecordsOf(request[k].subject)
  BY <1>1, <1>2, HandlerHasARecord DEF EditInv
<1>. QED
  BY <1>1, <1>3, <1>5, <1>6, <1>7, MoveKeepsEdits DEF SameEdit

(* The requests of the store between the first and the last. *)
LEMMA StoreStepKeepsEdits ==
    ASSUME EditInv, StoreMovesOn, NEW k \in Tasks, StoreStep(k)
    PROVE  EditInv'
<1>1. /\ request \in [Tasks -> Requests \cup {NoRequest}]
      /\ call \in [Tasks -> Calls \cup {NoCall}]
  BY DEF EditInv, WorkflowInv, WorkflowTypeOK, TypeOK
<1>2. /\ UNCHANGED <<request, changeTable, basis, applied>>
      /\ call[k] # NoCall
      /\ call'[k].tenant = call[k].tenant /\ call'[k].current = call[k].current
      /\ call[k].next # "get_target" =>
            call'[k].next # "get_target" /\ call'[k].updated = call[k].updated
      /\ \A l \in Tasks : l # k => call'[l] = call[l]
  BY <1>1 DEF StoreStep, GetTarget, Archive, changeVars, Calls
<1>3. request' = [request EXCEPT ![k] = request[k]]
  BY <1>1, <1>2
<1>4. ApprovesStored(k)'
  BY <1>2 DEF ApprovesStored, EditInv, ApprovalsOfStored
<1>5. (request[k] # NoRequest /\ request[k].record # NoChange) =>
         \E s \in RecordsOf(request[k].subject) : SameEdit(request[k].record, s)
  BY HandlerHasARecord DEF SameEdit, EditInv
<1>. QED  BY <1>2, <1>3, <1>4, <1>5, MoveKeepsEdits

(* An approval's put writes the edit of a stored change, and races nobody.  *)
LEMMA WrittenIsStored ==
    ASSUME EditInv, NEW k \in Tasks, Written(k), IsApproval(k)
    PROVE  /\ request[k].subject \in ChangeIds
           /\ changeTable[request[k].subject] # NoChange
           /\ changeTable[request[k].subject].tenant = request[k].record.tenant
           /\ changeTable[request[k].subject].changes = request[k].record.changes
           /\ request[k].record.tenant \in Tenants
           /\ basis[request[k].subject] \in versions[request[k].record.tenant]
           /\ basis[request[k].subject].policy_epoch = request[k].record.base_policy_epoch
           /\ Put(k) /\ call[k] # NoCall
           /\ call[k].tenant = request[k].record.tenant
           /\ call[k].current.policy_epoch = request[k].record.base_policy_epoch
           /\ call[k].updated = ApplyFieldChanges(call[k].current, request[k].record.changes)
           /\ raced' = raced
           /\ applied' = [applied EXCEPT ![request[k].subject] = IF @ < 2 THEN @ + 1 ELSE @]
<1>. DEFINE c == request[k].subject
            record == request[k].record
<1>1. request[k] # NoRequest /\ request[k].step = "store" /\ record # NoChange /\ Put(k)
  BY DEF Written, AtStep, IsApproval
<1>2. c \in ChangeIds /\ record \in RecordsOf(c) /\ record.tenant \in Tenants
  BY <1>1, HandlerHasARecord DEF EditInv, UsableRecords, ChangeRecords
<1>3. call[k] # NoCall
  BY <1>1 DEF Put
<1>4. /\ changeTable[c] # NoChange
      /\ call[k].conditional
      /\ call[k].tenant = record.tenant
      /\ call[k].current.policy_epoch = record.base_policy_epoch
      /\ call[k].updated = ApplyFieldChanges(call[k].current, record.changes)
  BY <1>1, <1>3 DEF EditInv, ApprovalsOfStored, ApprovesStored, ApprovalCalls, CallFits
<1>5. changeTable[c].tenant = record.tenant /\ changeTable[c].changes = record.changes
  BY <1>2, <1>4, AppliedTypes DEF EditInv, RecordsAgree
<1>6. basis[c] \in versions[record.tenant] /\ basis[c].policy_epoch = record.base_policy_epoch
  BY <1>2 DEF EditInv, RecordsOnBasis
<1>7. raced' = raced
  BY <1>1, <1>4 DEF Put, Races
<1>. QED  BY <1>1, <1>2, <1>3, <1>4, <1>5, <1>6, <1>7 DEF Written

(* Of a tenant that is not raced it takes the place of exactly the version   *)
(* its proposer saw.                                                       *)
LEMMA WrittenOnItsBasis ==
    ASSUME EditInv, NEW k \in Tasks, Written(k), IsApproval(k),
           request[k].record.tenant \notin raced
    PROVE  /\ table[request[k].record.tenant] = basis[request[k].subject]
           /\ call[k].current = basis[request[k].subject]
           /\ table'[request[k].record.tenant].policy_epoch
                = basis[request[k].subject].policy_epoch + 1
<1>. DEFINE c == request[k].subject
            t == request[k].record.tenant
<1>1. /\ basis[c] \in versions[t] /\ t \in Tenants
      /\ call[k].tenant = t /\ Put(k)
      /\ basis[c].policy_epoch = call[k].current.policy_epoch
      /\ raced' = raced
  BY WrittenIsStored
<1>2. /\ call[k].current = table[t]
      /\ call[k].current \in versions[t]
      /\ call[k].updated.policy_epoch = call[k].current.policy_epoch + 1
      /\ table' = [table EXCEPT ![t] = call[k].updated]
  BY <1>1, PutReplacesCurrent, PutWrites DEF EditInv, WorkflowInv
<1>3. table[t] = basis[c]
  BY <1>1, <1>2 DEF EditInv, OneVersion, EpochNamesOneVersion
<1>4. table'[t] = call[k].updated
  BY <1>1, <1>2 DEF EditInv, WorkflowInv, AnyUse, TypeOK
<1>. QED  BY <1>1, <1>2, <1>3, <1>4

(* An approval's put is counted; what was written before, of a tenant that   *)
(* is not raced, was based on older versions.                              *)
LEMMA WrittenIsCounted ==
    ASSUME EditInv, StoreMovesOn, NEW k \in Tasks, Written(k), IsApproval(k),
           UNCHANGED <<changeTable, basis>>
    PROVE  AppliedMovedOn' /\ AppliedAtMostOnce' /\ OneEditPerVersion'
<1>. PICK c : c = request[k].subject
  OBVIOUS
<1>. PICK t : t = request[k].record.tenant
  OBVIOUS
<1>1. /\ c \in ChangeIds /\ changeTable[c] # NoChange /\ changeTable[c].tenant = t
      /\ raced' = raced
      /\ applied' = [applied EXCEPT ![c] = IF @ < 2 THEN @ + 1 ELSE @]
      /\ applied \in [ChangeIds -> 0..2]
  BY WrittenIsStored DEF EditInv, WorkflowInv, WorkflowTypeOK
<1>2. \A d \in ChangeIds : d # c => applied'[d] = applied[d]
  BY <1>1
<1>3. basis[c].policy_epoch \in Nat
  BY <1>1, AppliedTypes
<1>4. ASSUME t \notin raced
      PROVE  /\ table[t].policy_epoch = basis[c].policy_epoch
             /\ table'[t].policy_epoch = basis[c].policy_epoch + 1
  BY <1>4, WrittenOnItsBasis
<1>5. \A d \in ChangeIds : (applied[d] > 0 /\ changeTable[d].tenant = t /\ t \notin raced) =>
         basis[d].policy_epoch \in Nat /\ basis[d].policy_epoch < basis[c].policy_epoch
  BY <1>4, AppliedTypes DEF EditInv, AppliedMovedOn
<1>6. t \notin raced => applied'[c] = 1
  BY <1>1, <1>3, <1>5
<1>7. AppliedMovedOn'
  <2>. SUFFICES ASSUME NEW d \in ChangeIds, applied'[d] > 0
                PROVE  /\ changeTable[d] # NoChange
                       /\ changeTable[d].tenant \notin raced =>
                             table'[changeTable[d].tenant].policy_epoch > basis[d].policy_epoch
    BY <1>1 DEF AppliedMovedOn
  <2>1. CASE d = c
    BY <1>1, <1>3, <1>4, <2>1
  <2>2. CASE d # c
    BY <1>1, <1>2, <2>2, MovedOnStays DEF EditInv, AppliedMovedOn
  <2>. QED  BY <2>1, <2>2
<1>8. AppliedAtMostOnce'
  BY <1>1, <1>2, <1>6 DEF EditInv, AppliedAtMostOnce
<1>9. OneEditPerVersion'
  <2>1. \A d \in ChangeIds :
           (d # c /\ applied'[d] > 0 /\ changeTable[d].tenant = t /\ t \notin raced) =>
               basis[d].policy_epoch # basis[c].policy_epoch
    BY <1>2, <1>3, <1>5
  <2>. QED  BY <1>1, <1>2, <2>1 DEF EditInv, OneEditPerVersion
<1>. QED  BY <1>7, <1>8, <1>9

(* The put of the store. *)
LEMMA WrittenKeepsEdits ==
    ASSUME EditInv, StoreMovesOn, NEW k \in Tasks, Written(k),
           UNCHANGED <<changeTable, basis>>,
           NEW r, request' = [request EXCEPT ![k] = r],
           r # NoRequest => /\ r.step \notin {"apply", "store"}
                            /\ r.record = request[k].record
                            /\ r.record # NoChange => r.subject = request[k].subject
    PROVE  EditInv'
<1>1. /\ request \in [Tasks -> Requests \cup {NoRequest}]
      /\ call \in [Tasks -> Calls \cup {NoCall}]
      /\ applied \in [ChangeIds -> 0..2]
      /\ request[k] # NoRequest
  BY DEF EditInv, WorkflowInv, WorkflowTypeOK, TypeOK, Written, AtStep
<1>2. request'[k] = r /\ \A l \in Tasks : l # k => request'[l] = request[l] /\ call'[l] = call[l]
  BY <1>1 DEF Written, Put
<1>3. RecordsAgree' /\ RecordsOnBasis'
  <2>1. (r # NoRequest /\ r.record # NoChange) =>
           \E s \in RecordsOf(r.subject) : SameEdit(r.record, s)
    BY <1>1, HandlerHasARecord DEF SameEdit, EditInv
  <2>. QED  BY <2>1, HandlerKeepsRecords, RecordsStay DEF EditInv
<1>4. ApprovalsOfStored'
  <2>1. ApprovesStored(k)'
    BY <1>2 DEF ApprovesStored
  <2>. QED  BY <1>2, <2>1, OtherCallsStay
<1>5. AppliedMovedOn' /\ AppliedAtMostOnce' /\ OneEditPerVersion'
  <2>1. CASE ~IsApproval(k)
    <3>1. applied' = applied
      BY <2>1 DEF Written
    <3>. QED  BY <3>1, AppliedStaysBehind
  <2>. QED  BY <2>1, WrittenIsCounted
<1>. QED  BY <1>3, <1>4, <1>5 DEF EditInv, StoreMovesOn

LEMMA PutEndsKeepEdits ==
    ASSUME EditInv, StoreMovesOn, NEW k \in Tasks, PutReturns(k) \/ PutReplyLost(k)
    PROVE  EditInv'
<1>1. /\ Written(k) /\ UNCHANGED <<changeTable, basis>>
      /\ request[k] # NoRequest /\ request[k] \in Requests
  BY DEF PutReturns, PutReplyLost, Written, AtStep, EditInv, WorkflowInv, WorkflowTypeOK
<1>2. CASE request' = [request EXCEPT ![k] = NoRequest]
  BY <1>1, <1>2, WrittenKeepsEdits
<1>3. CASE IsApproval(k) /\ request' = [request EXCEPT ![k].step = "put_change"]
  <2>. PICK r : r = [request[k] EXCEPT !.step = "put_change"]
    OBVIOUS
  <2>1. /\ request' = [request EXCEPT ![k] = r] /\ r.step = "put_change"
        /\ r.record = request[k].record /\ r.subject = request[k].subject
    BY <1>1, <1>3 DEF Requests
  <2>. QED  BY <1>1, <2>1, WrittenKeepsEdits
<1>4. ASSUME NEW subject, ~IsApproval(k),
             request' = [request EXCEPT ![k].step = "audit", ![k].subject = subject]
      PROVE  EditInv'
  <2>. PICK r : r = [request[k] EXCEPT !.step = "audit", !.subject = subject]
    OBVIOUS
  <2>1. /\ request' = [request EXCEPT ![k] = r] /\ r.step = "audit"
        /\ r.record = request[k].record /\ r.record = NoChange
    BY <1>1, <1>4 DEF Requests, IsApproval
  <2>. QED  BY <1>1, <2>1, WrittenKeepsEdits
<1>. QED  BY <1>2, <1>3, <1>4 DEF PutReturns, PutReplyLost, CutShort, Finish

(* The record of the change is put: one of its tenant and its version. *)
LEMMA PutChangeKeepsEdits ==
    ASSUME EditInv, StoreMovesOn, NEW k \in Tasks, PutChange(k) \/ ChangeReplyLost(k)
    PROVE  EditInv'
<1>. PICK c : c = request[k].subject
  OBVIOUS
<1>. PICK record : record = request[k].record
  OBVIOUS
<1>1. /\ request[k] # NoRequest /\ request[k] \in Requests /\ record # NoChange
      /\ request \in [Tasks -> Requests \cup {NoRequest}]
      /\ changeTable \in [ChangeIds -> ChangeRecords \cup {NoChange}]
  BY DEF PutChange, ChangeReplyLost, RecordWritten, AtStep, EditInv, WorkflowInv, WorkflowTypeOK,
         RequestsSound, SoundRequest
<1>2. c \in ChangeIds /\ record \in RecordsOf(c)
  BY <1>1, HandlerHasARecord DEF EditInv
<1>3. /\ changeTable' = [changeTable EXCEPT ![c] = record]
      /\ UNCHANGED <<storeVars, basis, applied>>
  BY DEF PutChange, ChangeReplyLost, RecordWritten
<1>4. /\ \/ request'[k] = NoRequest
         \/ /\ request'[k].step = "audit"
            /\ request'[k].subject = c /\ request'[k].record = record
      /\ \A l \in Tasks : l # k => request'[l] = request[l]
      /\ changeTable'[c] = record
      /\ \A d \in ChangeIds : d # c => changeTable'[d] = changeTable[d]
  <2>1. CASE PutChange(k)
    <3>1. request' = [request EXCEPT ![k].step = "audit"]
      BY <2>1 DEF PutChange
    <3>. QED  BY <1>1, <1>2, <1>3, <3>1 DEF Requests
  <2>2. CASE ChangeReplyLost(k)
    BY <1>1, <1>2, <1>3, <2>2 DEF ChangeReplyLost, CutShort, Finish
  <2>. QED  BY <2>1, <2>2
<1>5. RecordsKept
  <2>. SUFFICES ASSUME NEW d \in ChangeIds, NEW q \in RecordsOf(d)'
                PROVE  q \in RecordsOf(d)
    BY DEF RecordsKept, SameEdit
  <2>1. CASE q = changeTable'[d]
    BY <1>2, <1>4, <2>1 DEF RecordsOf
  <2>2. ASSUME NEW l \in Tasks, request'[l] # NoRequest, request'[l].subject = d,
               q = request'[l].record, q # NoChange
        PROVE  q \in RecordsOf(d)
    <3>1. CASE l = k
      BY <1>2, <1>4, <2>2, <3>1
    <3>2. CASE l # k
      BY <1>4, <2>2, <3>2 DEF RecordsOf
    <3>. QED  BY <3>1, <3>2
  <2>. QED  BY <2>1, <2>2 DEF RecordsOf
<1>6. RecordsAgree' /\ RecordsOnBasis'
  BY <1>3, <1>5, RecordsStay
<1>7. \A d \in ChangeIds : changeTable[d] # NoChange =>
         changeTable'[d] # NoChange /\ changeTable'[d].tenant = changeTable[d].tenant
  BY <1>1, <1>2, <1>4, AppliedTypes DEF EditInv, RecordsAgree
<1>8. AppliedMovedOn' /\ AppliedAtMostOnce' /\ OneEditPerVersion'
  BY <1>3, <1>7, AppliedStaysBehind
<1>9. ApprovalsOfStored'
  <2>1. ApprovesStored(k)'
    BY <1>4 DEF ApprovesStored
  <2>. QED  BY <1>3, <1>4, <1>7, <2>1, OtherCallsStay DEF storeVars
<1>. QED  BY <1>6, <1>8, <1>9 DEF EditInv, StoreMovesOn

LEMMA StoreMovesOnStep ==
    ASSUME EditInv, [WorkflowNext]_vars
    PROVE  StoreMovesOn
<1>1. /\ WorkflowInv /\ WorkflowInv' /\ [Next]_storeVars /\ AnyUse /\ OneVersion
      /\ ApprovalCalls'
  BY StepUsesStore, WorkflowInvStep, ApprovalCallsStep DEF EditInv, WorkflowInv
<1>2. OneVersion'
  BY <1>1, OneVersionStep
<1>. QED  BY <1>1, <1>2, EpochsOnlyGrow DEF StoreMovesOn

LEMMA EditInvStep ==
    ASSUME EditInv, [WorkflowNext]_vars
    PROVE  EditInv'
<1>1. StoreMovesOn
  BY StoreMovesOnStep
<1>2. /\ call \in [Tasks -> Calls \cup {NoCall}]
      /\ request \in [Tasks -> Requests \cup {NoRequest}]
  BY DEF EditInv, WorkflowInv, WorkflowTypeOK, TypeOK
<1>3. CASE UNCHANGED <<request, call, changeVars>>
  BY <1>1, <1>3, OthersKeepEdits DEF changeVars
<1>4. ASSUME NEW t \in Tenants, NEW config \in NewConfigs, Onboard(t, config)
      PROVE  UNCHANGED <<request, call, changeVars>>
  BY <1>4 DEF Onboard, Create
<1>5. ASSUME NEW k \in Tasks, Receive(k) PROVE EditInv'
  BY <1>1, <1>5, ReceiveKeepsEdits
<1>6. ASSUME NEW k \in Tasks, Handle(k) PROVE EditInv'
  <2>1. CASE ApplyConflict(k) \/ RecordAudit(k)
    <3>1. Finish(k) /\ UNCHANGED <<call, changeTable, basis, applied>>
      BY <2>1 DEF ApplyConflict, RecordAudit, changeVars, storeVars
    <3>. QED  BY <1>1, <3>1, FinishKeepsEdits
  <2>2. CASE StoreRaises(k)
    <3>1. Finish(k) /\ UNCHANGED <<changeTable, basis, applied>>
      BY <2>2 DEF StoreRaises, changeVars
    <3>2. \A l \in Tasks : l # k => call'[l] = call[l]
      BY <1>2, <2>2 DEF StoreRaises, NoTarget, PutRefused
    <3>. QED  BY <1>1, <3>1, <3>2, FinishKeepsEdits
  <2>. QED
    BY <1>1, <1>6, <2>1, <2>2, ApplyKeepsEdits, StoreStepKeepsEdits, PutEndsKeepEdits,
       PutChangeKeepsEdits DEF Handle
<1>7. ASSUME NEW k \in Tasks, Fail(k) \/ Restart(k) PROVE EditInv'
  <2>1. Finish(k) /\ UNCHANGED <<changeTable, basis, applied>>
    BY <1>7 DEF Fail, Restart, CutShort
  <2>2. \A l \in Tasks : l # k => call'[l] = call[l]
    BY <1>2, <1>7 DEF Fail, Restart, Abort, storeVars
  <2>. QED  BY <1>1, <2>1, <2>2, FinishKeepsEdits
<1>8. ASSUME NEW k \in Tasks, (\E t \in Tenants : ReadSnapshot(k, t)) \/ StoreSnapshot(k)
      PROVE  UNCHANGED <<request, call, changeVars>>
  BY <1>8 DEF ReadSnapshot, StoreSnapshot, storeVars
<1>9. CASE UNCHANGED vars
  BY <1>3, <1>9 DEF vars, storeVars
<1>. QED
  BY <1>3, <1>4, <1>5, <1>6, <1>7, <1>8, <1>9 DEF WorkflowNext, RequestNext

LEMMA EditInvHolds == WorkflowSpec => []EditInv
BY EditInvInit, EditInvStep, PTL DEF WorkflowSpec

(* However often a change is approved, by whatever tasks, over stale reads  *)
(* and lost answers, its edit is written at most once - unless a kill       *)
(* switch or rollback of its own tenant raced.                             *)
THEOREM EditsApplyOnce == WorkflowSpec => []AppliedAtMostOnce
BY EditInvHolds, PTL DEF EditInv

(* Of the edits proposed on one version of a tenant at most one is written. *)
THEOREM OneEditOfAVersion == WorkflowSpec => []OneEditPerVersion
BY EditInvHolds, PTL DEF EditInv

(* The step that writes an edit of a tenant that is not raced. *)
LEMMA EditOnItsBasis ==
    ASSUME EditInv, WorkflowNext, NEW k \in Tasks, WritesEdit(k),
           request[k].record.tenant \notin raced
    PROVE  OnItsBasis(k)
<1>1. Written(k) /\ IsApproval(k)
  BY WritesAreWritten DEF EditInv, WritesEdit
<1>. QED  BY <1>1, WrittenOnItsBasis DEF OnItsBasis

(* An approval never writes on top of anything but the version its proposer *)
(* looked at, unless its own tenant was raced ...                          *)
THEOREM OnlyRacesMoveTheBasis == WorkflowSpec => OnlyRacesMissTheBasis
<1>. DEFINE OnBasis == \A k \in Tasks :
              (WritesEdit(k) /\ request[k].record.tenant \notin raced) => OnItsBasis(k)
<1>1. EditInv /\ [WorkflowNext]_vars => [OnBasis]_vars
  BY EditOnItsBasis
<1>. QED  BY <1>1, EditInvHolds, PTL DEF WorkflowSpec, OnlyRacesMissTheBasis

(* ... so while nothing races it never does. *)
THEOREM EditsStayOnTheirBasis == WorkflowSpec /\ []NoRaces => AppliedOnItsBasis
<1>. DEFINE OnBasis == \A k \in Tasks : WritesEdit(k) => OnItsBasis(k)
<1>1. EditInv /\ NoRaces /\ [WorkflowNext]_vars => [OnBasis]_vars
  BY EditOnItsBasis DEF NoRaces
<1>. QED  BY <1>1, EditInvHolds, PTL DEF WorkflowSpec, AppliedOnItsBasis

-----------------------------------------------------------------------------
(* The workflow is the reviewed store.                                     *)

ReviewedVars == <<table, versions, raced, changeTable, basis, applied>>

(* What the reviewed store shows depends on these variables alone. *)
LEMMA SameReviewed == ASSUME UNCHANGED ReviewedVars PROVE UNCHANGED Reviewed!vars
BY DEF ReviewedVars, Reviewed!vars, Proposal

(* A stored change is something that can be proposed. *)
LEMMA ProposalIsOne ==
    ASSUME EditInv, NEW c \in ChangeIds, changeTable[c] # NoChange
    PROVE  Proposal(c) \in Proposals /\ Proposal(c) # NoChange
<1>1. changeTable[c] \in RecordsOf(c) /\ basis[c] \in versions[changeTable[c].tenant]
  BY AppliedTypes
<1>2. /\ changeTable[c].tenant \in Tenants /\ changeTable[c].changes \in ChangeSets
      /\ basis[c] \in Policies
  BY <1>1, RecordsAreUsable
     DEF EditInv, WorkflowInv, AnyUse, TypeOK, UsableRecords, ChangeRecords
<1>. QED  BY <1>2, WorkflowAssumption DEF Proposal, Proposals

(* A creation is a creation. *)
LEMMA OnboardIsCreate ==
    ASSUME WorkflowInv, NEW t \in Tenants, NEW config \in NewConfigs, Onboard(t, config)
    PROVE  Reviewed!Next
<1>1. NewPolicy(config) \in Policies
  BY InputAssumption, NewPolicyIsAPolicy
<1>2. /\ table[t] = NoPolicy
      /\ table' = [table EXCEPT ![t] = NewPolicy(config)]
      /\ versions' = [versions EXCEPT ![t] = @ \cup {NewPolicy(config)}]
      /\ raced' = raced
  BY <1>1, PutItemStores DEF Onboard, Create, WorkflowInv, AnyUse
<1>3. UNCHANGED <<[c \in ChangeIds |-> Proposal(c)], {c \in ChangeIds : applied[c] > 0}>>
  BY DEF Onboard, changeVars, Proposal
<1>4. Reviewed!Create(t, config)
  BY <1>2, <1>3 DEF Reviewed!Create, Reviewed!Becomes, Reviewed!NewPolicy, NewPolicy
<1>. QED  BY <1>4 DEF Reviewed!Next

(* Where no kill switch or rollback is used there are no races. *)
RacesOverride == ConditionalWritesOnly => NoRaces

LEMMA OverridesRace == WorkflowSpec => []RacesOverride
<1>1. CASE ConditionalWritesOnly
  <2>1. NoRaces => RacesOverride
    BY DEF RacesOverride
  <2>. QED  BY <1>1, <2>1, WorkflowRacesNone, PTL DEF Disciplined
<1>2. CASE ~ConditionalWritesOnly
  <2>1. RacesOverride
    BY <1>2 DEF RacesOverride
  <2>. QED  BY <2>1, PTL
<1>. QED  BY <1>1, <1>2

ReviewedInv == EditInv /\ CallsCarryUpdates /\ RacesOverride

(* What an approval's put writes, and what that makes of the changes. *)
LEMMA WrittenIsOfAProposal ==
    ASSUME EditInv, NEW k \in Tasks, Written(k), IsApproval(k),
           UNCHANGED <<changeTable, basis>>,
           NEW c, c = request[k].subject, NEW t, t = request[k].record.tenant
    PROVE  /\ c \in ChangeIds /\ t \in Tenants
           /\ Proposal(c) # NoChange
           /\ Proposal(c).tenant = t /\ Proposal(c).seen = basis[c]
           /\ call[k].updated = ApplyFieldChanges(call[k].current, Proposal(c).changes)
           /\ call[k].current \in versions[t]
           /\ table' = [table EXCEPT ![t] = call[k].updated]
           /\ versions' = [versions EXCEPT ![t] = @ \cup {call[k].updated}]
           /\ raced' = raced
           /\ UNCHANGED [d \in ChangeIds |-> Proposal(d)]
           /\ {d \in ChangeIds : applied'[d] > 0} = {d \in ChangeIds : applied[d] > 0} \cup {c}
<1>1. /\ c \in ChangeIds /\ changeTable[c] # NoChange
      /\ t \in Tenants /\ changeTable[c].tenant = t
      /\ call[k].updated = ApplyFieldChanges(call[k].current, changeTable[c].changes)
      /\ Put(k) /\ call[k].tenant = t /\ raced' = raced
      /\ applied' = [applied EXCEPT ![c] = IF @ < 2 THEN @ + 1 ELSE @]
  BY WrittenIsStored
<1>2. /\ call[k].current \in versions[t]
      /\ table' = [table EXCEPT ![t] = call[k].updated]
      /\ versions' = [versions EXCEPT ![t] = @ \cup {call[k].updated}]
  BY <1>1, PutWrites DEF EditInv, WorkflowInv
<1>3. Proposal(c) = [tenant |-> t, changes |-> changeTable[c].changes, seen |-> basis[c]]
      /\ Proposal(c) # NoChange
      /\ UNCHANGED [d \in ChangeIds |-> Proposal(d)]
  BY <1>1, ProposalIsOne DEF Proposal
<1>4. {d \in ChangeIds : applied'[d] > 0} = {d \in ChangeIds : applied[d] > 0} \cup {c}
  <2>1. applied \in [ChangeIds -> 0..2]
    BY DEF EditInv, WorkflowInv, WorkflowTypeOK
  <2>. QED  BY <1>1, <2>1
<1>. QED  BY <1>1, <1>2, <1>3, <1>4

(* Until its tenant is raced an approval's put is the one write of its edit. *)
LEMMA WrittenIsWrite ==
    ASSUME EditInv, EditInv', NEW k \in Tasks, Written(k), IsApproval(k),
           UNCHANGED <<changeTable, basis>>, request[k].record.tenant \notin raced
    PROVE  Reviewed!Next
<1>. PICK c : c = request[k].subject
  OBVIOUS
<1>. PICK t : t = request[k].record.tenant
  OBVIOUS
<1>1. /\ c \in ChangeIds /\ Proposal(c) # NoChange
      /\ Proposal(c).tenant = t /\ Proposal(c).seen = basis[c]
      /\ call[k].updated = ApplyFieldChanges(call[k].current, Proposal(c).changes)
      /\ table' = [table EXCEPT ![t] = call[k].updated]
      /\ versions' = [versions EXCEPT ![t] = @ \cup {call[k].updated}]
      /\ raced' = raced
      /\ UNCHANGED [d \in ChangeIds |-> Proposal(d)]
      /\ {d \in ChangeIds : applied'[d] > 0} = {d \in ChangeIds : applied[d] > 0} \cup {c}
  BY WrittenIsOfAProposal
<1>2. table[t] = basis[c] /\ call[k].current = basis[c]
  BY WrittenOnItsBasis
<1>3. c \notin {d \in ChangeIds : applied[d] > 0}
  <2>1. applied \in [ChangeIds -> 0..2] /\ applied' = [applied EXCEPT ![c] = IF @ < 2 THEN @ + 1 ELSE @]
        /\ changeTable[c].tenant = t
    BY WrittenIsStored DEF EditInv, WorkflowInv, WorkflowTypeOK
  <2>2. ~(applied'[c] > 1)
    BY <1>1, <2>1 DEF EditInv, AppliedAtMostOnce
  <2>. QED  BY <1>1, <2>1, <2>2
<1>4. [d \in ChangeIds |-> Proposal(d)][c] = Proposal(c)
  BY <1>1
<1>5. call[k].updated = Reviewed!ApplyFieldChanges(Proposal(c).seen, Proposal(c).changes)
  BY <1>1, <1>2 DEF Reviewed!ApplyFieldChanges, ApplyFieldChanges
<1>6. Reviewed!Write(c)
  BY <1>1, <1>2, <1>3, <1>4, <1>5 DEF Reviewed!Write, Reviewed!Becomes
<1>. QED  BY <1>1, <1>6 DEF Reviewed!Next

(* ... and after that it is what the reviewed store allows of a raced tenant. *)
LEMMA WrittenIsRace ==
    ASSUME ReviewedInv, NEW k \in Tasks, Written(k), IsApproval(k),
           UNCHANGED <<changeTable, basis>>, request[k].record.tenant \in raced
    PROVE  Reviewed!Next
<1>. PICK c : c = request[k].subject
  OBVIOUS
<1>. PICK t : t = request[k].record.tenant
  OBVIOUS
<1>1. /\ c \in ChangeIds /\ t \in Tenants
      /\ Proposal(c) # NoChange /\ Proposal(c).tenant = t
      /\ call[k].updated = ApplyFieldChanges(call[k].current, Proposal(c).changes)
      /\ call[k].current \in versions[t]
      /\ table' = [table EXCEPT ![t] = call[k].updated]
      /\ versions' = [versions EXCEPT ![t] = @ \cup {call[k].updated}]
      /\ raced' = raced
      /\ UNCHANGED [d \in ChangeIds |-> Proposal(d)]
      /\ {d \in ChangeIds : applied'[d] > 0} = {d \in ChangeIds : applied[d] > 0} \cup {c}
  BY WrittenIsOfAProposal DEF ReviewedInv
<1>2. ~ConditionalWritesOnly /\ raced' = raced \cup {t}
  BY <1>1 DEF ReviewedInv, RacesOverride, NoRaces
<1>3. [d \in ChangeIds |-> Proposal(d)][c] = Proposal(c)
  BY <1>1
<1>4. call[k].updated = Reviewed!ApplyFieldChanges(call[k].current, Proposal(c).changes)
  BY <1>1 DEF Reviewed!ApplyFieldChanges, ApplyFieldChanges
<1>5. Reviewed!Race(t)
  BY <1>1, <1>2, <1>3, <1>4 DEF Reviewed!Race, Reviewed!Becomes
<1>. QED  BY <1>1, <1>5 DEF Reviewed!Next

(* The kill switch's and rollback's put makes of the version it read what   *)
(* they make of a version.                                                 *)
LEMMA WrittenIsUnreviewed ==
    ASSUME ReviewedInv, NEW k \in Tasks, Written(k), ~IsApproval(k)
    PROVE  call[k].updated \in Reviewed!Unreviewed(call[k].tenant, call[k].current)
<1>1. /\ request[k] # NoRequest /\ request[k].step = "store" /\ request[k].record = NoChange
      /\ Put(k) /\ call[k] # NoCall /\ call[k].updated # NoPolicy
  BY PutWrites, PolicyModelAssumption
     DEF Written, AtStep, IsApproval, ReviewedInv, EditInv, WorkflowInv
<1>2. CASE call[k].target_epoch = 0
  <2>1. ~call[k].conditional
    BY <1>1 DEF ReviewedInv, EditInv, ApprovalCalls, CallFits
  <2>2. PICK state \in StateInputs : call[k].updated = WithState(call[k].current, state)
    BY <1>1, <1>2, <2>1 DEF ReviewedInv, CallsCarryUpdates
  <2>. QED  BY <2>2 DEF Reviewed!Unreviewed, Reviewed!WithState, WithState
<1>3. CASE call[k].target_epoch # 0
  <2>1. PICK target \in versions[call[k].tenant] :
           call[k].updated = Restored(target, call[k].current)
    BY <1>1, <1>3 DEF ReviewedInv, EditInv, WorkflowInv, AnyUse, RollbackRestoresAVersion
  <2>. QED  BY <2>1 DEF Reviewed!Unreviewed, Reviewed!Restored, Restored
<1>. QED  BY <1>2, <1>3

(* ... so it is an override of what there is, or a race.                   *)
LEMMA WrittenIsOverride ==
    ASSUME ReviewedInv, NEW k \in Tasks, Written(k), ~IsApproval(k),
           UNCHANGED <<changeTable, basis>>
    PROVE  Reviewed!Next
<1>. PICK t : t = call[k].tenant
  OBVIOUS
<1>. PICK p : p = call[k].updated
  OBVIOUS
<1>1. /\ t \in Tenants /\ table[t] # NoPolicy
      /\ call[k].current \in versions[t]
      /\ table' = [table EXCEPT ![t] = p]
      /\ versions' = [versions EXCEPT ![t] = @ \cup {p}]
      /\ raced \subseteq raced' /\ raced' \subseteq raced \cup {t}
  BY PutWrites DEF Written, ReviewedInv, EditInv, WorkflowInv
<1>2. ~ConditionalWritesOnly
  BY DEF Written, AtStep, IsApproval, ReviewedInv, EditInv, WorkflowInv, RequestsSound, SoundRequest
<1>3. UNCHANGED <<[c \in ChangeIds |-> Proposal(c)], {c \in ChangeIds : applied[c] > 0}>>
  BY DEF Written, Proposal
<1>4. p \in Reviewed!Unreviewed(t, call[k].current)
  BY WrittenIsUnreviewed
<1>5. CASE t \notin raced'
  <2>1. call[k].current = table[t] /\ raced' = raced
    BY <1>1, <1>5, PutReplacesCurrent DEF Written, ReviewedInv, EditInv, WorkflowInv
  <2>2. Reviewed!Override(t)
    BY <1>1, <1>2, <1>3, <1>4, <2>1 DEF Reviewed!Override, Reviewed!Becomes
  <2>. QED  BY <1>1, <2>2 DEF Reviewed!Next
<1>6. CASE t \in raced'
  <2>1. raced' = raced \cup {t}
    BY <1>1, <1>6
  <2>2. Reviewed!Race(t)
    BY <1>1, <1>2, <1>3, <1>4, <2>1 DEF Reviewed!Race, Reviewed!Becomes
  <2>. QED  BY <1>1, <2>2 DEF Reviewed!Next
<1>. QED  BY <1>5, <1>6

(* The first put of a change record proposes it, the later ones stutter. *)
LEMMA RecordWrittenIsPropose ==
    ASSUME EditInv, EditInv', NEW k \in Tasks, RecordWritten(k)
    PROVE  Reviewed!Next \/ UNCHANGED Reviewed!vars
<1>. PICK c : c = request[k].subject
  OBVIOUS
<1>. PICK record : record = request[k].record
  OBVIOUS
<1>1. /\ request[k] # NoRequest /\ record # NoChange
      /\ changeTable' = [changeTable EXCEPT ![c] = record]
      /\ UNCHANGED <<table, versions, raced, basis, applied>>
  BY DEF RecordWritten, AtStep, storeVars, EditInv, WorkflowInv, RequestsSound, SoundRequest
<1>2. c \in ChangeIds /\ record \in RecordsOf(c) /\ record \in UsableRecords
  BY <1>1, HandlerHasARecord DEF EditInv
<1>3. /\ changeTable'[c] = record
      /\ \A d \in ChangeIds : d # c => changeTable'[d] = changeTable[d]
  BY <1>1, <1>2 DEF EditInv, WorkflowInv, WorkflowTypeOK
<1>4. record.tenant \in Tenants /\ record.changes \in ChangeInputs /\ basis[c] \in versions[record.tenant]
  BY <1>2 DEF EditInv, RecordsOnBasis, UsableRecords, ChangeRecords
<1>. PICK proposal :
       proposal = [tenant |-> record.tenant, changes |-> record.changes, seen |-> basis[c]]
  OBVIOUS
<1>5. /\ Proposal(c)' = proposal
      /\ \A d \in ChangeIds : d # c => Proposal(d)' = Proposal(d)
  BY <1>1, <1>3 DEF Proposal
<1>6. CASE changeTable[c] = NoChange
  <2>0. Proposal(c) = NoChange
    BY <1>6 DEF Proposal
  <2>1. /\ [d \in ChangeIds |-> Proposal(d)][c] = NoChange
        /\ [d \in ChangeIds |-> Proposal(d)]' =
             [[d \in ChangeIds |-> Proposal(d)] EXCEPT ![c] = proposal]
    BY <1>2, <1>5, <2>0
  <2>2. UNCHANGED {d \in ChangeIds : applied[d] > 0}
    BY <1>1
  <2>3. Reviewed!Propose(c, record.tenant)
    BY <1>1, <1>2, <1>4, <2>1, <2>2 DEF Reviewed!Propose
  <2>. QED  BY <1>2, <1>4, <2>3 DEF Reviewed!Next
<1>7. CASE changeTable[c] # NoChange
  <2>1. changeTable[c] \in RecordsOf(c)
    BY <1>7 DEF RecordsOf
  <2>2. changeTable[c].tenant = record.tenant /\ changeTable[c].changes = record.changes
    BY <1>2, <2>1 DEF EditInv, RecordsAgree
  <2>3. Proposal(c)' = Proposal(c)
    BY <1>5, <1>7, <2>2 DEF Proposal
  <2>. QED  BY <1>1, <1>5, <2>3 DEF Reviewed!vars
<1>. QED  BY <1>6, <1>7

(* What a proposer saw is kept from before the change is stored. *)
LEMMA ProposeShowsNothing ==
    ASSUME EditInv, NEW k \in Tasks, NEW c \in ChangeIds, NEW t \in Tenants, NEW changes,
           NEW seen, Propose(k, c, t, changes, seen)
    PROVE  UNCHANGED Reviewed!vars
<1>1. /\ changeTable[c] = NoChange
      /\ basis' = [basis EXCEPT ![c] = seen]
      /\ UNCHANGED <<table, versions, raced, changeTable, applied>>
  BY DEF Propose, storeVars
<1>2. \A d \in ChangeIds : d # c => basis'[d] = basis[d]
  BY <1>1 DEF EditInv, WorkflowInv, WorkflowTypeOK
<1>3. \A d \in ChangeIds : Proposal(d)' = Proposal(d)
  BY <1>1, <1>2 DEF Proposal
<1>. QED  BY <1>1, <1>3 DEF Reviewed!vars

LEMMA StepIsReviewed ==
    ASSUME ReviewedInv, EditInv', [WorkflowNext]_vars
    PROVE  [Reviewed!Next]_(Reviewed!vars)
<1>. USE DEF ReviewedInv
<1>1. CASE UNCHANGED vars
  BY <1>1, SameReviewed DEF vars, storeVars, changeVars, ReviewedVars
<1>2. ASSUME NEW t \in Tenants, NEW config \in NewConfigs, Onboard(t, config)
      PROVE  Reviewed!Next
  BY <1>2, OnboardIsCreate DEF EditInv
<1>3. ASSUME NEW k \in Tasks, Receive(k)
      PROVE  UNCHANGED Reviewed!vars
  <2>1. ASSUME NEW t \in Tenants, NEW state \in StateInputs, SetTenantState(k, t, state)
        PROVE  UNCHANGED ReviewedVars
    BY <2>1 DEF SetTenantState, SetState, Begin, changeVars, ReviewedVars
  <2>2. ASSUME NEW t \in Tenants, NEW epoch \in 1..MaxEpoch, RollbackPolicy(k, t, epoch)
        PROVE  UNCHANGED ReviewedVars
    BY <2>2 DEF RollbackPolicy, Rollback, Begin, changeVars, ReviewedVars
  <2>3. ASSUME NEW c \in ChangeIds, Approve(k, c) \/ Reject(k, c)
        PROVE  UNCHANGED ReviewedVars
    BY <2>3 DEF Approve, Reject, Decide, storeVars, changeVars, ReviewedVars
  <2>. QED  BY <1>3, <2>1, <2>2, <2>3, SameReviewed, ProposeShowsNothing DEF Receive
<1>4. ASSUME NEW k \in Tasks, Handle(k)
      PROVE  Reviewed!Next \/ UNCHANGED Reviewed!vars
  <2>1. CASE Apply(k) \/ ApplyConflict(k) \/ StoreStep(k) \/ StoreRaises(k) \/ RecordAudit(k)
    <3>1. UNCHANGED ReviewedVars
      BY <2>1 DEF Apply, ApplyChange, Begin, ApplyConflict, StoreStep, GetTarget, Archive,
                  StoreRaises, NoTarget, PutRefused, RecordAudit, storeVars, changeVars,
                  ReviewedVars
    <3>. QED  BY <3>1, SameReviewed
  <2>2. CASE PutReturns(k) \/ PutReplyLost(k)
    BY <2>2, WrittenIsWrite, WrittenIsRace, WrittenIsOverride DEF PutReturns, PutReplyLost
  <2>3. CASE PutChange(k) \/ ChangeReplyLost(k)
    BY <2>3, RecordWrittenIsPropose DEF PutChange, ChangeReplyLost, ReviewedInv
  <2>. QED  BY <1>4, <2>1, <2>2, <2>3 DEF Handle
<1>5. ASSUME NEW k \in Tasks, Fail(k) \/ Restart(k)
      PROVE  UNCHANGED Reviewed!vars
  BY <1>5, SameReviewed DEF Fail, Restart, Abort, storeVars, changeVars, ReviewedVars
<1>6. ASSUME NEW k \in Tasks,
             (\E t \in Tenants : ReadSnapshot(k, t)) \/ StoreSnapshot(k)
      PROVE  UNCHANGED Reviewed!vars
  BY <1>6, SameReviewed DEF ReadSnapshot, StoreSnapshot, storeVars, changeVars, ReviewedVars
<1>. QED  BY <1>1, <1>2, <1>3, <1>4, <1>5, <1>6 DEF WorkflowNext, RequestNext

(* The review of policy changes as the docstring of change_requests.py      *)
(* tells it, with the audit and the record left out: a change is proposed   *)
(* once, on one version, and its edit is one atomic write on that version  *)
(* or none - for any number of tasks, over stale reads, lost answers,      *)
(* crashes and repeated approvals, and beside kill switches and rollbacks  *)
(* that race, as far as those leave the tenant alone.                      *)
THEOREM WorkflowIsReviewed == WorkflowSpec => ImplementsReviewedStore
<1>1. WorkflowInit => Reviewed!Init
  BY DEF WorkflowInit, Init, Reviewed!Init, Proposal
<1>2. ReviewedInv /\ EditInv' /\ [WorkflowNext]_vars
        => [Reviewed!vars' # Reviewed!vars /\ Reviewed!Next]_(Reviewed!vars)
  BY StepIsReviewed
<1>3. WorkflowSpec => []ReviewedInv
  BY EditInvHolds, WorkflowUsesStore, CarryHolds, OverridesRace, PTL DEF ReviewedInv
<1>. QED
  BY <1>1, <1>2, <1>3, PTL
     DEF WorkflowSpec, ImplementsReviewedStore, Reviewed!Spec, ReviewedInv

-----------------------------------------------------------------------------
(* A task reads a tenant again after each write of it that it acknowledged. *)

(* While policy_cache.get is under way its task handles nothing, so what it  *)
(* read is no older than the last write the task acknowledged.             *)
LoadsAreFresh ==
    \A k \in Tasks : loading[k] # NoPolicy =>
        request[k] = NoRequest /\ loading[k].tenant \notin unread[k]

FreshInv == WorkflowInv /\ LoadsAreFresh /\ RefetchedAfterOwnWrites

LEMMA FreshInvInit == WorkflowInit => FreshInv
BY WorkflowInvInit DEF WorkflowInit, FreshInv, LoadsAreFresh, RefetchedAfterOwnWrites

(* Steps that at most drop snapshots, acknowledging nothing. *)
LEMMA DroppingKeepsFresh ==
    ASSUME FreshInv, WorkflowInv', unread' = unread,
           \A k \in Tasks :
              /\ loading'[k] \in {loading[k], NoPolicy}
              /\ \A t \in Tenants : cache'[k][t] \in {cache[k][t], NoPolicy}
              /\ loading'[k] # NoPolicy => request'[k] = request[k]
    PROVE  FreshInv'
BY DEF FreshInv, LoadsAreFresh, RefetchedAfterOwnWrites

(* A write is acknowledged, and the tenant's snapshot dropped. *)
LEMMA EvictKeepsFresh ==
    ASSUME FreshInv, WorkflowInv', NEW k \in Tasks, NEW t \in Tenants,
           request[k] # NoRequest, Evict(k, t),
           \A l \in Tasks : l # k => request'[l] = request[l]
    PROVE  FreshInv'
<1>1. /\ loading' = loading
      /\ cache' = [cache EXCEPT ![k][t] = NoPolicy]
      /\ unread' = [unread EXCEPT ![k] = @ \cup {t}]
      /\ cache \in [Tasks -> [Tenants -> Policies \cup {NoPolicy}]]
      /\ unread \in [Tasks -> SUBSET Tenants]
  BY DEF Evict, Acknowledge, FreshInv, WorkflowInv, WorkflowTypeOK
<1>2. cache'[k][t] = NoPolicy /\ unread'[k] = unread[k] \cup {t}
  BY <1>1
<1>3. /\ \A l \in Tasks : l # k => unread'[l] = unread[l]
      /\ \A l \in Tasks, u \in Tenants : (l # k \/ u # t) => cache'[l][u] = cache[l][u]
  BY <1>1
<1>4. RefetchedAfterOwnWrites'
  BY <1>2, <1>3 DEF FreshInv, RefetchedAfterOwnWrites
<1>5. LoadsAreFresh'
  BY <1>1, <1>3 DEF FreshInv, LoadsAreFresh
<1>. QED  BY <1>4, <1>5 DEF FreshInv

(* The tenant is read, after whatever the task acknowledged. *)
LEMMA ReadKeepsFresh ==
    ASSUME FreshInv, WorkflowInv', NEW k \in Tasks, NEW t \in Tenants, ReadSnapshot(k, t)
    PROVE  FreshInv'
<1>. PICK policy \in Readable(t) :
        loading' = [loading EXCEPT ![k] = [tenant |-> t, policy |-> policy]]
  BY DEF ReadSnapshot
<1>1. /\ request[k] = NoRequest /\ UNCHANGED <<request, cache>>
      /\ unread' = [unread EXCEPT ![k] = @ \ {t}]
      /\ loading \in [Tasks -> Loads \cup {NoPolicy}]
      /\ unread \in [Tasks -> SUBSET Tenants]
  BY DEF ReadSnapshot, Idle, FreshInv, WorkflowInv, WorkflowTypeOK
<1>2. /\ loading'[k].tenant = t /\ unread'[k] = unread[k] \ {t}
      /\ \A l \in Tasks : l # k => loading'[l] = loading[l] /\ unread'[l] = unread[l]
  BY <1>1
<1>3. RefetchedAfterOwnWrites' /\ LoadsAreFresh'
  BY <1>1, <1>2 DEF FreshInv, LoadsAreFresh, RefetchedAfterOwnWrites
<1>. QED  BY <1>3 DEF FreshInv

(* ... so it may be cached. *)
LEMMA StoreKeepsFresh ==
    ASSUME FreshInv, WorkflowInv', NEW k \in Tasks, StoreSnapshot(k)
    PROVE  FreshInv'
<1>1. /\ loading[k] # NoPolicy /\ UNCHANGED <<request, unread>>
      /\ cache' = [cache EXCEPT ![k][loading[k].tenant] = loading[k].policy]
      /\ loading' = [loading EXCEPT ![k] = NoPolicy]
      /\ cache \in [Tasks -> [Tenants -> Policies \cup {NoPolicy}]]
      /\ loading \in [Tasks -> Loads \cup {NoPolicy}]
  BY DEF StoreSnapshot, Unload, FreshInv, WorkflowInv, WorkflowTypeOK
<1>2. /\ \A l \in Tasks : loading'[l] \in {loading[l], NoPolicy}
      /\ \A l \in Tasks, u \in Tenants :
            (l # k \/ u # loading[k].tenant) => cache'[l][u] = cache[l][u]
  BY <1>1
<1>3. RefetchedAfterOwnWrites' /\ LoadsAreFresh'
  BY <1>1, <1>2 DEF FreshInv, LoadsAreFresh, RefetchedAfterOwnWrites
<1>. QED  BY <1>3 DEF FreshInv

LEMMA FreshInvStep ==
    ASSUME FreshInv, [WorkflowNext]_vars
    PROVE  FreshInv'
<1>1. WorkflowInv /\ WorkflowInv'
  BY WorkflowInvStep DEF FreshInv
<1>2. /\ request \in [Tasks -> Requests \cup {NoRequest}]
      /\ loading \in [Tasks -> Loads \cup {NoPolicy}]
      /\ cache \in [Tasks -> [Tenants -> Policies \cup {NoPolicy}]]
  BY <1>1 DEF WorkflowInv, WorkflowTypeOK
<1>3. \A k \in Tasks : request[k] # NoRequest => loading[k] = NoPolicy
  BY DEF FreshInv, LoadsAreFresh
<1>4. CASE UNCHANGED vars \/ \E t \in Tenants, config \in NewConfigs : Onboard(t, config)
  <2>1. UNCHANGED <<request, cache, loading, unread>>
    BY <1>4 DEF vars, Onboard, cacheVars
  <2>. QED  BY <1>1, <2>1, DroppingKeepsFresh
<1>5. ASSUME NEW k \in Tasks, Receive(k) PROVE FreshInv'
  <2>1. loading[k] = NoPolicy /\ UNCHANGED <<cache, loading, unread>>
    BY <1>5 DEF Receive, SetTenantState, RollbackPolicy, Propose, Approve, Reject, Decide, Idle,
                cacheVars
  <2>2. \A l \in Tasks : l # k => request'[l] = request[l]
    BY <1>2, <1>5 DEF Receive, SetTenantState, RollbackPolicy, Propose, Approve, Reject, Decide
  <2>. QED  BY <1>1, <2>1, <2>2, DroppingKeepsFresh
<1>6. ASSUME NEW k \in Tasks, Handle(k) PROVE FreshInv'
  <2>1. CASE StoreStep(k)
    <3>1. UNCHANGED <<request, cache, loading, unread>>
      BY <2>1 DEF StoreStep, cacheVars
    <3>. QED  BY <1>1, <3>1, DroppingKeepsFresh
  <2>2. CASE \/ Apply(k) \/ ApplyConflict(k) \/ StoreRaises(k) \/ PutReplyLost(k)
             \/ PutReturns(k) /\ IsApproval(k)
             \/ PutChange(k) /\ request[k].record.status # "APPLIED"
             \/ ChangeReplyLost(k) \/ RecordAudit(k)
    <3>1. /\ UNCHANGED <<cache, loading, unread>>
          /\ \A l \in Tasks : l # k => request'[l] = request[l]
      BY <1>2, <2>2 DEF Apply, ApplyConflict, StoreRaises, PutReturns, PutReplyLost, CutShort,
                        PutChange, ChangeReplyLost, RecordAudit, Finish, cacheVars
    <3>2. request[k] # NoRequest \/ request'[k] = NoRequest
      BY <1>2, <2>2 DEF Apply, ApplyConflict, StoreRaises, PutReturns, PutReplyLost, Written,
                        CutShort, PutChange, ChangeReplyLost, RecordWritten, RecordAudit, AtStep,
                        Finish
    <3>3. loading'[k] # NoPolicy => request'[k] = request[k]
      BY <1>3, <3>1, <3>2 DEF FreshInv, LoadsAreFresh
    <3>. QED  BY <1>1, <3>1, <3>3, DroppingKeepsFresh
  <2>3. CASE PutReturns(k) /\ ~IsApproval(k)
    <3>1. /\ request[k] # NoRequest /\ \A l \in Tasks : l # k => request'[l] = request[l]
          /\ Evict(k, call[k].tenant) /\ Put(k)
      BY <1>2, <2>3 DEF PutReturns, Written, AtStep
    <3>2. call[k].tenant \in Tenants
      BY <1>1, <3>1, PutWrites DEF WorkflowInv
    <3>. QED  BY <1>1, <3>1, <3>2, EvictKeepsFresh
  <2>4. CASE PutChange(k) /\ request[k].record.status = "APPLIED"
    <3>1. /\ request[k] # NoRequest /\ \A l \in Tasks : l # k => request'[l] = request[l]
          /\ Evict(k, request[k].record.tenant)
          /\ request[k].step = "put_change"
      BY <1>2, <2>4 DEF PutChange, RecordWritten, AtStep
    <3>2. request[k].record \in UsableRecords
      BY <1>1, <3>1 DEF WorkflowInv, RequestsSound, SoundRequest
    <3>3. request[k].record.tenant \in Tenants
      BY <3>2 DEF UsableRecords, ChangeRecords
    <3>. QED  BY <1>1, <3>1, <3>3, EvictKeepsFresh
  <2>. QED  BY <1>6, <2>1, <2>2, <2>3, <2>4 DEF Handle
<1>7. ASSUME NEW k \in Tasks, Fail(k) \/ Restart(k) PROVE FreshInv'
  <2>1. /\ unread' = unread
        /\ loading' = [loading EXCEPT ![k] = NoPolicy]
        /\ \A l \in Tasks, t \in Tenants : cache'[l][t] \in {cache[l][t], NoPolicy}
        /\ \A l \in Tasks : l # k => request'[l] = request[l]
    BY <1>2, <1>7 DEF Fail, Restart, CutShort, Unload, Finish
  <2>2. loading'[k] = NoPolicy /\ \A l \in Tasks : l # k => loading'[l] = loading[l]
    BY <1>2, <2>1
  <2>. QED  BY <1>1, <2>1, <2>2, DroppingKeepsFresh
<1>8. ASSUME NEW k \in Tasks, NEW t \in Tenants, ReadSnapshot(k, t) PROVE FreshInv'
  BY <1>1, <1>8, ReadKeepsFresh
<1>9. ASSUME NEW k \in Tasks, StoreSnapshot(k) PROVE FreshInv'
  BY <1>1, <1>9, StoreKeepsFresh
<1>. QED
  BY <1>4, <1>5, <1>6, <1>7, <1>8, <1>9 DEF WorkflowNext, RequestNext

LEMMA FreshInvHolds == WorkflowSpec => []FreshInv
BY FreshInvInit, FreshInvStep, PTL DEF WorkflowSpec

(* What invalidate after every write buys a task, whatever its requests,    *)
(* their failures and the other tasks do: no snapshot it has cached of a   *)
(* tenant was read before a write of the tenant that it acknowledged.  How *)
(* recent the answer to that read was is the table's affair, not the        *)
(* cache's.                                                                *)
THEOREM TasksRefetchAfterTheirWrites == WorkflowSpec => []RefetchedAfterOwnWrites
BY FreshInvHolds, PTL DEF FreshInv
=============================================================================
