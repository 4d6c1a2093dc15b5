-------------------------- MODULE Onboarding_proofs --------------------------
(***************************************************************************)
(* Proofs about Onboarding, for any number of tasks, requests, tenants and *)
(* principals, stale reads, lost answers and crashes.                      *)
(***************************************************************************)
EXTENDS Onboarding, Integers, TLAPS

(* The grant and the tenant a request asked for are there. *)
Provisioned(id) ==
    /\ requestTable[id] # None
    /\ requestTable[id].auth_type = "iam"
    /\ grantTable[requestTable[id].principal_arn] =
          [tenant |-> requestTable[id].tenant, application |-> id]

(* What a handler may count on before its next call. *)
HandlerKnows(k) ==
    LET id == handler[k].id
        step == handler[k].step
    IN  /\ requestTable[id] # None
        /\ step \in {"put_provisioning"} \cup ProvisionSteps =>
              <<id, "APPLICATION_APPROVED">> \in audit
        /\ step \in {"create_policy", "put_grant"} => requestTable[id].auth_type = "iam"
        /\ step = "create_policy" => requestTable[id].tenant \notin FileTenants
        /\ step = "put_grant" => TenantExists(requestTable[id].tenant)
        /\ step \in {"put_active", "activated_event"} => Provisioned(id)

(* The inductive invariant: the properties, and why each step keeps them. *)
HandlersKnow == \A k \in Tasks : handler[k] # None => HandlerKnows(k)
ReportedIsProvisioned ==
    \A id \in RequestIds :
        (HasStatus(id, {"ACTIVE"}) \/ <<id, "APPLICATION_ACTIVATED">> \in audit) => Provisioned(id)
OnboardingInv ==
    /\ TypeOK
    /\ HandlersKnow
    /\ ReportedIsProvisioned
    /\ GrantsNameTenants
    /\ OneLayerPerTenant
    /\ ProvisionedIsApproved

-----------------------------------------------------------------------------
(* The steps, by what they do to the tables. *)

TablesKept == UNCHANGED <<requestTable, policyTable, grantTable, audit>>

(* A step of task k that only moves its handler on, or ends it. *)
HandlerMoves(k) ==
    /\ TablesKept
    /\ interrupted' \in SUBSET RequestIds
    /\ \/ End(k)
       \/ \E id \in RequestIds : \E step \in {"put_approved", "put_rejected"} :
             Begin(k, id, step) /\ requestTable[id] # None
       \/ handler[k] # None /\ Continue(k, "put_failed")
       \/ /\ AtStep(k, "find_tenant")
          /\ Asked(k).auth_type = "iam"
          /\ \/ Continue(k, "put_grant") /\ TenantExists(Asked(k).tenant)
             \/ Continue(k, "create_policy") /\ Asked(k).tenant \notin FileTenants

StatusPut(k) ==
    \/ PutStatus(k, "put_approved", "APPROVED", "approved_event")
    \/ PutStatus(k, "put_provisioning", "PROVISIONING", "find_tenant")
    \/ PutStatus(k, "put_active", "ACTIVE", "activated_event")
    \/ PutStatus(k, "put_failed", "FAILED", "failed_event")
    \/ PutStatus(k, "put_rejected", "REJECTED", "rejected_event")

EventRecorded(k) ==
    \/ RecordEvent(k, "submitted_event", "ONBOARDING_SUBMITTED")
    \/ RecordEvent(k, "approved_event", "APPLICATION_APPROVED")
    \/ RecordEvent(k, "activated_event", "APPLICATION_ACTIVATED")
    \/ RecordEvent(k, "failed_event", "PROVISIONING_FAILED")
    \/ RecordEvent(k, "rejected_event", "APPLICATION_REJECTED")

LEMMA StepKinds ==
    ASSUME OnboardingInv, Next
    PROVE  \E k \in Tasks :
              \/ \E id \in RequestIds, body \in Applications : Submit(k, id, body)
              \/ HandlerMoves(k)
              \/ StatusPut(k)
              \/ EventRecorded(k)
              \/ CreatePolicy(k)
              \/ PutGrant(k)
  <1> USE DEF OnboardingInv
  <1>1. PICK k \in Tasks : Receive(k) \/ Handle(k) \/ ProvisionRaises(k) \/ Crash(k)
    BY DEF Next
  <1>2. handler[k] # None => handler[k].id \in RequestIds
    BY DEF TypeOK
  <1>3. ASSUME NEW id \in RequestIds, Approve(k, id) \/ Reject(k, id) PROVE HandlerMoves(k)
    BY <1>3 DEF Approve, Reject, Decide, HandlerMoves, TablesKept, TypeOK
  <1>4. ProvisionRaises(k) \/ Crash(k) => HandlerMoves(k)
    BY <1>2 DEF ProvisionRaises, Crash, HandlerMoves, TablesKept, TypeOK
  <1>5. RefuseOauth(k) \/ CreateRefused(k) \/ GrantRefused(k) => HandlerMoves(k)
    BY DEF RefuseOauth, CreateRefused, GrantRefused, Moves, HandlerMoves, TablesKept, TypeOK, AtStep
  <1>6. TenantFound(k) \/ TenantNotFound(k) => HandlerMoves(k)
    BY DEF TenantFound, TenantNotFound, Moves, HandlerMoves, TablesKept, TypeOK
  <1>7. Handle(k) => HandlerMoves(k) \/ StatusPut(k) \/ EventRecorded(k) \/ CreatePolicy(k) \/ PutGrant(k)
    BY <1>5, <1>6 DEF Handle, Provision, ApproveRequest, ActivateRequest, FailRequest, RejectRequest,
                      StatusPut, EventRecorded
  <1>8. Receive(k) => HandlerMoves(k) \/ \E id \in RequestIds, body \in Applications : Submit(k, id, body)
    BY <1>3 DEF Receive
  <1> QED BY <1>1, <1>4, <1>7, <1>8

-----------------------------------------------------------------------------
(* Typing. *)

LEMMA SubmitTypes ==
    ASSUME TypeOK, NEW k \in Tasks, NEW id \in RequestIds, NEW body \in Applications,
           Submit(k, id, body)
    PROVE  TypeOK'
  <1> DEFINE record == [tenant |-> body.tenant, auth_type |-> body.auth_type,
                        principal_arn |-> body.principal_arn, status |-> "PENDING_APPROVAL"]
  <1>1. record \in Records
    BY OnboardingAssumption DEF Submit, Records, Bodies, Statuses
  <1>2. requestTable' = [requestTable EXCEPT ![id] = record]
    BY DEF Submit
  <1>3. requestTable' \in [RequestIds -> Records \cup {None}]
    BY <1>1, <1>2 DEF TypeOK
  <1>4. handler' \in [Tasks -> [id: RequestIds, step: Steps] \cup {None}]
    BY DEF TypeOK, Submit, Begin, Steps
  <1> QED BY <1>3, <1>4 DEF TypeOK, Submit

LEMMA MoveTypes ==
    ASSUME TypeOK, NEW k \in Tasks, HandlerMoves(k)
    PROVE  TypeOK'
  <1>1. ASSUME NEW step \in Steps, handler[k] # None, Continue(k, step)
        PROVE  handler' \in [Tasks -> [id: RequestIds, step: Steps] \cup {None}]
    BY <1>1 DEF TypeOK, Continue
  <1>2. ASSUME NEW step \in Steps, NEW id \in RequestIds, Begin(k, id, step)
        PROVE  handler' \in [Tasks -> [id: RequestIds, step: Steps] \cup {None}]
    BY <1>2 DEF TypeOK, Begin
  <1>3. End(k) => handler' \in [Tasks -> [id: RequestIds, step: Steps] \cup {None}]
    BY DEF TypeOK, End
  <1>4. handler' \in [Tasks -> [id: RequestIds, step: Steps] \cup {None}]
    <2>1. {"put_approved", "put_rejected", "put_failed", "put_grant", "create_policy"} \subseteq Steps
      BY DEF Steps
    <2> QED BY <1>1, <1>2, <1>3, <2>1 DEF HandlerMoves, AtStep
  <1> QED BY <1>4 DEF TypeOK, HandlerMoves, TablesKept

LEMMA PutStatusTypes ==
    ASSUME OnboardingInv, NEW k \in Tasks,
           NEW step \in Steps, NEW status \in Statuses, NEW next \in Steps,
           PutStatus(k, step, status, next)
    PROVE  TypeOK'
  <1> DEFINE id == handler[k].id
  <1>1. id \in RequestIds /\ requestTable[id] \in Records
    BY DEF OnboardingInv, TypeOK, HandlersKnow, HandlerKnows, PutStatus, AtStep
  <1>2. [requestTable[id] EXCEPT !.status = status] \in Records
    BY <1>1 DEF Records
  <1>3. requestTable' = [requestTable EXCEPT ![id] = [requestTable[id] EXCEPT !.status = status]]
    BY DEF PutStatus
  <1>4. requestTable' \in [RequestIds -> Records \cup {None}]
    BY <1>1, <1>2, <1>3 DEF OnboardingInv, TypeOK
  <1>5. handler' \in [Tasks -> [id: RequestIds, step: Steps] \cup {None}]
    BY DEF OnboardingInv, TypeOK, PutStatus, Continue, AtStep
  <1> QED BY <1>4, <1>5 DEF OnboardingInv, TypeOK, PutStatus

LEMMA RecordEventTypes ==
    ASSUME OnboardingInv, NEW k \in Tasks, NEW step \in Steps, NEW event \in Events,
           RecordEvent(k, step, event)
    PROVE  TypeOK'
  <1>1. handler[k].id \in RequestIds
    BY DEF OnboardingInv, TypeOK, RecordEvent, AtStep
  <1>2. audit' \subseteq RequestIds \X Events
    BY <1>1 DEF OnboardingInv, TypeOK, RecordEvent
  <1>3. handler' \in [Tasks -> [id: RequestIds, step: Steps] \cup {None}]
    <2>1. CASE step = "approved_event"
      BY <2>1 DEF OnboardingInv, TypeOK, RecordEvent, Continue, AtStep, Steps
    <2>2. CASE step # "approved_event"
      BY <2>2 DEF OnboardingInv, TypeOK, RecordEvent, End
    <2> QED BY <2>1, <2>2
  <1> QED BY <1>2, <1>3 DEF OnboardingInv, TypeOK, RecordEvent

LEMMA WriteTypes ==
    ASSUME OnboardingInv, NEW k \in Tasks, CreatePolicy(k) \/ PutGrant(k)
    PROVE  TypeOK'
  <1> DEFINE id == handler[k].id
  <1>1. /\ id \in RequestIds
        /\ requestTable[id] \in Records
        /\ AtStep(k, "put_grant") => requestTable[id].principal_arn \in Arns
    BY DEF OnboardingInv, TypeOK, HandlersKnow, HandlerKnows, CreatePolicy, PutGrant, AtStep, Records
  <1>2. handler' \in [Tasks -> [id: RequestIds, step: Steps] \cup {None}]
    BY DEF OnboardingInv, TypeOK, CreatePolicy, PutGrant, Continue, AtStep, Steps
  <1>3. CASE CreatePolicy(k)
    BY <1>1, <1>2, <1>3 DEF OnboardingInv, TypeOK, CreatePolicy, Asked
  <1>4. CASE PutGrant(k)
    <2>1. [tenant |-> requestTable[id].tenant, application |-> id] \in Grants
      BY <1>1 DEF Grants, Records
    <2>2. grantTable' \in [Arns -> Grants \cup {None}]
      BY <1>4, <2>1 DEF OnboardingInv, TypeOK, PutGrant, Asked
    <2> QED BY <1>2, <1>4, <2>2 DEF OnboardingInv, TypeOK, PutGrant
  <1> QED BY <1>3, <1>4

-----------------------------------------------------------------------------
(* Nothing that was decided or provisioned is taken back: the fact that      *)
(* every other task relies on between two of its calls.                    *)

Keeps ==
    /\ \A id \in RequestIds : requestTable[id] # None =>
          /\ requestTable'[id] # None
          /\ requestTable'[id].tenant = requestTable[id].tenant
          /\ requestTable'[id].auth_type = requestTable[id].auth_type
          /\ requestTable'[id].principal_arn = requestTable[id].principal_arn
    /\ \A t \in Tenants : policyTable[t] # None => policyTable'[t] = policyTable[t]
    /\ \A a \in Arns : grantTable[a] # None => grantTable'[a] = grantTable[a]
    /\ audit \subseteq audit'

LEMMA StatusPutKeeps ==
    ASSUME OnboardingInv, NEW k \in Tasks, NEW step, NEW status \in Statuses, NEW next,
           PutStatus(k, step, status, next)
    PROVE  Keeps
  <1> DEFINE i == handler[k].id
  <1>1. i \in RequestIds /\ requestTable[i] \in Records
    BY DEF OnboardingInv, TypeOK, HandlersKnow, HandlerKnows, PutStatus, AtStep
  <1>2. requestTable' = [requestTable EXCEPT ![i] = [requestTable[i] EXCEPT !.status = status]]
    BY DEF PutStatus
  <1>3. ASSUME NEW id \in RequestIds, requestTable[id] # None
        PROVE  /\ requestTable'[id] # None
               /\ requestTable'[id].tenant = requestTable[id].tenant
               /\ requestTable'[id].auth_type = requestTable[id].auth_type
               /\ requestTable'[id].principal_arn = requestTable[id].principal_arn
    <2>1. CASE id # i
      BY <1>1, <1>2, <1>3, <2>1 DEF OnboardingInv, TypeOK
    <2>2. CASE id = i
      <3>1. requestTable'[i] = [requestTable[i] EXCEPT !.status = status]
        BY <1>1, <1>2 DEF OnboardingInv, TypeOK
      <3>2. [requestTable[i] EXCEPT !.status = status] \in Records
        BY <1>1 DEF Records
      <3>3. requestTable'[i] # None
        BY <3>1, <3>2, OnboardingAssumption
      <3> QED BY <2>2, <3>1, <3>3, <1>1 DEF Records
    <2> QED BY <2>1, <2>2
  <1> QED BY <1>3 DEF Keeps, PutStatus

LEMMA StepKeeps == ASSUME OnboardingInv, [Next]_vars PROVE Keeps
  <1>1. CASE UNCHANGED vars
    BY <1>1 DEF vars, Keeps
  <1>2. CASE Next
    <2> PICK k \in Tasks :
              \/ \E id \in RequestIds, body \in Applications : Submit(k, id, body)
              \/ HandlerMoves(k) \/ StatusPut(k) \/ EventRecorded(k)
              \/ CreatePolicy(k) \/ PutGrant(k)
      BY <1>2, StepKinds
    <2>1. ASSUME NEW id \in RequestIds, NEW body \in Applications, Submit(k, id, body) PROVE Keeps
      BY <2>1 DEF OnboardingInv, TypeOK, Submit, Keeps
    <2>2. CASE HandlerMoves(k)
      BY <2>2 DEF HandlerMoves, TablesKept, Keeps
    <2>3. CASE StatusPut(k)
      BY <2>3, StatusPutKeeps DEF StatusPut, Statuses
    <2>4. CASE EventRecorded(k)
      BY <2>4 DEF EventRecorded, RecordEvent, Keeps
    <2>5. CASE CreatePolicy(k)
      BY <2>5 DEF CreatePolicy, Asked, Keeps, OnboardingInv, TypeOK
    <2>6. CASE PutGrant(k)
      BY <2>6 DEF PutGrant, Asked, Keeps, OnboardingInv, TypeOK
    <2> QED BY <2>1, <2>2, <2>3, <2>4, <2>5, <2>6
  <1> QED BY <1>1, <1>2

LEMMA TenantsStay ==
    ASSUME Keeps, NEW t \in Tenants, TenantExists(t)
    PROVE  TenantExists(t)'
  BY DEF Keeps, TenantExists

LEMMA ProvisionedStays ==
    ASSUME TypeOK, Keeps, NEW id \in RequestIds, Provisioned(id)
    PROVE  Provisioned(id)'
  <1>1. requestTable[id].principal_arn \in Arns
    BY DEF TypeOK, Provisioned, Records
  <1>2. grantTable[requestTable[id].principal_arn] # None
    <2>1. [tenant |-> requestTable[id].tenant, application |-> id] \in Grants
      BY DEF TypeOK, Provisioned, Records, Grants
    <2> QED BY <2>1, OnboardingAssumption DEF Provisioned
  <1> QED BY <1>1, <1>2 DEF Keeps, Provisioned

(* What a handler knows stays true while others act. *)
LEMMA KnowledgeStays ==
    ASSUME OnboardingInv, Keeps, NEW l \in Tasks, handler[l] # None, handler'[l] = handler[l]
    PROVE  HandlerKnows(l)'
  <1> DEFINE id == handler[l].id
             step == handler[l].step
  <1>1. HandlerKnows(l) /\ id \in RequestIds /\ requestTable[id].tenant \in Tenants
    BY DEF OnboardingInv, TypeOK, HandlersKnow, HandlerKnows, Records
  <1>2. requestTable'[id] # None /\ requestTable'[id].auth_type = requestTable[id].auth_type
          /\ requestTable'[id].tenant = requestTable[id].tenant
    BY <1>1 DEF Keeps, HandlerKnows
  <1>3. step = "put_grant" => TenantExists(requestTable[id].tenant)'
    BY <1>1, <1>2, TenantsStay DEF HandlerKnows, TenantExists, Keeps
  <1>4. step \in {"put_active", "activated_event"} => Provisioned(id)'
    BY <1>1, ProvisionedStays DEF HandlerKnows, OnboardingInv
  <1> QED BY <1>1, <1>2, <1>3, <1>4 DEF HandlerKnows, Keeps, Provisioned, TenantExists

-----------------------------------------------------------------------------
(* Every kind of step preserves the invariant. *)

LEMMA OnboardingInit == Init => OnboardingInv
  BY DEF Init, OnboardingInv, TypeOK, HandlersKnow, ReportedIsProvisioned, HasStatus,
         GrantsNameTenants, OneLayerPerTenant, ProvisionedIsApproved

(* The conjuncts that only the tables can break, when no row is created. *)
LEMMA RowsKept ==
    ASSUME OnboardingInv, Keeps, UNCHANGED <<policyTable, grantTable>>
    PROVE  GrantsNameTenants' /\ OneLayerPerTenant' /\ ProvisionedIsApproved'
  BY DEF OnboardingInv, Keeps, GrantsNameTenants, OneLayerPerTenant, ProvisionedIsApproved, TenantExists

(* It is enough to look at the task that takes the step. *)
LEMMA OthersKnow ==
    ASSUME OnboardingInv, Keeps, NEW k \in Tasks,
           \A l \in Tasks \ {k} : handler'[l] = handler[l],
           handler'[k] # None => HandlerKnows(k)'
    PROVE  HandlersKnow'
  BY KnowledgeStays DEF HandlersKnow

LEMMA OnboardingSubmit ==
    ASSUME OnboardingInv, Keeps, NEW k \in Tasks, NEW id \in RequestIds, NEW body \in Applications,
           Submit(k, id, body)
    PROVE  OnboardingInv'
  <1>1. TypeOK'
    BY SubmitTypes DEF OnboardingInv
  <1>2. handler' = [handler EXCEPT ![k] = [id |-> id, step |-> "submitted_event"]]
    BY DEF Submit, Begin
  <1>3. handler'[k] = [id |-> id, step |-> "submitted_event"]
    BY <1>2 DEF OnboardingInv, TypeOK
  <1>4. requestTable'[id].status = "PENDING_APPROVAL" /\ requestTable'[id] # None
    <2>1. requestTable'[id] = [tenant |-> body.tenant, auth_type |-> body.auth_type,
                               principal_arn |-> body.principal_arn,
                               status |-> "PENDING_APPROVAL"]
      BY DEF Submit, OnboardingInv, TypeOK
    <2>2. requestTable'[id] \in Records
      BY <2>1, OnboardingAssumption DEF Submit, Records, Bodies, Statuses
    <2> QED BY <2>1, <2>2, OnboardingAssumption
  <1>5. HandlersKnow'
    <2>1. HandlerKnows(k)'
      BY <1>3, <1>4 DEF HandlerKnows, ProvisionSteps
    <2>2. \A l \in Tasks \ {k} : handler'[l] = handler[l]
      BY <1>2 DEF OnboardingInv, TypeOK
    <2> QED BY <2>1, <2>2, OthersKnow
  <1>6. ReportedIsProvisioned'
    <2> SUFFICES ASSUME NEW j \in RequestIds,
                        HasStatus(j, {"ACTIVE"})' \/ <<j, "APPLICATION_ACTIVATED">> \in audit'
                 PROVE  Provisioned(j)'
      BY DEF ReportedIsProvisioned
    <2>1. HasStatus(j, {"ACTIVE"})' => HasStatus(j, {"ACTIVE"})
      BY <1>4 DEF HasStatus, Submit, OnboardingInv, TypeOK
    <2>2. Provisioned(j)
      BY <2>1 DEF OnboardingInv, ReportedIsProvisioned, Submit
    <2> QED BY <2>2, ProvisionedStays DEF OnboardingInv
  <1>7. GrantsNameTenants' /\ OneLayerPerTenant' /\ ProvisionedIsApproved'
    BY RowsKept DEF Submit
  <1> QED BY <1>1, <1>5, <1>6, <1>7 DEF OnboardingInv

LEMMA OnboardingMove ==
    ASSUME OnboardingInv, Keeps, NEW k \in Tasks, HandlerMoves(k)
    PROVE  OnboardingInv'
  <1> USE DEF HandlerMoves
  <1>1. TypeOK'
    BY MoveTypes DEF OnboardingInv
  <1>2. ReportedIsProvisioned'
    BY DEF OnboardingInv, ReportedIsProvisioned, HasStatus, Provisioned, TablesKept
  <1>3. GrantsNameTenants' /\ OneLayerPerTenant' /\ ProvisionedIsApproved'
    BY RowsKept DEF TablesKept
  <1>4. \A l \in Tasks \ {k} : handler'[l] = handler[l]
    BY DEF OnboardingInv, TypeOK, End, Begin, Continue
  <1>5. ASSUME handler'[k] # None PROVE HandlerKnows(k)'
    <2> USE DEF TablesKept
    <2>1. CASE End(k)
      BY <1>5, <2>1 DEF End, OnboardingInv, TypeOK
    <2>2. ASSUME NEW id \in RequestIds, NEW step \in {"put_approved", "put_rejected"},
                 Begin(k, id, step), requestTable[id] # None
          PROVE  HandlerKnows(k)'
      <3>1. handler'[k] = [id |-> id, step |-> step]
        BY <2>2 DEF Begin, OnboardingInv, TypeOK
      <3> QED BY <2>2, <3>1 DEF HandlerKnows, ProvisionSteps
    <2>3. ASSUME NEW step, handler[k] # None, Continue(k, step)
          PROVE  /\ handler'[k].id = handler[k].id
                 /\ handler'[k].step = step
                 /\ HandlerKnows(k)
      BY <2>3 DEF Continue, OnboardingInv, TypeOK, HandlersKnow
    <2>4. CASE handler[k] # None /\ Continue(k, "put_failed")
      BY <2>3, <2>4 DEF HandlerKnows, ProvisionSteps
    <2>5. CASE /\ AtStep(k, "find_tenant")
               /\ Asked(k).auth_type = "iam"
               /\ Continue(k, "put_grant")
               /\ TenantExists(Asked(k).tenant)
      BY <2>3, <2>5 DEF HandlerKnows, ProvisionSteps, AtStep, Asked, TenantExists
    <2>6. CASE /\ AtStep(k, "find_tenant")
               /\ Asked(k).auth_type = "iam"
               /\ Continue(k, "create_policy")
               /\ Asked(k).tenant \notin FileTenants
      BY <2>3, <2>6 DEF HandlerKnows, ProvisionSteps, AtStep, Asked
    <2> QED BY <2>1, <2>2, <2>4, <2>5, <2>6
  <1>6. HandlersKnow'
    BY <1>4, <1>5, OthersKnow
  <1> QED BY <1>1, <1>2, <1>3, <1>6 DEF OnboardingInv

LEMMA OnboardingPutStatus ==
    ASSUME OnboardingInv, Keeps, NEW k \in Tasks,
           NEW step \in Steps, NEW status \in Statuses, NEW next \in Steps,
           PutStatus(k, step, status, next),
           next \notin {"create_policy", "put_grant", "put_active"},
           next \in {"put_provisioning"} \cup ProvisionSteps => step = "put_provisioning",
           next = "activated_event" => step = "put_active",
           status = "ACTIVE" => step = "put_active"
    PROVE  OnboardingInv'
  <1> DEFINE i == handler[k].id
  <1>1. TypeOK'
    BY PutStatusTypes
  <1>2. /\ i \in RequestIds
        /\ handler[k].step = step
        /\ HandlerKnows(k)
        /\ handler'[k].id = i
        /\ handler'[k].step = next
        /\ requestTable[i] \in Records
    BY DEF OnboardingInv, TypeOK, HandlersKnow, HandlerKnows, PutStatus, AtStep, Continue
  <1>3. step = "put_active" => Provisioned(i)
    BY <1>2 DEF HandlerKnows
  <1>4. HandlersKnow'
    <2>1. HandlerKnows(k)'
      <3>1. requestTable'[i] # None
        BY <1>2 DEF Keeps, HandlerKnows
      <3>2. next \in {"put_active", "activated_event"} => Provisioned(i)'
        BY <1>2, <1>3, ProvisionedStays DEF OnboardingInv
      <3>3. next \in {"put_provisioning"} \cup ProvisionSteps => <<i, "APPLICATION_APPROVED">> \in audit'
        BY <1>2 DEF HandlerKnows, PutStatus
      <3> QED BY <1>2, <3>1, <3>2, <3>3 DEF HandlerKnows, Provisioned
    <2>2. \A l \in Tasks \ {k} : handler'[l] = handler[l]
      BY DEF OnboardingInv, TypeOK, PutStatus, Continue
    <2> QED BY <2>1, <2>2, OthersKnow
  <1>5. ReportedIsProvisioned'
    <2> SUFFICES ASSUME NEW j \in RequestIds,
                        HasStatus(j, {"ACTIVE"})' \/ <<j, "APPLICATION_ACTIVATED">> \in audit'
                 PROVE  Provisioned(j)'
      BY DEF ReportedIsProvisioned
    <2>1. j # i => requestTable'[j] = requestTable[j]
      BY DEF PutStatus, OnboardingInv, TypeOK
    <2>2. requestTable'[i].status = status
      BY <1>2 DEF PutStatus, OnboardingInv, TypeOK, Records
    <2>3. Provisioned(j)
      <3>1. CASE j # i
        BY <2>1, <3>1 DEF HasStatus, PutStatus, OnboardingInv, ReportedIsProvisioned
      <3>2. CASE j = i /\ <<j, "APPLICATION_ACTIVATED">> \in audit
        BY <3>2 DEF OnboardingInv, ReportedIsProvisioned
      <3>3. CASE j = i /\ HasStatus(j, {"ACTIVE"})'
        BY <1>3, <2>2, <3>3 DEF HasStatus
      <3> QED BY <3>1, <3>2, <3>3 DEF PutStatus
    <2> QED BY <2>3, ProvisionedStays DEF OnboardingInv
  <1>6. GrantsNameTenants' /\ OneLayerPerTenant' /\ ProvisionedIsApproved'
    BY RowsKept DEF PutStatus
  <1> QED BY <1>1, <1>4, <1>5, <1>6 DEF OnboardingInv

LEMMA OnboardingRecordEvent ==
    ASSUME OnboardingInv, Keeps, NEW k \in Tasks, NEW step \in Steps, NEW event \in Events,
           RecordEvent(k, step, event),
           step = "approved_event" => event = "APPLICATION_APPROVED",
           event = "APPLICATION_ACTIVATED" => step = "activated_event"
    PROVE  OnboardingInv'
  <1> DEFINE i == handler[k].id
  <1>1. TypeOK'
    BY RecordEventTypes
  <1>2. /\ i \in RequestIds
        /\ handler[k].step = step
        /\ HandlerKnows(k)
        /\ <<i, event>> \in audit'
    BY DEF OnboardingInv, TypeOK, HandlersKnow, RecordEvent, AtStep
  <1>3. HandlersKnow'
    <2>1. ASSUME handler'[k] # None PROVE HandlerKnows(k)'
      <3>1. step = "approved_event" /\ Continue(k, "put_provisioning")
        BY <2>1 DEF RecordEvent, End, OnboardingInv, TypeOK
      <3>2. handler'[k].id = i /\ handler'[k].step = "put_provisioning"
        BY <3>1 DEF Continue, OnboardingInv, TypeOK, RecordEvent, AtStep
      <3> QED BY <1>2, <3>1, <3>2 DEF HandlerKnows, ProvisionSteps, Keeps
    <2>2. \A l \in Tasks \ {k} : handler'[l] = handler[l]
      BY DEF OnboardingInv, TypeOK, RecordEvent, Continue, End
    <2> QED BY <2>1, <2>2, OthersKnow
  <1>4. ReportedIsProvisioned'
    <2> SUFFICES ASSUME NEW j \in RequestIds,
                        HasStatus(j, {"ACTIVE"})' \/ <<j, "APPLICATION_ACTIVATED">> \in audit'
                 PROVE  Provisioned(j)'
      BY DEF ReportedIsProvisioned
    <2>1. CASE HasStatus(j, {"ACTIVE"})' \/ <<j, "APPLICATION_ACTIVATED">> \in audit
      BY <2>1, ProvisionedStays DEF HasStatus, RecordEvent, OnboardingInv, ReportedIsProvisioned
    <2>2. CASE <<j, "APPLICATION_ACTIVATED">> = <<i, event>>
      <3>1. j = i /\ step = "activated_event"
        BY <2>2
      <3>2. Provisioned(j)
        BY <1>2, <3>1 DEF HandlerKnows
      <3> QED BY <3>2, ProvisionedStays DEF OnboardingInv
    <2> QED BY <2>1, <2>2 DEF RecordEvent
  <1>5. GrantsNameTenants' /\ OneLayerPerTenant' /\ ProvisionedIsApproved'
    BY RowsKept DEF RecordEvent
  <1> QED BY <1>1, <1>3, <1>4, <1>5 DEF OnboardingInv

LEMMA OnboardingCreatePolicy ==
    ASSUME OnboardingInv, Keeps, NEW k \in Tasks, CreatePolicy(k)
    PROVE  OnboardingInv'
  <1> DEFINE i == handler[k].id
             t == requestTable[i].tenant
  <1>1. TypeOK'
    BY WriteTypes
  <1>2. /\ i \in RequestIds
        /\ requestTable[i] # None
        /\ requestTable[i].auth_type = "iam"
        /\ t \in Tenants \ FileTenants
        /\ <<i, "APPLICATION_APPROVED">> \in audit
    BY DEF OnboardingInv, TypeOK, HandlersKnow, HandlerKnows, ProvisionSteps, CreatePolicy, AtStep, Records
  <1>3. policyTable' = [policyTable EXCEPT ![t] = i]
    BY DEF CreatePolicy, Asked
  <1>4. policyTable'[t] # None
    BY <1>2, <1>3, OnboardingAssumption DEF OnboardingInv, TypeOK
  <1>5. HandlersKnow'
    <2>1. HandlerKnows(k)'
      <3>1. handler'[k].id = i /\ handler'[k].step \in {"put_grant", "put_failed"}
        BY DEF CreatePolicy, AtStep, Continue, OnboardingInv, TypeOK
      <3>2. UNCHANGED <<requestTable, audit>>
        BY DEF CreatePolicy
      <3> QED BY <1>2, <1>4, <3>1, <3>2 DEF HandlerKnows, ProvisionSteps, TenantExists
    <2>2. \A l \in Tasks \ {k} : handler'[l] = handler[l]
      BY DEF OnboardingInv, TypeOK, CreatePolicy, Continue
    <2> QED BY <2>1, <2>2, OthersKnow
  <1>6. ReportedIsProvisioned'
    BY DEF CreatePolicy, OnboardingInv, ReportedIsProvisioned, HasStatus, Provisioned
  <1>7. GrantsNameTenants'
    <2> SUFFICES ASSUME NEW a \in Arns, grantTable[a] # None
                 PROVE  TenantExists(grantTable[a].tenant)'
      BY DEF GrantsNameTenants, CreatePolicy, TenantExists
    <2>1. grantTable[a].tenant \in Tenants /\ TenantExists(grantTable[a].tenant)
      BY DEF OnboardingInv, TypeOK, Grants, GrantsNameTenants
    <2> QED BY <2>1, TenantsStay DEF CreatePolicy, TenantExists, Keeps
  <1>8. OneLayerPerTenant'
    BY <1>2, <1>3 DEF OnboardingInv, TypeOK, OneLayerPerTenant
  <1>9. ProvisionedIsApproved'
    BY <1>2, <1>3 DEF OnboardingInv, TypeOK, ProvisionedIsApproved, CreatePolicy
  <1> QED BY <1>1, <1>5, <1>6, <1>7, <1>8, <1>9 DEF OnboardingInv

LEMMA OnboardingPutGrant ==
    ASSUME OnboardingInv, Keeps, NEW k \in Tasks, PutGrant(k)
    PROVE  OnboardingInv'
  <1> DEFINE i == handler[k].id
             arn == requestTable[i].principal_arn
             grant == [tenant |-> requestTable[i].tenant, application |-> i]
  <1>1. TypeOK'
    BY WriteTypes
  <1>2. /\ i \in RequestIds
        /\ requestTable[i] # None
        /\ requestTable[i].auth_type = "iam"
        /\ arn \in Arns
        /\ TenantExists(requestTable[i].tenant)
        /\ <<i, "APPLICATION_APPROVED">> \in audit
    BY DEF OnboardingInv, TypeOK, HandlersKnow, HandlerKnows, ProvisionSteps, PutGrant, AtStep, Records
  <1>3. grantTable' = [grantTable EXCEPT ![arn] = grant]
    BY DEF PutGrant, Asked
  <1>4. grantTable'[arn] = grant
    BY <1>2, <1>3 DEF OnboardingInv, TypeOK
  <1>5. HandlersKnow'
    <2>1. HandlerKnows(k)'
      <3>1. handler'[k].id = i /\ handler'[k].step \in {"put_active", "put_failed"}
        BY DEF PutGrant, AtStep, Continue, OnboardingInv, TypeOK
      <3>2. UNCHANGED requestTable
        BY DEF PutGrant
      <3> QED BY <1>2, <1>4, <3>1, <3>2 DEF HandlerKnows, ProvisionSteps, Provisioned
    <2>2. \A l \in Tasks \ {k} : handler'[l] = handler[l]
      BY DEF OnboardingInv, TypeOK, PutGrant, Continue
    <2> QED BY <2>1, <2>2, OthersKnow
  <1>6. ReportedIsProvisioned'
    <2> SUFFICES ASSUME NEW j \in RequestIds,
                        HasStatus(j, {"ACTIVE"}) \/ <<j, "APPLICATION_ACTIVATED">> \in audit
                 PROVE  Provisioned(j)'
      BY DEF ReportedIsProvisioned, PutGrant, HasStatus
    <2> QED BY ProvisionedStays DEF OnboardingInv, ReportedIsProvisioned
  <1>7. GrantsNameTenants'
    BY <1>2, <1>3 DEF OnboardingInv, TypeOK, GrantsNameTenants, TenantExists, PutGrant
  <1>8. OneLayerPerTenant'
    BY DEF OnboardingInv, OneLayerPerTenant, PutGrant
  <1>9. ProvisionedIsApproved'
    BY <1>2, <1>3 DEF OnboardingInv, TypeOK, ProvisionedIsApproved, PutGrant
  <1> QED BY <1>1, <1>5, <1>6, <1>7, <1>8, <1>9 DEF OnboardingInv

LEMMA OnboardingStep == ASSUME OnboardingInv, [Next]_vars PROVE OnboardingInv'
  <1>1. Keeps
    BY StepKeeps
  <1>2. CASE UNCHANGED vars
    BY <1>2 DEF vars, OnboardingInv, TypeOK, HandlersKnow, HandlerKnows, ReportedIsProvisioned,
                Provisioned, HasStatus, GrantsNameTenants, OneLayerPerTenant,
                ProvisionedIsApproved, TenantExists
  <1>3. CASE Next
    <2> PICK k \in Tasks :
              \/ \E id \in RequestIds, body \in Applications : Submit(k, id, body)
              \/ HandlerMoves(k) \/ StatusPut(k) \/ EventRecorded(k)
              \/ CreatePolicy(k) \/ PutGrant(k)
      BY <1>3, StepKinds
    <2>1. CASE \E id \in RequestIds, body \in Applications : Submit(k, id, body)
      BY <1>1, <2>1, OnboardingSubmit
    <2>2. CASE HandlerMoves(k)
      BY <1>1, <2>2, OnboardingMove
    <2>3. CASE StatusPut(k)
      BY <1>1, <2>3, OnboardingPutStatus DEF StatusPut, Steps, Statuses, ProvisionSteps
    <2>4. CASE EventRecorded(k)
      BY <1>1, <2>4, OnboardingRecordEvent DEF EventRecorded, Steps, Events
    <2>5. CASE CreatePolicy(k)
      BY <1>1, <2>5, OnboardingCreatePolicy
    <2>6. CASE PutGrant(k)
      BY <1>1, <2>6, OnboardingPutGrant
    <2> QED BY <2>1, <2>2, <2>3, <2>4, <2>5, <2>6
  <1> QED BY <1>2, <1>3

LEMMA OnboardingInvHolds == Spec => []OnboardingInv
  BY OnboardingInit, OnboardingStep, PTL DEF Spec

-----------------------------------------------------------------------------
(* The properties. *)

(* The tables and handlers keep their types. *)
THEOREM OnboardingTyping == Spec => []TypeOK
  BY OnboardingInvHolds, PTL DEF OnboardingInv

(* An application reported active - by its record or by the audit trail -    *)
(* resolves to the grant it asked for, of a tenant that exists.            *)
THEOREM ActiveApplicationsWork == Spec => []ActiveIsProvisioned
  <1>1. OnboardingInv => ActiveIsProvisioned
    <2> SUFFICES ASSUME OnboardingInv, NEW id \in RequestIds,
                        HasStatus(id, {"ACTIVE"}) \/ <<id, "APPLICATION_ACTIVATED">> \in audit
                 PROVE  /\ Resolve(requestTable[id].principal_arn) =
                              [tenant |-> requestTable[id].tenant, application |-> id]
                        /\ TenantExists(requestTable[id].tenant)
      BY DEF ActiveIsProvisioned
    <2> DEFINE arn == requestTable[id].principal_arn
    <2>1. Provisioned(id)
      BY DEF OnboardingInv, ReportedIsProvisioned
    <2>2. arn \in Arns /\ [tenant |-> requestTable[id].tenant, application |-> id] \in Grants
      BY <2>1 DEF Provisioned, OnboardingInv, TypeOK, Records, Grants
    <2>3. grantTable[arn] # None
      BY <2>1, <2>2, OnboardingAssumption DEF Provisioned
    <2>4. grantTable[arn].tenant = requestTable[id].tenant
      BY <2>1 DEF Provisioned
    <2> QED BY <2>1, <2>2, <2>3, <2>4 DEF Resolve, Provisioned, OnboardingInv, GrantsNameTenants
  <1> QED BY <1>1, OnboardingInvHolds, PTL

(* A provisioned grant always names a tenant that has a policy. *)
THEOREM GrantsHaveTenants == Spec => []GrantsNameTenants
  BY OnboardingInvHolds, PTL DEF OnboardingInv

(* No tenant is both in the file and in the provisioned table. *)
THEOREM TenantsHaveOneLayer == Spec => []OneLayerPerTenant
  BY OnboardingInvHolds, PTL DEF OnboardingInv

(* Nothing is provisioned whose approval is not on the audit trail. *)
THEOREM NothingUnapproved == Spec => []ProvisionedIsApproved
  BY OnboardingInvHolds, PTL DEF OnboardingInv

(* No step changes a policy row or a grant that is already there. *)
THEOREM ProvisioningOnlyCreates == Spec => OnlyCreates
  <1>1. OnboardingInv /\ [Next]_vars =>
           [/\ \A t \in Tenants : policyTable[t] # None => policyTable'[t] = policyTable[t]
            /\ \A a \in Arns : grantTable[a] # None => grantTable'[a] = grantTable[a]]_vars
    BY StepKeeps DEF Keeps
  <1> QED BY <1>1, OnboardingInvHolds, PTL DEF Spec, OnlyCreates

-----------------------------------------------------------------------------
(* Onboarding keeps the contract: each kind of step through the mapping.    *)

(* What a request asked for outlives every change of its status. *)
LEMMA ApplicationsStay ==
    ASSUME Keeps, NEW id \in RequestIds, requestTable[id] # None
    PROVE  Application(id)' = Application(id)
  BY DEF Keeps, Application

LEMMA SameContract ==
    ASSUME Keeps, UNCHANGED <<policyTable, grantTable, audit>>,
           \A id \in RequestIds : requestTable[id] = None => requestTable'[id] = None
    PROVE  UNCHANGED Contract!vars
  <1>1. \A id \in RequestIds : Application(id)' = Application(id)
    BY ApplicationsStay DEF Application
  <1>2. [id \in RequestIds |-> Application(id)]' = [id \in RequestIds |-> Application(id)]
    BY <1>1
  <1>3. Recorded("APPLICATION_APPROVED")' = Recorded("APPLICATION_APPROVED")
        /\ Recorded("APPLICATION_ACTIVATED")' = Recorded("APPLICATION_ACTIVATED")
    BY DEF Recorded
  <1> QED BY <1>2, <1>3 DEF Contract!vars

(* A record that is there is one of an application. *)
LEMMA RequestsAsk ==
    ASSUME TypeOK, NEW id \in RequestIds, requestTable[id] # None
    PROVE  /\ Application(id) # None
           /\ Application(id).tenant = requestTable[id].tenant
           /\ Application(id).auth_type = requestTable[id].auth_type
           /\ Application(id).principal_arn = requestTable[id].principal_arn
  <1>1. requestTable[id] \in Records
    BY DEF TypeOK
  <1>2. [tenant |-> requestTable[id].tenant, auth_type |-> requestTable[id].auth_type,
         principal_arn |-> requestTable[id].principal_arn] \in Bodies
    BY <1>1 DEF Records, Bodies
  <1> QED BY <1>2, OnboardingAssumption DEF Application

LEMMA SubmitIsSubmit ==
    ASSUME OnboardingInv, Keeps, NEW k \in Tasks, NEW id \in RequestIds,
           NEW body \in Applications, Submit(k, id, body)
    PROVE  Contract!Submit(id, body)
  <1>1. body \in Bodies
    BY OnboardingAssumption
  <1> DEFINE record == [tenant |-> body.tenant, auth_type |-> body.auth_type,
                        principal_arn |-> body.principal_arn, status |-> "PENDING_APPROVAL"]
  <1>2. requestTable' = [requestTable EXCEPT ![id] = record] /\ requestTable[id] = None
    BY DEF Submit
  <1>3. record \in Records
    BY <1>1 DEF Submit, Records, Bodies, Statuses
  <1>4. requestTable'[id] = record /\ record # None
    BY <1>2, <1>3, OnboardingAssumption DEF OnboardingInv, TypeOK
  <1>5. Application(id)' = body
    <2>1. Application(id)' = [tenant |-> body.tenant, auth_type |-> body.auth_type,
                              principal_arn |-> body.principal_arn]
      BY <1>4 DEF Application
    <2> QED BY <1>1, <2>1 DEF Bodies
  <1>6. \A i \in RequestIds : i # id => Application(i)' = Application(i)
    BY <1>2 DEF Application, OnboardingInv, TypeOK
  <1>7. [i \in RequestIds |-> Application(i)]'
          = [[i \in RequestIds |-> Application(i)] EXCEPT ![id] = body]
    BY <1>5, <1>6
  <1>8. [i \in RequestIds |-> Application(i)][id] = None
    BY <1>2 DEF Application
  <1>9. /\ body.auth_type = "iam" => body.principal_arn # None
        /\ UNCHANGED <<Recorded("APPLICATION_APPROVED"), policyTable, grantTable,
                       Recorded("APPLICATION_ACTIVATED")>>
    BY DEF Submit, Recorded
  <1> QED BY <1>7, <1>8, <1>9 DEF Contract!Submit

(* Recording an approval or an activation is approving or activating; other *)
(* events show nothing.                                                    *)
LEMMA EventIsContract ==
    ASSUME OnboardingInv, Keeps, NEW k \in Tasks, EventRecorded(k)
    PROVE  Contract!Next \/ UNCHANGED Contract!vars
  <1> DEFINE id == handler[k].id
  <1>1. /\ id \in RequestIds /\ handler[k] # None
        /\ HandlerKnows(k) /\ requestTable[id] # None
        /\ UNCHANGED <<requestTable, policyTable, grantTable>>
    BY DEF EventRecorded, RecordEvent, AtStep, OnboardingInv, TypeOK, HandlersKnow, HandlerKnows
  <1>2. [i \in RequestIds |-> Application(i)]' = [i \in RequestIds |-> Application(i)]
    BY <1>1 DEF Application
  <1>3. ASSUME NEW step, NEW event, NEW other, RecordEvent(k, step, event), other # event
        PROVE  Recorded(other)' = Recorded(other)
    BY <1>3 DEF RecordEvent, Recorded
  <1>4. ASSUME NEW step, NEW event, RecordEvent(k, step, event)
        PROVE  Recorded(event)' = Recorded(event) \cup {id}
    BY <1>1, <1>4 DEF RecordEvent, Recorded
  <1>5. CASE RecordEvent(k, "approved_event", "APPLICATION_APPROVED")
    <2>1. /\ Recorded("APPLICATION_APPROVED")' = Recorded("APPLICATION_APPROVED") \cup {id}
          /\ Recorded("APPLICATION_ACTIVATED")' = Recorded("APPLICATION_ACTIVATED")
      BY <1>3, <1>4, <1>5
    <2>2. [i \in RequestIds |-> Application(i)][id] # None
      BY <1>1, RequestsAsk DEF OnboardingInv
    <2>3. Contract!Approve(id)
      BY <1>1, <1>2, <2>1, <2>2 DEF Contract!Approve
    <2> QED BY <1>1, <2>3 DEF Contract!Next
  <1>6. CASE RecordEvent(k, "activated_event", "APPLICATION_ACTIVATED")
    <2>1. /\ Recorded("APPLICATION_ACTIVATED")' = Recorded("APPLICATION_ACTIVATED") \cup {id}
          /\ Recorded("APPLICATION_APPROVED")' = Recorded("APPLICATION_APPROVED")
      BY <1>3, <1>4, <1>6
    <2>2. Provisioned(id)
      BY <1>1, <1>6 DEF HandlerKnows, RecordEvent, AtStep
    <2>3. <<id, "APPLICATION_APPROVED">> \in audit
      <3>1. /\ requestTable[id].principal_arn \in Arns /\ requestTable[id] \in Records
        BY <1>1, <2>2 DEF OnboardingInv, TypeOK, Provisioned, Records
      <3>2. grantTable[requestTable[id].principal_arn] # None
            /\ grantTable[requestTable[id].principal_arn].application = id
        BY <1>1, <2>2, <3>1, OnboardingAssumption DEF Provisioned, Grants, Records
      <3> QED BY <3>1, <3>2 DEF OnboardingInv, ProvisionedIsApproved
    <2>4. id \in Recorded("APPLICATION_APPROVED")
      BY <1>1, <2>3 DEF Recorded
    <2>5. Contract!Activate(id)
      BY <1>1, <1>2, <2>1, <2>2, <2>4, RequestsAsk
         DEF Contract!Activate, Contract!MayProvision, Contract!GrantOf, Provisioned, OnboardingInv
    <2> QED BY <1>1, <2>5 DEF Contract!Next
  <1>7. CASE \/ RecordEvent(k, "submitted_event", "ONBOARDING_SUBMITTED")
             \/ RecordEvent(k, "failed_event", "PROVISIONING_FAILED")
             \/ RecordEvent(k, "rejected_event", "APPLICATION_REJECTED")
    <2>1. /\ Recorded("APPLICATION_ACTIVATED")' = Recorded("APPLICATION_ACTIVATED")
          /\ Recorded("APPLICATION_APPROVED")' = Recorded("APPLICATION_APPROVED")
      BY <1>3, <1>7
    <2> QED BY <1>1, <1>2, <2>1 DEF Contract!vars
  <1> QED BY <1>5, <1>6, <1>7 DEF EventRecorded

(* A handler that is to write a row works on an approved IAM application. *)
LEMMA ProvisionerMay ==
    ASSUME OnboardingInv, NEW k \in Tasks,
           AtStep(k, "create_policy") \/ AtStep(k, "put_grant")
    PROVE  /\ handler[k].id \in RequestIds
           /\ Contract!MayProvision(handler[k].id)
           /\ requestTable[handler[k].id] # None
           /\ [i \in RequestIds |-> Application(i)][handler[k].id].tenant = Asked(k).tenant
           /\ [i \in RequestIds |-> Application(i)][handler[k].id].principal_arn
                 = Asked(k).principal_arn
  <1> DEFINE id == handler[k].id
  <1>1. id \in RequestIds /\ HandlerKnows(k) /\ requestTable[id] # None
    BY DEF OnboardingInv, TypeOK, HandlersKnow, HandlerKnows, AtStep
  <1>2. <<id, "APPLICATION_APPROVED">> \in audit /\ requestTable[id].auth_type = "iam"
    BY <1>1 DEF HandlerKnows, AtStep, ProvisionSteps
  <1>3. id \in Recorded("APPLICATION_APPROVED")
    BY <1>1, <1>2 DEF Recorded
  <1> QED
    BY <1>1, <1>2, <1>3, RequestsAsk DEF Contract!MayProvision, Asked, OnboardingInv

LEMMA CreateIsCreate ==
    ASSUME OnboardingInv, Keeps, NEW k \in Tasks, CreatePolicy(k)
    PROVE  Contract!CreateTenant(handler[k].id)
  <1> DEFINE id == handler[k].id
  <1>1. AtStep(k, "create_policy") /\ id \in RequestIds /\ HandlerKnows(k)
    BY ProvisionerMay DEF CreatePolicy, OnboardingInv, HandlersKnow, AtStep
  <1>2. Asked(k).tenant \notin FileTenants
    BY <1>1 DEF HandlerKnows, AtStep, Asked
  <1>3. /\ [i \in RequestIds |-> Application(i)]' = [i \in RequestIds |-> Application(i)]
        /\ UNCHANGED <<Recorded("APPLICATION_APPROVED"), grantTable,
                       Recorded("APPLICATION_ACTIVATED")>>
    BY DEF CreatePolicy, Application, Recorded
  <1>4. /\ policyTable[Asked(k).tenant] = None
        /\ policyTable' = [policyTable EXCEPT ![Asked(k).tenant] = id]
    BY DEF CreatePolicy
  <1> QED BY <1>1, <1>2, <1>3, <1>4, ProvisionerMay DEF Contract!CreateTenant

LEMMA GrantIsGrant ==
    ASSUME OnboardingInv, Keeps, NEW k \in Tasks, PutGrant(k)
    PROVE  Contract!Grant(handler[k].id)
  <1> DEFINE id == handler[k].id
  <1>1. AtStep(k, "put_grant") /\ id \in RequestIds /\ HandlerKnows(k)
    BY ProvisionerMay DEF PutGrant, OnboardingInv, HandlersKnow, AtStep
  <1>2. TenantExists(Asked(k).tenant)
    BY <1>1 DEF HandlerKnows, AtStep, Asked
  <1>3. /\ [i \in RequestIds |-> Application(i)]' = [i \in RequestIds |-> Application(i)]
        /\ UNCHANGED <<Recorded("APPLICATION_APPROVED"), policyTable,
                       Recorded("APPLICATION_ACTIVATED")>>
    BY DEF PutGrant, Application, Recorded
  <1>4. /\ grantTable[Asked(k).principal_arn] = None
        /\ grantTable' = [grantTable EXCEPT ![Asked(k).principal_arn] =
                             [tenant |-> Asked(k).tenant, application |-> id]]
    BY DEF PutGrant
  <1> QED
    BY <1>1, <1>2, <1>3, <1>4, ProvisionerMay DEF Contract!Grant, Contract!GrantOf, TenantExists

LEMMA StepKeepsContract ==
    ASSUME OnboardingInv, [Next]_vars
    PROVE  [Contract!Next]_(Contract!vars)
  <1>1. Keeps
    BY StepKeeps
  <1>2. CASE UNCHANGED vars
    BY <1>1, <1>2, SameContract DEF vars
  <1>3. CASE Next
    <2> PICK k \in Tasks :
              \/ \E id \in RequestIds, body \in Applications : Submit(k, id, body)
              \/ HandlerMoves(k) \/ StatusPut(k) \/ EventRecorded(k)
              \/ CreatePolicy(k) \/ PutGrant(k)
      BY <1>3, StepKinds
    <2>1. ASSUME NEW id \in RequestIds, NEW body \in Applications, Submit(k, id, body)
          PROVE  Contract!Next
      BY <1>1, <2>1, SubmitIsSubmit DEF Contract!Next
    <2>2. CASE HandlerMoves(k)
      BY <1>1, <2>2, SameContract DEF HandlerMoves, TablesKept
    <2>3. CASE StatusPut(k)
      <3>1. /\ UNCHANGED <<policyTable, grantTable, audit>>
            /\ handler[k] # None
            /\ \A id \in RequestIds : id # handler[k].id => requestTable'[id] = requestTable[id]
        BY <2>3 DEF StatusPut, PutStatus, AtStep, OnboardingInv, TypeOK
      <3>2. requestTable[handler[k].id] # None
        BY <3>1 DEF OnboardingInv, HandlersKnow, HandlerKnows
      <3> QED BY <1>1, <3>1, <3>2, SameContract
    <2>4. CASE EventRecorded(k)
      BY <1>1, <2>4, EventIsContract
    <2>5. CASE CreatePolicy(k)
      BY <1>1, <2>5, CreateIsCreate, ProvisionerMay DEF Contract!Next, CreatePolicy
    <2>6. CASE PutGrant(k)
      BY <1>1, <2>6, GrantIsGrant, ProvisionerMay DEF Contract!Next, PutGrant
    <2> QED BY <2>1, <2>2, <2>3, <2>4, <2>5, <2>6
  <1> QED BY <1>2, <1>3

(* Whoever decides, repeats, reads late or dies halfway: onboarding creates *)
(* for approved applications what they asked for, tenant before grant      *)
(* before activation, and changes nothing that is there.                   *)
THEOREM OnboardingKeepsContract == Spec => KeepsContract
  <1>1. Init => Contract!Init
    BY DEF Init, Contract!Init, Application, Recorded
  <1>2. OnboardingInv /\ [Next]_vars => [Contract!Next]_(Contract!vars)
    BY StepKeepsContract
  <1> QED BY <1>1, <1>2, OnboardingInvHolds, PTL DEF Spec, KeepsContract, Contract!Spec

-----------------------------------------------------------------------------
(* The audit trail of outcomes.                                            *)

(* The steps from which a handler still records, or still changes, a status. *)
Ahead(status) ==
    CASE status = "PENDING_APPROVAL" -> {"submitted_event"}
      [] status \in {"APPROVED", "PROVISIONING"} ->
            {"approved_event", "put_provisioning", "put_active", "put_failed"} \cup ProvisionSteps
      [] status = "ACTIVE" -> {"activated_event"}
      [] status = "FAILED" -> {"failed_event"}
      [] status = "REJECTED" -> {"rejected_event"}

OutcomeRecorded(id) ==
    \/ requestTable[id].status = "PENDING_APPROVAL" /\ <<id, "ONBOARDING_SUBMITTED">> \in audit
    \/ requestTable[id].status = "ACTIVE" /\ <<id, "APPLICATION_ACTIVATED">> \in audit
    \/ requestTable[id].status = "FAILED" /\ <<id, "PROVISIONING_FAILED">> \in audit
    \/ requestTable[id].status = "REJECTED" /\ <<id, "APPLICATION_REJECTED">> \in audit

(* Of every request that was not cut short, the status is on the audit       *)
(* trail, or a handler has it ahead.  When two decide, it is the last one   *)
(* to put a status that has it.                                            *)
Accounted(id) ==
    \/ id \in interrupted
    \/ OutcomeRecorded(id)
    \/ \E k \in Tasks : HandledBy(k, id) /\ handler[k].step \in Ahead(requestTable[id].status)
AllAccounted == \A id \in RequestIds : requestTable[id] # None => Accounted(id)

OutcomeInv == OnboardingInv /\ AllAccounted

(* A step of one task on one request leaves the other requests as accounted *)
(* for as they were.                                                       *)
LEMMA OthersAccounted ==
    ASSUME OutcomeInv, NEW k \in Tasks, NEW i \in RequestIds,
           handler[k] # None => handler[k].id = i,
           \A l \in Tasks : l # k => handler'[l] = handler[l],
           \A id \in RequestIds : id # i => requestTable'[id] = requestTable[id],
           audit \subseteq audit', interrupted \subseteq interrupted',
           requestTable'[i] # None => Accounted(i)'
    PROVE  AllAccounted'
  <1> SUFFICES ASSUME NEW id \in RequestIds, id # i, requestTable[id] # None
               PROVE  Accounted(id)'
    BY DEF AllAccounted
  <1>1. Accounted(id) /\ requestTable'[id] = requestTable[id]
    BY DEF OutcomeInv, AllAccounted
  <1>2. CASE id \in interrupted \/ OutcomeRecorded(id)
    BY <1>1, <1>2 DEF Accounted, OutcomeRecorded
  <1>3. ASSUME NEW l \in Tasks, HandledBy(l, id),
               handler[l].step \in Ahead(requestTable[id].status)
        PROVE  Accounted(id)'
    <2>1. l # k
      BY <1>3 DEF HandledBy
    <2> QED BY <1>1, <1>3, <2>1 DEF Accounted, HandledBy
  <1> QED BY <1>1, <1>2, <1>3 DEF Accounted

(* A handler that begins takes nothing from the others. *)
LEMMA DecideAccounted ==
    ASSUME OutcomeInv, NEW k \in Tasks, NEW id \in RequestIds, Approve(k, id) \/ Reject(k, id)
    PROVE  AllAccounted'
  <1>1. /\ handler[k] = None
        /\ UNCHANGED <<requestTable, audit, interrupted>>
        /\ \A l \in Tasks : l # k => handler'[l] = handler[l]
    BY DEF Approve, Reject, Decide, Idle, Begin, OutcomeInv, OnboardingInv, TypeOK
  <1>2. ASSUME NEW j \in RequestIds, requestTable[j] # None PROVE Accounted(j)'
    BY <1>1, <1>2 DEF OutcomeInv, AllAccounted, Accounted, OutcomeRecorded, HandledBy
  <1> QED BY <1>1, <1>2 DEF AllAccounted

LEMMA SubmitAccounted ==
    ASSUME OutcomeInv, NEW k \in Tasks, NEW id \in RequestIds, NEW body \in Applications,
           Submit(k, id, body)
    PROVE  AllAccounted'
  <1>1. /\ handler'[k] = [id |-> id, step |-> "submitted_event"]
        /\ requestTable'[id].status = "PENDING_APPROVAL"
        /\ \A l \in Tasks : l # k => handler'[l] = handler[l]
        /\ \A j \in RequestIds : j # id => requestTable'[j] = requestTable[j]
        /\ handler[k] = None /\ UNCHANGED <<audit, interrupted>>
    BY DEF Submit, Begin, Idle, OutcomeInv, OnboardingInv, TypeOK
  <1>2. handler'[k] # None
    BY <1>1, OnboardingAssumption DEF Steps
  <1>3. Accounted(id)'
    BY <1>1, <1>2 DEF Accounted, HandledBy, Ahead
  <1> QED BY <1>1, <1>3, OthersAccounted

(* What a handler may count on when it makes a call. *)
LEMMA HandlerHasARequest ==
    ASSUME OnboardingInv, NEW k \in Tasks, handler[k] # None
    PROVE  /\ handler[k].id \in RequestIds
           /\ handler[k] \in [id: RequestIds, step: Steps]
           /\ requestTable[handler[k].id] \in Records
           /\ requestTable[handler[k].id].status \in Statuses
  BY DEF OnboardingInv, TypeOK, HandlersKnow, HandlerKnows, Records

(* Whoever puts a status has its event ahead. *)
LEMMA PutStatusAccounted ==
    ASSUME OutcomeInv, NEW k \in Tasks, NEW step, NEW status \in Statuses,
           NEW next \in Ahead(status), next \in Steps, PutStatus(k, step, status, next)
    PROVE  AllAccounted'
  <1> PICK i : i = handler[k].id
    OBVIOUS
  <1>1. /\ handler[k] # None /\ i \in RequestIds /\ requestTable[i] \in Records
        /\ handler[k] \in [id: RequestIds, step: Steps]
    BY HandlerHasARequest DEF PutStatus, AtStep, OutcomeInv
  <1>2. /\ requestTable' = [requestTable EXCEPT ![i] = [requestTable[i] EXCEPT !.status = status]]
        /\ handler' = [handler EXCEPT ![k] = [handler[k] EXCEPT !.step = next]]
        /\ UNCHANGED <<audit, interrupted>>
    BY DEF PutStatus, Continue
  <1>3. [handler[k] EXCEPT !.step = next] \in [id: RequestIds, step: Steps]
    BY <1>1
  <1>4. /\ handler'[k] # None /\ handler'[k].id = i /\ handler'[k].step = next
        /\ \A l \in Tasks : l # k => handler'[l] = handler[l]
    BY <1>1, <1>2, <1>3, OnboardingAssumption DEF OutcomeInv, OnboardingInv, TypeOK
  <1>5. /\ requestTable'[i].status = status
        /\ \A j \in RequestIds : j # i => requestTable'[j] = requestTable[j]
    BY <1>1, <1>2 DEF OutcomeInv, OnboardingInv, TypeOK, Records
  <1>6. Accounted(i)'
    BY <1>4, <1>5 DEF Accounted, HandledBy
  <1> QED BY <1>1, <1>2, <1>4, <1>5, <1>6, OthersAccounted

(* provision() moves on, with the decision ahead before and after. *)
LEMMA ProvisionAccounted ==
    ASSUME OutcomeInv, NEW k \in Tasks, Provision(k)
    PROVE  AllAccounted'
  <1> PICK i : i = handler[k].id
    OBVIOUS
  <1> DEFINE Deciding == {"put_active", "put_failed"} \cup ProvisionSteps
  <1>1. handler[k] # None /\ handler[k].step \in ProvisionSteps
    BY DEF Provision, RefuseOauth, TenantFound, TenantNotFound, CreatePolicy, CreateRefused,
           PutGrant, GrantRefused, AtStep, ProvisionSteps
  <1>2. PICK next \in Deciding : Continue(k, next)
    BY DEF Provision, RefuseOauth, TenantFound, TenantNotFound, CreatePolicy, CreateRefused,
           PutGrant, GrantRefused, Moves, ProvisionSteps
  <1>3. UNCHANGED <<requestTable, audit, interrupted>>
    BY DEF Provision, RefuseOauth, TenantFound, TenantNotFound, CreatePolicy, CreateRefused,
           PutGrant, GrantRefused, Moves
  <1>4. /\ i \in RequestIds /\ handler[k] \in [id: RequestIds, step: Steps]
        /\ requestTable[i].status \in Statuses
    BY <1>1, HandlerHasARequest DEF OutcomeInv
  <1>5. [handler[k] EXCEPT !.step = next] \in [id: RequestIds, step: Steps]
    BY <1>4 DEF Steps, ProvisionSteps
  <1>6. /\ handler'[k] # None /\ handler'[k].id = i /\ handler'[k].step = next
        /\ \A l \in Tasks : l # k => handler'[l] = handler[l]
    BY <1>2, <1>4, <1>5, OnboardingAssumption
       DEF Continue, OutcomeInv, OnboardingInv, TypeOK
  <1>7. ASSUME requestTable[i] # None PROVE Accounted(i)'
    <2>1. Accounted(i)
      BY <1>4, <1>7 DEF OutcomeInv, AllAccounted
    <2>2. CASE i \in interrupted \/ OutcomeRecorded(i)
      BY <1>3, <2>2 DEF Accounted, OutcomeRecorded
    <2>3. CASE requestTable[i].status \in {"APPROVED", "PROVISIONING"}
      BY <1>2, <1>3, <1>6, <2>3 DEF Accounted, HandledBy, Ahead
    <2>4. ASSUME requestTable[i].status \notin {"APPROVED", "PROVISIONING"},
                 NEW l \in Tasks, HandledBy(l, i), handler[l].step \in Ahead(requestTable[i].status)
          PROVE  Accounted(i)'
      <3>1. l # k
        BY <1>1, <1>4, <2>4 DEF Ahead, ProvisionSteps, Statuses
      <3> QED BY <1>3, <1>6, <2>4, <3>1 DEF Accounted, HandledBy
    <2> QED BY <2>1, <2>2, <2>3, <2>4 DEF Accounted
  <1> QED BY <1>1, <1>3, <1>4, <1>6, <1>7, OthersAccounted

(* A recorded event is the one of the status its handler had put, or the     *)
(* approval's, which is not the last.                                      *)
LEMMA RecordAccounted ==
    ASSUME OutcomeInv, NEW k \in Tasks, EventRecorded(k)
    PROVE  AllAccounted'
  <1> PICK i : i = handler[k].id
    OBVIOUS
  <1>1. /\ handler[k] # None /\ i \in RequestIds
        /\ handler[k] \in [id: RequestIds, step: Steps]
        /\ requestTable[i].status \in Statuses
    BY HandlerHasARequest DEF EventRecorded, RecordEvent, AtStep, OutcomeInv
  <1>2. /\ UNCHANGED <<requestTable, interrupted>>
        /\ audit \subseteq audit'
        /\ Continue(k, "put_provisioning") \/ End(k)
    BY DEF EventRecorded, RecordEvent
  <1>3. \A l \in Tasks : l # k => handler'[l] = handler[l]
    BY <1>2 DEF Continue, End, OutcomeInv, OnboardingInv, TypeOK
  <1>4. ASSUME requestTable[i] # None PROVE Accounted(i)'
    <2>1. Accounted(i)
      BY <1>1, <1>4 DEF OutcomeInv, AllAccounted
    <2>2. CASE i \in interrupted \/ OutcomeRecorded(i)
      BY <1>2, <2>2 DEF Accounted, OutcomeRecorded
    <2>3. ASSUME NEW l \in Tasks, l # k, HandledBy(l, i),
                 handler[l].step \in Ahead(requestTable[i].status)
          PROVE  Accounted(i)'
      BY <1>2, <1>3, <2>3 DEF Accounted, HandledBy
    <2>4. CASE handler[k].step \in Ahead(requestTable[i].status)
      <3>1. CASE handler[k].step = "approved_event"
        <4>1. handler' = [handler EXCEPT ![k] = [handler[k] EXCEPT !.step = "put_provisioning"]]
          BY <3>1 DEF EventRecorded, RecordEvent, AtStep, Continue
        <4>2. [handler[k] EXCEPT !.step = "put_provisioning"] \in [id: RequestIds, step: Steps]
          BY <1>1 DEF Steps
        <4>3. handler'[k] # None /\ handler'[k].id = i /\ handler'[k].step = "put_provisioning"
          BY <1>1, <4>1, <4>2, OnboardingAssumption DEF OutcomeInv, OnboardingInv, TypeOK
        <4>4. requestTable[i].status \in {"APPROVED", "PROVISIONING"}
          BY <1>1, <2>4, <3>1 DEF Ahead, Statuses
        <4> QED BY <1>2, <4>3, <4>4 DEF Accounted, HandledBy, Ahead
      <3>2. CASE handler[k].step = "submitted_event"
        <4>1. requestTable[i].status = "PENDING_APPROVAL"
          BY <1>1, <2>4, <3>2 DEF Ahead, Statuses, ProvisionSteps
        <4>2. <<i, "ONBOARDING_SUBMITTED">> \in audit'
          BY <3>2 DEF EventRecorded, RecordEvent, AtStep
        <4> QED BY <1>2, <4>1, <4>2 DEF Accounted, OutcomeRecorded
      <3>3. CASE handler[k].step = "activated_event"
        <4>1. requestTable[i].status = "ACTIVE"
          BY <1>1, <2>4, <3>3 DEF Ahead, Statuses, ProvisionSteps
        <4>2. <<i, "APPLICATION_ACTIVATED">> \in audit'
          BY <3>3 DEF EventRecorded, RecordEvent, AtStep
        <4> QED BY <1>2, <4>1, <4>2 DEF Accounted, OutcomeRecorded
      <3>4. CASE handler[k].step = "failed_event"
        <4>1. requestTable[i].status = "FAILED"
          BY <1>1, <2>4, <3>4 DEF Ahead, Statuses, ProvisionSteps
        <4>2. <<i, "PROVISIONING_FAILED">> \in audit'
          BY <3>4 DEF EventRecorded, RecordEvent, AtStep
        <4> QED BY <1>2, <4>1, <4>2 DEF Accounted, OutcomeRecorded
      <3>5. CASE handler[k].step = "rejected_event"
        <4>1. requestTable[i].status = "REJECTED"
          BY <1>1, <2>4, <3>5 DEF Ahead, Statuses, ProvisionSteps
        <4>2. <<i, "APPLICATION_REJECTED">> \in audit'
          BY <3>5 DEF EventRecorded, RecordEvent, AtStep
        <4> QED BY <1>2, <4>1, <4>2 DEF Accounted, OutcomeRecorded
      <3> QED BY <3>1, <3>2, <3>3, <3>4, <3>5 DEF EventRecorded, RecordEvent, AtStep
    <2> QED BY <2>1, <2>2, <2>3, <2>4 DEF Accounted
  <1> QED BY <1>1, <1>2, <1>3, <1>4, OthersAccounted

(* A handler that is cut short marks its request. *)
LEMMA CutShortAccounted ==
    ASSUME OutcomeInv, NEW k \in Tasks, ProvisionRaises(k) \/ Crash(k)
    PROVE  AllAccounted'
  <1> PICK i : i = handler[k].id
    OBVIOUS
  <1>1. /\ handler[k] # None /\ End(k)
        /\ interrupted' = interrupted \cup {i}
        /\ UNCHANGED <<requestTable, audit>>
    BY DEF ProvisionRaises, Crash
  <1>2. i \in RequestIds /\ \A l \in Tasks : l # k => handler'[l] = handler[l]
    BY <1>1 DEF End, OutcomeInv, OnboardingInv, TypeOK
  <1>3. Accounted(i)'
    BY <1>1 DEF Accounted
  <1> QED BY <1>1, <1>2, <1>3, OthersAccounted

LEMMA OutcomeStep == ASSUME OutcomeInv, [Next]_vars PROVE OutcomeInv'
  <1>1. OnboardingInv'
    BY OnboardingStep DEF OutcomeInv
  <1>2. CASE UNCHANGED vars
    BY <1>1, <1>2 DEF vars, OutcomeInv, AllAccounted, Accounted, OutcomeRecorded, HandledBy
  <1>3. ASSUME NEW k \in Tasks, Receive(k) PROVE AllAccounted'
    BY <1>3, SubmitAccounted, DecideAccounted DEF Receive
  <1>4. ASSUME NEW k \in Tasks, Handle(k) PROVE AllAccounted'
    <2>1. StatusPut(k) => AllAccounted'
      BY PutStatusAccounted DEF StatusPut, Ahead, Statuses, Steps, ProvisionSteps
    <2>2. StatusPut(k) \/ EventRecorded(k) \/ Provision(k)
      BY <1>4 DEF Handle, ApproveRequest, ActivateRequest, FailRequest, RejectRequest,
                  StatusPut, EventRecorded
    <2> QED BY <2>1, <2>2, RecordAccounted, ProvisionAccounted
  <1>5. ASSUME NEW k \in Tasks, ProvisionRaises(k) \/ Crash(k) PROVE AllAccounted'
    BY <1>5, CutShortAccounted
  <1> QED BY <1>1, <1>2, <1>3, <1>4, <1>5 DEF Next, OutcomeInv

(* Once nobody works on a request, and nothing was cut short, the audit      *)
(* trail holds the event of the outcome its record shows - however many     *)
(* admins decided it, over whatever stale reads.                           *)
THEOREM OutcomesAreAudited == Spec => []OutcomeIsAudited
  <1>1. Init => OutcomeInv
    BY OnboardingInit DEF Init, OutcomeInv, AllAccounted
  <1>2. OutcomeInv => OutcomeIsAudited
    BY DEF OutcomeInv, AllAccounted, Accounted, OutcomeRecorded, OutcomeIsAudited, HandledBy
  <1> QED BY <1>1, <1>2, OutcomeStep, PTL DEF Spec
-----------------------------------------------------------------------------
(* The safety half of ApprovalSettles: a request halfway has a handler with  *)
(* its outcome ahead, and every call brings a handler closer to its end.   *)

(* A request is left APPROVED or PROVISIONING only while a handler has the   *)
(* put of its outcome ahead, or after one was cut short.                   *)
HalfwayIsHandled ==
    \A id \in RequestIds :
        (HasStatus(id, {"APPROVED", "PROVISIONING"}) /\ id \notin interrupted) =>
            \E k \in Tasks : HandledBy(k, id) /\ handler[k].step \in Ahead("APPROVED")

(* However many admins decide a request, over whatever stale reads, none     *)
(* leaves it halfway by ending.                                            *)
THEOREM HalfwayRequestsAreHandled == Spec => []HalfwayIsHandled
  <1>1. Init => OutcomeInv
    BY OnboardingInit DEF Init, OutcomeInv, AllAccounted
  <1>2. ASSUME OutcomeInv, NEW id \in RequestIds,
               HasStatus(id, {"APPROVED", "PROVISIONING"}), id \notin interrupted
        PROVE  \E k \in Tasks : HandledBy(k, id) /\ handler[k].step \in Ahead("APPROVED")
    <2>1. Accounted(id) /\ ~OutcomeRecorded(id)
      BY <1>2 DEF OutcomeInv, AllAccounted, HasStatus, OutcomeRecorded
    <2>2. Ahead(requestTable[id].status) = Ahead("APPROVED")
      BY <1>2 DEF HasStatus, Ahead
    <2> QED BY <1>2, <2>1, <2>2 DEF Accounted
  <1>3. OutcomeInv => HalfwayIsHandled
    BY <1>2 DEF HalfwayIsHandled
  <1> QED BY <1>1, <1>3, OutcomeStep, PTL DEF Spec

(* How many calls a handler has left to make, at most. *)
CallsLeft(k) ==
    IF handler[k] = None THEN 0 ELSE
    CASE handler[k].step = "put_approved" -> 8
      [] handler[k].step = "approved_event" -> 7
      [] handler[k].step = "put_provisioning" -> 6
      [] handler[k].step = "find_tenant" -> 5
      [] handler[k].step = "create_policy" -> 4
      [] handler[k].step = "put_grant" -> 3
      [] handler[k].step \in {"put_active", "put_failed", "put_rejected"} -> 2
      [] OTHER -> 1

(* A call of task k brings its handler closer to its end, and whatever       *)
(* others do, a handler under way neither starts over nor goes back.       *)
Advances ==
    \A k \in Tasks :
        /\ Handle(k) => CallsLeft(k)' < CallsLeft(k)
        /\ handler'[k] # handler[k] => handler[k] = None \/ CallsLeft(k)' < CallsLeft(k)
HandlersAdvance == [][Advances]_vars

LEMMA EndAdvances ==
    ASSUME TypeOK, NEW k \in Tasks, handler[k] # None, End(k)
    PROVE  CallsLeft(k)' < CallsLeft(k)
  <1>1. handler'[k] = None
    BY DEF TypeOK, End
  <1> QED BY <1>1 DEF CallsLeft

LEMMA ContinueAdvances ==
    ASSUME TypeOK, NEW k \in Tasks, handler[k] # None, NEW step, Continue(k, step),
           \/ handler[k].step = "put_approved" /\ step = "approved_event"
           \/ handler[k].step = "approved_event" /\ step = "put_provisioning"
           \/ handler[k].step = "put_provisioning" /\ step = "find_tenant"
           \/ handler[k].step = "find_tenant" /\ step \in {"create_policy", "put_grant", "put_failed"}
           \/ handler[k].step = "create_policy" /\ step \in {"put_grant", "put_failed"}
           \/ handler[k].step = "put_grant" /\ step \in {"put_active", "put_failed"}
           \/ handler[k].step = "put_active" /\ step = "activated_event"
           \/ handler[k].step = "put_failed" /\ step = "failed_event"
           \/ handler[k].step = "put_rejected" /\ step = "rejected_event"
    PROVE  CallsLeft(k)' < CallsLeft(k)
  <1>1. step \in Steps
    BY DEF Steps
  <1>2. handler'[k] = [id |-> handler[k].id, step |-> step]
    BY DEF TypeOK, Continue
  <1>3. handler'[k] # None /\ handler'[k].step = step
    BY <1>1, <1>2, OnboardingAssumption DEF TypeOK
  <1> QED BY <1>3 DEF CallsLeft

LEMMA HandleAdvances ==
    ASSUME TypeOK, NEW k \in Tasks, Handle(k)
    PROVE  CallsLeft(k)' < CallsLeft(k)
  <1>1. CASE StatusPut(k)
    BY <1>1, ContinueAdvances DEF StatusPut, PutStatus, AtStep
  <1>2. CASE EventRecorded(k)
    BY <1>2, ContinueAdvances, EndAdvances DEF EventRecorded, RecordEvent, AtStep
  <1>3. CASE RefuseOauth(k) \/ TenantFound(k) \/ TenantNotFound(k)
    BY <1>3, ContinueAdvances DEF RefuseOauth, TenantFound, TenantNotFound, Moves, AtStep
  <1>4. CASE CreatePolicy(k) \/ CreateRefused(k)
    BY <1>4, ContinueAdvances DEF CreatePolicy, CreateRefused, Moves, AtStep
  <1>5. CASE PutGrant(k) \/ GrantRefused(k)
    BY <1>5, ContinueAdvances DEF PutGrant, GrantRefused, Moves, AtStep
  <1> QED BY <1>1, <1>2, <1>3, <1>4, <1>5
          DEF Handle, Provision, ApproveRequest, ActivateRequest, FailRequest, RejectRequest,
              StatusPut, EventRecorded

(* A step of one task leaves the handlers of the others where they are. *)
LEMMA OneHandlerMoves ==
    ASSUME TypeOK, Next
    PROVE  \E k \in Tasks :
              /\ Receive(k) \/ Handle(k) \/ ProvisionRaises(k) \/ Crash(k)
              /\ \A l \in Tasks : l # k => handler'[l] = handler[l]
  <1>1. PICK k \in Tasks : Receive(k) \/ Handle(k) \/ ProvisionRaises(k) \/ Crash(k)
    BY DEF Next
  <1>2. ASSUME NEW l \in Tasks, l # k PROVE handler'[l] = handler[l]
    <2>1. \A id, step : Begin(k, id, step) => handler'[l] = handler[l]
      BY <1>2 DEF TypeOK, Begin
    <2>2. \A step : Continue(k, step) => handler'[l] = handler[l]
      BY <1>2 DEF TypeOK, Continue
    <2>3. End(k) => handler'[l] = handler[l]
      BY <1>2 DEF TypeOK, End
    <2>4. Receive(k) => handler'[l] = handler[l]
      BY <2>1 DEF Receive, Submit, Approve, Reject, Decide
    <2>5. Provision(k) => handler'[l] = handler[l]
      BY <2>2 DEF Provision, RefuseOauth, TenantFound, TenantNotFound, CreatePolicy, CreateRefused,
                  PutGrant, GrantRefused, Moves
    <2>6. Handle(k) => handler'[l] = handler[l]
      BY <2>2, <2>3, <2>5 DEF Handle, ApproveRequest, ActivateRequest, FailRequest, RejectRequest,
                               PutStatus, RecordEvent
    <2> QED BY <1>1, <2>3, <2>4, <2>6 DEF ProvisionRaises, Crash
  <1> QED BY <1>1, <1>2

(* No handler of an onboarding route makes more than eight calls: each one,  *)
(* whatever it finds, lowers how many are left.                            *)
THEOREM HandlersComeToAnEnd == Spec => HandlersAdvance /\ [](\A k \in Tasks : CallsLeft(k) \in 0..8)
  <1>1. ASSUME TypeOK, Next PROVE Advances
    <2>1. PICK k \in Tasks :
             /\ Receive(k) \/ Handle(k) \/ ProvisionRaises(k) \/ Crash(k)
             /\ \A l \in Tasks : l # k => handler'[l] = handler[l]
      BY <1>1, OneHandlerMoves
    <2>2. ASSUME NEW l \in Tasks, Handle(l) PROVE CallsLeft(l)' < CallsLeft(l)
      BY <1>1, <2>2, HandleAdvances
    <2>3. Receive(k) => handler[k] = None
      BY DEF Receive, Submit, Approve, Reject, Decide, Idle
    <2>4. ProvisionRaises(k) \/ Crash(k) => CallsLeft(k)' < CallsLeft(k)
      BY <1>1, EndAdvances DEF ProvisionRaises, Crash
    <2> QED BY <2>1, <2>2, <2>3, <2>4 DEF Advances
  <1>2. TypeOK /\ [Next]_vars => [Advances]_vars
    BY <1>1
  <1>3. \A k \in Tasks : CallsLeft(k) \in 0..8
    BY DEF CallsLeft
  <1> QED BY <1>2, <1>3, OnboardingTyping, PTL DEF Spec, HandlersAdvance
=============================================================================
