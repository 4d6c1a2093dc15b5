----------------------------- MODULE Onboarding -----------------------------
(***************************************************************************)
(* Application onboarding: submit, approve and reject of an onboarding     *)
(* request (api/onboarding_routes.py), the provisioning that approve runs  *)
(* inline (onboarding/provisioning.py), and the two layered stores it      *)
(* writes into: policies (policy/store.py) and principal grants            *)
(* (auth/aws_iam.py), each a provisioned table over a hand-written file.   *)
(*                                                                         *)
(* A handler is a sequence of DynamoDB calls; the handlers of several      *)
(* tasks interleave between any two of them, and a call may raise.         *)
(***************************************************************************)
EXTENDS FiniteSets

CONSTANTS
    Tasks,          \* the running backend tasks
    RequestIds,     \* onboarding request ids (uuids: never used twice)
    Tenants,        \* tenant_ids
    Arns,           \* principal ARNs
    Applications,   \* what submitted requests ask for: the bodies a run uses
    FileTenants,    \* the tenants of tenants.yaml
    FileGrants,     \* the grants of iam_tenants.yaml: ARN -> grant
    EventualReads,  \* get_item is not a ConsistentRead: may it return an old item?
    Crashes,        \* may a task die, or a put outside provision() raise?
    None            \* no row, no ARN, no handler

VARIABLES
    requestTable,   \* the onboarding request table: request_id -> its item
    policyTable,    \* the provisioned policies: tenant_id -> the request that asked for it
    grantTable,     \* the provisioned grants: ARN -> grant
    audit,          \* the audit table: <<request_id, event>>
    handler,        \* task -> the request it is handling, and its next call
    interrupted     \* history: the requests one of whose handlers was cut short

vars == <<requestTable, policyTable, grantTable, audit, handler, interrupted>>

Statuses == {"PENDING_APPROVAL", "APPROVED", "PROVISIONING", "ACTIVE", "REJECTED", "FAILED"}

Events == {"ONBOARDING_SUBMITTED", "APPLICATION_APPROVED", "APPLICATION_REJECTED",
           "PROVISIONING_FAILED", "APPLICATION_ACTIVATED"}

(* An application is one per request, so a grant names it by its request. *)
Grants == [tenant: Tenants, application: RequestIds]

(* What submit is called with, and what it stores of it: principal_arn is   *)
(* optional in the body, but not for an IAM application.                   *)
Bodies == [tenant: Tenants, auth_type: {"iam", "oauth"}, principal_arn: Arns \cup {None}]
Records == {r \in [tenant: Tenants, auth_type: {"iam", "oauth"}, principal_arn: Arns \cup {None},
                   status: Statuses] : r.auth_type = "iam" => r.principal_arn # None}

(* The calls of a handler, by what comes next. *)
Steps == {"submitted_event",
          "put_approved", "approved_event", "put_provisioning",
          "find_tenant", "create_policy", "put_grant",
          "put_active", "activated_event", "put_failed", "failed_event",
          "put_rejected", "rejected_event"}
ProvisionSteps == {"find_tenant", "create_policy", "put_grant"}

ASSUME OnboardingAssumption ==
    /\ Applications \subseteq Bodies
    /\ FileTenants \subseteq Tenants
    /\ DOMAIN FileGrants \subseteq Arns
    /\ EventualReads \in BOOLEAN
    /\ Crashes \in BOOLEAN
    /\ None \notin RequestIds \cup Arns \cup Bodies \cup Records \cup Grants
    /\ None \notin [id: RequestIds, step: Steps]

Init ==
    /\ requestTable = [id \in RequestIds |-> None]
    /\ policyTable = [t \in Tenants |-> None]
    /\ grantTable = [a \in Arns |-> None]
    /\ audit = {}
    /\ handler = [k \in Tasks |-> None]
    /\ interrupted = {}

-----------------------------------------------------------------------------
(* The layered views: the provisioned table first, the file second. *)

TenantExists(t) == policyTable[t] # None \/ t \in FileTenants

(* LayeredIamTenantResolver.resolve; None is UNKNOWN_IAM_PRINCIPAL. *)
Resolve(a) ==
    IF grantTable[a] # None THEN grantTable[a]
    ELSE IF a \in DOMAIN FileGrants THEN FileGrants[a] ELSE None

-----------------------------------------------------------------------------
(* Handlers. *)

Idle(k) == handler[k] = None
AtStep(k, step) == handler[k] # None /\ handler[k].step = step
Asked(k) == requestTable[handler[k].id]

Begin(k, id, step) == handler' = [handler EXCEPT ![k] = [id |-> id, step |-> step]]
Continue(k, step) == handler' = [handler EXCEPT ![k].step = step]
End(k) == handler' = [handler EXCEPT ![k] = None]

(* onboarding_store.put of the record with another status. *)
PutStatus(k, step, status, next) ==
    /\ AtStep(k, step)
    /\ requestTable' = [requestTable EXCEPT ![handler[k].id].status = status]
    /\ Continue(k, next)
    /\ UNCHANGED <<policyTable, grantTable, audit, interrupted>>

(* audit_store.record: the handler's last call, or its next one is named. *)
RecordEvent(k, step, event) ==
    /\ AtStep(k, step)
    /\ audit' = audit \cup {<<handler[k].id, event>>}
    /\ IF step = "approved_event" THEN Continue(k, "put_provisioning") ELSE End(k)
    /\ UNCHANGED <<requestTable, policyTable, grantTable, interrupted>>

(* Mutant of Submit: the principal is not asked for. *)
SubmitUnchecked(k, id, body) ==
    /\ Idle(k)
    /\ requestTable[id] = None
    /\ requestTable' = [requestTable EXCEPT
                           ![id] = [tenant |-> body.tenant, auth_type |-> body.auth_type,
                                    principal_arn |-> body.principal_arn,
                                    status |-> "PENDING_APPROVAL"]]
    /\ Begin(k, id, "submitted_event")
    /\ UNCHANGED <<policyTable, grantTable, audit, interrupted>>

(* submit: an IAM application must name its principal. *)
Submit(k, id, body) ==
    /\ Idle(k)
    /\ requestTable[id] = None
    /\ body.auth_type = "iam" => body.principal_arn # None
    /\ requestTable' = [requestTable EXCEPT
                           ![id] = [tenant |-> body.tenant, auth_type |-> body.auth_type,
                                    principal_arn |-> body.principal_arn,
                                    status |-> "PENDING_APPROVAL"]]
    /\ Begin(k, id, "submitted_event")
    /\ UNCHANGED <<policyTable, grantTable, audit, interrupted>>

(* approve and reject: onboarding_store.get, then the check of the status   *)
(* it returned - the item as it is, or the pending one it was.             *)
Decide(k, id, step) ==
    /\ Idle(k)
    /\ requestTable[id] # None
    /\ requestTable[id].status = "PENDING_APPROVAL" \/ EventualReads
    /\ Begin(k, id, step)
    /\ UNCHANGED <<requestTable, policyTable, grantTable, audit, interrupted>>

Approve(k, id) == Decide(k, id, "put_approved")
Reject(k, id) == Decide(k, id, "put_rejected")

-----------------------------------------------------------------------------
(* provision(). *)

Moves(k, from, to) ==
    /\ AtStep(k, from)
    /\ Continue(k, to)
    /\ UNCHANGED <<requestTable, policyTable, grantTable, audit, interrupted>>

(* ApplicationAlreadyExistsError: approve catches it and marks the request. *)
RefuseOauth(k) ==
    /\ AtStep(k, "find_tenant")
    /\ Asked(k).auth_type = "oauth"
    /\ Moves(k, "find_tenant", "put_failed")

(* policy_store.get through both layers: the tenant is there. *)
TenantFound(k) ==
    /\ AtStep(k, "find_tenant")
    /\ Asked(k).auth_type = "iam"
    /\ TenantExists(Asked(k).tenant)
    /\ Moves(k, "find_tenant", "put_grant")

(* Mutants of TenantNotFound: the grant comes first; only the provisioned   *)
(* layer is asked.                                                         *)
GrantComesFirst(k) ==
    /\ AtStep(k, "find_tenant")
    /\ Asked(k).auth_type = "iam"
    /\ Asked(k).tenant \notin FileTenants
    /\ policyTable[Asked(k).tenant] = None \/ EventualReads
    /\ Moves(k, "find_tenant", "put_grant")
TenantNotProvisioned(k) ==
    /\ AtStep(k, "find_tenant")
    /\ Asked(k).auth_type = "iam"
    /\ policyTable[Asked(k).tenant] = None \/ EventualReads
    /\ Moves(k, "find_tenant", "create_policy")

(* ... or neither layer has it: a stale read of the provisioned one will do. *)
TenantNotFound(k) ==
    /\ AtStep(k, "find_tenant")
    /\ Asked(k).auth_type = "iam"
    /\ Asked(k).tenant \notin FileTenants
    /\ policyTable[Asked(k).tenant] = None \/ EventualReads
    /\ Moves(k, "find_tenant", "create_policy")

(* Mutant of CreatePolicy: the put has no condition. *)
CreatePolicyAnyway(k) ==
    /\ AtStep(k, "create_policy")
    /\ policyTable' = [policyTable EXCEPT ![Asked(k).tenant] = handler[k].id]
    /\ Continue(k, "put_grant")
    /\ UNCHANGED <<requestTable, grantTable, audit, interrupted>>

(* policy_store_primary.create, on attribute_not_exists(tenant_id).  If the *)
(* answer is lost, the SDK's retry fails the condition it has just falsified. *)
CreatePolicy(k) ==
    /\ AtStep(k, "create_policy")
    /\ policyTable[Asked(k).tenant] = None
    /\ policyTable' = [policyTable EXCEPT ![Asked(k).tenant] = handler[k].id]
    /\ Continue(k, "put_grant") \/ Continue(k, "put_failed")
    /\ UNCHANGED <<requestTable, grantTable, audit, interrupted>>

CreateRefused(k) ==
    /\ AtStep(k, "create_policy")
    /\ policyTable[Asked(k).tenant] # None
    /\ Moves(k, "create_policy", "put_failed")

(* Mutant of PutGrant: the put has no condition. *)
PutGrantAnyway(k) ==
    /\ AtStep(k, "put_grant")
    /\ grantTable' = [grantTable EXCEPT ![Asked(k).principal_arn] =
                         [tenant |-> Asked(k).tenant, application |-> handler[k].id]]
    /\ Continue(k, "put_active")
    /\ UNCHANGED <<requestTable, policyTable, audit, interrupted>>

(* iam_tenant_resolver_primary.put_grant, on attribute_not_exists(principal_arn). *)
PutGrant(k) ==
    /\ AtStep(k, "put_grant")
    /\ grantTable[Asked(k).principal_arn] = None
    /\ grantTable' = [grantTable EXCEPT ![Asked(k).principal_arn] =
                         [tenant |-> Asked(k).tenant, application |-> handler[k].id]]
    /\ Continue(k, "put_active") \/ Continue(k, "put_failed")
    /\ UNCHANGED <<requestTable, policyTable, audit, interrupted>>

(* Mutant of GrantRefused: the request is left as it is. *)
GrantRefusedSilently(k) ==
    /\ AtStep(k, "put_grant")
    /\ grantTable[Asked(k).principal_arn] # None
    /\ End(k)
    /\ UNCHANGED <<requestTable, policyTable, grantTable, audit, interrupted>>

GrantRefused(k) ==
    /\ AtStep(k, "put_grant")
    /\ grantTable[Asked(k).principal_arn] # None
    /\ Moves(k, "put_grant", "put_failed")

(* A boto3 ClientError out of provision(): approve does not catch it. *)
ProvisionRaises(k) ==
    /\ handler[k] # None
    /\ handler[k].step \in ProvisionSteps
    /\ interrupted' = interrupted \cup {handler[k].id}
    /\ End(k)
    /\ UNCHANGED <<requestTable, policyTable, grantTable, audit>>

(* The task dies, or another call of the handler raises. *)
Crash(k) ==
    /\ Crashes
    /\ handler[k] # None
    /\ interrupted' = interrupted \cup {handler[k].id}
    /\ End(k)
    /\ UNCHANGED <<requestTable, policyTable, grantTable, audit>>

-----------------------------------------------------------------------------
Receive(k) ==
    \E id \in RequestIds :
        \/ \E body \in Applications : Submit(k, id, body)
        \/ Approve(k, id)
        \/ Reject(k, id)

Provision(k) ==
    \/ RefuseOauth(k) \/ TenantFound(k) \/ TenantNotFound(k)
    \/ CreatePolicy(k) \/ CreateRefused(k) \/ PutGrant(k) \/ GrantRefused(k)

(* Mutant of FailRequest: no event. *)
FailUnrecorded(k) ==
    /\ AtStep(k, "put_failed")
    /\ requestTable' = [requestTable EXCEPT ![handler[k].id].status = "FAILED"]
    /\ End(k)
    /\ UNCHANGED <<policyTable, grantTable, audit, interrupted>>

(* Mutant of ApproveRequest: the approval is recorded when all is done. *)
ApproveUnrecorded(k) ==
    \/ PutStatus(k, "put_approved", "APPROVED", "put_provisioning")
    \/ PutStatus(k, "put_provisioning", "PROVISIONING", "find_tenant")

(* The other calls of approve and reject, in the order they are made. *)
ApproveRequest(k) ==
    \/ PutStatus(k, "put_approved", "APPROVED", "approved_event")
    \/ RecordEvent(k, "approved_event", "APPLICATION_APPROVED")
    \/ PutStatus(k, "put_provisioning", "PROVISIONING", "find_tenant")
ActivateRequest(k) ==
    \/ PutStatus(k, "put_active", "ACTIVE", "activated_event")
    \/ RecordEvent(k, "activated_event", "APPLICATION_ACTIVATED")
FailRequest(k) ==
    \/ PutStatus(k, "put_failed", "FAILED", "failed_event")
    \/ RecordEvent(k, "failed_event", "PROVISIONING_FAILED")
RejectRequest(k) ==
    \/ PutStatus(k, "put_rejected", "REJECTED", "rejected_event")
    \/ RecordEvent(k, "rejected_event", "APPLICATION_REJECTED")

Handle(k) ==
    \/ RecordEvent(k, "submitted_event", "ONBOARDING_SUBMITTED")
    \/ ApproveRequest(k) \/ Provision(k) \/ ActivateRequest(k) \/ FailRequest(k)
    \/ RejectRequest(k)

Next == \E k \in Tasks : Receive(k) \/ Handle(k) \/ ProvisionRaises(k) \/ Crash(k)

(* A handler is a synchronous body on the task's event loop: once begun, it *)
(* makes its next call, unless the task dies or the call raises.           *)
Fairness == \A k \in Tasks : WF_vars(Handle(k))

Spec == Init /\ [][Next]_vars /\ Fairness

-----------------------------------------------------------------------------
TypeOK ==
    /\ requestTable \in [RequestIds -> Records \cup {None}]
    /\ policyTable \in [Tenants -> RequestIds \cup {None}]
    /\ grantTable \in [Arns -> Grants \cup {None}]
    /\ audit \subseteq RequestIds \X Events
    /\ handler \in [Tasks -> [id: RequestIds, step: Steps] \cup {None}]
    /\ interrupted \subseteq RequestIds

HasStatus(id, statuses) == requestTable[id] # None /\ requestTable[id].status \in statuses
HandledBy(k, id) == handler[k] # None /\ handler[k].id = id

(* An application is reported active - by its record or by the audit        *)
(* trail - only if its principal resolves to the grant it asked for, of a  *)
(* tenant that exists, whatever else was approved, retried or crashed.     *)
ActiveIsProvisioned ==
    \A id \in RequestIds :
        (HasStatus(id, {"ACTIVE"}) \/ <<id, "APPLICATION_ACTIVATED">> \in audit) =>
             /\ Resolve(requestTable[id].principal_arn) =
                   [tenant |-> requestTable[id].tenant, application |-> id]
             /\ TenantExists(requestTable[id].tenant)

(* A grant never precedes its tenant: a principal that resolves is never    *)
(* sent to a tenant without a policy, even if provisioning stops halfway.  *)
GrantsNameTenants == \A a \in Arns : grantTable[a] # None => TenantExists(grantTable[a].tenant)

(* LayeredPolicyStore: a tenant_id lives in one layer at a time. *)
OneLayerPerTenant == \A t \in Tenants : policyTable[t] # None => t \notin FileTenants

(* Provisioning only ever creates rows: what one request has provisioned,   *)
(* no other request, repetition or retry changes.                          *)
OnlyCreates ==
    [][/\ \A t \in Tenants : policyTable[t] # None => policyTable'[t] = policyTable[t]
       /\ \A a \in Arns : grantTable[a] # None => grantTable'[a] = grantTable[a]]_vars

(* Whatever was provisioned, its approval is on the audit trail: the event  *)
(* is recorded before the first row is written.                            *)
ProvisionedIsApproved ==
    /\ \A t \in Tenants : policyTable[t] # None =>
          <<policyTable[t], "APPLICATION_APPROVED">> \in audit
    /\ \A a \in Arns : grantTable[a] # None =>
          <<grantTable[a].application, "APPLICATION_APPROVED">> \in audit

(* Once nobody is working on a request, and nothing was cut short, the       *)
(* audit trail holds the event of the outcome its record shows - also when *)
(* two admins decided it at the same time.                                 *)
OutcomeIsAudited ==
    \A id \in RequestIds :
        (/\ requestTable[id] # None
         /\ id \notin interrupted
         /\ \A k \in Tasks : ~HandledBy(k, id)) =>
            CASE requestTable[id].status = "PENDING_APPROVAL" -> <<id, "ONBOARDING_SUBMITTED">> \in audit
              [] requestTable[id].status = "ACTIVE" -> <<id, "APPLICATION_ACTIVATED">> \in audit
              [] requestTable[id].status = "FAILED" -> <<id, "PROVISIONING_FAILED">> \in audit
              [] requestTable[id].status = "REJECTED" -> <<id, "APPLICATION_REJECTED">> \in audit
              [] OTHER -> FALSE

(* All of it at once: whatever tasks decide, repeat, read late or leave      *)
(* halfway, onboarding does to tenants and principals only what            *)
(* ProvisioningContract says, seen through the two tables and the audit    *)
(* trail.                                                                  *)
Application(id) ==
    IF requestTable[id] = None
    THEN None
    ELSE [tenant |-> requestTable[id].tenant, auth_type |-> requestTable[id].auth_type,
          principal_arn |-> requestTable[id].principal_arn]

Recorded(event) == {id \in RequestIds : <<id, event>> \in audit}

Contract == INSTANCE ProvisioningContract WITH
    applications <- [id \in RequestIds |-> Application(id)],
    approved <- Recorded("APPLICATION_APPROVED"),
    tenants <- policyTable,
    grants <- grantTable,
    active <- Recorded("APPLICATION_ACTIVATED")

KeepsContract == Contract!Spec

(* An approved request does not stay halfway: it gets an outcome, unless a  *)
(* handler of it was cut short.                                            *)
ApprovalSettles ==
    \A id \in RequestIds :
        HasStatus(id, {"APPROVED", "PROVISIONING"})
            ~> (id \in interrupted \/ HasStatus(id, {"ACTIVE", "FAILED", "REJECTED"}))

-----------------------------------------------------------------------------
(* What the docstrings promise. *)

(* provisioning.py, provision: "Raises ApplicationAlreadyExistsError on a   *)
(* real conflict (caller should mark the request FAILED); a boto3          *)
(* ClientError propagates for a transient AWS-side failure, same handling". *)
NoneLeftProvisioning ==
    \A id \in RequestIds :
        HasStatus(id, {"PROVISIONING"}) => \E k \in Tasks : HandledBy(k, id)
=============================================================================
