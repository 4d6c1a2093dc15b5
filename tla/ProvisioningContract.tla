------------------------ MODULE ProvisioningContract ------------------------
(***************************************************************************)
(* What onboarding may do to tenants and principals, whoever decides and   *)
(* however often: "it only ever *creates* new rows, never updates an       *)
(* existing tenant's policy or an existing principal's grant"              *)
(* (onboarding/provisioning.py), and creates none before the approval.     *)
(*                                                                         *)
(* There are no tasks, statuses, reads or crashes: Onboarding has them,    *)
(* and is compared with this.                                              *)
(***************************************************************************)

CONSTANTS
    RequestIds,     \* onboarding request ids
    Tenants,        \* tenant_ids
    Arns,           \* principal ARNs
    Applications,   \* what is asked for
    FileTenants,    \* the tenants that are there without onboarding
    None            \* nothing yet

VARIABLES
    applications,   \* request -> the application it asked for
    approved,       \* the requests with an approval on the audit trail
    tenants,        \* tenant -> the request that created it
    grants,         \* principal -> its tenant and application
    active          \* the requests with an activation on the audit trail

vars == <<applications, approved, tenants, grants, active>>

Init ==
    /\ applications = [id \in RequestIds |-> None]
    /\ approved = {}
    /\ tenants = [t \in Tenants |-> None]
    /\ grants = [a \in Arns |-> None]
    /\ active = {}

(* What a request asks for never changes. *)
Submit(id, application) ==
    /\ applications[id] = None
    /\ application.auth_type = "iam" => application.principal_arn # None
    /\ applications' = [applications EXCEPT ![id] = application]
    /\ UNCHANGED <<approved, tenants, grants, active>>

Approve(id) ==
    /\ applications[id] # None
    /\ approved' = approved \cup {id}
    /\ UNCHANGED <<applications, tenants, grants, active>>

MayProvision(id) == id \in approved /\ applications[id].auth_type = "iam"

CreateTenant(id) ==
    LET t == applications[id].tenant
    IN  /\ MayProvision(id)
        /\ tenants[t] = None /\ t \notin FileTenants
        /\ tenants' = [tenants EXCEPT ![t] = id]
        /\ UNCHANGED <<applications, approved, grants, active>>

GrantOf(id) == [tenant |-> applications[id].tenant, application |-> id]

(* A principal is mapped to a tenant that is there. *)
Grant(id) ==
    LET t == applications[id].tenant
        a == applications[id].principal_arn
    IN  /\ MayProvision(id)
        /\ tenants[t] # None \/ t \in FileTenants
        /\ grants[a] = None
        /\ grants' = [grants EXCEPT ![a] = GrantOf(id)]
        /\ UNCHANGED <<applications, approved, tenants, active>>

(* What is activated works. *)
Activate(id) ==
    /\ MayProvision(id)
    /\ grants[applications[id].principal_arn] = GrantOf(id)
    /\ active' = active \cup {id}
    /\ UNCHANGED <<applications, approved, tenants, grants>>

Next ==
    \E id \in RequestIds :
        \/ \E application \in Applications : Submit(id, application)
        \/ Approve(id) \/ CreateTenant(id) \/ Grant(id) \/ Activate(id)

Spec == Init /\ [][Next]_vars
=============================================================================
