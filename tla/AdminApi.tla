------------------------------- MODULE AdminApi ------------------------------
(***************************************************************************)
(* The admin API of one backend task as its callers meet it                *)
(* (auth_pipeline.py, api/admin_routes.py, api/onboarding_routes.py): a     *)
(* caller is authenticated -- by the key its token is signed with           *)
(* (JwksVerifier) or by its IAM principal --, its claims or grants become   *)
(* an identity, the route's gate is passed or not (Authorization), a body   *)
(* is checked and converted (PolicyValidation), and a call is made to a     *)
(* store or not.  Policy change requests are kept from one request to the  *)
(* next: what one caller proposes, another decides on.                     *)
(*                                                                         *)
(* A handler is one step here.  What its store calls do, and how handlers  *)
(* of several tasks interleave between them, is PolicyChangeWorkflow's and *)
(* Onboarding's; a store's refusal is an outcome that may always occur.    *)
(***************************************************************************)
EXTENDS JwksVerifier, Authorization, PolicyValidation

CONSTANTS
    ProvisionedTenants, \* the tenants of policy_store_primary
    FileTenants,        \* the tenants of tenants.yaml
    ChangeIds,          \* change_ids (uuids: never used twice)
    Nobody              \* a caller with neither a principal header nor a bearer token

\* The inputs of a run.
CONSTANTS
    ClaimInputs,        \* the claims a token carries
    BodyInputs,         \* the changes a proposal carries
    ServiceGrants       \* what platform-authz-service may answer: grants, or Absent

ASSUME AdminApiAssumption ==
    /\ ProvisionedTenants \cup FileTenants \subseteq Tenants
    /\ ClaimInputs \subseteq Claims
    /\ \A body \in BodyInputs : \A f \in DOMAIN body : body[f] \in JsonValues
    \* A float, and an integer of at most 53 bits, is its own nearest float.
    /\ \A body \in BodyInputs : \A f \in DOMAIN body :
          (body[f].type = "float" \/ body[f].value <= FloatLimit) =>
              NearestFloat(body[f].value) = body[f].value
    /\ ServiceGrants \subseteq Grants \cup {Absent}

(* A PolicyChangeRequest as its table holds it. *)
ChangeRecords == [tenant: ProvisionedTenants,
                  changes: UNION {[D -> ItemValues] : D \in SUBSET Fields},
                  status: {"PENDING_APPROVAL", "APPLIED", "REJECTED"}]

ASSUME NoChangeAssumption == Nothing \notin ChangeRecords \cup BodyInputs

VARIABLES
    resolver,       \* iam_tenant_resolver, chosen at start-up: "layered" or "http"
    changeTable,    \* change_id -> its record, or Nothing
    answer          \* the last request: its caller, status, the tenants it is about,
                    \* and the call of apply_change it made

\* History variable.
VARIABLE
    asked           \* change_id -> the body it was proposed with

apiVars == <<resolver, changeTable, answer, asked>>
adminVars == <<jwksVars, apiVars>>

(* How a caller presents itself, once its signature has been verified. *)
Token(claims) == [auth_type |-> "jwt", source |-> claims, grant |-> Absent]
Iam(p, grant) == [auth_type |-> "aws_iam", source |-> p, grant |-> grant]
Unknown == [auth_type |-> "none", source |-> Nobody, grant |-> Absent]

NoCall == [change |-> Nothing, tenant |-> Absent, changes |-> <<>>]

AdminInit ==
    /\ JwksInit
    /\ resolver \in {"layered", "http"}
    /\ changeTable = [c \in ChangeIds |-> Nothing]
    /\ asked = [c \in ChangeIds |-> Nothing]
    /\ answer = [caller |-> Unknown, status |-> 0, tenants |-> {}, call |-> NoCall]

-----------------------------------------------------------------------------
(* The answers. *)

Reply(caller, status, tenants, call) ==
    answer' = [caller |-> caller, status |-> status, tenants |-> tenants, call |-> call]

(* An answer that leaves the change requests as they are. *)
Answers(caller, status, tenants) ==
    /\ Reply(caller, status, tenants, NoCall)
    /\ UNCHANGED <<changeTable, asked>>

Refuses(caller, status) == Answers(caller, status, {})

-----------------------------------------------------------------------------
(* The routes, for a caller whose identity has the grant id. *)

(* PipelineError 403 of any of the gates. *)
Forbid(caller, id) ==
    /\ \/ ~MayAdminister(id)
       \/ ~HasRole(id, DeveloperRole)
       \/ \E t \in Tenants : ~MayManage(id, t)
    /\ Refuses(caller, 403)

(* get_usage, get_usage_anomalies, list_tenants. *)
ListTenants(caller, id) ==
    /\ MayList(id)
    /\ Answers(caller, 200, ScopedTenantIds(ProvisionedTenants \cup FileTenants, id))

(* list_route_sets, list_applications, and the onboarding routes that list  *)
(* requests or decide on one: they are about every tenant.                 *)
Administer(caller, id) ==
    /\ MayAdminister(id)
    /\ Answers(caller, 200, Tenants)

(* submit: any developer may ask for any tenant's application. *)
SubmitOnboarding(caller, id) ==
    /\ HasRole(id, DeveloperRole)
    /\ \E status \in {201, 400} : Answers(caller, status, {})

(* set_tenant_state: a state that is none is a 400, an unknown tenant a 404. *)
SetTenantState(caller, id, t) ==
    /\ MayManage(id, t)
    /\ \/ Refuses(caller, 400)
       \/ t \notin ProvisionedTenants \cup FileTenants /\ Refuses(caller, 404)
       \/ t \in ProvisionedTenants \cup FileTenants /\ Answers(caller, 200, {t})

(* Reading the change from its table does not raise. *)
CanBeGot(c) == changeTable[c] # Nothing => CanBeRead(changeTable[c].changes)

(* list_policy_changes: one change of the tenant that cannot be read hides  *)
(* them all.                                                               *)
ListPolicyChanges(caller, id, t) ==
    LET ofTenant == {c \in ChangeIds : changeTable[c] # Nothing /\ changeTable[c].tenant = t}
    IN  /\ MayManage(id, t)
        /\ \/ (\A c \in ofTenant : CanBeGot(c)) /\ Answers(caller, 200, {t})
           \/ (\E c \in ofTenant : ~CanBeGot(c)) /\ Refuses(caller, 500)

GetPolicyHistory(caller, id, t) ==
    /\ MayManage(id, t)
    /\ \/ Answers(caller, 200, {t})
       \/ t \notin ProvisionedTenants /\ Refuses(caller, 404)

(* rollback_policy. *)
RollbackPolicy(caller, id, t) ==
    /\ MayAdminister(id)
    /\ \/ Refuses(caller, 404)
       \/ t \in ProvisionedTenants /\ Answers(caller, 200, {t})

Propose(caller, id, t, c, body) ==
    /\ MayManage(id, t)
    /\ changeTable[c] = Nothing
    /\ \/ ~ValidatePolicyChanges(body) /\ Refuses(caller, 400)
       \/ ValidatePolicyChanges(body) /\ t \notin ProvisionedTenants /\ Refuses(caller, 404)
       \/ /\ ValidatePolicyChanges(body) /\ t \in ProvisionedTenants
          /\ ~Storable(body)
          /\ Refuses(caller, 500)
       \/ /\ ValidatePolicyChanges(body) /\ t \in ProvisionedTenants
          /\ Storable(body)
          /\ changeTable' = [changeTable EXCEPT ![c] =
                [tenant |-> t, changes |-> Decimalize(body), status |-> "PENDING_APPROVAL"]]
          /\ asked' = [asked EXCEPT ![c] = body]
          /\ Reply(caller, 201, {t}, NoCall)

(* Mutant of FoundIn: the tenant of the path is not compared. *)
FoundAnywhere(c, t) == changeTable[c] # Nothing

(* What policy_change_store.get returned, and the tenant of the path. *)
FoundIn(c, t) == changeTable[c] # Nothing /\ changeTable[c].tenant = t

(* What approve and reject answer of a change they may not decide on. *)
NotDecidable(caller, t, c) ==
    \/ ~FoundIn(c, t) /\ Refuses(caller, 404)
    \/ FoundIn(c, t) /\ changeTable[c].status # "PENDING_APPROVAL" /\ Refuses(caller, 409)

Decided(c, status) ==
    /\ changeTable' = [changeTable EXCEPT ![c].status = status]
    /\ UNCHANGED asked

(* get raises before anything is compared: nobody can decide on the change. *)
CannotGet(caller, c) == ~CanBeGot(c) /\ Refuses(caller, 500)

(* apply_change conflicts (409) or raises (500), or writes. *)
Approve(caller, id, t, c) ==
    /\ MayAdminister(id)
    /\ \/ CannotGet(caller, c)
       \/ CanBeGot(c) /\ NotDecidable(caller, t, c)
       \/ /\ CanBeGot(c) /\ FoundIn(c, t) /\ changeTable[c].status = "PENDING_APPROVAL"
          /\ \/ Refuses(caller, 409)
             \/ ~CanBeApplied(Undecimalize(changeTable[c].changes)) /\ Refuses(caller, 500)
             \/ /\ CanBeApplied(Undecimalize(changeTable[c].changes))
                /\ Decided(c, "APPLIED")
                /\ Reply(caller, 200, {t},
                         [change |-> c, tenant |-> t,
                          changes |-> Undecimalize(changeTable[c].changes)])

Reject(caller, id, t, c) ==
    /\ MayAdminister(id)
    /\ \/ CannotGet(caller, c)
       \/ CanBeGot(c) /\ NotDecidable(caller, t, c)
       \/ /\ CanBeGot(c) /\ FoundIn(c, t) /\ changeTable[c].status = "PENDING_APPROVAL"
          /\ Decided(c, "REJECTED")
          /\ Reply(caller, 200, {t}, NoCall)

Route(caller, id) ==
    \/ Forbid(caller, id)
    \/ ListTenants(caller, id)
    \/ Administer(caller, id)
    \/ SubmitOnboarding(caller, id)
    \/ \E t \in Tenants :
          \/ SetTenantState(caller, id, t)
          \/ ListPolicyChanges(caller, id, t)
          \/ GetPolicyHistory(caller, id, t)
          \/ RollbackPolicy(caller, id, t)
          \/ \E c \in ChangeIds :
                \/ \E body \in BodyInputs : Propose(caller, id, t, c, body)
                \/ Approve(caller, id, t, c)
                \/ Reject(caller, id, t, c)

-----------------------------------------------------------------------------
(* authenticate: the principal header goes first, then the bearer token.   *)
(* verify and the handler are synchronous: the task takes no other request. *)

Waiting == fetch = Nothing /\ verdict = Nothing

(* What iam_tenant_resolver.resolve may return; the service may be          *)
(* unavailable, or know no such principal: Absent.                         *)
Resolutions(p) == IF resolver = "http" THEN ServiceGrants ELSE {LayeredGrant(p)}

(* authenticate_iam.  Absent: AuthError, a 403.  The table or the service    *)
(* fails in another way than the resolver expects: a 500.                  *)
HandleIam(p) ==
    /\ Waiting
    /\ \E grant \in Resolutions(p) :
          \/ grant = Absent /\ Refuses(Iam(p, grant), 403)
          \/ grant # Absent /\ Route(Iam(p, grant), grant)
          \/ Refuses(Iam(p, Absent), 500)
    /\ UNCHANGED <<jwksVars, resolver>>

HandleNobody ==
    /\ Waiting
    /\ Refuses(Unknown, 401)
    /\ UNCHANGED <<jwksVars, resolver>>

(* The token's verification has ended: "raised" is a 500, any other AuthError *)
(* a 401, its claims' included.                                             *)
HandleToken(claims) ==
    /\ TakeVerdict
    /\ \/ verdict.outcome = "raised" /\ Refuses(Unknown, 500)
       \/ verdict.outcome \in {"refused", "unknown", "unavailable"} /\ Refuses(Unknown, 401)
       \/ /\ verdict.outcome = "accepted"
          /\ \/ ~MakesIdentity(claims) /\ Refuses(Token(claims), 401)
             \/ MakesIdentity(claims) /\ Route(Token(claims), GrantOfClaims(claims))
    /\ UNCHANGED resolver

AdminNext ==
    \/ VerifierStep /\ UNCHANGED apiVars
    \/ \E p \in Principals : HandleIam(p)
    \/ HandleNobody
    \/ \E claims \in ClaimInputs : HandleToken(claims)

AdminSpec == AdminInit /\ [][AdminNext]_adminVars

-----------------------------------------------------------------------------
AdminTypeOK ==
    /\ JwksTypeOK
    /\ resolver \in {"layered", "http"}
    /\ DOMAIN changeTable = ChangeIds
    /\ \A c \in ChangeIds : changeTable[c] # Nothing =>
          /\ changeTable[c].tenant \in ProvisionedTenants
          /\ DOMAIN changeTable[c].changes \subseteq Fields
          /\ \A f \in DOMAIN changeTable[c].changes : changeTable[c].changes[f] \in ItemValues
          /\ changeTable[c].status \in {"PENDING_APPROVAL", "APPLIED", "REJECTED"}
    /\ asked \in [ChangeIds -> {Nothing} \cup BodyInputs]
    /\ answer.tenants \subseteq Tenants

(* The grants that vouch for a caller, from each source on its own: what    *)
(* its token says, what each of its groups gives, what the table of         *)
(* provisioned principals, each line of the file, or the service says.     *)
NamesTenant(claims) == claims.tenant_id # Absent \/ claims.custom_tenant_id # Absent

RolesNamed(claims) == UNION ({claims.roles, claims.cognito_groups} \ {Absent, Malformed})

GrantsOfGroups(claims) ==
    IF NamesTenant(claims) THEN {}
    ELSE {GroupGrants[g] : g \in claims.groups \cap DOMAIN GroupGrants}

GrantsOfPrincipal(p) ==
    {ProvisionedGrants[q] : q \in {p} \cap DOMAIN ProvisionedGrants}
    \cup {ExactGrants[q] : q \in {p} \cap DOMAIN ExactGrants}
    \cup {PrefixGrants[i].grant : i \in {j \in DOMAIN PrefixGrants : p \in PrefixGrants[j].principals}}

GrantsOfIam(caller) ==
    IF resolver = "http" THEN ServiceGrants \cap {caller.grant} ELSE GrantsOfPrincipal(caller.source)

IsAdministrator(caller) ==
    \/ /\ caller.auth_type = "jwt"
       /\ \/ NamesTenant(caller.source) /\ AdminRole \in RolesNamed(caller.source)
          \/ \E m \in GrantsOfGroups(caller.source) : AdminRole \in m.roles
    \/ /\ caller.auth_type = "aws_iam"
       /\ \E m \in GrantsOfIam(caller) : AdminRole \in m.roles

Manages(caller, t) ==
    \/ /\ caller.auth_type = "jwt"
       /\ \/ /\ NamesTenant(caller.source) /\ ManagerRole \in RolesNamed(caller.source)
             /\ t \in {caller.source.tenant_id, caller.source.custom_tenant_id}
          \/ /\ \E m \in GrantsOfGroups(caller.source) : ManagerRole \in m.roles
             /\ \A m \in GrantsOfGroups(caller.source) : m.tenant_id = t
    \/ /\ caller.auth_type = "aws_iam"
       /\ \E m \in GrantsOfIam(caller) : ManagerRole \in m.roles /\ m.tenant_id = t

Entitles(caller, t) == IsAdministrator(caller) \/ Manages(caller, t)

(* Tenant isolation: a request that succeeds is only about tenants its      *)
(* caller is entitled to: an administrator's, or a manager's own.  No mix of *)
(* claim shapes, and no combination of groups, names a tenant that a source  *)
(* on its own would not give ("silently picking one would be a tenant       *)
(* isolation bug", enterprise_groups.py).                                  *)
TenantIsolation ==
    [][answer' # answer => \A t \in answer'.tenants : Entitles(answer'.caller, t)]_adminVars

Pending(c) == changeTable[c] # Nothing /\ changeTable[c].status = "PENDING_APPROVAL"

(* A change that is pending, and that an administrator's approval can read,  *)
(* can be applied: nothing else that validate_policy_changes accepts and    *)
(* put stores makes apply_change raise.                                    *)
PendingChangesApply ==
    \A c \in ChangeIds :
        (Pending(c) /\ CanBeGot(c)) => CanBeApplied(Undecimalize(changeTable[c].changes))

(* What reads back of a field is what was proposed; only an integer too     *)
(* long for a float reads back of an amount as the float nearest to it.     *)
ReadsBack(f, read, value) ==
    /\ \/ read.value = value.value
       \/ /\ KindOf[f] \in {"amount", "fraction"}
          /\ value.type = "int" /\ value.value > FloatLimit
          /\ read.value = NearestFloat(value.value)
    /\ read.type = value.type \/ {read.type, value.type} \subseteq Numbers

(* An answer's call of apply_change writes what was proposed. *)
WritesAsProposed ==
    LET call == answer'.call
        record == changeTable[call.change]
        body == asked[call.change]
        read == AppliedValues(call.changes)
    IN  /\ record # Nothing /\ record.status = "PENDING_APPROVAL"
        /\ record.tenant = call.tenant
        /\ DOMAIN read = DOMAIN body
        /\ \A f \in DOMAIN body : ReadsBack(f, read[f], body[f])
        /\ IsAdministrator(answer'.caller)

(* What reaches a policy is what was proposed for it: an edit is written to *)
(* the tenant under whose path it was proposed, on an approval by an        *)
(* administrator, while it is pending, and reading the policy back returns *)
(* the values of the proposal, number for number as far as floats reach.   *)
EditsApplyAsProposed ==
    [][(answer' # answer /\ answer'.call # NoCall) => WritesAsProposed]_adminVars
=============================================================================
