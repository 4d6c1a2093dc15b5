---------------------------- MODULE Authorization ----------------------------
(***************************************************************************)
(* Who a caller is and what it may do: auth/identity.py on the claims of a  *)
(* verified token, auth/enterprise_groups.py on its groups,                *)
(* auth/aws_iam.py on an IAM principal, auth/rbac.py and authz/decision.py. *)
(* All of it is pure: the mapping files are read once, at start-up.        *)
(***************************************************************************)
EXTENDS Naturals, Sequences

CONSTANTS
    Tenants,            \* tenant_ids
    Applications,       \* application_ids
    Roles,              \* role names
    AdminRole,          \* settings.admin_required_role
    ManagerRole,        \* settings.manager_required_role
    DeveloperRole,      \* settings.chat_required_role
    Subjects,           \* the sub of a token
    Groups,             \* the group names an identity provider may send
    Principals,         \* IAM principal ARNs
    Absent,             \* a claim that is missing or empty; a principal nobody maps
    Malformed           \* a roles claim that is not a list of strings

CONSTANTS
    GroupGrants,        \* enterprise_groups.yaml: group -> grant
    ProvisionedGrants,  \* the principal mapping table: principal -> grant
    ExactGrants,        \* iam_tenants.yaml, the ARNs: principal -> grant
    PrefixGrants        \* iam_tenants.yaml, the "*" patterns in file order: the
                        \* principals each one matches, and its grant

Grants == [tenant_id: Tenants, application_id: Applications, roles: SUBSET Roles]
RolesClaims == {Absent, Malformed} \cup SUBSET Roles

(* custom_*: Cognito's "custom:" claims.  groups: {} also when it is not a list. *)
Claims == [sub: Subjects \cup {Absent},
           tenant_id: Tenants \cup {Absent}, custom_tenant_id: Tenants \cup {Absent},
           application_id: Applications \cup {Absent},
           custom_application_id: Applications \cup {Absent},
           roles: RolesClaims, cognito_groups: RolesClaims,
           groups: SUBSET Groups]

ASSUME AuthorizationAssumption ==
    /\ {AdminRole, ManagerRole, DeveloperRole} \subseteq Roles
    /\ Absent \notin Tenants \cup Applications \cup Subjects \cup Grants
    /\ Absent # Malformed /\ \A roles \in SUBSET Roles : roles \notin {Absent, Malformed}
    /\ DOMAIN GroupGrants \subseteq Groups
    /\ \A g \in DOMAIN GroupGrants : GroupGrants[g] \in Grants
    /\ \A p \in DOMAIN ProvisionedGrants : ProvisionedGrants[p] \in Grants
    /\ \A p \in DOMAIN ExactGrants : ExactGrants[p] \in Grants
    /\ PrefixGrants \in Seq([principals: SUBSET Principals, grant: Grants])

-----------------------------------------------------------------------------
(* enterprise_groups.py: _resolve_from_mapping. *)

Matched(groups) == {GroupGrants[g] : g \in groups \cap DOMAIN GroupGrants}

(* Mutant of GroupsAgree: whichever group comes first is taken. *)
GroupsMatch(groups) == Matched(groups) # {}

(* One group at least is mapped, and all that are name one tenant and one   *)
(* application; AuthError otherwise.                                       *)
GroupsAgree(groups) ==
    /\ Matched(groups) # {}
    /\ \A m, n \in Matched(groups) :
          m.tenant_id = n.tenant_id /\ m.application_id = n.application_id

(* tenant_ids.pop() of the one that is left, and the union of the roles. *)
GroupsGrant(groups) ==
    LET any == CHOOSE m \in Matched(groups) : TRUE
    IN  [tenant_id |-> any.tenant_id, application_id |-> any.application_id,
         roles |-> UNION {m.roles : m \in Matched(groups)}]

-----------------------------------------------------------------------------
(* identity.py: identity_from_claims. *)

First(claim, custom) == IF claim # Absent THEN claim ELSE custom

(* The groups are looked at only when the token names no tenant; what they  *)
(* resolve to then replaces the application and the roles it does name.    *)
ByGroups(claims) ==
    First(claims.tenant_id, claims.custom_tenant_id) = Absent /\ claims.groups # {}

ClaimedRoles(claims) ==
    IF claims.roles # Absent THEN claims.roles
    ELSE IF claims.cognito_groups # Absent THEN claims.cognito_groups ELSE {}

GrantOfClaims(claims) ==
    IF ByGroups(claims) THEN GroupsGrant(claims.groups)
    ELSE [tenant_id |-> First(claims.tenant_id, claims.custom_tenant_id),
          application_id |-> First(claims.application_id, claims.custom_application_id),
          roles |-> ClaimedRoles(claims)]

(* No AuthError: every required claim is there, and the roles are strings. *)
MakesIdentity(claims) ==
    /\ ByGroups(claims) => GroupsAgree(claims.groups)
    /\ claims.sub # Absent
    /\ GrantOfClaims(claims).tenant_id # Absent
    /\ GrantOfClaims(claims).application_id # Absent
    /\ GrantOfClaims(claims).roles # Malformed

-----------------------------------------------------------------------------
(* aws_iam.py: resolve of the file resolver and of the layered one, the    *)
(* provisioned table before the file.  Absent: AuthError UNKNOWN_IAM_PRINCIPAL. *)

FirstMatch(p, i) ==
    /\ p \in PrefixGrants[i].principals
    /\ \A j \in 1 .. i - 1 : p \notin PrefixGrants[j].principals

FileGrant(p) ==
    IF p \in DOMAIN ExactGrants THEN ExactGrants[p]
    ELSE IF \E i \in DOMAIN PrefixGrants : FirstMatch(p, i)
         THEN PrefixGrants[CHOOSE i \in DOMAIN PrefixGrants : FirstMatch(p, i)].grant
         ELSE Absent

LayeredGrant(p) ==
    IF p \in DOMAIN ProvisionedGrants THEN ProvisionedGrants[p] ELSE FileGrant(p)

-----------------------------------------------------------------------------
(* rbac.py behind decide(): the gates of the routes, on an identity's grant. *)

(* authorize: require_role. *)
HasRole(id, role) == role \in id.roles

(* authorize_any: require_any_role. *)
HasAnyRole(id, roles) == roles \cap id.roles # {}

(* authorize_tenant_match: require_tenant_match_or_role. *)
OwnsTenant(id, tenant) == id.tenant_id = tenant \/ HasRole(id, AdminRole)

(* _authenticate_admin_or_manager, and the tenant match of the tenant's own *)
(* endpoints.                                                              *)
MayList(id) == HasAnyRole(id, {AdminRole, ManagerRole})
MayManage(id, tenant) == MayList(id) /\ OwnsTenant(id, tenant)
MayAdminister(id) == HasRole(id, AdminRole)

(* _scoped_tenant_ids. *)
ScopedTenantIds(tenants, id) ==
    IF HasRole(id, AdminRole) THEN tenants ELSE tenants \cap {id.tenant_id}
=============================================================================
