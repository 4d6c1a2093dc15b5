--------------------------- MODULE AdminApi_proofs ----------------------------
(***************************************************************************)
(* Proofs about the admin API as its callers meet it: retired signing keys *)
(* expire and new ones are found, a request only touches the tenants its   *)
(* caller is entitled to, and a change that is pending applies as proposed. *)
(***************************************************************************)
EXTENDS AdminApi, TLAPS

-----------------------------------------------------------------------------
(* The signing keys. *)

(* What is published now was published last now, and nothing later. *)
PublicationsAreDated ==
    \A i \in Kids : lastPublished[i] <= clock /\ (i \in published => lastPublished[i] = clock)

(* The cached keys were published at most FetchTime before they were cached. *)
KeysWereCurrent ==
    /\ fetchedAt <= clock
    /\ \A i \in keys : fetchedAt <= lastPublished[i] + FetchTime

(* A fetch under way returns what was published when it was sent, at most   *)
(* FetchTime ago; the kid it is for is in it, and published still, unless it *)
(* was absent at some time since.                                          *)
FetchIsRecent ==
    fetch # Nothing =>
        /\ fetch.sentAt <= clock /\ clock <= fetch.sentAt + FetchTime
        /\ \A i \in fetch.answer : fetch.sentAt <= lastPublished[i]
        /\ ~fetch.absent => fetch.kid \in published \cap fetch.answer
        /\ verdict = Nothing

JwksInv ==
    /\ JwksTypeOK
    /\ PublicationsAreDated
    /\ KeysWereCurrent
    /\ FetchIsRecent
    /\ RetiredKeysExpire
    /\ UnknownKeysAreUnpublished

LEMMA JwksInvInit == JwksInit => JwksInv
BY NothingAssumption, JwksAssumption
   DEF JwksInit, JwksInv, JwksTypeOK, PublicationsAreDated, KeysWereCurrent, FetchIsRecent,
       RetiredKeysExpire, UnknownKeysAreUnpublished

(* A verdict is reached, and the invariant kept, when the kid is one the     *)
(* verdict may name.                                                       *)
LEMMA EndsKeepsInv ==
    ASSUME JwksInv,
           NEW kid \in Kids, NEW outcome \in Outcomes, NEW absent \in BOOLEAN,
           Ends(kid, outcome, absent),
           outcome = "accepted" => clock < lastPublished[kid] + CacheTtl + FetchTime,
           outcome = "unknown" => absent,
           UNCHANGED <<published, clock, lastPublished>>,
           JwksTypeOK', KeysWereCurrent'
    PROVE  JwksInv'
<1>1. verdict' = [kid |-> kid, outcome |-> outcome, absent |-> absent] /\ fetch' = Nothing
  BY DEF Ends
<1>2. PublicationsAreDated'
  BY DEF JwksInv, PublicationsAreDated
<1>3. FetchIsRecent'
  BY <1>1 DEF FetchIsRecent
<1>4. RetiredKeysExpire' /\ UnknownKeysAreUnpublished'
  BY <1>1 DEF RetiredKeysExpire, UnknownKeysAreUnpublished
<1>. QED  BY <1>2, <1>3, <1>4 DEF JwksInv

(* A fetch is sent, with no verdict yet. *)
LEMMA SendKeepsInv ==
    ASSUME JwksInv,
           NEW kid \in Kids, NEW last \in BOOLEAN, NEW absent \in BOOLEAN,
           Send(kid, last, absent),
           ~absent => kid \in published,
           verdict' = Nothing,
           UNCHANGED <<published, clock, lastPublished>>,
           JwksTypeOK', KeysWereCurrent'
    PROVE  JwksInv'
<1>1. fetch' = [kid |-> kid, answer |-> published, sentAt |-> clock, last |-> last, absent |-> absent]
  BY DEF Send
<1>2. PublicationsAreDated'
  BY DEF JwksInv, PublicationsAreDated
<1>3. FetchIsRecent'
  BY <1>1, JwksAssumption DEF FetchIsRecent, JwksInv, JwksTypeOK, PublicationsAreDated
<1>4. RetiredKeysExpire' /\ UnknownKeysAreUnpublished'
  BY DEF RetiredKeysExpire, UnknownKeysAreUnpublished
<1>. QED  BY <1>2, <1>3, <1>4 DEF JwksInv

LEMMA RotateKeepsInv ==
    ASSUME JwksInv, NEW new \in SUBSET Kids, Rotate(new)
    PROVE  JwksInv'
<1>. USE DEF JwksInv, JwksTypeOK
<1>1. /\ lastPublished' \in [Kids -> Nat]
      /\ \A i \in Kids : lastPublished[i] <= lastPublished'[i]
  BY DEF Rotate, PublicationsAreDated
<1>2. fetch' \in Fetches \cup {Nothing}
  BY DEF Rotate, Fetches
<1>3. PublicationsAreDated'
  BY DEF Rotate, PublicationsAreDated
<1>4. KeysWereCurrent'
  BY <1>1, JwksAssumption DEF Rotate, KeysWereCurrent
<1>5. FetchIsRecent'
  <2>. SUFFICES ASSUME fetch' # Nothing
                PROVE  /\ fetch'.sentAt <= clock' /\ clock' <= fetch'.sentAt + FetchTime
                       /\ \A i \in fetch'.answer : fetch'.sentAt <= lastPublished'[i]
                       /\ ~fetch'.absent => fetch'.kid \in published' \cap fetch'.answer
                       /\ verdict' = Nothing
    BY DEF FetchIsRecent
  <2>1. /\ fetch # Nothing
        /\ fetch \in Fetches
        /\ fetch'.sentAt = fetch.sentAt /\ fetch'.answer = fetch.answer /\ fetch'.kid = fetch.kid
        /\ ~fetch'.absent => ~fetch.absent /\ fetch.kid \in new
    BY DEF Rotate, Fetches
  <2>2. \A i \in fetch.answer : i \in Kids /\ fetch.sentAt <= lastPublished'[i]
    BY <1>1, <2>1 DEF FetchIsRecent, Fetches
  <2>. QED  BY <2>1, <2>2 DEF Rotate, FetchIsRecent
<1>6. RetiredKeysExpire' /\ UnknownKeysAreUnpublished'
  BY DEF Rotate, RetiredKeysExpire, UnknownKeysAreUnpublished
<1>. QED  BY <1>1, <1>2, <1>3, <1>4, <1>5, <1>6 DEF Rotate

LEMMA JwksTickKeepsInv ==
    ASSUME JwksInv, JwksTick
    PROVE  JwksInv'
<1>. USE DEF JwksInv, JwksTypeOK
<1>1. /\ clock' \in Nat
      /\ lastPublished' \in [Kids -> Nat]
      /\ \A i \in Kids : lastPublished[i] <= lastPublished'[i]
  BY DEF JwksTick, PublicationsAreDated
<1>2. PublicationsAreDated'
  BY DEF JwksTick, PublicationsAreDated
<1>3. KeysWereCurrent'
  BY <1>1, JwksAssumption DEF JwksTick, KeysWereCurrent
<1>4. FetchIsRecent'
  <2>. SUFFICES ASSUME fetch # Nothing
                PROVE  /\ fetch.sentAt <= clock' /\ clock' <= fetch.sentAt + FetchTime
                       /\ \A i \in fetch.answer : fetch.sentAt <= lastPublished'[i]
                       /\ ~fetch.absent => fetch.kid \in published \cap fetch.answer
                       /\ verdict' = Nothing
    BY DEF FetchIsRecent, JwksTick
  <2>1. fetch \in Fetches
    OBVIOUS
  <2>. QED  BY <1>1, <2>1, JwksAssumption DEF JwksTick, FetchIsRecent, Fetches
<1>5. RetiredKeysExpire' /\ UnknownKeysAreUnpublished'
  BY DEF JwksTick, RetiredKeysExpire, UnknownKeysAreUnpublished
<1>. QED  BY <1>1, <1>2, <1>3, <1>4, <1>5 DEF JwksTick

LEMMA VerifyKeepsInv ==
    ASSUME JwksInv, NEW kid \in Kids, Verify(kid)
    PROVE  JwksInv'
<1>0. UNCHANGED <<published, clock, keys, fetchedAt, lastPublished>> /\ verdict = Nothing
  BY DEF Verify
<1>1. KeysWereCurrent'
  BY <1>0 DEF JwksInv, KeysWereCurrent
<1>2. CASE ~Stale /\ kid \in keys
  <2>1. PICK outcome \in {"accepted", "refused"} : Ends(kid, outcome, kid \notin published)
    BY <1>2 DEF Verify, Decode
  <2>2. clock < lastPublished[kid] + CacheTtl + FetchTime
    BY <1>2, JwksAssumption DEF JwksInv, JwksTypeOK, KeysWereCurrent, Stale
  <2>3. JwksTypeOK'
    BY <1>0, <2>1 DEF JwksInv, JwksTypeOK, Ends, Verdicts, Outcomes
  <2>. QED  BY <1>0, <1>1, <2>1, <2>2, <2>3, EndsKeepsInv DEF Outcomes
<1>3. CASE ~(~Stale /\ kid \in keys)
  <2>1. Send(kid, ~Stale, kid \notin published) /\ verdict' = Nothing
    BY <1>0, <1>3 DEF Verify
  <2>2. JwksTypeOK'
    BY <1>0, <2>1 DEF JwksInv, JwksTypeOK, Send, Fetches
  <2>. QED  BY <1>0, <1>1, <2>1, <2>2, SendKeepsInv
<1>. QED  BY <1>2, <1>3

LEMMA FetchReturnsKeepsInv ==
    ASSUME JwksInv, FetchReturns
    PROVE  JwksInv'
<1>0. /\ fetch \in Fetches
      /\ fetch.sentAt <= clock /\ clock <= fetch.sentAt + FetchTime
      /\ \A i \in fetch.answer : i \in Kids /\ fetch.sentAt <= lastPublished[i]
      /\ ~fetch.absent => fetch.kid \in published \cap fetch.answer
      /\ verdict = Nothing
  BY DEF FetchReturns, JwksInv, JwksTypeOK, FetchIsRecent, Fetches
<1>1. /\ UNCHANGED <<published, clock, lastPublished>>
      /\ keys' = fetch.answer /\ fetchedAt' = clock
  BY DEF FetchReturns
<1>2. KeysWereCurrent'
  BY <1>0, <1>1, JwksAssumption DEF KeysWereCurrent, JwksInv, JwksTypeOK, Fetches
<1>3. CASE fetch.kid \in fetch.answer
  <2>1. PICK outcome \in {"accepted", "refused"} : Ends(fetch.kid, outcome, fetch.absent)
    BY <1>1, <1>3 DEF FetchReturns, Decode
  <2>2. clock < lastPublished[fetch.kid] + CacheTtl + FetchTime
    BY <1>0, <1>3, JwksAssumption DEF JwksInv, JwksTypeOK, Fetches
  <2>3. JwksTypeOK'
    BY <1>0, <1>1, <2>1 DEF JwksInv, JwksTypeOK, Ends, Verdicts, Outcomes, Fetches
  <2>4. fetch.kid \in Kids /\ fetch.absent \in BOOLEAN /\ outcome \in Outcomes /\ outcome # "unknown"
    BY <1>0 DEF Fetches, Outcomes
  <2>. QED  BY <1>1, <1>2, <2>1, <2>2, <2>3, <2>4, EndsKeepsInv
<1>4. CASE fetch.kid \notin fetch.answer /\ fetch.last
  <2>1. Ends(fetch.kid, "unknown", fetch.absent)
    BY <1>1, <1>4 DEF FetchReturns
  <2>2. JwksTypeOK'
    BY <1>0, <1>1, <2>1 DEF JwksInv, JwksTypeOK, Ends, Verdicts, Outcomes, Fetches
  <2>3. fetch.kid \in Kids /\ fetch.absent \in BOOLEAN /\ fetch.absent
    BY <1>0, <1>4 DEF Fetches
  <2>. QED  BY <1>1, <1>2, <2>1, <2>2, <2>3, EndsKeepsInv DEF Outcomes
<1>5. CASE fetch.kid \notin fetch.answer /\ ~fetch.last
  <2>1. Send(fetch.kid, TRUE, fetch.absent) /\ verdict' = Nothing
    BY <1>0, <1>1, <1>5 DEF FetchReturns
  <2>2. JwksTypeOK'
    BY <1>0, <1>1, <2>1 DEF JwksInv, JwksTypeOK, Send, Fetches
  <2>3. fetch.kid \in Kids /\ fetch.absent \in BOOLEAN /\ fetch.absent
    BY <1>0, <1>5 DEF Fetches
  <2>. QED  BY <1>1, <1>2, <2>1, <2>2, <2>3, SendKeepsInv
<1>. QED  BY <1>3, <1>4, <1>5

LEMMA FetchRaisesKeepsInv ==
    ASSUME JwksInv, FetchFails \/ FetchUnusable
    PROVE  JwksInv'
<1>1. fetch \in Fetches /\ UNCHANGED <<published, clock, keys, fetchedAt, lastPublished>>
  BY DEF FetchFails, FetchUnusable, JwksInv, JwksTypeOK
<1>2. PICK outcome \in {"unavailable", "raised"} : Ends(fetch.kid, outcome, fetch.absent)
  BY DEF FetchFails, FetchUnusable
<1>3. JwksTypeOK'
  BY <1>1, <1>2 DEF JwksInv, JwksTypeOK, Ends, Verdicts, Outcomes, Fetches
<1>4. KeysWereCurrent'
  BY <1>1 DEF JwksInv, KeysWereCurrent
<1>5. /\ fetch.kid \in Kids /\ fetch.absent \in BOOLEAN
      /\ outcome \in Outcomes /\ outcome # "unknown" /\ outcome # "accepted"
  BY <1>1 DEF Fetches, Outcomes
<1>. QED  BY <1>1, <1>2, <1>3, <1>4, <1>5, EndsKeepsInv

LEMMA JwksStepKeepsInv ==
    ASSUME JwksInv, [JwksNext]_jwksVars
    PROVE  JwksInv'
<1>1. CASE UNCHANGED jwksVars
  BY <1>1 DEF jwksVars, JwksInv, JwksTypeOK, PublicationsAreDated, KeysWereCurrent, FetchIsRecent,
              RetiredKeysExpire, UnknownKeysAreUnpublished
<1>2. CASE JwksRestart
  BY <1>2, JwksAssumption
     DEF JwksRestart, JwksInv, JwksTypeOK, PublicationsAreDated, KeysWereCurrent, FetchIsRecent,
         RetiredKeysExpire, UnknownKeysAreUnpublished
<1>3. CASE TakeVerdict
  BY <1>3 DEF TakeVerdict, JwksInv, JwksTypeOK, PublicationsAreDated, KeysWereCurrent, FetchIsRecent,
              RetiredKeysExpire, UnknownKeysAreUnpublished
<1>. QED
  BY <1>1, <1>2, <1>3, RotateKeepsInv, JwksTickKeepsInv, VerifyKeepsInv, FetchReturnsKeepsInv,
     FetchRaisesKeepsInv
     DEF JwksNext, VerifierStep

(* Whatever the callers do, the key cache behaves as JwksVerifier says.     *)
LEMMA AdminStepIsJwksStep ==
    ASSUME [AdminNext]_adminVars
    PROVE  [JwksNext]_jwksVars
BY DEF AdminNext, adminVars, HandleIam, HandleNobody, HandleToken, JwksNext

(* main.py, auth_pipeline.py: the admin API uses the verifier as JwksVerifier *)
(* specifies it.                                                           *)
THEOREM AdminUsesVerifier == AdminSpec => JwksSpec
BY AdminStepIsJwksStep, PTL DEF AdminSpec, AdminInit, JwksSpec

LEMMA JwksInvariant == AdminSpec => []JwksInv
<1>1. AdminInit => JwksInv
  BY JwksInvInit DEF AdminInit
<1>2. JwksInv /\ [AdminNext]_adminVars => JwksInv'
  BY AdminStepIsJwksStep, JwksStepKeepsInv
<1>. QED  BY <1>1, <1>2, PTL DEF AdminSpec

(* A retired signing key stops being accepted CacheTtl + FetchTime after it  *)
(* left the key set, whatever is rotated and whichever fetch fails.        *)
THEOREM RetiredKeys == AdminSpec => []RetiredKeysExpire
<1>1. JwksInv => RetiredKeysExpire
  BY DEF JwksInv
<1>. QED  BY <1>1, JwksInvariant, PTL

(* A token is refused for its kid only when the provider did not publish it. *)
THEOREM UnknownKeys == AdminSpec => []UnknownKeysAreUnpublished
<1>1. JwksInv => UnknownKeysAreUnpublished
  BY DEF JwksInv
<1>. QED  BY <1>1, JwksInvariant, PTL

-----------------------------------------------------------------------------
(* Who a caller is. *)

(* An identity a source on its own vouches for: what it may do as an        *)
(* administrator, or as a manager of its tenant.                           *)
Vouched(caller, id) ==
    /\ AdminRole \in id.roles => IsAdministrator(caller)
    /\ ManagerRole \in id.roles => Manages(caller, id.tenant_id)

LEMMA TokenIsVouched ==
    ASSUME NEW claims \in Claims, MakesIdentity(claims)
    PROVE  Vouched(Token(claims), GrantOfClaims(claims))
<1>. DEFINE id == GrantOfClaims(claims)
            caller == Token(claims)
<1>0. caller.auth_type = "jwt" /\ caller.source = claims
  BY DEF Token
<1>1. CASE ByGroups(claims)
  <2>1. id = GroupsGrant(claims.groups) /\ GroupsAgree(claims.groups)
    BY <1>1 DEF GrantOfClaims, MakesIdentity
  <2>2. GrantsOfGroups(claims) = Matched(claims.groups)
    BY <1>1 DEF GrantsOfGroups, NamesTenant, ByGroups, First, Matched
  <2>3. PICK any \in Matched(claims.groups) :
           /\ id.tenant_id = any.tenant_id
           /\ id.roles = UNION {m.roles : m \in Matched(claims.groups)}
    BY <2>1 DEF GroupsGrant, GroupsAgree
  <2>4. \A m \in Matched(claims.groups) : m.tenant_id = id.tenant_id
    BY <2>1, <2>3 DEF GroupsAgree
  <2>. QED  BY <1>0, <2>2, <2>3, <2>4 DEF Vouched, IsAdministrator, Manages
<1>2. CASE ~ByGroups(claims)
  <2>1. /\ id.tenant_id = First(claims.tenant_id, claims.custom_tenant_id)
        /\ id.tenant_id # Absent
        /\ id.roles = ClaimedRoles(claims) /\ id.roles # Malformed
    BY <1>2 DEF GrantOfClaims, MakesIdentity
  <2>2. NamesTenant(claims) /\ id.tenant_id \in {claims.tenant_id, claims.custom_tenant_id}
    BY <2>1 DEF First, NamesTenant
  <2>3. id.roles \subseteq RolesNamed(claims)
    BY <2>1 DEF ClaimedRoles, RolesNamed
  <2>. QED  BY <1>0, <2>2, <2>3 DEF Vouched, IsAdministrator, Manages
<1>. QED  BY <1>1, <1>2

LEMMA PrincipalIsVouched ==
    ASSUME NEW p \in Principals,
           NEW grant \in Resolutions(p),
           grant # Absent
    PROVE  Vouched(Iam(p, grant), grant)
<1>. DEFINE caller == Iam(p, grant)
<1>0. caller.auth_type = "aws_iam" /\ caller.source = p /\ caller.grant = grant
  BY DEF Iam
<1>1. grant \in GrantsOfIam(caller)
  <2>1. CASE resolver = "http"
    BY <1>0, <2>1 DEF GrantsOfIam, Resolutions
  <2>2. CASE resolver # "http"
    <3>0. grant = LayeredGrant(p)
      BY <2>2 DEF Resolutions
    <3>1. GrantsOfIam(caller) = GrantsOfPrincipal(p)
      BY <1>0, <2>2 DEF GrantsOfIam
    <3>2. CASE p \in DOMAIN ProvisionedGrants
      BY <3>0, <3>1, <3>2 DEF LayeredGrant, GrantsOfPrincipal
    <3>3. CASE p \notin DOMAIN ProvisionedGrants /\ p \in DOMAIN ExactGrants
      BY <3>0, <3>1, <3>3 DEF LayeredGrant, FileGrant, GrantsOfPrincipal
    <3>4. CASE p \notin DOMAIN ProvisionedGrants /\ p \notin DOMAIN ExactGrants
      <4>1. PICK i \in DOMAIN PrefixGrants : FirstMatch(p, i) /\ grant = PrefixGrants[i].grant
        BY <3>0, <3>4 DEF LayeredGrant, FileGrant
      <4>. QED  BY <3>1, <4>1 DEF GrantsOfPrincipal, FirstMatch
    <3>. QED  BY <3>2, <3>3, <3>4
  <2>. QED  BY <2>1, <2>2
<1>. QED  BY <1>0, <1>1 DEF Vouched, IsAdministrator, Manages

-----------------------------------------------------------------------------
(* What a caller reaches. *)

(* Every route is only about tenants an identity that is vouched for may    *)
(* manage.                                                                 *)
LEMMA RoutesAreIsolated ==
    ASSUME NEW caller, NEW id, Vouched(caller, id), Route(caller, id)
    PROVE  answer'.caller = caller /\ \A t \in answer'.tenants : Entitles(caller, t)
<1>1. ASSUME NEW t, MayManage(id, t) PROVE Entitles(caller, t)
  BY <1>1 DEF MayManage, MayList, HasAnyRole, OwnsTenant, HasRole, Vouched, Entitles
<1>2. ASSUME MayAdminister(id) PROVE \A t : Entitles(caller, t)
  BY <1>2 DEF MayAdminister, HasRole, Vouched, Entitles
<1>3. ASSUME NEW T, MayList(id), NEW t \in ScopedTenantIds(T, id) PROVE Entitles(caller, t)
  BY <1>3 DEF MayList, HasAnyRole, ScopedTenantIds, HasRole, Vouched, Entitles
<1>. USE DEF Reply, Answers, Refuses
<1>4. CASE Forbid(caller, id) \/ SubmitOnboarding(caller, id)
  BY <1>4 DEF Forbid, SubmitOnboarding
<1>5. CASE ListTenants(caller, id)
  BY <1>3, <1>5 DEF ListTenants
<1>6. CASE Administer(caller, id)
  BY <1>2, <1>6 DEF Administer
<1>7. ASSUME NEW t \in Tenants,
             \/ SetTenantState(caller, id, t)
             \/ ListPolicyChanges(caller, id, t)
             \/ GetPolicyHistory(caller, id, t)
      PROVE  answer'.caller = caller /\ \A u \in answer'.tenants : Entitles(caller, u)
  BY <1>1, <1>7 DEF SetTenantState, ListPolicyChanges, GetPolicyHistory
<1>8. ASSUME NEW t \in Tenants, RollbackPolicy(caller, id, t)
      PROVE  answer'.caller = caller /\ \A u \in answer'.tenants : Entitles(caller, u)
  BY <1>2, <1>8 DEF RollbackPolicy
<1>9. ASSUME NEW t \in Tenants, NEW c \in ChangeIds, NEW body, Propose(caller, id, t, c, body)
      PROVE  answer'.caller = caller /\ \A u \in answer'.tenants : Entitles(caller, u)
  BY <1>1, <1>9 DEF Propose
<1>10. ASSUME NEW t \in Tenants, NEW c \in ChangeIds, Approve(caller, id, t, c) \/ Reject(caller, id, t, c)
       PROVE  answer'.caller = caller /\ \A u \in answer'.tenants : Entitles(caller, u)
  BY <1>2, <1>10 DEF Approve, Reject, NotDecidable, CannotGet
<1>. QED  BY <1>4, <1>5, <1>6, <1>7, <1>8, <1>9, <1>10 DEF Route

LEMMA StepsAreIsolated ==
    ASSUME [AdminNext]_adminVars, answer' # answer
    PROVE  \A t \in answer'.tenants : Entitles(answer'.caller, t)
<1>. USE DEF Reply, Answers, Refuses
<1>1. ~(VerifierStep /\ UNCHANGED apiVars) /\ ~UNCHANGED adminVars
  BY DEF apiVars, adminVars
<1>2. ASSUME NEW p \in Principals, HandleIam(p)
      PROVE  \A t \in answer'.tenants : Entitles(answer'.caller, t)
  <2>1. PICK grant \in Resolutions(p) :
          \/ grant = Absent /\ Refuses(Iam(p, grant), 403)
          \/ grant # Absent /\ Route(Iam(p, grant), grant)
          \/ Refuses(Iam(p, Absent), 500)
    BY <1>2 DEF HandleIam
  <2>. QED  BY <2>1, PrincipalIsVouched, RoutesAreIsolated
<1>3. CASE HandleNobody
  BY <1>3 DEF HandleNobody
<1>4. ASSUME NEW claims \in ClaimInputs, HandleToken(claims)
      PROVE  \A t \in answer'.tenants : Entitles(answer'.caller, t)
  BY <1>4, AdminApiAssumption, TokenIsVouched, RoutesAreIsolated DEF HandleToken
<1>. QED  BY <1>1, <1>2, <1>3, <1>4 DEF AdminNext

(* Tenant isolation, for every mapping of groups and principals, every set of *)
(* claims and every tenant: what a request is about is something a source on *)
(* its own entitles its caller to.                                         *)
THEOREM RequestsAreIsolated == AdminSpec => TenantIsolation
<1>1. [AdminNext]_adminVars =>
         [answer' # answer => \A t \in answer'.tenants : Entitles(answer'.caller, t)]_adminVars
  BY StepsAreIsolated
<1>. QED  BY <1>1, PTL DEF AdminSpec, TenantIsolation

-----------------------------------------------------------------------------
(* What a change request carries. *)

(* A value that is accepted and can be stored, of an item that can be read,  *)
(* is one of which the policy item can be put; it reads back the same, as   *)
(* far as floats reach.                                                    *)
LEMMA AcceptedValues ==
    ASSUME NEW changes, ValidatePolicyChanges(changes), Storable(changes),
           NEW f \in DOMAIN changes, changes[f] \in JsonValues,
           (changes[f].type = "float" \/ changes[f].value <= FloatLimit) =>
               NearestFloat(changes[f].value) = changes[f].value
    PROVE  LET item == Decimalize(changes)
               back == Undecimalize(item)
           IN  /\ item[f] \in ItemValues
               /\ CanBeRead(item) => CanBePut(KindOf[f], back[f])
               /\ ReadsBack(f, AppliedValues(back)[f], changes[f])
<1>. DEFINE item == Decimalize(changes)
            back == Undecimalize(item)
            v == changes[f]
            kind == KindOf[f]
<1>1. /\ Accepts(kind, v)
      /\ v \in [type: JsonTypes, value: Int]
      /\ v.type = "int" => v.value % One = 0
      /\ v.type \notin {"nan", "infinity"} /\ Fits(v)
  BY DEF ValidatePolicyChanges, Storable, JsonValues
<1>2. item[f] = [type |-> IF v.type \in Numbers THEN "number" ELSE v.type, value |-> v.value]
  BY <1>1 DEF Decimalize
<1>3. DOMAIN item = DOMAIN changes
  BY DEF Decimalize
<1>4. item[f] \in ItemValues
  BY <1>1, <1>2 DEF ItemValues, JsonTypes, Numbers, Accepts, IsCount, IsAmount, IsFraction
<1>5. back[f] = IF v.type \in Numbers
                THEN [type |-> IF v.value % One = 0 THEN "int" ELSE "float", value |-> v.value]
                ELSE v
  BY <1>1, <1>2, <1>3 DEF Undecimalize, JsonTypes, Numbers
<1>6. AppliedValues(back)[f] = ReadBack(kind, back[f])
  BY <1>3 DEF AppliedValues, Undecimalize
<1>7. (CanBeRead(item) /\ v.type \in Numbers) => v.value < ContextLimit
  BY <1>2, <1>3 DEF CanBeRead
<1>8. CASE kind = "count"
  <2>1. v.type = "int" /\ v.value \in Int /\ v.value % One = 0
    BY <1>1, <1>8 DEF Accepts, IsCount
  <2>2. back[f] = [type |-> "int", value |-> v.value]
    BY <1>5, <2>1 DEF Numbers
  <2>3. CanBeRead(item) => CanBePut(kind, back[f])
    BY <1>7, <1>8, <2>1, <2>2, NumbersAssumption DEF CanBePut, Fits, Numbers
  <2>4. ReadBack(kind, back[f]) = [type |-> "int", value |-> v.value]
    BY <1>8, <2>1, <2>2 DEF ReadBack, Truncated
  <2>. QED  BY <1>4, <1>6, <2>1, <2>3, <2>4 DEF ReadsBack
<1>9. CASE kind \in {"amount", "fraction"}
  <2>1. v.type \in Numbers /\ v.value \in Int
    BY <1>1, <1>9 DEF Accepts, IsAmount, IsFraction
  <2>2. back[f] = [type |-> IF v.value % One = 0 THEN "int" ELSE "float", value |-> v.value]
    BY <1>5, <2>1
  <2>3. CanBeRead(item) => Fits(back[f])
    BY <1>1, <1>7, <2>1, <2>2, NumbersAssumption DEF Fits, Numbers
  <2>4. CanBeRead(item) => CanBePut(kind, back[f])
    BY <1>9, <2>2, <2>3 DEF CanBePut, Numbers
  <2>5. ReadBack(kind, back[f]) = [type |-> "float", value |-> NearestFloat(v.value)]
    BY <1>9, <2>2 DEF ReadBack
  <2>6. \/ NearestFloat(v.value) = v.value
        \/ v.type = "int" /\ v.value > FloatLimit
    BY <2>1, NumbersAssumption DEF Numbers
  <2>. QED  BY <1>4, <1>6, <1>9, <2>1, <2>4, <2>5, <2>6 DEF ReadsBack, Numbers
<1>10. CASE kind \notin {"count", "amount", "fraction"}
  <2>1. v.type \in {"bool", "text", "list", "object"} /\ back[f] = v
    BY <1>1, <1>5, <1>10 DEF Accepts, Numbers
  <2>. QED  BY <1>1, <1>4, <1>6, <1>10, <2>1 DEF CanBePut, ReadBack, ReadsBack
<1>. QED  BY <1>8, <1>9, <1>10

(* The item of an accepted body is what a change record may hold. *)
LEMMA AcceptedBodies ==
    ASSUME NEW body \in BodyInputs, ValidatePolicyChanges(body), Storable(body)
    PROVE  LET item == Decimalize(body)
               back == Undecimalize(item)
           IN  /\ item \in UNION {[D -> ItemValues] : D \in SUBSET Fields}
               /\ CanBeRead(item) => CanBeApplied(back)
               /\ DOMAIN AppliedValues(back) = DOMAIN body
               /\ \A f \in DOMAIN body : ReadsBack(f, AppliedValues(back)[f], body[f])
<1>. DEFINE item == Decimalize(body)
            back == Undecimalize(item)
<1>1. /\ DOMAIN item = DOMAIN body /\ DOMAIN back = DOMAIN body
      /\ DOMAIN AppliedValues(back) = DOMAIN body
      /\ item = [f \in DOMAIN body |-> item[f]]
  BY DEF Decimalize, Undecimalize, AppliedValues
<1>2. DOMAIN body \in SUBSET Fields
  BY DEF ValidatePolicyChanges
<1>3. \A f \in DOMAIN body :
         /\ body[f] \in JsonValues
         /\ (body[f].type = "float" \/ body[f].value <= FloatLimit) =>
                NearestFloat(body[f].value) = body[f].value
  BY AdminApiAssumption
<1>4. \A f \in DOMAIN body :
         /\ item[f] \in ItemValues
         /\ CanBeRead(item) => CanBePut(KindOf[f], back[f])
         /\ ReadsBack(f, AppliedValues(back)[f], body[f])
  BY <1>3, AcceptedValues
<1>5. item \in [DOMAIN body -> ItemValues]
  <2>. HIDE DEF item
  <2>. QED  BY <1>1, <1>4
<1>. QED  BY <1>1, <1>2, <1>4, <1>5 DEF CanBeApplied

(* Every change request is the item of a body that was accepted. *)
ChangesWereAccepted ==
    \A c \in ChangeIds : changeTable[c] # Nothing =>
        /\ asked[c] \in BodyInputs
        /\ ValidatePolicyChanges(asked[c]) /\ Storable(asked[c])
        /\ changeTable[c].changes = Decimalize(asked[c])

AdminInv ==
    /\ AdminTypeOK
    /\ changeTable \in [ChangeIds -> {Nothing} \cup ChangeRecords]
    /\ ChangesWereAccepted

LEMMA AdminInvInit == AdminInit => AdminInv
BY JwksInvInit DEF AdminInit, AdminInv, AdminTypeOK, JwksInv, ChangesWereAccepted

LEMMA RecordsAreTyped ==
    ASSUME NEW table \in [ChangeIds -> {Nothing} \cup ChangeRecords]
    PROVE  /\ DOMAIN table = ChangeIds
           /\ \A c \in ChangeIds : table[c] # Nothing =>
                 /\ table[c].tenant \in ProvisionedTenants
                 /\ DOMAIN table[c].changes \subseteq Fields
                 /\ \A f \in DOMAIN table[c].changes : table[c].changes[f] \in ItemValues
                 /\ table[c].status \in {"PENDING_APPROVAL", "APPLIED", "REJECTED"}
BY DEF ChangeRecords

LEMMA ProposeKeepsInv ==
    ASSUME AdminInv, NEW caller, NEW id, NEW t \in Tenants, NEW c \in ChangeIds,
           NEW body \in BodyInputs, Propose(caller, id, t, c, body),
           JwksTypeOK', resolver' = resolver
    PROVE  AdminInv'
<1>. USE DEF AdminInv, AdminTypeOK, Reply, Answers, Refuses
<1>1. CASE UNCHANGED <<changeTable, asked>> /\ answer'.tenants = {}
  BY <1>1 DEF ChangesWereAccepted
<1>2. CASE /\ ValidatePolicyChanges(body) /\ t \in ProvisionedTenants /\ Storable(body)
           /\ changeTable' = [changeTable EXCEPT ![c] =
                [tenant |-> t, changes |-> Decimalize(body), status |-> "PENDING_APPROVAL"]]
           /\ asked' = [asked EXCEPT ![c] = body]
           /\ Reply(caller, 201, {t}, NoCall)
  <2>1. [tenant |-> t, changes |-> Decimalize(body), status |-> "PENDING_APPROVAL"] \in ChangeRecords
    BY <1>2, AcceptedBodies DEF ChangeRecords
  <2>2. changeTable' \in [ChangeIds -> {Nothing} \cup ChangeRecords]
    BY <1>2, <2>1
  <2>3. AdminTypeOK'
    BY <1>2, <2>2, RecordsAreTyped
  <2>4. ChangesWereAccepted'
    BY <1>2 DEF ChangesWereAccepted
  <2>. QED  BY <2>2, <2>3, <2>4
<1>. QED  BY <1>1, <1>2 DEF Propose

(* A decision changes the status of one record. *)
LEMMA DecidedKeepsInv ==
    ASSUME AdminInv, NEW c \in ChangeIds, changeTable[c] # Nothing,
           NEW status \in {"APPLIED", "REJECTED"}, Decided(c, status),
           JwksTypeOK', resolver' = resolver, answer'.tenants \subseteq Tenants
    PROVE  AdminInv'
<1>1. changeTable[c] \in ChangeRecords /\ changeTable' = [changeTable EXCEPT ![c].status = status]
  BY DEF AdminInv, AdminTypeOK, Decided
<1>2. [changeTable[c] EXCEPT !.status = status] \in ChangeRecords
  BY <1>1 DEF ChangeRecords
<1>3. changeTable' \in [ChangeIds -> {Nothing} \cup ChangeRecords]
  BY <1>1, <1>2 DEF AdminInv
<1>4. AdminTypeOK'
  BY <1>3, RecordsAreTyped DEF AdminInv, AdminTypeOK, Decided
<1>5. ChangesWereAccepted'
  BY <1>1 DEF AdminInv, ChangesWereAccepted, Decided, ChangeRecords
<1>. QED  BY <1>3, <1>4, <1>5 DEF AdminInv

LEMMA RouteKeepsInv ==
    ASSUME AdminInv, NEW caller, NEW id, Route(caller, id), JwksTypeOK', resolver' = resolver
    PROVE  AdminInv'
<1>. USE DEF Reply, Answers, Refuses
<1>1. ASSUME UNCHANGED <<changeTable, asked>>, answer'.tenants \subseteq Tenants
      PROVE  AdminInv'
  BY <1>1 DEF AdminInv, AdminTypeOK, ChangesWereAccepted
<1>2. CASE \/ Forbid(caller, id) \/ ListTenants(caller, id)
           \/ Administer(caller, id) \/ SubmitOnboarding(caller, id)
  BY <1>1, <1>2, AdminApiAssumption
     DEF Forbid, ListTenants, Administer, SubmitOnboarding, ScopedTenantIds
<1>3. ASSUME NEW t \in Tenants,
             \/ SetTenantState(caller, id, t)
             \/ ListPolicyChanges(caller, id, t)
             \/ GetPolicyHistory(caller, id, t)
             \/ RollbackPolicy(caller, id, t)
      PROVE  AdminInv'
  BY <1>1, <1>3 DEF SetTenantState, ListPolicyChanges, GetPolicyHistory, RollbackPolicy
<1>4. ASSUME NEW t \in Tenants, NEW c \in ChangeIds, Approve(caller, id, t, c)
      PROVE  AdminInv'
  <2>1. CASE FoundIn(c, t) /\ Decided(c, "APPLIED") /\ answer'.tenants = {t}
    BY <2>1, DecidedKeepsInv DEF FoundIn
  <2>2. CASE UNCHANGED <<changeTable, asked>> /\ answer'.tenants = {}
    BY <1>1, <2>2
  <2>. QED  BY <1>4, <2>1, <2>2 DEF Approve, NotDecidable, CannotGet
<1>5. ASSUME NEW t \in Tenants, NEW c \in ChangeIds, Reject(caller, id, t, c)
      PROVE  AdminInv'
  <2>1. CASE FoundIn(c, t) /\ Decided(c, "REJECTED") /\ answer'.tenants = {t}
    BY <2>1, DecidedKeepsInv DEF FoundIn
  <2>2. CASE UNCHANGED <<changeTable, asked>> /\ answer'.tenants = {}
    BY <1>1, <2>2
  <2>. QED  BY <1>5, <2>1, <2>2 DEF Reject, NotDecidable, CannotGet
<1>. QED  BY <1>2, <1>3, <1>4, <1>5, ProposeKeepsInv DEF Route

LEMMA AdminStepKeepsInv ==
    ASSUME AdminInv, JwksInv, [AdminNext]_adminVars
    PROVE  AdminInv'
<1>. USE DEF Reply, Answers, Refuses
<1>0. JwksTypeOK'
  BY AdminStepIsJwksStep, JwksStepKeepsInv DEF JwksInv
<1>1. ASSUME UNCHANGED <<resolver, changeTable, asked>>,
             answer'.tenants = {} \/ answer' = answer
      PROVE  AdminInv'
  BY <1>0, <1>1 DEF AdminInv, AdminTypeOK, ChangesWereAccepted
<1>2. CASE UNCHANGED apiVars
  BY <1>1, <1>2 DEF apiVars
<1>3. ASSUME NEW p \in Principals, HandleIam(p)
      PROVE  AdminInv'
  BY <1>0, <1>1, <1>3, RouteKeepsInv DEF HandleIam
<1>4. CASE HandleNobody
  BY <1>1, <1>4 DEF HandleNobody
<1>5. ASSUME NEW claims \in ClaimInputs, HandleToken(claims)
      PROVE  AdminInv'
  BY <1>0, <1>1, <1>5, RouteKeepsInv DEF HandleToken
<1>. QED  BY <1>2, <1>3, <1>4, <1>5 DEF AdminNext, adminVars, apiVars

LEMMA AdminInvariant == AdminSpec => []AdminInv
<1>1. AdminInit => AdminInv
  BY AdminInvInit
<1>2. AdminInv /\ JwksInv /\ [AdminNext]_adminVars => AdminInv'
  BY AdminStepKeepsInv
<1>. QED  BY <1>1, <1>2, JwksInvariant, PTL DEF AdminSpec

(* Type correctness of the admin API and of the verifier it uses. *)
THEOREM AdminTyping == AdminSpec => []AdminTypeOK
<1>1. AdminInv => AdminTypeOK
  BY DEF AdminInv
<1>. QED  BY <1>1, AdminInvariant, PTL

(* Every change that is pending and whose item can be read can be applied:   *)
(* for all fields, kinds and values, of any size, what validation.py accepts *)
(* and the change table holds makes apply_change raise only where reading   *)
(* the change already does (change_requests.py, from 10^28 on).            *)
THEOREM PendingChangesCanBeApplied == AdminSpec => []PendingChangesApply
<1>1. AdminInv => PendingChangesApply
  BY AcceptedBodies DEF AdminInv, ChangesWereAccepted, PendingChangesApply, Pending, CanBeGot
<1>. QED  BY <1>1, AdminInvariant, PTL

LEMMA RoutesWriteAsProposed ==
    ASSUME AdminInv, NEW caller, NEW id, Vouched(caller, id), Route(caller, id),
           answer'.call # NoCall
    PROVE  WritesAsProposed
<1>. USE DEF Reply, Answers, Refuses
<1>1. PICK t \in Tenants, c \in ChangeIds :
         /\ MayAdminister(id)
         /\ FoundIn(c, t) /\ changeTable[c].status = "PENDING_APPROVAL"
         /\ answer'.caller = caller
         /\ answer'.call = [change |-> c, tenant |-> t,
                            changes |-> Undecimalize(changeTable[c].changes)]
  BY DEF Route, Forbid, ListTenants, Administer, SubmitOnboarding, SetTenantState,
         ListPolicyChanges, GetPolicyHistory, RollbackPolicy, Propose, NotDecidable, CannotGet,
         Approve, Reject
<1>2. IsAdministrator(caller)
  BY <1>1 DEF Vouched, MayAdminister, HasRole
<1>3. /\ asked[c] \in BodyInputs /\ ValidatePolicyChanges(asked[c]) /\ Storable(asked[c])
      /\ changeTable[c].changes = Decimalize(asked[c])
  BY <1>1 DEF AdminInv, ChangesWereAccepted, FoundIn
<1>4. /\ DOMAIN AppliedValues(answer'.call.changes) = DOMAIN asked[c]
      /\ \A f \in DOMAIN asked[c] : ReadsBack(f, AppliedValues(answer'.call.changes)[f], asked[c][f])
  BY <1>1, <1>3, AcceptedBodies
<1>. QED  BY <1>1, <1>2, <1>4 DEF WritesAsProposed, FoundIn

LEMMA StepsWriteAsProposed ==
    ASSUME AdminInv, [AdminNext]_adminVars, answer' # answer, answer'.call # NoCall
    PROVE  WritesAsProposed
<1>. USE DEF Reply, Answers, Refuses
<1>1. ASSUME NEW p \in Principals, HandleIam(p)
      PROVE  WritesAsProposed
  <2>1. PICK grant \in Resolutions(p) :
          \/ grant = Absent /\ Refuses(Iam(p, grant), 403)
          \/ grant # Absent /\ Route(Iam(p, grant), grant)
          \/ Refuses(Iam(p, Absent), 500)
    BY <1>1 DEF HandleIam
  <2>. QED  BY <2>1, PrincipalIsVouched, RoutesWriteAsProposed
<1>2. ASSUME NEW claims \in ClaimInputs, HandleToken(claims)
      PROVE  WritesAsProposed
  BY <1>2, AdminApiAssumption, TokenIsVouched, RoutesWriteAsProposed DEF HandleToken
<1>. QED  BY <1>1, <1>2 DEF AdminNext, HandleNobody, apiVars, adminVars

(* An edit that reaches a policy is one that was proposed for that tenant    *)
(* and that an administrator approved while it was pending.  Its values read *)
(* back as proposed, for bodies of any numbers, with one exception, of one  *)
(* value: an integer amount above 2^53 reads back as float() of it          *)
(* (store.py).                                                             *)
THEOREM EditsAreProposals == AdminSpec => EditsApplyAsProposed
<1>1. AdminInv /\ [AdminNext]_adminVars =>
         [(answer' # answer /\ answer'.call # NoCall) => WritesAsProposed]_adminVars
  BY StepsWriteAsProposed
<1>. QED  BY <1>1, AdminInvariant, PTL DEF AdminSpec, EditsApplyAsProposed
=============================================================================
