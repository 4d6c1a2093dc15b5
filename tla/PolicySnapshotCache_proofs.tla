---------------------- MODULE PolicySnapshotCache_proofs ----------------------
(***************************************************************************)
(* Proofs about the timed policy cache: the admin endpoints behave as      *)
(* PolicyChangeWorkflow says, and a snapshot that is served was the        *)
(* tenant's policy, or DynamoDB's answer to a read of it, less than        *)
(* Ttl + LoadTime ago.                                                     *)
(***************************************************************************)
EXTENDS PolicySnapshotCache, PolicyChangeWorkflow_proofs

(* A read of the store under way returned its answer at most LoadTime ago. *)
LoadsAreRecent ==
    \A k \in Tasks, t \in Tenants : Loading(k, t) =>
        /\ clock <= loadedAt[k] + LoadTime
        /\ loadedAt[k] <= lastKnown[k][t]
        /\ ~Hit(k, t)

(* A snapshot that is still served was cached at most LoadTime after that. *)
HitsWereCurrent ==
    \A k \in Tasks, t \in Tenants :
        Hit(k, t) => cachedAt[k][t] <= lastKnown[k][t] + LoadTime

NoFutureInstants ==
    \A k \in Tasks : \A t \in Tenants : lastKnown[k][t] <= clock

CacheInv ==
    /\ WorkflowInv
    /\ CacheTypeOK
    /\ NoFutureInstants
    /\ LoadsAreRecent
    /\ HitsWereCurrent

LEMMA CacheInvInit == CacheInit => CacheInv
<1>. SUFFICES ASSUME CacheInit PROVE CacheInv
  OBVIOUS
<1>1. WorkflowInv
  BY WorkflowInvInit DEF CacheInit
<1>2. CacheTypeOK
  BY <1>1 DEF CacheInit, CacheTypeOK, WorkflowInv
<1>3. LoadsAreRecent /\ HitsWereCurrent /\ NoFutureInstants
  BY DEF CacheInit, WorkflowInit, LoadsAreRecent, HitsWereCurrent, NoFutureInstants, Hit, Loading
<1>. QED  BY <1>1, <1>2, <1>3 DEF CacheInv

(* Every step of the timed cache is one of the endpoints, or leaves them alone. *)
LEMMA CacheStepIsWorkflowStep ==
    ASSUME [CacheNext]_cacheSpecVars
    PROVE  [WorkflowNext]_vars
BY DEF CacheNext, cacheSpecVars, Request, GetMisses, GetStores, Tick, WorkflowNext

(* The instants a snapshot was last known to be right only move forward. *)
LEMMA ObserveForward ==
    ASSUME CacheInv, Observe, clock' \in Nat, clock <= clock'
    PROVE  /\ writtenAt' \in [Tenants -> Nat]
           /\ lastKnown' \in [Tasks -> [Tenants -> Nat]]
           /\ NoFutureInstants'
           /\ \A k \in Tasks, t \in Tenants :
                 /\ lastKnown[k][t] <= lastKnown'[k][t]
                 /\ ReadNow(k, t) => lastKnown'[k][t] = clock'
<1>1. clock \in Nat /\ \A k \in Tasks, t \in Tenants : lastKnown[k][t] \in Nat
  BY DEF CacheInv, CacheTypeOK
<1>6. writtenAt' \in [Tenants -> Nat]
  BY DEF Observe, CacheInv, CacheTypeOK
<1>2. \A k \in Tasks, t \in Tenants :
         lastKnown'[k][t] = IF ReadNow(k, t) \/ (Held(k, t) = table[t])'
                            THEN clock' ELSE lastKnown[k][t]
  BY DEF Observe
<1>3. \A k \in Tasks, t \in Tenants : lastKnown[k][t] <= clock
  BY DEF CacheInv, NoFutureInstants
<1>4. \A k \in Tasks, t \in Tenants :
         /\ lastKnown'[k][t] \in Nat
         /\ lastKnown[k][t] <= lastKnown'[k][t]
         /\ lastKnown'[k][t] <= clock'
  BY <1>1, <1>2, <1>3
<1>5. lastKnown' \in [Tasks -> [Tenants -> Nat]]
  BY <1>4 DEF Observe
<1>. QED  BY <1>2, <1>4, <1>5, <1>6 DEF NoFutureInstants

(* A request reads no snapshot and caches none: it only drops them. *)
LEMMA RequestsOnlyEvict ==
    ASSUME WorkflowInv, RequestNext
    PROVE  \A k \in Tasks :
              /\ loading'[k] \in {loading[k], NoPolicy}
              /\ \A t \in Tenants : cache'[k][t] \in {cache[k][t], NoPolicy}
<1>1. /\ cache \in [Tasks -> [Tenants -> Policies \cup {NoPolicy}]]
      /\ loading \in [Tasks -> Loads \cup {NoPolicy}]
  BY DEF WorkflowInv, WorkflowTypeOK
<1>2. ASSUME NEW t \in Tenants, NEW config \in NewConfigs, Onboard(t, config)
      PROVE  UNCHANGED <<cache, loading>>
  BY <1>2 DEF Onboard, cacheVars
<1>3. ASSUME NEW k \in Tasks, Receive(k)
      PROVE  UNCHANGED <<cache, loading>>
  BY <1>3 DEF Receive, SetTenantState, RollbackPolicy, Propose, Approve, Reject, Decide, cacheVars
<1>4. ASSUME NEW k \in Tasks, NEW t, Evict(k, t)
      PROVE  /\ loading' = loading
             /\ \A l \in Tasks : \A u \in Tenants : cache'[l][u] \in {cache[l][u], NoPolicy}
  BY <1>1, <1>4 DEF Evict, Acknowledge
<1>5. ASSUME NEW k \in Tasks, Handle(k)
      PROVE  /\ loading' = loading
             /\ \A l \in Tasks : \A u \in Tenants : cache'[l][u] \in {cache[l][u], NoPolicy}
  <2>1. CASE Apply(k) \/ ApplyConflict(k) \/ StoreStep(k) \/ StoreRaises(k) \/ PutReplyLost(k)
             \/ ChangeReplyLost(k) \/ RecordAudit(k)
    BY <2>1 DEF Apply, ApplyConflict, StoreStep, StoreRaises, PutReplyLost, ChangeReplyLost,
                RecordAudit, cacheVars
  <2>2. CASE PutReturns(k)
    BY <1>4, <2>2 DEF PutReturns, cacheVars
  <2>3. CASE PutChange(k)
    BY <1>4, <2>3 DEF PutChange, cacheVars
  <2>. QED  BY <1>5, <2>1, <2>2, <2>3 DEF Handle
<1>6. ASSUME NEW k \in Tasks, Fail(k) \/ Restart(k)
      PROVE  \A l \in Tasks :
                /\ loading'[l] \in {loading[l], NoPolicy}
                /\ \A u \in Tenants : cache'[l][u] \in {cache[l][u], NoPolicy}
  BY <1>1, <1>6 DEF Fail, Restart, Unload
<1>. QED  BY <1>2, <1>3, <1>5, <1>6 DEF RequestNext

(* Time passes, or requests drop snapshots: what is left is as recent as    *)
(* it was.                                                                 *)
LEMMA FewerSnapshots ==
    ASSUME CacheInv, clock' \in Nat, clock <= clock',
           UNCHANGED <<cachedAt, loadedAt>>, Observe,
           \A k \in Tasks :
              /\ loading'[k] \in {loading[k], NoPolicy}
              /\ \A t \in Tenants : Loading(k, t)' => clock' <= loadedAt[k] + LoadTime
              /\ \A t \in Tenants : cache'[k][t] \in {cache[k][t], NoPolicy}
    PROVE  LoadsAreRecent' /\ HitsWereCurrent'
<1>. USE CacheAssumption
<1>1. /\ clock \in Nat
      /\ \A k \in Tasks : loadedAt[k] \in Nat
      /\ \A k \in Tasks, t \in Tenants : lastKnown[k][t] \in Nat /\ cachedAt[k][t] \in Nat
  BY DEF CacheInv, CacheTypeOK, WorkflowTypeOK, Loads
<1>2. \A k \in Tasks, t \in Tenants :
         lastKnown'[k][t] \in Nat /\ lastKnown[k][t] <= lastKnown'[k][t]
  BY ObserveForward
<1>3. \A k \in Tasks, t \in Tenants : Hit(k, t)' => Hit(k, t)
  BY <1>1 DEF Hit
<1>4. \A k \in Tasks, t \in Tenants : Loading(k, t)' => Loading(k, t)
  BY DEF Loading
<1>5. LoadsAreRecent'
  BY <1>1, <1>2, <1>3, <1>4 DEF CacheInv, LoadsAreRecent
<1>6. HitsWereCurrent'
  BY <1>1, <1>2, <1>3 DEF CacheInv, HitsWereCurrent
<1>. QED  BY <1>5, <1>6

(* A miss is DynamoDB's answer of this very instant, whatever version it is. *)
LEMMA MissReadsNow ==
    ASSUME CacheInv, NEW k \in Tasks, NEW t \in Tenants, GetMisses(k, t), Observe
    PROVE  LoadsAreRecent' /\ HitsWereCurrent'
<1>. USE CacheAssumption
<1>1. /\ clock \in Nat /\ clock' = clock
      /\ loadedAt \in [Tasks -> Nat] /\ loading \in [Tasks -> Loads \cup {NoPolicy}]
      /\ \A l \in Tasks, u \in Tenants : lastKnown[l][u] \in Nat /\ cachedAt[l][u] \in Nat
  BY DEF GetMisses, CacheInv, CacheTypeOK, WorkflowTypeOK
<1>2. \A l \in Tasks, u \in Tenants :
         /\ lastKnown'[l][u] \in Nat /\ lastKnown[l][u] <= lastKnown'[l][u]
         /\ ReadNow(l, u) => lastKnown'[l][u] = clock'
  BY <1>1, ObserveForward
<1>. PICK policy \in Readable(t) :
        loading' = [loading EXCEPT ![k] = [tenant |-> t, policy |-> policy]]
  BY DEF GetMisses, ReadSnapshot
<1>3. /\ cache' = cache /\ cachedAt' = cachedAt
      /\ loadedAt' = [loadedAt EXCEPT ![k] = clock]
      /\ ~Hit(k, t) /\ loading[k] = NoPolicy
  BY DEF GetMisses, ReadSnapshot, Idle
<1>4. [tenant |-> t, policy |-> policy] \in Loads
  BY ReadableAreVersions DEF CacheInv, WorkflowInv, AnyUse, Loads
<1>5. \A l \in Tasks, u \in Tenants : Hit(l, u)' <=> Hit(l, u)
  BY <1>1, <1>3 DEF Hit
<1>6. HitsWereCurrent'
  BY <1>1, <1>2, <1>3, <1>5 DEF CacheInv, HitsWereCurrent
<1>7. lastKnown'[k][t] = clock
  <2>1. loading'[k] = [tenant |-> t, policy |-> policy] /\ loading'[k] # NoPolicy
    BY <1>1, <1>4, WorkflowAssumption
  <2>2. ReadNow(k, t)
    BY <1>3, <2>1 DEF ReadNow, Loading
  <2>. QED  BY <1>1, <1>2, <2>2
<1>8. \A l \in Tasks, u \in Tenants :
         Loading(l, u)' <=> IF l = k THEN u = t ELSE Loading(l, u)
  BY <1>1, <1>3, <1>4, WorkflowAssumption DEF Loading
<1>9. LoadsAreRecent'
  <2>. SUFFICES ASSUME NEW l \in Tasks, NEW u \in Tenants, Loading(l, u)'
                PROVE  /\ clock' <= loadedAt'[l] + LoadTime
                       /\ loadedAt'[l] <= lastKnown'[l][u]
                       /\ ~Hit(l, u)'
    BY DEF LoadsAreRecent
  <2>1. CASE l = k
    BY <1>1, <1>3, <1>5, <1>7, <1>8, <2>1
  <2>2. CASE l # k
    <3>1. loadedAt'[l] = loadedAt[l] /\ Loading(l, u)
      BY <1>1, <1>3, <1>8, <2>2
    <3>. QED  BY <1>1, <1>2, <1>5, <3>1 DEF CacheInv, LoadsAreRecent
  <2>. QED  BY <2>1, <2>2
<1>. QED  BY <1>6, <1>9

(* What a miss read is cached before it is LoadTime old. *)
LEMMA StoredInTime ==
    ASSUME CacheInv, NEW k \in Tasks, GetStores(k), Observe
    PROVE  LoadsAreRecent' /\ HitsWereCurrent'
<1>. USE CacheAssumption
<1>1. /\ clock \in Nat /\ clock' = clock
      /\ loadedAt \in [Tasks -> Nat] /\ loadedAt' = loadedAt
      /\ loading \in [Tasks -> Loads \cup {NoPolicy}]
      /\ cache \in [Tasks -> [Tenants -> Policies \cup {NoPolicy}]]
      /\ cachedAt \in [Tasks -> [Tenants -> Nat]]
      /\ \A l \in Tasks, u \in Tenants : lastKnown[l][u] \in Nat
  BY DEF GetStores, CacheInv, CacheTypeOK, WorkflowTypeOK
<1>2. \A l \in Tasks, u \in Tenants :
         lastKnown'[l][u] \in Nat /\ lastKnown[l][u] <= lastKnown'[l][u]
  BY <1>1, ObserveForward
<1>. PICK t : t = loading[k].tenant
  OBVIOUS
<1>3. /\ loading[k] # NoPolicy /\ t \in Tenants /\ loading[k].tenant = t
      /\ loading' = [loading EXCEPT ![k] = NoPolicy]
      /\ cache' = [cache EXCEPT ![k][t] = loading[k].policy]
      /\ cachedAt' = [cachedAt EXCEPT ![k][t] = clock]
  BY <1>1 DEF GetStores, StoreSnapshot, Unload, Loads
<1>4. clock <= lastKnown[k][t] + LoadTime
  <2>1. Loading(k, t)
    BY <1>3 DEF Loading
  <2>2. clock <= loadedAt[k] + LoadTime /\ loadedAt[k] <= lastKnown[k][t]
    BY <1>3, <2>1 DEF CacheInv, LoadsAreRecent
  <2>3. loadedAt[k] \in Nat /\ lastKnown[k][t] \in Nat
    BY <1>1, <1>3
  <2>. QED  BY <1>1, <2>2, <2>3
<1>5. \A l \in Tasks, u \in Tenants :
         ~(l = k /\ u = t) => /\ Hit(l, u)' <=> Hit(l, u)
                              /\ cachedAt'[l][u] = cachedAt[l][u]
  BY <1>1, <1>3 DEF Hit
<1>6. cachedAt'[k][t] = clock
  BY <1>1, <1>3
<1>7. \A l \in Tasks, u \in Tenants : cachedAt[l][u] \in Nat
  BY <1>1
<1>8. HitsWereCurrent'
  <2>. SUFFICES ASSUME NEW l \in Tasks, NEW u \in Tenants, Hit(l, u)'
                PROVE  cachedAt'[l][u] <= lastKnown'[l][u] + LoadTime
    BY DEF HitsWereCurrent
  <2>1. CASE l = k /\ u = t
    BY <1>1, <1>2, <1>4, <1>6, <2>1
  <2>2. CASE ~(l = k /\ u = t)
    <3>1. cachedAt[l][u] <= lastKnown[l][u] + LoadTime
      BY <1>5, <2>2 DEF CacheInv, HitsWereCurrent
    <3>. QED  BY <1>1, <1>2, <1>5, <1>7, <2>2, <3>1
  <2>. QED  BY <2>1, <2>2
<1>9. LoadsAreRecent'
  <2>. SUFFICES ASSUME NEW l \in Tasks, NEW u \in Tenants, Loading(l, u)'
                PROVE  /\ clock' <= loadedAt'[l] + LoadTime
                       /\ loadedAt'[l] <= lastKnown'[l][u]
                       /\ ~Hit(l, u)'
    BY DEF LoadsAreRecent
  <2>1. l # k /\ Loading(l, u)
    BY <1>1, <1>3 DEF Loading
  <2>. QED  BY <1>1, <1>2, <1>5, <2>1 DEF CacheInv, LoadsAreRecent
<1>. QED  BY <1>8, <1>9

LEMMA CacheInvStep ==
    ASSUME CacheInv, [CacheNext]_cacheSpecVars
    PROVE  CacheInv'
<1>. USE CacheAssumption
<1>1. WorkflowInv'
  BY CacheStepIsWorkflowStep, WorkflowInvStep DEF CacheInv
<1>2. CASE UNCHANGED cacheSpecVars
  <2>1. UNCHANGED <<cache, loading, timeVars, writtenAt, lastKnown>>
    BY <1>2 DEF cacheSpecVars, seenVars, vars, cacheVars
  <2>. QED
    BY <1>1, <2>1 DEF CacheInv, CacheTypeOK, WorkflowInv, NoFutureInstants, LoadsAreRecent,
                      HitsWereCurrent, Hit, Loading, timeVars
<1>3. CASE CacheNext
  <2>. USE <1>3
  <2>1. /\ clock' \in Nat /\ clock <= clock'
        /\ cachedAt' \in [Tasks -> [Tenants -> Nat]]
        /\ loadedAt' \in [Tasks -> Nat]
    <3>1. clock \in Nat /\ cachedAt \in [Tasks -> [Tenants -> Nat]] /\ loadedAt \in [Tasks -> Nat]
      BY DEF CacheInv, CacheTypeOK
    <3>2. CASE Request \/ Tick
      BY <3>1, <3>2 DEF Request, Tick, timeVars
    <3>3. ASSUME NEW k \in Tasks, NEW t \in Tenants, GetMisses(k, t)
          PROVE  clock' = clock /\ cachedAt' = cachedAt /\ loadedAt' \in [Tasks -> Nat]
      BY <3>1, <3>3 DEF GetMisses
    <3>4. ASSUME NEW k \in Tasks, GetStores(k)
          PROVE  clock' = clock /\ loadedAt' = loadedAt
                 /\ cachedAt' \in [Tasks -> [Tenants -> Nat]]
      BY <3>1, <3>4 DEF GetStores
    <3>. QED  BY <3>1, <3>2, <3>3, <3>4 DEF CacheNext
  <2>2. /\ writtenAt' \in [Tenants -> Nat] /\ lastKnown' \in [Tasks -> [Tenants -> Nat]]
        /\ NoFutureInstants'
    BY <2>1, ObserveForward DEF CacheNext
  <2>3. CacheTypeOK'
    BY <1>1, <2>1, <2>2 DEF CacheTypeOK, WorkflowInv
  <2>4. LoadsAreRecent' /\ HitsWereCurrent'
    <3>1. Observe
      BY DEF CacheNext
    <3>2. CASE Request
      <4>1. UNCHANGED timeVars /\ RequestNext /\ WorkflowInv
        BY <3>2 DEF Request, CacheInv
      <4>2. \A k \in Tasks :
               /\ loading'[k] \in {loading[k], NoPolicy}
               /\ \A t \in Tenants : cache'[k][t] \in {cache[k][t], NoPolicy}
        BY <4>1, RequestsOnlyEvict
      <4>3. \A k \in Tasks, t \in Tenants : Loading(k, t)' => clock' <= loadedAt[k] + LoadTime
        BY <4>1, <4>2 DEF CacheInv, LoadsAreRecent, Loading, timeVars
      <4>. QED
        BY <2>1, <3>1, <4>1, <4>2, <4>3, FewerSnapshots DEF timeVars
    <3>3. CASE Tick
      <4>1. /\ cache' = cache /\ loading' = loading /\ UNCHANGED <<cachedAt, loadedAt>>
            /\ \A k \in Tasks : loading[k] # NoPolicy => clock < loadedAt[k] + LoadTime
            /\ clock' = clock + 1
        BY <3>3 DEF Tick, vars, cacheVars
      <4>2. clock \in Nat /\ \A k \in Tasks : loadedAt[k] \in Nat
        BY DEF CacheInv, CacheTypeOK
      <4>3. \A k \in Tasks, t \in Tenants : Loading(k, t)' => clock' <= loadedAt[k] + LoadTime
        BY <4>1, <4>2 DEF Loading
      <4>. QED  BY <2>1, <3>1, <4>1, <4>3, FewerSnapshots
    <3>. QED  BY <3>1, <3>2, <3>3, MissReadsNow, StoredInTime DEF CacheNext
  <2>. QED  BY <1>1, <2>2, <2>3, <2>4 DEF CacheInv
<1>. QED  BY <1>2, <1>3

LEMMA CacheInvHolds == CacheSpec => []CacheInv
BY CacheInvInit, CacheInvStep, PTL DEF CacheSpec

-----------------------------------------------------------------------------
(* The type invariant of the timed cache. *)
THEOREM CacheTyping == CacheSpec => []CacheTypeOK
BY CacheInvHolds, PTL DEF CacheInv

(* With the cache on a clock the endpoints do what PolicyChangeWorkflow     *)
(* lets them do: what is proved of the workflow holds here.                *)
THEOREM CacheImplementsWorkflow == CacheSpec => WorkflowSpec
<1>1. CacheInit => WorkflowInit
  BY DEF CacheInit
<1>2. [CacheNext]_cacheSpecVars => [WorkflowNext]_vars
  BY CacheStepIsWorkflowStep
<1>. QED  BY <1>1, <1>2, PTL DEF CacheSpec, WorkflowSpec

(* The lease of cache.py as the code keeps it, whichever version each read  *)
(* of the table returns: no snapshot is served Ttl + LoadTime after it was  *)
(* last the tenant's policy, or what DynamoDB said the policy was, whoever  *)
(* has changed it since.                                                   *)
THEOREM StalenessIsBounded == CacheSpec => []MaxStaleness
<1>1. CacheInv => MaxStaleness
  BY CacheAssumption
     DEF CacheInv, CacheTypeOK, HitsWereCurrent, MaxStaleness, Hit
<1>. QED  BY <1>1, CacheInvHolds, PTL

(* With caches on a clock, too, reviewed changes are written as the review   *)
(* promises: snapshots are only ever served, never written back.           *)
THEOREM CacheIsReviewed == CacheSpec => ImplementsReviewedStore
BY CacheImplementsWorkflow, WorkflowIsReviewed

(* On the clock, too, get() serves no snapshot its task read before a write *)
(* of the tenant that the task acknowledged, expired or not.               *)
THEOREM CachedSnapshotsAreRefetched == CacheSpec => []RefetchedAfterOwnWrites
BY CacheImplementsWorkflow, TasksRefetchAfterTheirWrites
=============================================================================
