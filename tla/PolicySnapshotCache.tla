------------------------- MODULE PolicySnapshotCache -------------------------
(***************************************************************************)
(* policy/cache.py on a clock: the admin endpoints of PolicyChangeWorkflow *)
(* with the time each snapshot was cached at, so that a snapshot younger   *)
(* than ttl_s is served and an older one is read again.  get() reads the   *)
(* store first and the clock after, and the read takes time.               *)
(***************************************************************************)
EXTENDS PolicyChangeWorkflow

CONSTANTS
    Ttl,            \* ttl_s
    LoadTime,       \* the longest a read of the store takes before it raises
    MaxClock        \* bound: the clock stops here

ASSUME CacheAssumption == Ttl \in Nat /\ LoadTime \in Nat /\ MaxClock \in Nat

VARIABLES
    clock,          \* time.monotonic(), which the tasks measure durations with
    cachedAt,       \* task -> tenant_id -> _Snapshot.cached_at
    loadedAt        \* task -> when its read of the store under way returns its answer

\* History variables.
VARIABLES
    writtenAt,      \* tenant_id -> when its policy last became another one
    lastKnown       \* task -> tenant_id -> when the snapshot it holds was last the
                    \* tenant's policy, or what a get_item of the tenant returned

timeVars == <<clock, cachedAt, loadedAt>>
seenVars == <<writtenAt, lastKnown>>
cacheSpecVars == <<vars, timeVars, seenVars>>

CacheInit ==
    /\ WorkflowInit
    /\ clock = 0
    /\ cachedAt = [k \in Tasks |-> [t \in Tenants |-> 0]]
    /\ loadedAt = [k \in Tasks |-> 0]
    /\ writtenAt = [t \in Tenants |-> 0]
    /\ lastKnown = [k \in Tasks |-> [t \in Tenants |-> 0]]

Loading(k, t) == loading[k] # NoPolicy /\ loading[k].tenant = t

(* The snapshot of t a task holds: the one it is about to cache, or has. *)
Held(k, t) == IF Loading(k, t) THEN loading[k].policy ELSE cache[k][t]

(* The read of the store returns the snapshot in this very step. *)
ReadNow(k, t) == ~Loading(k, t) /\ Loading(k, t)'

Observe ==
    /\ writtenAt' = [t \in Tenants |-> IF table'[t] # table[t] THEN clock' ELSE writtenAt[t]]
    /\ lastKnown' = [k \in Tasks |-> [t \in Tenants |->
                        IF ReadNow(k, t) \/ (Held(k, t) = table[t])'
                        THEN clock' ELSE lastKnown[k][t]]]

(* Mutant of Hit: the bound itself is still served. *)
HitAtTtl(k, t) == cache[k][t] # NoPolicy /\ clock - cachedAt[k][t] <= Ttl

(* get() answers from the cache. *)
Hit(k, t) == cache[k][t] # NoPolicy /\ clock - cachedAt[k][t] < Ttl

GetMisses(k, t) ==
    /\ ~Hit(k, t)
    /\ ReadSnapshot(k, t)
    /\ loadedAt' = [loadedAt EXCEPT ![k] = clock]
    /\ UNCHANGED <<clock, cachedAt>>

GetStores(k) ==
    /\ StoreSnapshot(k)
    /\ cachedAt' = [cachedAt EXCEPT ![k][loading[k].tenant] = clock]
    /\ UNCHANGED <<clock, loadedAt>>

Request == RequestNext /\ UNCHANGED timeVars

(* A read of the store that has lasted LoadTime returns or raises. *)
Tick ==
    /\ clock < MaxClock
    /\ \A k \in Tasks : loading[k] # NoPolicy => clock < loadedAt[k] + LoadTime
    /\ clock' = clock + 1
    /\ UNCHANGED <<vars, cachedAt, loadedAt>>

CacheNext ==
    /\ \/ Request
       \/ \E k \in Tasks, t \in Tenants : GetMisses(k, t)
       \/ \E k \in Tasks : GetStores(k)
       \/ Tick
    /\ Observe

CacheSpec == CacheInit /\ [][CacheNext]_cacheSpecVars

-----------------------------------------------------------------------------
CacheTypeOK ==
    /\ WorkflowTypeOK
    /\ clock \in Nat
    /\ cachedAt \in [Tasks -> [Tenants -> Nat]]
    /\ loadedAt \in [Tasks -> Nat]
    /\ writtenAt \in [Tenants -> Nat]
    /\ lastKnown \in [Tasks -> [Tenants -> Nat]]

(* What cache.py's lease is worth, to a task that is never told of a change *)
(* another one made: it serves nothing that was not the tenant's policy, or *)
(* DynamoDB's answer to a read of it, less than Ttl + LoadTime ago.  How far *)
(* an eventually consistent answer lags behind is DynamoDB's; the cache     *)
(* adds no more than that to it.                                           *)
MaxStaleness ==
    \A k \in Tasks, t \in Tenants :
        Hit(k, t) => clock - lastKnown[k][t] < Ttl + LoadTime

(* cache.py, module docstring: "maximum stale-policy lifetime <= ttl_s", so *)
(* a policy that has stood for longer is what every task serves.  But even  *)
(* the task that wrote it, which evicts its snapshot and reads again at once *)
(* (api/admin_routes.py, above invalidate: "refetches immediately instead of *)
(* serving a stale snapshot"), may be answered with the version it replaced. *)
StaleAtMostTtl ==
    \A k \in Tasks, t \in Tenants :
        (Hit(k, t) /\ cache[k][t] # table[t]) => clock - writtenAt[t] <= Ttl
=============================================================================
