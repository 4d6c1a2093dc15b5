# A verification model of the platform control plane

TLA+ models, TLC runs and TLAPS proofs for the Python backend under
`src/backend/services/control_plane` (called `cp/` below). The backend holds the
tenants' policies, the principals that belong to them, and the admin workflows
that change both. One to three copies of it (ECS tasks) run against the same
DynamoDB tables, so what is hard about it is not the computation but the
interleaving of DynamoDB calls of several tasks, the calls that fail or whose
answer is lost, the tasks that stop halfway, and the reads that are not
consistent. That is what the modules are about. Before any of it comes the
question who is calling: the admin API derives a caller's tenant and roles from
signing keys, claims, groups and IAM principals, and that is the second subject.

`PROJECT.json` holds the machine-readable part: which definition models which
source lines, the runs with their properties, the mutant that breaks each
property, the hazards, the findings and the theorems.

## 1. Inventory

| component | state it keeps | operations | what is hard about it | what makes it correct |
|---|---|---|---|---|
| policy model `policy/models.py`, helpers of `policy/store.py` | none: immutable documents | merge of a change set, state change, renumbering on rollback, DynamoDB item conversion | optional fields left out of the item must come back; the epoch of a restored version | an update touches what it names, is one epoch above the current, and survives storage |
| in-memory store `policy/store.py:104` | current policies, archived versions | create, set_state, apply_change, rollback, list_history | long mixtures of the operations | one archived version per past epoch, never rewritten |
| DynamoDB store `policy/store.py:309` | policy table, history table | the same, as two to four DynamoDB requests each | other tasks between two requests; set_state and rollback write unconditionally; eventually consistent reads; aborted calls | no version lost, no hole in the history, an epoch names one version, a rollback restores a version that existed |
| layered and file stores `policy/store.py:170-234, 456` | a YAML file read at start-up under the provisioned table | get, set_state on the layer that has the tenant | one tenant in two layers | a tenant lives in one layer |
| validation `policy/validation.py` | none | which fields a change may name, and their ranges | numeric edges (booleans, NaN, numbers too large for a step); four ideas of a number between a JSON body and a policy | what is accepted and can be read back can be applied, and is applied as proposed, as far as floats reach |
| change requests `policy/change_requests.py` and the routes `api/admin_routes.py:336-516` | change request table, audit table | propose, approve, reject, rollback, kill switch | three writes per approval, any of which may be the last; approve against reject; approve twice; a lost answer | nothing reported that was not done, an edit applied at most once and on the version its proposer saw |
| policy snapshot cache `policy/cache.py` | per-process snapshots with an age | get, invalidate, expiry | a read that takes time, its age taken after it, and that may be stale itself; eviction on one task only | a process reads again after its own writes; staleness is bounded |
| onboarding `api/onboarding_routes.py`, `onboarding/*.py` | request table, audit table, and the rows provisioning creates | submit, approve (which provisions inline), reject | six calls in one handler; two rows in two tables; races on tenant, principal and request | an active application works, nothing overwritten, nothing provisioned without an approval, requests settle |
| principal resolvers `auth/aws_iam.py` | grants, provisioned over file | resolve, put_grant | one ARN in both layers | a principal belongs to the tenant that was granted |
| audit trail `onboarding/audit.py` | rows keyed by (request_id, timestamp) | record, list | clocks of several tasks; equal timestamps | the outcome of a request is on record |
| JWT verification `auth/jwt_verifier.py` | cached key set with an age | verify, refresh | keys published and retired while a fetch is under way; fetches that fail, or whose keys cannot be read | a published key is never refused as unknown, a retired one expires |
| identity, roles, authorization `auth/identity.py`, `enterprise_groups.py`, `rbac.py`, `auth_pipeline.py`, `authz/decision.py` | none | claims, groups or a principal to an identity, an identity to the gate of a route | claims of several shapes in one token, groups of several tenants, overlapping patterns | a request is only about tenants its caller is entitled to |
| usage `usage/store.py` and its reports | none of its own | read and aggregate | budget thresholds | status agrees with the budget |
| portal `src/portal` | a session cookie | pages and server actions that call the admin API | login exchange | - |
| infrastructure, CI, telemetry, dev keys | - | - | - | - |

How they interact: an admin route authenticates, then calls the layered policy
store, the change-request or onboarding store, the audit store and the cache of
its own process, in that order and each at most a few times. There is no
message queue and no background job; the only shared state is the DynamoDB
tables. Handlers are `async def` with synchronous bodies, so inside one task
they do not interleave; handlers of two tasks do, between any two DynamoDB
requests. A handler has no transaction and no compensation: if its n-th request
raises, the first n-1 have happened and `main.py:212` answers 500.

## 2. Modules

```
PolicyModel                     documents, updates, item conversion (pure)
  |- InMemoryPolicyStore        the store, atomic: also the abstract specification
  |- DynamoDbPolicyStore        the store, one DynamoDB request per step
  |    |- PolicyChangeWorkflow  the admin routes, audit and cache over that store
  |         |- PolicySnapshotCache  the same on a clock: ages and the ttl
  |- ReviewedPolicyStore        abstract: what the review of changes promises
Onboarding                      onboarding routes, provisioning, both layered stores
ProvisioningContract            abstract: what onboarding may do to tenants and grants
JwksVerifier                    the key cache of one task, on a clock
Authorization                   claims, groups, principals, roles, gates (pure)
PolicyValidation                the values of a change, from body to policy (pure)
  \- AdminApi                   all three: a caller, a route, an answer
MC*                             values of the constants for TLC
*_proofs                        theorems and proofs
```

Modules extend each other along the lines above. `DynamoDbPolicyStore` also
instantiates `InMemoryPolicyStore` with a refinement mapping (`Atomic`),
`PolicyChangeWorkflow` the `ReviewedPolicyStore` (`Reviewed`) and `Onboarding` the
`ProvisioningContract` (`Contract`). These three abstract specifications have no tasks, reads or
failures: they are what a caller may count on. `PolicySnapshotCache` implements `PolicyChangeWorkflow`, and `AdminApi` implements
`JwksVerifier`, with the identity as mapping, which the proofs show. No module
declares a RECURSIVE operator.

The two families meet in the routes. `PolicyChangeWorkflow` and `Onboarding` take a
route apart into its DynamoDB requests and let tasks interleave; `AdminApi` takes a
route as one step, keeps who called it and with what, and lets a store's
refusal happen at any time. A property about races belongs to the former, one about
callers and values to the latter.

### PolicyModel

A `TenantPolicy` has a lifecycle state, a `policy_epoch` and about twenty
configuration fields. No store looks inside a field, so the fields are a set
`Fields` of names with values from one set, and the nested leaves
(`slo.p95_latency_ms`) are fields of their own, which is what the merge in
`_apply_field_changes` makes of them. `Stored(p)` is what a `get_item` returns of
a `put_item`: optional fields at their default are dropped and filled in again.

### InMemoryPolicyStore

`policies` and `history` are `_policies` and `_history`; every method is one
action, as it is one synchronous method of one process. A call that raises
leaves everything as it is and is not a step. This is the store a deployment
without tables runs, and the meaning of the `ProvisionedPolicyStore` protocol.

### DynamoDbPolicyStore

`table` and `archived` are the two DynamoDB tables; `call[k]` is the method task
`k` is inside: its locals (`current`, `updated`, the target epoch) and the
request it makes next. `set_state`, `apply_change` and `rollback` are `Begin` (the
`get_item`), `GetTarget` (rollback only), `Archive`, `Put`; `create` is one
conditional put. `Put` checks `policy_epoch = :expected` for `apply_change` alone,
because the code does. `Abort` ends a call between two requests. With
`EventualReads` a `get_item` may return any version the row has had. `versions` is
a history variable: all versions a row has had. So is `raced`: the tenants whose policy a put
without condition replaced when its call had read another one (`Races`). The code keeps
most of its promises tenant by tenant until that happens, and the properties say so.

### PolicyChangeWorkflow

Extends the store with what the routes add: `changeTable`, `audit`, one `cache`
per task, `loading[k]`, the snapshot `policy_cache.get` has read and not stored yet, and
`request[k]`, the handler task `k` is in. `get` is two steps (`ReadSnapshot`,
`StoreSnapshot`) because its read takes time, in which other tasks write; `Idle` says that
the same task does nothing in between: handlers are `async def` with bodies that await
nothing. `SetTenantState`, `RollbackPolicy`, `Propose`, `Approve`, `Reject` are the first
call of a handler; the store's steps run inside it (`StoreStep`, `StoreRaises`,
`PutReturns`); then follow `PutChange` (with the eviction `approve` performs next, in its own
process) and `RecordAudit`. `Fail` is a 500 at any point, `Restart` a task that dies and loses
its cache; `PutReplyLost` and `ChangeReplyLost` are puts of a policy and of a change record
that took effect and whose answer did not arrive (the SDK's retry of a conditional put
then fails its own condition), so that what the handler does next, its eviction
included, is not done. These four end a handler where the code does not (`CutShort`).
`basis`, `applied`, `interrupted` and `unread` (the tenants a task has acknowledged a
write of and not read since) are history variables for the properties.

### ReviewedPolicyStore

What change_requests.py promises, with nothing of how it is done: tenants with a policy
and the versions they had, proposals that never change, and `Write`, which applies a
proposal in one step, once, on top of the very version it was proposed on. `Override` is
the kill switch and rollback replacing what there is, and is there only if such routes are
used. Since the code writes these unconditionally, there is `Race`: once an unconditional
put has overtaken another write, its tenant is `raced`, and what is written of it may be
made of any version it has had. Every other tenant keeps all of the promises. Under the
mapping of `PolicyChangeWorkflow` a change is proposed when its record is first put and written
when the policy table's put takes effect; that the handler may then fail before the
record and the audit event are written is not this specification's subject
(`AppliedIsTrue` and the two findings are about that).

### PolicySnapshotCache

Adds `clock`, `cachedAt` and `loadedAt`: `Hit` is the test of `cache.py:51`, a miss reads the
store and takes up to `LoadTime`, and the age counts from the end of the read, as
line 59 does. The read is the eventually consistent `get_item` of `store.py:364`: it may
return any version the row has had. `lastKnown` is a history variable: when the snapshot a
task holds was last the tenant's policy, or what DynamoDB answered. Nothing in the code
bounds how far such an answer lags behind, so what the cache is answerable for is
what it adds: `MaxStaleness` bounds that by `Ttl + LoadTime`, and `RefetchedAfterOwnWrites` says
that a task reads again after each write it acknowledges. What the code's comments
promise is more, and false: `StaleAtMostTtl` (a policy that has stood for longer than `ttl_s`,
by the history variable `writtenAt`, is what every task serves) is refuted by a run.

### Onboarding

`requestTable`, `policyTable`, `grantTable`, `audit` are the four tables, `handler[k]`
the request a task handles and its next call. One action per DynamoDB call of
`submit`, `approve`, `reject` and `provision`; `Resolve` and `TenantExists` are the
layered stores, provisioned table over a constant file. `ProvisionRaises` is the
`ClientError` `approve` does not catch, `Crash` a task that dies or any other call
that raises. A policy row is represented by the request that asked for it; its
content, and what may happen to it later, is the other modules' subject.

### ProvisioningContract

The docstring of `provisioning.py` as a state machine: an application never changes once it
is submitted; after its approval is on the audit trail its tenant may be created, if no
layer has it, and its principal granted, if that tenant is there and the principal
has no provisioned grant; what is activated has its grant. Nothing is updated or removed.
It says nothing of statuses, of who decides, or of what must happen.

### JwksVerifier

`published` is the provider's key set, which `Rotate` replaces at will; `keys` and
`fetchedAt` are the cache; `fetch` is the HTTP request under way with the answer it
will bring, fixed when it is sent (`Send`). `Verify` looks the kid up or sends the
first request, `FetchReturns` caches and looks again, and repeats once for a kid that
was not found. A fetch may fail (`FetchFails`) or contain a key `from_jwk` refuses
or no kid, or be no JSON object (`FetchUnusable`, a 500: it is raised outside the `try`). `verdict` is how `verify` ended;
the handler takes it up at once (`TakeVerdict`). One `verify` runs at a time, since the
handlers of a task do not interleave.

### Authorization and PolicyValidation

Pure operators, one per function. A token's claims are a record with every claim
either code path reads, the mapping files are constant functions, and the "*"
patterns of the file are a sequence of the principals each matches, in file order.
`MakesIdentity` and `GrantOfClaims` are `identity_from_claims`; the gates are those of
`rbac.py`. In `PolicyValidation` a value is a type and a number counted in fractions of 1
(`One`), a float by the decimal `str()` gives of it: `ValidatePolicyChanges`, `Decimalize`,
`Storable`, `CanBeRead`, `Undecimalize`, `CanBePut` and `ReadBack` follow it from the body to
the change item and to the policy item and back. The numbers at which a step starts to
round or to raise are constants, in their order (`NumbersAssumption`): 10^-130, the smallest
DynamoDB holds; 2^53, up to which every integer is a float; 10^28, from which `value % 1`
raises in `_undecimalize`; 10^38 and 10^126, from which boto3 or DynamoDB refuses an int and
any number. `NearestFloat` is `float()`, of which only that it keeps a float, and an
integer up to 2^53, is assumed. A float's own digits are at most 17 and never the limit.
A field is a name with the kind of check it gets; the leaves of `slo` and
`application_budgets` are fields, and an empty `slo` a value that changes nothing.

### AdminApi

Composes the three. A caller presents a principal (`HandleIam`), a token
(`HandleToken`, when its verification ends) or nothing; `Route` offers every admin and
onboarding route, each with its gate; `answer` keeps the caller, the status, the
tenants the answer is about and the call of `apply_change` it made, and `changeTable`
keeps change requests between callers. `resolver` is what the configuration wires in:
the layered resolver or the remote service, which may answer anything. A change that
cannot be read back (`CanBeGot`) ends `approve`, `reject` and its tenant's list in a 500. What a
caller is entitled to is stated apart from the code's way of deriving it
(`IsAdministrator`, `Manages`): from each of its sources on its own.

## 3. Runs

All runs have `CHECK_DEADLOCK FALSE`: every epoch, change id and request id of an
instance can be used up, and a service with nothing to do is not stuck.

| run | instance | distinct states | shows |
|---|---|---|---|
| `in_memory` | 2 tenants, 2 fields, epochs to 3 | 484 | history complete and append-only, every write a new epoch |
| `store_any` | 2 tasks, all operations, stale reads, aborts, epochs to 3 | 932,383 | every history row was live, no hole below any version, rollbacks restore real versions: these survive the unconditional writes; of a tenant none of them has raced, an epoch names one version, none is lost and no archived row changes |
| `workflow_any` | 2 tasks, all routes, one change, failures everywhere | 1,173,000 (*) | nothing is reported APPLIED or rolled back, by record or audit, that was not written; what was written is reported unless a handler was cut short; an approval only replaces a policy of the epoch its record names, and of a tenant that was not raced exactly the version its proposer saw, once; the endpoints implement `ReviewedPolicyStore` |
| `workflow_approvals` | 2 tasks, 2 tenants, 2 changes, 2 fields, propose/approve/reject/read, stale reads | 94,000 (*) | without unconditional writes: one edit per version, on the version its proposer saw; the tables implement `InMemoryPolicyStore` |
| `workflow_cache` | 2 tasks, 1 change, kill switch, stale reads of up to 2 ticks, ttl 3 | 113,800 (*) | what a task caches it read after the last write it acknowledged; what it serves was the policy, or DynamoDB's answer to a read of it, less than ttl + read time ago |
| `onboarding` | 2 tasks, 2 requests, 5 bodies, crashes | 1,051,212 | reported active means provisioned; provisioning only creates, after a recorded approval, tenant before grant; outcomes are audited; all of it implements `ProvisioningContract` |
| `onboarding_settles` | 2 tasks, 1 request, stale reads, fairness | 19,427 | an approved request gets an outcome unless a call of its handler raised |
| `admin_api` | 3 tenants, 2 kids (one unusable), ttl 3, fetches of up to 2 ticks, 15 kinds of claims, 4 principals, 34 bodies, 1 change | 170,099 | retired keys expire, published ones are found; requests are about tenants their callers are entitled to; accepted edits that can be read can be applied, and read back as proposed as far as floats reach |

(*) about: with both a VIEW and symmetry, which of several equivalent states TLC meets
first, and so their number, varies a little from one execution to the next.

Runs that find a violation, each of a sentence in the repository:

| run | the sentence | what the code does |
|---|---|---|
| `workflow_intervening_write` | `policy/change_requests.py:69-71`: "an approval can never silently apply on top of an intervening, unrelated write" | `set_state` writes unconditionally, so two kill switches that read one version both write the next epoch; a proposal based on the first passes the check on the second, which its proposer never saw |
| `workflow_rejected_yet_applied` | `policy/change_requests.py:12-17`: "approving *is* applying, one atomic DynamoDB write, not a multi-step process that can fail partway through" | policy, change record and audit are three writes; stopping after the first leaves a pending request with a live edit, and it can be rejected |
| `workflow_beyond_ttl` | `policy/cache.py:11-12`: "maximum stale-policy lifetime <= ttl_s"; `api/admin_routes.py:140-142`: "the next request for this tenant refetches immediately instead of serving a stale snapshot" | the refetch is an eventually consistent `get_item`: a task that evicts its snapshot after a kill switch may read the version it has just replaced, and serves that for `ttl_s` from then on |
| `onboarding_left_provisioning` | `onboarding/provisioning.py:45-47`: a ClientError propagates, "same handling" as a conflict (mark FAILED) | `approve` catches only the conflict; the request stays PROVISIONING and no route moves it on |

Other divergences met while modelling, kept here as notes and not as runs:
a number of 10^28 or more is accepted and stored, and `value % 1` then raises in every read
of the change, which stays pending and can be neither approved, rejected nor listed
(`change_requests.py:172` against `validation.py:1-3`, "so a proposer finds out
immediately, not at approval time"; `CanBeGot` in `AdminApi` is that case);
`provision` never asks the layered resolver, so an ARN of the file gets a grant that shadows
it (`provisioning.py:79` against `auth/aws_iam.py:266-268`, "can only ever be mapped in one
layer"); `cached_at` is taken after the read, so a policy replaced during the read is
served for `ttl_s` and the rest of it, even if reads were consistent (`cache.py:59`);
`rollback` writes one above an epoch it read earlier and can move a tenant's
epoch down (`policy/store.py:433` against 75-77 "never backward"); `_archive` replaces a
history row when an epoch was used twice (`store.py:343` against
`admin_routes.py:485-486`); a call that stops after archiving leaves the current epoch
in the history, and a rollback to it succeeds (`models.py:139-141`); a request for a `tenant_id` that
exists does not fail outright but gets its grant (`provisioning.py:10-14` against 57-64);
a key set with one key `from_jwk` refuses, or without a kid, makes every `verify` that refreshes raise a bare
exception, a 500 (`jwt_verifier.py:71` against 14-16); the kill switch writes no audit
event (`admin_routes.py:117-153` against `validation.py:22-24`, "its own dedicated, audited
path"); a kill switch on a tenant of the file changes one task's copy until that task
restarts (`policy/store.py:233` against the portal's "take effect immediately",
`portal/app/(app)/tenants/page.tsx:18`); a rollback restores the lifecycle state along with
the fields and can lift a kill switch (`store.py:431`).

### Bounds

The constants are sets; a run gives them the smallest values at which its
question is interesting.

* Two tasks suffice for every race between two handlers, which is what all the
  properties are about. The infrastructure runs one to three.
* `MaxEpoch` is the one counter bound: no write starts from a policy at that epoch.
  Three epochs allow a write, a write over it and a rollback to either.
* One tenant in the runs of every use, as no operation touches two; two in
  `in_memory`, `workflow_approvals` and `onboarding`, where they can be confused.
* Two fields, one always stored and one left out at its default: the item
  conversion tells no other kinds apart.
* `onboarding`: two tenants and two ARNs, one of each in the file; the five bodies
  collide on tenant, on ARN, with either file, ask for OAuth, or lack the ARN.
  It uses consistent reads, `onboarding_settles` stale ones with one request; both
  together exceed what a short run can explore. The theorems cover all of it.
* `workflow_approvals` has two fields and two changes, each of one field or the other, so that
  two edits of one version differ. It allows epochs to 4, which two edits do not reach:
  there the bound cuts nothing off.
* `workflow_any` and `workflow_approvals` use a VIEW without `cache` and `unread`: no guard
  reads either, and no property of these runs but the type invariant does (in
  `workflow_any` nothing is ever cached). `workflow_cache` keeps `cache`. For the same reason
  `workflow_approvals` leaves out `audit` and `interrupted`, which `workflow_any` keeps.
* `workflow_any` has one change and one tenant. That more do not matter to what it checks is
  `WorkflowIsReviewed` and the other theorems; what two edits of one version, or two tenants,
  could do to each other, `OneEditPerVersion` and `AppliedOnItsBasis`, is checked in
  `workflow_approvals`.
* `workflow_beyond_ttl` has one task and reads that take no time, so that neither another task's
  write nor a slow read, but only a stale answer to the task's own refetch, can refute the
  property; its ttl is long (10) against the 2 ticks by which the answer lags.
* The clocks of `workflow_cache` and `admin_api` are bounded by a `MaxClock` that is never
  reached: their VIEWs tell states apart by the ages a decision can depend on, which
  the ttl bounds, so that the runs are exhaustive for every length of time.
* `admin_api` leaves `answer` out of its VIEW, as no step depends on it. The two
  properties about answers are action properties, which TLC checks on every
  transition, whether or not its target is a new state. The bodies hold every JSON
  type, 0, halves, 1, 2, and a number on each side of every limit of `PolicyValidation`, as an
  int and as a float where both are accepted; the limits are scaled down (1 is 4, 10^126
  is 64), and only their order matters to the definitions. The claims hold every shape
  the code tells apart, and the mixtures of two; the three tenants are provisioned,
  provisioned, and of the file.
* Symmetry (tasks, change and request ids) is used for safety runs only: these
  values are interchangeable and no constant names one.

### Fairness

Only `Onboarding` states fairness: `WF_vars(Handle(k))` for every task. A handler is a
synchronous body: once it has made a call it makes the next one, unless that
raises or the task dies, and both are actions (`ProvisionRaises`, `Crash`) that fairness
does not forbid; they end the handler and mark the request `interrupted`. Nothing
is assumed of admins: no request need ever be submitted or decided.
`onboarding_settles` keeps `ProvisionRaises` and switches `Crash` off to stay small.

## 4. Proofs

`tlapm` checks every theorem for all values of the constants satisfying the
assumptions of the modules: `PolicyModelAssumption` and `InputAssumption` (defaults and
inputs have their types), `StoreAssumption` (two flags are Booleans),
`WorkflowAssumption` and `OnboardingAssumption` (types of the files, and that "no row" is
not a row), `CacheAssumption` and `JwksAssumption` (durations are numbers),
`AuthorizationAssumption`, `ValidationAssumption` and `AdminApiAssumption` (types of the mapping
files, the kinds of fields and the inputs, what `float()` keeps, and that "absent" is neither
a tenant nor a grant), and `NumbersAssumption` (the order of the numeric limits).

* `PolicyModel_proofs`: `StoredIsIdentity`, what is written is what is read, whichever
  fields were left out; and that the updates make policies.
* `InMemoryPolicyStore_proofs`: type correctness, `HistoryComplete` (inductive with
  `TypeOK`; a step is a creation or a `Replace` one epoch up, `StepIsAWrite`),
  `HistoryAppendOnly` and `EveryWriteIsANewEpoch` from it.
* `DynamoDbPolicyStore_proofs`, first for every use. None of the properties is inductive
  alone: that a row archived is a version needs that the call holding it started
  from a version; that no epoch is missing needs that a call archived its epoch
  before it puts. `AnyUse` adds these (`TableIsAVersion`, `CallStartsFromAVersion`), is proved step
  by step, and yields `StoreTyping`, `HistoryWasLive`, `NoGapInHistory`, `RollbacksRestore`.
  Then `OneVersion`, of every tenant that is not raced: the table holds the newest version, no
  call can write over a version it did not start from, and a call about to put has
  archived what it replaces. It yields, with no hypothesis on the use of the store,
  `EpochIsAVersion`, `NoVersionIsLost` and `ArchivedRowsStay` (an archive request finds its own
  version's row or none: `RowsStay`). Whatever kill switches and rollbacks do to one
  tenant, they take nothing from another. `DisciplineRacesNone` says where no tenant is ever
  raced: if all operations are conditional, or if one task does all the writing and reads
  its own writes (`Disciplined`). The second disjunct says when the unconditional `set_state`
  and `rollback` are safe. `workflow_approvals` is an instance of the first.
* `DynamoDbRefinement_proofs`: with a history table and as long as no put races
  (`Spec /\ []NoRaces`; the atomic store has no lost updates), `StoreIsAtomic`: the store
  implements `InMemoryPolicyStore`. `CallsCarryUpdates` says a call in progress carries
  the update its method computed, and a rollback the version of its target epoch; then
  a creation maps to `Atomic!Create`, a put to `Atomic!SetState`, `Atomic!ApplyChange` or
  `Atomic!Rollback` with the archive it did earlier, and every other request stutters. An
  archive stutters because the version it adds is the current one, which the mapping
  hides, or is there already. One rollback is none in the atomic store, which refuses
  it: an aborted call leaves the current version in the history table, and a rollback to
  the current epoch then finds it. What that writes is the current version once more, one
  epoch up, which is what setting its own state would write. So rollbacks are
  covered if every state may be set (`AnyStateMayBeSet`, as the route allows), and the
  theorem asks for that or for `NoRollback`. The hypothesis is needed: with one task and a
  kill switch that only knows EMERGENCY_BLOCK, TLC finds the rollback that is no step of
  the atomic store; with all five states it finds none (epochs to 4).
* `PolicyChangeWorkflow_proofs`: `WorkflowInv` says of a handler in progress (`SoundRequest`) that
  the record it carries came from `propose` and that, once it is to report APPLIED, the
  edit has been written; it survives the other handlers because an edit once written
  stays written. `StepUsesStore` shows that every step of the endpoints is a step of the
  store or leaves it alone, so `AnyUse` is preserved by citing `AnyUseStep`. It yields
  `WorkflowTyping`, `ReportsAreTrue`, `RollbackReportsAreTrue` (a handler about to report a
  rollback has written the version it names) and `WorkflowUsesStore` (`WorkflowSpec => Spec`),
  which carries the store's theorems over: `WorkflowHistoryHasNoGap`,
  `WorkflowHistoryIsComplete`, `WorkflowRacesNone` and, while nothing races, `WorkflowStoreIsAtomic`.
  Stale reads are included here, where `workflow_any` is too large with them.
  Two more results hold of every use. `EditsStayOnTheirEpoch`: what is left of "never on top
  of an intervening write" when there are unconditional writes is the epoch. Its invariant
  is `ApprovalCalls`: a store call inside an approval is conditional on the epoch its record
  names and carries that record's edit of that version. `EditsAreReported`: `ReportInv` says that an
  edit once written is reported, or some handler has its report ahead (`WillReport`), or one
  was cut short. That no step undoes a report needs `ProposedFirst`: a record is put as
  pending only where there is none, by the one handler then about that change.
  Then `EditInv`, also of every use: all records of a change, stored or carried, agree on
  tenant, edit and version (`RecordsAgree`, `RecordsOnBasis`; `RecordsOf` collects them), an approval
  in progress is of a stored change (`ApprovalsOfStored`), and a tenant that is not raced and
  one of whose edits was written has left the version that edit was based on
  (`AppliedMovedOn`). With `ApprovalCalls` and `OneVersion` the epoch identifies the version, so a put
  of such a tenant replaces exactly the proposer's (`WrittenOnItsBasis`); no earlier edit can
  have had the same basis, as its tenant would have moved on. A tenant stays raced for good,
  which is why each of these may let go of it. This yields `EditsApplyOnce`,
  `OneEditOfAVersion` and `OnlyRacesMoveTheBasis`; `EditsStayOnTheirBasis` is the last of these while
  nothing races, which is what the docstring promises of all use and
  `workflow_intervening_write` refutes.
  With these, `WorkflowIsReviewed`: every step of the endpoints is a step of
  `ReviewedPolicyStore` or stutters. The first put of a record is its `Propose`; later puts of
  the record change only the status, which a proposal does not have. A put of the policy
  table is a `Write` if it is an approval's, an `Override` if it is not and replaces what its
  call read, and a `Race` if its tenant is raced by then (`WrittenIsWrite`,
  `WrittenIsOverride`, `WrittenIsRace`). Last, `LoadsAreFresh` (a task
  that loads handles nothing, and what it loads it read after its own writes) adds
  `TasksRefetchAfterTheirWrites`, and `CacheImplementsWorkflow` carries that to the clock
  (`CachedSnapshotsAreRefetched`). Neither assumes anything of the reads.
* `PolicySnapshotCache_proofs`: a step of the cache on a clock is a step of the untimed
  endpoints or leaves them alone (`CacheImplementsWorkflow`), so that their results are
  cited and not proved again (`CacheIsReviewed`). For `StalenessIsBounded`, stale reads included, `CacheInv` adds
  that a snapshot being read was last known no earlier than the store returned it, that it
  is cached at most `LoadTime` later, and that one that is still served was known at most
  `LoadTime` before `cachedAt`; a write by any task only stops `lastKnown` from advancing.
* `AdminApi_proofs`: `JwksInv` says when each key in the cache, in a fetch or in a verdict
  was last published, and that the cache's keys were all published no earlier than
  `FetchTime` before `fetchedAt`; it yields `RetiredKeys` and `UnknownKeys` of `JwksSpec`, and
  `AdminUsesVerifier` carries them to the API. `RequestsAreIsolated` needs no invariant: every
  identity is shown to be vouched for (`Vouched`) by one of its caller's sources, and every
  route to answer about tenants such an identity may manage (`RoutesAreIsolated`).
  `PendingChangesCanBeApplied` and `EditsAreProposals` rest on `AdminInv`: the record of a change is
  the conversion of the body it was proposed with, which was valid and storable; that
  valid values survive the conversions is `AcceptedValues`, by the kinds of fields, the order
  of the limits (`NumbersAssumption`) and, of `float()`, only that it keeps floats and integers
  up to 2^53. The first says what is left of the docstring's promise once a change that
  cannot be read is set aside; section 3 notes it as a divergence.
* `Onboarding_proofs`: `OnboardingInv` states what a handler may count on before each of its
  calls (`HandlerKnows`: the approval is on record, the tenant exists, the grant is
  there). It survives the other tasks because rows are only created and the
  identity of a request never changes (`Keeps`, `KnowledgeStays`). It yields type correctness,
  `ActiveApplicationsWork`, `GrantsHaveTenants`, `TenantsHaveOneLayer`, `NothingUnapproved` and
  `ProvisioningOnlyCreates`. `AllAccounted` adds that the status of a request is on the audit trail or
  some handler has it ahead (`Ahead`), the last one to put a status when several decide;
  it yields `OutcomesAreAudited`, and `HalfwayRequestsAreHandled`: a request that is APPROVED or
  PROVISIONING, and was not cut short, has a handler with its outcome ahead.
  `HandlersComeToAnEnd` counts the calls a handler has left (`CallsLeft`, at most eight): each of its
  calls lowers that number and no step of another task raises it. Together they are what
  `ApprovalSettles` rests on; what is left of it to TLC is that the next call is always possible
  and, by fairness, made. From `OnboardingInv` alone follows `OnboardingKeepsContract`: each
  step is one of `ProvisioningContract`, mapped by the tables and by the events on the trail, or
  a stutter (`StepKeepsContract`). What a handler knows is what makes its conditional put the
  contract's step: `CreateIsCreate` and `GrantIsGrant` need the approval on record
  (`ProvisionerMay`), and the latter the tenant.

Every invariant, action property and refinement the passing runs check is proved. Only
model-checked: `ApprovalSettles`, which cannot be proved with these tools: liveness
under fairness and ENABLED are out of the prover's reach, as are induction over data
(no backend instantiates the library's induction theorems) and any module with a
RECURSIVE operator; none of the theorems needs the latter two.

## 5. Abstractions

* A stale read returns any earlier version of the row; two versions that shared
  an epoch in the history table are not told apart by a stale read of it
  (`GetTarget` reads the row as it is, or finds none).
* The SDK's retry of an unconditional put is taken to happen, if at all, before
  the handler goes on; a retry delayed past other tasks' writes, which would put an older
  policy or change record back, is not modelled.
* `base_policy_epoch` comes from a version the proposer saw: the route accepts any
  integer, and one that names no version is a conflict until it names one.
* Timestamps, names and reasons are left out; the audit trail is a set of events.
  Rows are keyed by time, so two events of one request recorded in the same
  microsecond by two tasks would overwrite one another; the set does not show that.
* An onboarding application is identified with its request; there the file resolver
  is its exact entries. Its wildcards are in `Authorization`.
* Authentication comes before every handler and changes no table: `PolicyChangeWorkflow` and
  `Onboarding` leave it to `AdminApi`.
* A kid names one key for ever, and a signature that verifies is made with that key;
  what else the library checks of a token may fail at any time (`Decode`).
* Schema errors (422) come before a handler and are not modelled; `base_policy_epoch` is
  left to `PolicyChangeWorkflow`.
* Of a number only what its size decides is kept. How DynamoDB rounds is left out, since it
  raises instead (boto3 traps inexact numbers); an integer of more than 38 digits is refused
  even where its last digits are zeros. Numbers of `base_policy_epoch` are epochs.
* How far an eventually consistent read lags behind is bounded by nothing in the code or the
  models: a stale read may return any version the row has had.
* With the in-memory change store, where nothing is converted, a NaN budget would be
  accepted and stored; the models are of the DynamoDB deployment, where it is a 500.

Not modelled, with the reason, in `PROJECT.json` "components": signature checking (a
library's) and `StaticKeyVerifier` (no state); the clocks behind the order of audit rows;
the kill switch on a tenant of the file (one process's memory); the arithmetic of the
usage reports; schemas, configuration, logging, telemetry, portal pages, Terraform, CI.

## 6. Plan

Done, in this order: PolicyModel, InMemoryPolicyStore, DynamoDbPolicyStore, their
proofs, PolicyChangeWorkflow, Onboarding and their proofs; then PolicySnapshotCache,
JwksVerifier, Authorization, PolicyValidation and AdminApi with theirs.

What is left, in the order it would pay:

1. Audit trails with clocks: rows keyed by the recording task's time, so that two
   events of one request may be listed out of order (`audit.py:62`).
2. The kill switch on a tenant of the file, kept in one process's memory
   (`policy/store.py:233`): the tasks disagree until they restart.
3. A run of `DynamoDbPolicyStore` for the second disjunct of `Disciplined` (one writer, all
   operations), which so far only `DisciplineRacesNone` covers.
