------------------------- MODULE ReviewedPolicyStore -------------------------
(***************************************************************************)
(* What the review of policy changes promises: a change request is made    *)
(* once, about one version of one tenant's policy, and its edit is written *)
(* once or never, in one atomic write, on top of that very version         *)
(* (policy/change_requests.py: "approving *is* applying, one atomic        *)
(* DynamoDB write", with base_policy_epoch against an intervening write).  *)
(*                                                                         *)
(* Policies may also be written without a review (the kill switch, rollback), *)
(* and while such writes replace what they read nothing changes for the    *)
(* others.  One that overtakes another write does away with these promises *)
(* for its tenant - and for no other.                                      *)
(*                                                                         *)
(* There are no tasks, requests, stale reads, lost answers or crashes:     *)
(* PolicyChangeWorkflow has them, and is compared with this.               *)
(***************************************************************************)
EXTENDS PolicyModel

CONSTANTS
    ChangeIds,      \* change_ids
    NoChange,       \* no such change request
    Overrides       \* are policies also written without a review (kill switch, rollback)?

VARIABLES
    policies,       \* tenant_id -> its current policy
    versions,       \* tenant_id -> the policies it has had
    proposals,      \* change_id -> the edit proposed, with the version it was proposed on
    written,        \* the change_ids whose edit took effect
    raced           \* the tenants of whom nothing is promised any more

vars == <<policies, versions, proposals, written, raced>>

Init ==
    /\ policies = [t \in Tenants |-> NoPolicy]
    /\ versions = [t \in Tenants |-> {}]
    /\ proposals = [c \in ChangeIds |-> NoChange]
    /\ written = {}
    /\ raced = {}

Becomes(t, policy) ==
    /\ policies' = [policies EXCEPT ![t] = policy]
    /\ versions' = [versions EXCEPT ![t] = @ \cup {policy}]

Create(t, config) ==
    /\ policies[t] = NoPolicy
    /\ Becomes(t, NewPolicy(config))
    /\ UNCHANGED <<proposals, written, raced>>

(* A change request never changes once it is made. *)
Propose(c, t) ==
    /\ proposals[c] = NoChange
    /\ \E changes \in ChangeInputs, seen \in versions[t] :
          proposals' = [proposals EXCEPT ![c] = [tenant |-> t, changes |-> changes, seen |-> seen]]
    /\ UNCHANGED <<policies, versions, written, raced>>

(* Its edit is written on top of the version it was proposed on, once. *)
Write(c) ==
    /\ proposals[c] # NoChange
    /\ c \notin written
    /\ policies[proposals[c].tenant] = proposals[c].seen
    /\ Becomes(proposals[c].tenant, ApplyFieldChanges(proposals[c].seen, proposals[c].changes))
    /\ written' = written \cup {c}
    /\ UNCHANGED <<proposals, raced>>

(* What the kill switch and a rollback make of a version. *)
Unreviewed(t, current) ==
    {WithState(current, state) : state \in StateInputs}
        \cup {Restored(target, current) : target \in versions[t]}

Override(t) ==
    /\ Overrides
    /\ policies[t] # NoPolicy
    /\ \E policy \in Unreviewed(t, policies[t]) : Becomes(t, policy)
    /\ UNCHANGED <<proposals, written, raced>>

(* Once a tenant is raced, what is written is made of any version it has    *)
(* had, and an edit of a change, written before or not, goes on top of any. *)
Race(t) ==
    /\ Overrides
    /\ raced' = raced \cup {t}
    /\ UNCHANGED proposals
    /\ \E current \in versions[t] :
          \/ /\ \E policy \in Unreviewed(t, current) : Becomes(t, policy)
             /\ UNCHANGED written
          \/ \E c \in ChangeIds :
                /\ proposals[c] # NoChange
                /\ proposals[c].tenant = t
                /\ Becomes(t, ApplyFieldChanges(current, proposals[c].changes))
                /\ written' = written \cup {c}

Next ==
    \/ \E t \in Tenants, config \in NewConfigs : Create(t, config)
    \/ \E c \in ChangeIds, t \in Tenants : Propose(c, t)
    \/ \E c \in ChangeIds : Write(c)
    \/ \E t \in Tenants : Override(t) \/ Race(t)

(* The guard changes no behaviour: it spares TLC a Next of each stutter. *)
Spec == Init /\ [][vars' # vars /\ Next]_vars
=============================================================================
