------------------------ MODULE MCPolicySnapshotCache ------------------------
(* Values of the constants for the run of PolicySnapshotCache. *)
EXTENDS PolicySnapshotCache, TLC

MCDefault == [f \in Fields |-> "unset"]
MCNewConfigs == {MCDefault}
MCChangeInputs == {[f \in {"budget"} |-> "set"]}

Symmetry == Permutations(Tasks) \cup Permutations(ChangeIds)

(* States are told apart by the ages of what a task can still serve or is   *)
(* about to cache, not by the clock: the ages are bounded by Ttl and        *)
(* LoadTime, so the run is exhaustive although the clock is not cut short. *)
(* audit, basis, applied, interrupted and writtenAt, which guard no step and *)
(* no property of that run reads but for their types, are left out.        *)
Age(live, instant) == IF live THEN clock - instant ELSE 0
Ages == [k \in Tasks |-> [t \in Tenants |->
            <<Hit(k, t),
              Age(Hit(k, t), cachedAt[k][t]),
              Age(loading[k] # NoPolicy, loadedAt[k]),
              Age(Hit(k, t) \/ Loading(k, t), lastKnown[k][t])>>]]
ByAge == <<storeVars, request, changeTable, cache, loading, unread, Ages>>
=============================================================================
