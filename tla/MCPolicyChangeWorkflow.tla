----------------------- MODULE MCPolicyChangeWorkflow -----------------------
(* Values of the constants for the runs of PolicyChangeWorkflow. *)
EXTENDS PolicyChangeWorkflow, TLC

MCDefault == [f \in Fields |-> "unset"]
MCNewConfigs == {MCDefault}
MCChangeInputs == {[f \in {"budget"} |-> "set"]}

TaskSymmetry == Permutations(Tasks)
Symmetry == Permutations(Tasks) \cup Permutations(ChangeIds) \cup Permutations(Tenants)

(* One field or the other: two edits of one version are told apart. *)
MCEitherChange == {[f \in {g} |-> "set"] : g \in Fields}

(* cache and unread guard no step, and but for their types no property of   *)
(* these runs reads them: states need not be told apart by them.           *)
(* PolicySnapshotCache is where they matter.                               *)
WithoutCaches == <<storeVars, request, changeVars, loading>>

(* Nor by audit and interrupted, where no property is about reports. *)
WithoutReports == <<storeVars, request, changeTable, basis, applied, loading>>
=============================================================================
