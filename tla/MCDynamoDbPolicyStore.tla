------------------------ MODULE MCDynamoDbPolicyStore ------------------------
(* Values of the constants for the runs of DynamoDbPolicyStore. *)
EXTENDS DynamoDbPolicyStore, TLC

MCDefault == [f \in Fields |-> "unset"]
MCNewConfigs == {MCDefault}
MCChangeInputs == {[f \in {"budget"} |-> "set"], [f \in {"rpm"} |-> "set"]}
OneChange == {[f \in {"budget"} |-> "set"]}

TaskSymmetry == Permutations(Tasks)
=============================================================================
