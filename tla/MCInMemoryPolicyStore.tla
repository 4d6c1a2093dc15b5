------------------------ MODULE MCInMemoryPolicyStore ------------------------
(* Values of the constants for the run of InMemoryPolicyStore. *)
EXTENDS InMemoryPolicyStore

MCDefault == [f \in Fields |-> "unset"]
MCNewConfigs == {MCDefault}
MCChangeInputs == {[f \in {"budget"} |-> "set"], [f \in {"budget", "rpm"} |-> "unset"],
                   [f \in {"rpm"} |-> "set"]}
=============================================================================
