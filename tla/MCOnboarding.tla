---------------------------- MODULE MCOnboarding ----------------------------
(* Values of the constants for the runs of Onboarding: one tenant and one   *)
(* principal of the files, one of each that only onboarding knows.         *)
EXTENDS Onboarding, TLC

CONSTANTS t1, t2, a1, a2, c0

MCFileTenants == {t2}
Body(t, auth_type, arn) == [tenant |-> t, auth_type |-> auth_type, principal_arn |-> arn]
MCApplications == {Body(t1, "iam", a1), Body(t1, "iam", a2), Body(t2, "iam", a1),
                   Body(t1, "oauth", None), Body(t1, "iam", None)}

MCFileGrants == [a \in {a2} |-> [tenant |-> t2, application |-> c0]]

Symmetry == Permutations(Tasks) \cup Permutations(RequestIds)
=============================================================================
