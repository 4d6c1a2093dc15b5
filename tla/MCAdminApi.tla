----------------------------- MODULE MCAdminApi ------------------------------
(* Values of the constants for the run of AdminApi. *)
EXTENDS AdminApi, TLC

Grant(t, a, roles) == [tenant_id |-> t, application_id |-> a, roles |-> roles]

(* One group per tenant, one that gives an application of its own, one for  *)
(* administrators; and a group no line of the file names.                  *)
MCGroupGrants ==
    [g \in {"managers1", "developers1", "developers2", "portal1", "admins1"} |->
        CASE g = "managers1"   -> Grant("t1", "a1", {"manager"})
          [] g = "developers1" -> Grant("t1", "a1", {"developer"})
          [] g = "developers2" -> Grant("t2", "a1", {"developer"})
          [] g = "portal1"     -> Grant("t1", "a2", {"manager"})
          [] g = "admins1"     -> Grant("t1", "a1", {"platform_admin"})]

(* p1 is mapped by the table and by the file, p2 by its ARN and a pattern,  *)
(* p3 by two patterns, p4 by nothing.                                      *)
MCProvisionedGrants == [p \in {"p1"} |-> Grant("t2", "a1", {"manager"})]
MCExactGrants ==
    [p \in {"p1", "p2"} |-> IF p = "p1" THEN Grant("t1", "a1", {"developer"})
                                        ELSE Grant("t1", "a1", {"platform_admin"})]
MCPrefixGrants ==
    <<[principals |-> {"p2", "p3"}, grant |-> Grant("t2", "a1", {"manager"})],
      [principals |-> {"p3"}, grant |-> Grant("t1", "a2", {"developer"})]>>

MCServiceGrants == {Absent, Grant("t2", "a1", {"manager"})}

NoClaims == [sub |-> "user", tenant_id |-> Absent, custom_tenant_id |-> Absent,
             application_id |-> Absent, custom_application_id |-> Absent,
             roles |-> Absent, cognito_groups |-> Absent, groups |-> {}]
Plain(t, roles) == [NoClaims EXCEPT !.tenant_id = t, !.application_id = "a1", !.roles = roles]
Cognito(t, roles) == [NoClaims EXCEPT !.custom_tenant_id = t, !.custom_application_id = "a1",
                                      !.cognito_groups = roles]
InGroups(groups) == [NoClaims EXCEPT !.groups = groups]

MCClaimInputs ==
    {Plain("t1", {"manager"}), Plain("t1", {"platform_admin"}), Plain("t2", Malformed),
     [Plain("t1", {"developer"}) EXCEPT !.sub = Absent],
     [Plain("t1", {}) EXCEPT !.application_id = Absent],
     [Plain("t1", {"developer"}) EXCEPT !.cognito_groups = {"platform_admin"}],
     [Plain("t1", {"developer"}) EXCEPT !.groups = {"admins1"}],
     Cognito("t2", {"manager"}),
     [Cognito("t2", {"manager"}) EXCEPT !.tenant_id = "t1", !.application_id = "a1"],
     [InGroups({"developers1"}) EXCEPT !.roles = {"platform_admin"}],
     InGroups({"managers1", "nobodys"}), InGroups({"nobodys"}),
     InGroups({"managers1", "developers2"}), InGroups({"managers1", "portal1"}),
     InGroups({"developers1", "admins1"})}

MCKindOf ==
    [f \in {"rpm_limit", "monthly_budget", "soft_threshold", "debug", "route_set",
            "priority_class", "models", "slo", "state"} |->
        CASE f = "rpm_limit"      -> "count"
          [] f = "monthly_budget" -> "amount"
          [] f = "soft_threshold" -> "fraction"
          [] f = "debug"          -> "flag"
          [] f = "route_set"      -> "name"
          [] f = "priority_class" -> "word"
          [] f = "models"         -> "texts"
          [] f = "slo"            -> "group"
          [] f = "state"          -> "refused"]

(* The scale of a number: 1 is 4, the smallest stored number 2, 2^53 is 16,  *)
(* 10^28 is 32, 10^38 is 48 and 10^126 is 64.  Above 2^53 every other       *)
(* integer is a float.                                                     *)
MCNearestFloat(n) == IF n <= FloatLimit THEN n ELSE n - (n % 8)

Json(type, value) == [type |-> type, value |-> value]
Body(f, v) == [g \in {f} |-> v]

(* Every type a field may meet; each number at which a step begins to       *)
(* refuse, and one it still takes: 0, too small to store, 1/2, 3/4, 1, 3/2  *)
(* and 2; the last exact float, an int that is rounded, the last number     *)
(* that can be read, the first that cannot, as an int and as a float; an int *)
(* of too many digits, and a float too large.                              *)
MCBodyInputs ==
    {[f \in {} |-> Json("null", 0)], Body("state", Json("text", 1)),
     Body("owner", Json("text", 1)),
     Body("rpm_limit", Json("int", 0)), Body("rpm_limit", Json("int", 4)),
     Body("rpm_limit", Json("bool", 4)), Body("rpm_limit", Json("float", 6)),
     Body("rpm_limit", Json("int", 20)), Body("rpm_limit", Json("int", 32)),
     Body("rpm_limit", Json("int", 48)),
     Body("monthly_budget", Json("float", 1)), Body("monthly_budget", Json("float", 2)),
     Body("monthly_budget", Json("float", 8)), Body("monthly_budget", Json("int", 16)),
     Body("monthly_budget", Json("int", 20)), Body("monthly_budget", Json("int", 28)),
     Body("monthly_budget", Json("int", 44)), Body("monthly_budget", Json("float", 56)),
     Body("monthly_budget", Json("int", 48)), Body("monthly_budget", Json("float", 64)),
     Body("monthly_budget", Json("nan", 0)), Body("monthly_budget", Json("infinity", 0)),
     Body("monthly_budget", Json("null", 0)),
     Body("soft_threshold", Json("int", 4)), Body("soft_threshold", Json("float", 3)),
     Body("soft_threshold", Json("nan", 0)),
     Body("debug", Json("bool", 4)), Body("route_set", Json("text", 0)),
     Body("priority_class", Json("text", 2)), Body("priority_class", Json("text", 1)),
     Body("models", Json("list", 0)), Body("models", Json("list", 1)),
     Body("slo", Json("object", 0)),
     [f \in {"rpm_limit", "monthly_budget"} |-> Json("int", 8)]}

(* States are told apart by ages, and not by the answer: nothing depends on  *)
(* it, and the properties about it are checked on every transition.  A stale *)
(* cache is as good as an empty one.                                        *)
Keys == IF Stale THEN {} ELSE keys
Answered == IF fetch = Nothing THEN {} ELSE fetch.answer
Accepted == IF verdict = Nothing THEN {} ELSE {verdict.kid}
ByAge ==
    <<published, Keys, IF Stale THEN 0 ELSE clock - fetchedAt,
      IF fetch = Nothing THEN Nothing ELSE [fetch EXCEPT !.sentAt = clock - @], verdict,
      [i \in Kids |-> IF i \in Keys \cup Answered \cup Accepted THEN clock - lastPublished[i] ELSE 0],
      resolver, changeTable, asked>>
=============================================================================
