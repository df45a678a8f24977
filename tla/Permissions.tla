------------------------------ MODULE Permissions ------------------------------
(***************************************************************************)
(* The risk policy of permissions.py: a table from actions to risk levels, *)
(* and the verdict of an autonomy level on an action.  Only the actions    *)
(* that some module of the agent core passes to the policy, and one        *)
(* representative of the high and the blocked levels, are listed; an       *)
(* action of no list has risk "medium".                                    *)
(***************************************************************************)
EXTENDS Naturals

Autonomy == {"locked", "supervised", "autonomous_local"}

\* _ACTIONS, in the order in which the dictionary is searched: the first level
\* that lists an action is its risk, so "coding.steer_session" is low.
RiskTable ==
  << [risk |-> "low",     actions |-> {"coding.status", "coding.steer_session"}],
     [risk |-> "medium",  actions |-> {"coding.status", "coding.steer_session", "coding.start_task"}],
     [risk |-> "high",    actions |-> {"coding.execute_unsafe"}],
     [risk |-> "blocked", actions |-> {"sudo.execute"}] >>

ActionRisk(action) ==
  LET levels == {i \in 1..4 : action \in RiskTable[i].actions}
  IN  IF levels = {} THEN "medium"
      ELSE RiskTable[CHOOSE i \in levels : \A k \in levels : i <= k].risk

RequiresApproval(autonomy, action) ==
  \/ ActionRisk(action) = "blocked"
  \/ autonomy = "locked"
  \/ autonomy = "supervised" /\ ActionRisk(action) \in {"medium", "high"}
  \/ ActionRisk(action) = "high"

\* assert_allowed
Verdict(autonomy, action) ==
  IF ActionRisk(action) = "blocked" THEN "blocked"
  ELSE IF RequiresApproval(autonomy, action) THEN "approval_required"
  ELSE "allowed"

=============================================================================
