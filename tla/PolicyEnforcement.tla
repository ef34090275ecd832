-------------------------- MODULE PolicyEnforcement --------------------------
(***************************************************************************)
(* From a policy verdict to the plan a runner can enforce                  *)
(* (govengine/policy/enforcement.py): obligations and constraints become   *)
(* runtime controls, anything unsupported or malformed blocks the plan.    *)
(***************************************************************************)
EXTENDS PolicyEngine

SupportedObligations == {"receipt", "receipt_required", "output_digest_required"}

LimitKinds == {"timeout", "max_steps", "output_limit"}
NumberTypes(kind) == IF kind = "timeout" THEN {"int", "float"} ELSE {"int"}
SwitchKinds == {"receipt_required", "read_only_required", "no_raw_shell",
                "mutation_requires_approval"}
AllowlistKinds == {"allowed_network_egress", "allowed_backend_classes"}

(* The constraints project_runtime_controls accepts: a positive limit, a  *)
(* switch that is True, a Boolean output_digest_required, a non-empty     *)
(* allowlist.                                                             *)
ProjectableConstraint(c) ==
  \/ c.kind \in LimitKinds /\ c.value.type \in NumberTypes(c.kind) /\ c.value.num > 0
  \/ c.kind \in SwitchKinds /\ c.value.type = "bool" /\ c.value.truth
  \/ c.kind = "output_digest_required" /\ c.value.type = "bool"
  \/ /\ c.kind \in AllowlistKinds /\ c.value.type = "list" /\ c.value.items # <<>>
     /\ \A i \in DOMAIN c.value.items : c.value.items[i].type = "str"

Projectable(verdict) ==
  /\ \A i \in DOMAIN verdict.obligations : verdict.obligations[i].kind \in SupportedObligations
  /\ \A i \in DOMAIN verdict.constraints : ProjectableConstraint(verdict.constraints[i])

ConstraintValues(verdict, kind) ==
  {verdict.constraints[i].value :
     i \in {j \in DOMAIN verdict.constraints : verdict.constraints[j].kind = kind}}

(* A plausible regression: the last repeated limit wins. *)
SmallestPositive_Largest(values) ==
  IF values = {} THEN 0 ELSE (CHOOSE v \in values : \A w \in values : v.num >= w.num).num

(* _minimum_positive_int and _minimum_positive_float; 0 is "no limit". *)
SmallestPositive(values) ==
  IF values = {} THEN 0 ELSE (CHOOSE v \in values : \A w \in values : v.num <= w.num).num

Allowlist(verdict, kind) ==
  UNION {{v.items[i] : i \in DOMAIN v.items} : v \in ConstraintValues(verdict, kind)}

Switched(verdict, kind) == Bool(TRUE) \in ConstraintValues(verdict, kind)

HasObligation(verdict, kinds) ==
  \E i \in DOMAIN verdict.obligations : verdict.obligations[i].kind \in kinds

(* RuntimeControlProjection(): the defaults, kept by every blocked plan. *)
DefaultControls ==
  [timeout_seconds |-> 0, max_steps |-> 0, max_output_bytes |-> 0,
   receipt_required |-> TRUE, output_digest_required |-> FALSE,
   read_only_required |-> FALSE, no_raw_shell |-> FALSE,
   mutation_requires_approval |-> FALSE,
   allowed_network_egress |-> {}, allowed_backend_classes |-> {}]

ProjectRuntimeControls(verdict) ==
  [timeout_seconds |-> SmallestPositive(ConstraintValues(verdict, "timeout")),
   max_steps |-> SmallestPositive(ConstraintValues(verdict, "max_steps")),
   max_output_bytes |-> SmallestPositive(ConstraintValues(verdict, "output_limit")),
   receipt_required |-> TRUE,
   output_digest_required |->
      \/ HasObligation(verdict, {"output_digest_required"})
      \/ Switched(verdict, "output_digest_required"),
   read_only_required |-> Switched(verdict, "read_only_required"),
   no_raw_shell |-> Switched(verdict, "no_raw_shell"),
   mutation_requires_approval |-> Switched(verdict, "mutation_requires_approval"),
   allowed_network_egress |-> Allowlist(verdict, "allowed_network_egress"),
   allowed_backend_classes |-> Allowlist(verdict, "allowed_backend_classes")]

(* A plausible regression: controls that cannot be projected are dropped *)
(* and the plan stays ready.                                             *)
AdmitPolicyExecution_IgnoreUnknown(verdict) ==
  LET allows == verdict.decision \in {"allow", "allow_with_obligations"}
      blockers == verdict.blockers \cup (IF allows THEN {} ELSE {verdict.reason})
  IN  [allowed |-> blockers = {},
       reason |-> IF blockers = {} THEN "policy_controls_projected" ELSE verdict.reason,
       blockers |-> blockers, controls |-> DefaultControls]

(* admit_policy_execution, for a verdict of this very pack.                *)
AdmitPolicyExecution(verdict) ==
  LET allows == verdict.decision \in {"allow", "allow_with_obligations"}
      blockers == verdict.blockers
                  \cup (IF allows THEN {} ELSE {verdict.reason})
                  \cup (IF allows /\ ~Projectable(verdict)
                        THEN {"unprojectable_policy_control"} ELSE {})
      reason == IF blockers = {} THEN "policy_controls_projected"
                ELSE IF allows /\ ~Projectable(verdict) THEN "unprojectable_policy_control"
                ELSE verdict.reason
  IN  [allowed |-> blockers = {}, reason |-> reason, blockers |-> blockers,
       controls |-> IF allows /\ Projectable(verdict)
                    THEN ProjectRuntimeControls(verdict) ELSE DefaultControls]

(* A plausible regression: any verdict of the policy will do. *)
AdmitUnder_AnyVersion(version, verdict, judged) == AdmitPolicyExecution(verdict)

(* admit_policy_execution: the verdict carries the version of the pack it  *)
(* was "judged" under, which must be that of the pack at hand.             *)
AdmitUnder(version, verdict, judged) ==
  LET own == AdmitPolicyExecution(verdict)
  IN  IF judged = version THEN own
      ELSE [own EXCEPT !.allowed = FALSE,
                       !.reason = IF own.allowed THEN verdict.reason ELSE @,
                       !.blockers = @ \cup {"policy_verdict_version_mismatch"}]
=============================================================================
