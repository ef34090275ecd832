-------------------------- MODULE PlanningAdmission --------------------------
(***************************************************************************)
(* The gates before anything is planned: an event that may start an        *)
(* operation (triggers.py), what a supervisor may do about an event or an  *)
(* operation (supervisor_actions.py), and an operation that may start a    *)
(* child (automation.py), with their explanations and the admission record *)
(* they share (admission.py).  Pure.  A request that does not carry a      *)
(* field has its default; a digest is what it was taken of.                *)
(***************************************************************************)
EXTENDS Naturals, Absence

(* The given fields, and the defaults of those that are not. *)
Filled(given, defaults) ==
  [field \in DOMAIN given \cup DOMAIN defaults |->
     IF field \in DOMAIN given THEN given[field] ELSE defaults[field]]

RequestDigest(q) == [kind |-> "request", content |-> q]

ForbiddenMetadata ==
  {"api_key", "command", "commands", "credential", "credentials", "event_payload", "host",
   "hostname", "ip", "password", "raw_event", "raw_output", "secret", "stderr", "stdout",
   "subprocess", "target", "target_url", "token", "url"}

(* Every text and digest reference of the request is there, and its        *)
(* metadata names nothing raw.                                             *)
WellFormed(q, required) ==
  /\ q.schema_version = "v0.1"
  /\ \A field \in required : q[field] # Missing
  /\ q.metadata \cap ForbiddenMetadata = {}
-----------------------------------------------------------------------------
(* The admission record.                                                   *)

Outcomes == {"allowed", "denied", "deferred", "dry_run_only", "record_only"}

(* validate_admission_decision *)
ValidAdmission(a) ==
  /\ a.outcome \in Outcomes
  /\ a.allowed => a.outcome \notin {"denied", "deferred"}
  /\ ~a.allowed => a.outcome # "allowed"

(* GovAdmissionDecision *)
AdmissionDecision(id, subject, outcome, reason_code, blockers, signal) ==
  LET a == [decision_id |-> id, subject_ref |-> subject, outcome |-> outcome,
            allowed |-> outcome \notin {"denied", "deferred"}, reason_code |-> reason_code,
            blockers |-> blockers, signal |-> signal]
  IN  IF ValidAdmission(a) THEN a ELSE Raised

(* _admission_decision_from_planning_adapter.  The signal repeats the      *)
(* request.                                                                *)
PlanningDecision(kind, q, outcome, reason_code, blockers) ==
  AdmissionDecision(<<kind, q.request_id>>, RequestDigest(q), outcome, reason_code, blockers, q)

(* A plausible regression: the decision's id is compared and not the       *)
(* decision.                                                               *)
Rechecked_ById(a, fresh) ==
  IF fresh = Raised \/ ~ValidAdmission(a) \/ a.decision_id # fresh.decision_id THEN Raised ELSE a

(* validate_*_admission: an admission holds for a request when it is what  *)
(* the request would be given now.                                         *)
Rechecked(a, fresh) ==
  IF fresh = Raised \/ ~ValidAdmission(a) \/ a # fresh THEN Raised ELSE a
-----------------------------------------------------------------------------
(* Triggers.                                                               *)

TriggerDefaults ==
  [rule_id |-> Missing, rule_digest |-> Missing, operation_intent |-> Missing,
   operation_mode |-> Missing, schema_version |-> "v0.1", metadata |-> {}]

RecordOnlyDecisions == {"ignore", "escalate", "drop_duplicate", "cooldown_blocked"}

(* validate_trigger_planning_request *)
ValidTriggerRequest(q) ==
  /\ WellFormed(q, {"request_id", "event_ref", "event_type", "decision", "rule_set_id",
                    "rule_set_version", "rule_set_digest"})
  /\ \/ /\ q.decision = "plan_operation"
        /\ Missing \notin {q.rule_id, q.rule_digest, q.operation_intent}
        /\ q.operation_mode \in {"dry_run", "read_only"}
     \/ /\ q.decision \in RecordOnlyDecisions
        /\ q.operation_intent = Missing /\ q.operation_mode = Missing

TriggerRequest(given) ==
  LET q == Filled(given, TriggerDefaults) IN IF ValidTriggerRequest(q) THEN q ELSE Raised

(* admit_trigger_planning *)
AdmitTrigger(q) ==
  IF q.decision \in RecordOnlyDecisions
  THEN PlanningDecision("trigger", q, "record_only", "trigger_planning_record_only", {})
  ELSE PlanningDecision("trigger", q, "allowed", "trigger_planning_allowed", {})

(* validate_trigger_planning_admission *)
TriggerAdmission(a, q) == Rechecked(a, AdmitTrigger(q))
-----------------------------------------------------------------------------
(* Supervisor actions.                                                     *)

InboxActions == {"move_to_dead_letter", "retry_later"}
SignoffActions == {"renew_lease", "mark_stale", "escalate_operator"}
SupervisorActions == {"record_health", "block_autostart"} \cup InboxActions \cup SignoffActions

SupervisorDefaults ==
  [operation_id |-> Missing, event_ref |-> Missing, trigger_ref |-> Missing,
   inbox_item_name |-> Missing, actor_ref |-> Missing, scope |-> Missing,
   attempt_count |-> 0, max_attempts |-> 0, age_seconds |-> 0, max_age_seconds |-> 0,
   human_signoff |-> FALSE, schema_version |-> "v0.1", metadata |-> {}]

(* validate_supervisor_action_request *)
ValidSupervisorRequest(q) ==
  /\ WellFormed(q, {"request_id", "action", "reason", "watchdog_record_ref", "observation"})
  /\ q.action \in SupervisorActions
  /\ q.action \in InboxActions => q.inbox_item_name # Missing
  /\ q.action = "block_autostart" => q.operation_id # Missing
  /\ (q.action \in SignoffActions /\ q.human_signoff) => Missing \notin {q.actor_ref, q.scope}

SupervisorRequest(given) ==
  LET q == Filled(given, SupervisorDefaults) IN IF ValidSupervisorRequest(q) THEN q ELSE Raised

(* A limit that is not above zero is no limit. *)
WithinRetryBudget(q) == q.max_attempts > 0 => q.attempt_count <= q.max_attempts
StaleAgeExceeded(q) == q.max_age_seconds > 0 => q.age_seconds >= q.max_age_seconds

(* admit_supervisor_action *)
AdmitSupervisor(q) ==
  CASE q.action = "record_health" ->
         PlanningDecision("supervisor", q, "record_only", "supervisor_action_record_only", {})
    [] q.action \in SignoffActions /\ ~q.human_signoff ->
         PlanningDecision("supervisor", q, "deferred",
           "supervisor_action_requires_human_signoff", {"human_signoff_required"})
    [] q.action \in InboxActions /\ ~WithinRetryBudget(q) ->
         PlanningDecision("supervisor", q, "denied",
           "supervisor_action_retry_budget_exceeded", {"retry_budget_exceeded"})
    [] q.action = "block_autostart" /\ ~StaleAgeExceeded(q) ->
         PlanningDecision("supervisor", q, "denied",
           "supervisor_action_stale_age_not_exceeded", {"stale_age_not_exceeded"})
    [] OTHER ->
         PlanningDecision("supervisor", q, "allowed", "supervisor_action_allowed", {})

(* validate_supervisor_action_admission *)
SupervisorAdmission(a, q) == Rechecked(a, AdmitSupervisor(q))
-----------------------------------------------------------------------------
(* Automation transitions.                                                 *)

ChainSchema == "automation_chain.v0.1"

AutomationDefaults ==
  [automation_chain_schema_ref |-> ChainSchema, trigger_ref |-> Missing, approval_ref |-> Missing,
   llm_proposed |-> FALSE, llm_authority |-> FALSE, schema_version |-> "v0.1", metadata |-> {}]

(* validate_automation_transition_request *)
ValidAutomationRequest(q) ==
  /\ WellFormed(q, {"request_id", "chain_id", "parent_operation_id", "parent_operation_ref",
                    "parent_intent", "parent_status", "child_operation_id", "child_intent",
                    "child_intent_class", "transition_reason", "automation_chain_ref", "source"})
  /\ q.source \in {"reaction", "trigger", "watchdog", "manual", "operator", "llm_proposal"}
  /\ q.parent_status \in {"completed", "failed", "blocked", "needs_followup", "partially_completed"}
  /\ q.depth >= 1 /\ q.max_depth >= 1 /\ q.child_sequence >= 1 /\ q.max_children >= 1
  /\ q.allowed_child_intent_classes # {}

AutomationRequest(given) ==
  LET q == Filled(given, AutomationDefaults) IN IF ValidAutomationRequest(q) THEN q ELSE Raised

(* A plausible regression: the source of a proposal is not looked at.      *)
NeedsApproval_FlagOnly(q) == q.llm_proposed /\ q.approval_ref = Missing

NeedsApproval(q) == (q.llm_proposed \/ q.source = "llm_proposal") /\ q.approval_ref = Missing

(* A plausible regression: the budget counts the children before this one. *)
ChildBudgetSpent_OneMore(q) == q.child_sequence - 1 > q.max_children

ChildBudgetSpent(q) == q.child_sequence > q.max_children

(* The conditions on a child in the order they are looked at, each with    *)
(* the gate it is explained by.                                            *)
AutomationChecks(q) ==
  <<[gate |-> "automation_chain_contract", blocker |-> "unsupported_automation_chain_schema",
     failed |-> q.automation_chain_schema_ref # ChainSchema],
    [gate |-> "llm_non_authority", blocker |-> "llm_authority_denied", failed |-> q.llm_authority],
    [gate |-> "depth_budget", blocker |-> "depth_exceeded", failed |-> q.depth > q.max_depth],
    [gate |-> "child_budget", blocker |-> "child_budget_exceeded",
     failed |-> ChildBudgetSpent(q)],
    [gate |-> "child_intent_class", blocker |-> "child_intent_class_denied",
     failed |-> q.child_intent_class \notin q.allowed_child_intent_classes],
    [gate |-> "approval", blocker |-> "approval_required", failed |-> NeedsApproval(q)]>>

AutomationBlockers ==
  {"unsupported_automation_chain_schema", "llm_authority_denied", "depth_exceeded",
   "child_budget_exceeded", "child_intent_class_denied", "approval_required"}

(* Nothing in the way is not one of the things that are. *)
ASSUME BlockersAssumption == Missing \notin AutomationBlockers

(* What is in the way of a child: the first of what is. *)
AutomationBlocker(q) ==
  LET checks == AutomationChecks(q)
      failed == {i \in DOMAIN checks : checks[i].failed}
  IN  IF failed = {} THEN Missing
      ELSE checks[CHOOSE i \in failed : \A j \in failed : i <= j].blocker

(* admit_automation_transition *)
AdmitAutomation(q) ==
  LET blocker == AutomationBlocker(q)
  IN  CASE blocker = Missing -> PlanningDecision("automation", q, "allowed", Missing, {})
        [] blocker = "approval_required" ->
             PlanningDecision("automation", q, "deferred", blocker, {blocker})
        [] OTHER -> PlanningDecision("automation", q, "denied", blocker, {blocker})

(* validate_automation_transition_admission *)
AutomationAdmission(a, q) == Rechecked(a, AdmitAutomation(q))
-----------------------------------------------------------------------------
(* Explanations: the gate that decided.                                    *)

(* explain_automation_transition, _gates_checked, _evaluation_path: the    *)
(* gate that failed is told by the blocker of the admission.               *)
ExplainAutomation(q) ==
  LET a == AdmitAutomation(q)
      checks == AutomationChecks(q)
      gates == {[gate |-> checks[i].gate, passed |-> checks[i].blocker # a.reason_code] :
                  i \in DOMAIN checks}
  IN  [status |-> IF a.blockers = {} THEN "explained" ELSE "blocked",
       gates_checked |-> gates,
       evaluation_path |->
         IF a.blockers = {} THEN "allowed" ELSE (CHOOSE g \in gates : ~g.passed).gate,
       admission |-> a]

(* The one gate a supervisor action is put to. *)
SupervisorGates(q) ==
  CASE q.action = "record_health" -> {"record_only"}
    [] q.action \in InboxActions -> {"retry_budget"}
    [] q.action = "block_autostart" -> {"stale_age"}
    [] q.action \in SignoffActions -> {"human_signoff"}

RecoveryClass(q) ==
  CASE q.observation = "manual_recovery" -> "manual_record"
    [] q.observation # "manual_recovery" /\ q.action = "record_health" -> "health_record"
    [] OTHER ->
       CASE q.action = "move_to_dead_letter" -> "dead_letter"
         [] q.action = "retry_later" -> "retry"
         [] q.action = "block_autostart" -> "block_autostart"
         [] q.action = "renew_lease" -> "stale_lease"
         [] OTHER -> "manual_record"

(* explain_supervisor_action, _evaluation_path *)
ExplainSupervisor(q) ==
  LET a == AdmitSupervisor(q)
  IN  [status |-> IF a.blockers = {} THEN "explained" ELSE "blocked",
       recovery_class |-> RecoveryClass(q),
       gates_checked |-> {[gate |-> g, passed |-> a.blockers = {}] : g \in SupervisorGates(q)},
       evaluation_path |->
         CASE q.action = "record_health" -> "record_only"
           [] q.action # "record_health" /\ a.blockers # {} -> CHOOSE g \in SupervisorGates(q) : TRUE
           [] OTHER -> IF q.action \in SignoffActions THEN "signed_manual_recovery" ELSE "allowed",
       admission |-> a]
=============================================================================
