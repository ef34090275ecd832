------------------------------ MODULE EventInbox ------------------------------
(***************************************************************************)
(* A host's inbox with one event in it.  The intake decides on the event   *)
(* by the rules in force and has the decision admitted; supervisors watch  *)
(* the inbox and have what they would do admitted; what was admitted is    *)
(* done later, when the rules, the attempts and the age may be others.     *)
(* The inbox is the host's (external); the gates are PlanningAdmission's.  *)
(***************************************************************************)
EXTENDS Naturals, PlanningAdmission

CONSTANTS
  Supervisors,
  MaxAttempts,  \* the retry budget the host declares
  MaxAge,       \* the age from which autostart may be blocked
  MaxRules      \* bound: how many rule sets come into force

ASSUME BudgetAssumption == MaxAttempts \in Nat \ {0} /\ MaxAge \in Nat \ {0}

VARIABLES
  event,    \* [state, attempts, age, rules] of the event; rules: the rule set in force
  intake,   \* the intake's decision and its admission, not yet acted on
  watch     \* each supervisor's request and its admission, not yet acted on
inboxVars == <<event, intake, watch>>

Nothing == [request |-> Missing, admission |-> Missing]

(* The rules for the event: those with an odd number plan an operation.    *)
TriggerNow ==
  TriggerRequest(Filled(
    [request_id |-> "intake", event_ref |-> "event", event_type |-> "alarm",
     rule_set_id |-> "rules", rule_set_version |-> event.rules, rule_set_digest |-> event.rules],
    IF event.rules % 2 = 1
       THEN [decision |-> "plan_operation", rule_id |-> "rule", rule_digest |-> event.rules,
             operation_intent |-> "inspect", operation_mode |-> "read_only"]
       ELSE [decision |-> "ignore"]))

(* What a supervisor says of the event as it stands.  Signed off, it names *)
(* who signed and for what.                                                *)
SupervisionNow(s, action, signed) ==
  SupervisorRequest(Filled(
    [request_id |-> s, action |-> action, reason |-> "stalled", watchdog_record_ref |-> s,
     observation |-> "inbox_stalled", operation_id |-> "inspect", event_ref |-> "event",
     inbox_item_name |-> "event", attempt_count |-> event.attempts, max_attempts |-> MaxAttempts,
     age_seconds |-> event.age, max_age_seconds |-> MaxAge, human_signoff |-> signed],
    IF signed THEN [actor_ref |-> "operator", scope |-> "event"] ELSE <<>>))

InboxInit ==
  /\ event = [state |-> "waiting", attempts |-> 0, age |-> 0, rules |-> 1]
  /\ intake = Nothing
  /\ watch = [s \in Supervisors |-> Nothing]

InInbox == event.state \in {"waiting", "stalled"}
Leaves(how) ==
  /\ event' = [event EXCEPT !.state = how, !.attempts = 0, !.age = 0]
  /\ intake' = Nothing
  /\ watch' = [s \in Supervisors |-> Nothing]
-----------------------------------------------------------------------------
Decide ==
  /\ event.state = "waiting" /\ intake = Nothing
  /\ TriggerNow # Raised
  /\ intake' = [request |-> TriggerNow, admission |-> AdmitTrigger(TriggerNow)]
  /\ UNCHANGED <<event, watch>>

IntakeAdmitted ==
  TriggerNow # Raised /\ TriggerAdmission(intake.admission, TriggerNow) # Raised

(* The decision is carried out when its admission still holds.  Every      *)
(* record-only decision is "allowed" too; only the outcome tells them apart. *)
PlanOperation ==
  /\ event.state = "waiting" /\ intake # Nothing
  /\ IntakeAdmitted /\ intake.admission.outcome = "allowed"
  /\ Leaves("planned")

RecordEvent ==
  /\ event.state = "waiting" /\ intake # Nothing
  /\ IntakeAdmitted /\ intake.admission.outcome = "record_only"
  /\ Leaves("recorded")

DropDecision ==
  /\ event.state = "waiting" /\ intake # Nothing /\ ~IntakeAdmitted
  /\ intake' = Nothing
  /\ UNCHANGED <<event, watch>>

(* The intake breaks down over the event (bound: one more attempt than the *)
(* code ever allows).                                                      *)
Stall ==
  /\ event.state = "waiting" /\ event.attempts < MaxAttempts + 2
  /\ event' = [event EXCEPT !.state = "stalled", !.attempts = @ + 1]
  /\ intake' = Nothing
  /\ UNCHANGED watch

ChangeRules ==
  /\ InInbox /\ event.rules < MaxRules
  /\ event' = [event EXCEPT !.rules = @ + 1]
  /\ UNCHANGED <<intake, watch>>

Age ==
  /\ InInbox /\ event.age < MaxAge
  /\ event' = [event EXCEPT !.age = @ + 1]
  /\ UNCHANGED <<intake, watch>>
-----------------------------------------------------------------------------
(* A supervisor records the health of the inbox, or has one of its actions *)
(* on a stalled event admitted.                                            *)
Observe(s, action) ==
  /\ event.state = "stalled" /\ watch[s] = Nothing
  /\ LET q == SupervisionNow(s, action, FALSE)
     IN  q # Raised /\ watch' = [watch EXCEPT ![s] = [request |-> q, admission |-> AdmitSupervisor(q)]]
  /\ UNCHANGED <<event, intake>>

(* An operator signs off an escalation that waits for it. *)
SignOff(s) ==
  /\ InInbox /\ watch[s] # Nothing
  /\ ExplainSupervisor(watch[s].request).evaluation_path = "human_signoff"
  /\ LET q == SupervisionNow(s, watch[s].request.action, TRUE)
     IN  q # Raised /\ watch' = [watch EXCEPT ![s] = [request |-> q, admission |-> AdmitSupervisor(q)]]
  /\ UNCHANGED <<event, intake>>

ActionAdmitted(s) ==
  LET q == watch[s].request
      now == SupervisionNow(s, q.action, q.human_signoff)
  IN  /\ now # Raised
      /\ SupervisorAdmission(watch[s].admission, now) # Raised
      /\ watch[s].admission.outcome = "allowed"

Supervise(s) ==
  /\ event.state = "stalled" /\ watch[s] # Nothing /\ ActionAdmitted(s)
  /\ \/ /\ watch[s].request.action = "retry_later"
        /\ event' = [event EXCEPT !.state = "waiting"]
        /\ watch' = [watch EXCEPT ![s] = Nothing]
        /\ UNCHANGED intake
     \/ watch[s].request.action = "move_to_dead_letter" /\ Leaves("dead_letter")
     \/ watch[s].request.action = "escalate_operator" /\ Leaves("escalated")
     \/ watch[s].request.action = "block_autostart" /\ Leaves("autostart_blocked")

(* What is denied, deferred, only recorded or no longer holds is let go.   *)
Forget(s) ==
  /\ InInbox /\ watch[s] # Nothing /\ ~(event.state = "stalled" /\ ActionAdmitted(s))
  /\ watch' = [watch EXCEPT ![s] = Nothing]
  /\ UNCHANGED <<event, intake>>

InboxNext ==
  \/ Decide \/ PlanOperation \/ RecordEvent \/ DropDecision
  \/ Stall \/ ChangeRules \/ Age
  \/ \E s \in Supervisors :
       \/ \E action \in InboxActions \cup {"record_health", "escalate_operator", "block_autostart"} :
            Observe(s, action)
       \/ SignOff(s) \/ Supervise(s) \/ Forget(s)
-----------------------------------------------------------------------------
Becomes(from, to) == event.state = from /\ event'.state = to

(* Whatever was admitted earlier, what is done about the event is what the *)
(* rules in force, its attempts, its age and a sign-off then warrant: the  *)
(* last retry is the one with the budget used up (admit_trigger_planning,  *)
(* admit_supervisor_action and the validators of their admissions).        *)
DoneOnlyAsWarranted ==
  [][/\ Becomes("waiting", "planned") => TriggerNow.decision = "plan_operation"
     /\ Becomes("waiting", "recorded") => TriggerNow.decision \in RecordOnlyDecisions
     /\ Becomes("stalled", "waiting") \/ Becomes("stalled", "dead_letter") =>
          event.attempts <= MaxAttempts
     /\ Becomes("stalled", "autostart_blocked") => event.age >= MaxAge
     /\ Becomes("stalled", "escalated") =>
          \E s \in Supervisors : watch[s] # Nothing /\ watch[s].request.human_signoff]_inboxVars
=============================================================================
