------------------------- MODULE OperationChainProofs -------------------------
(***************************************************************************)
(* Proofs about the whole operation: what the inbox and the children's     *)
(* bookkeeping keep on their own, that they keep it when they are composed *)
(* with the lifecycle, that nothing unapproved is run, that an artifact    *)
(* that is out of date is always named, and that a chain is verified only  *)
(* when it is current, for every number of actors, editions and changes    *)
(* and all limits.                                                         *)
(***************************************************************************)
EXTENDS OperationChain, FiniteSetTheorems, TLAPS
-----------------------------------------------------------------------------
(* The inbox and the children on their own. *)

(* What is given is kept. *)
LEMMA GivenIsKept ==
  ASSUME NEW given, NEW defaults, NEW field \in DOMAIN given
  PROVE  Filled(given, defaults)[field] = given[field]
BY DEF Filled

(* An admission that still holds is the one the request is given now. *)
LEMMA HoldsAsGivenNow ==
  ASSUME NEW a, NEW fresh, Rechecked(a, fresh) # Raised
  PROVE  a = fresh /\ fresh # Raised
BY DEF Rechecked

(* A planning adapter's record says what it was made to say. *)
LEMMA RecordSaysOutcome ==
  ASSUME NEW kind, NEW q, NEW outcome, NEW reason, NEW blockers,
         PlanningDecision(kind, q, outcome, reason, blockers) # Raised
  PROVE  PlanningDecision(kind, q, outcome, reason, blockers).outcome = outcome
BY DEF PlanningDecision, AdmissionDecision
-----------------------------------------------------------------------------
(* The request for a child says what the child and the chain are. *)
LEMMA RequestOfChild ==
  ASSUME NEW p, NEW child, RequestNow(p, child) # Raised
  PROVE  LET q == RequestNow(p, child)
         IN  /\ ValidAutomationRequest(q)
             /\ q.source = child.source /\ q.llm_proposed = child.flagged
             /\ q.approval_ref = (IF child \in signed THEN "approval" ELSE Missing)
             /\ q.parent_status = parent.status
             /\ q.depth = parent.depth + 1 /\ q.max_depth = limits.max_depth
             /\ q.child_sequence = parent.children + 1 /\ q.max_children = limits.max_children
             /\ q.child_intent_class = child.class
             /\ q.allowed_child_intent_classes = AllowedClasses
BY GivenIsKept DEF RequestNow, AutomationRequest, Filled

(* A child that is allowed has nothing in its way. *)
LEMMA AllowedChildIsUnblocked ==
  ASSUME NEW q, AdmitAutomation(q) # Raised, AdmitAutomation(q).outcome = "allowed"
  PROVE  AutomationBlocker(q) = Missing
BY RecordSaysOutcome DEF AdmitAutomation

(* The gate read backwards: what does not block was in order.              *)
LEMMA Unblocked ==
  ASSUME NEW q, AutomationBlocker(q) = Missing
  PROVE  /\ ~(q.depth > q.max_depth)
         /\ ~(q.child_sequence > q.max_children)
         /\ q.child_intent_class \in q.allowed_child_intent_classes
         /\ ~NeedsApproval(q)
<1> DEFINE checks == AutomationChecks(q)
           failed == {i \in DOMAIN checks : checks[i].failed}
<1>1. DOMAIN checks = 1..6 /\ \A i \in 1..6 : checks[i].blocker \in AutomationBlockers
  <2>1. DOMAIN checks = 1..6
    BY DEF AutomationChecks
  <2>2. /\ checks[1].blocker = "unsupported_automation_chain_schema"
        /\ checks[2].blocker = "llm_authority_denied"
        /\ checks[3].blocker = "depth_exceeded"
        /\ checks[4].blocker = "child_budget_exceeded"
        /\ checks[5].blocker = "child_intent_class_denied"
        /\ checks[6].blocker = "approval_required"
    BY DEF AutomationChecks
  <2> HIDE DEF checks
  <2>3. ASSUME NEW i \in 1..6 PROVE checks[i].blocker \in AutomationBlockers
    <3>1. i = 1 \/ i = 2 \/ i = 3 \/ i = 4 \/ i = 5 \/ i = 6
      OBVIOUS
    <3> QED
      BY <2>2, <3>1 DEF AutomationBlockers
  <2> QED
    BY <2>1, <2>3
<1>2. failed = {}
  <2> SUFFICES ASSUME failed # {} PROVE FALSE
    OBVIOUS
  <2>1. PICK i \in failed : \A j \in failed : i <= j
    BY <1>1
  <2>2. AutomationBlocker(q) \in AutomationBlockers
    BY <1>1, <2>1 DEF AutomationBlocker
  <2> QED
    BY <2>2, BlockersAssumption
<1>3. ~checks[3].failed /\ ~checks[4].failed /\ ~checks[5].failed /\ ~checks[6].failed
  BY <1>1, <1>2
<1> QED
  BY <1>3 DEF AutomationChecks, ChildBudgetSpent

(* What Start is allowed by: as the chain stands, the child of the         *)
(* proposal is within the limits, of a class they allow, from a closed     *)
(* parent, and approved where a model had a part in it.                    *)
LEMMA AdmittedAsItStands ==
  ASSUME NEW p, Admitted(p)
  PROVE  LET child == proposal[p].child
         IN  /\ ~(parent.depth + 1 > limits.max_depth)
             /\ ~(parent.children + 1 > limits.max_children)
             /\ parent.status # "running"
             /\ child.class \in AllowedClasses
             /\ (child.flagged \/ child.source = "llm_proposal") => child \in signed
<1> DEFINE child == proposal[p].child
           now == RequestNow(p, child)
<1>1. now # Raised /\ AutomationAdmission(proposal[p].admission, now) # Raised
      /\ proposal[p].admission.outcome = "allowed"
  BY DEF Admitted
<1>2. AdmitAutomation(now) # Raised /\ AdmitAutomation(now).outcome = "allowed"
  BY <1>1, HoldsAsGivenNow DEF AutomationAdmission
<1>3. AutomationBlocker(now) = Missing
  BY <1>2, AllowedChildIsUnblocked
<1>4. /\ ~(now.depth > now.max_depth)
      /\ ~(now.child_sequence > now.max_children)
      /\ now.child_intent_class \in now.allowed_child_intent_classes
      /\ ~NeedsApproval(now)
  BY <1>3, Unblocked
<1>5. /\ now.source = child.source /\ now.llm_proposed = child.flagged
      /\ now.approval_ref = (IF child \in signed THEN "approval" ELSE Missing)
      /\ now.depth = parent.depth + 1 /\ now.max_depth = limits.max_depth
      /\ now.child_sequence = parent.children + 1 /\ now.max_children = limits.max_children
      /\ now.child_intent_class = child.class
      /\ now.allowed_child_intent_classes = AllowedClasses
  BY <1>1, RequestOfChild
<1>6. parent.status # "running"
  <2>1. ValidAutomationRequest(now) /\ now.parent_status = parent.status
    BY <1>1, RequestOfChild
  <2> HIDE DEF now
  <2> QED
    BY <2>1 DEF ValidAutomationRequest
<1>7. (child.flagged \/ child.source = "llm_proposal") => child \in signed
  <2> HIDE DEF now, child
  <2> QED
    BY <1>4, <1>5 DEF NeedsApproval
<1> HIDE DEF now
<1> QED
  BY <1>4, <1>5, <1>6, <1>7

(* The host's bookkeeping on its own: the steps of ChildPlanning and the   *)
(* closing of the parent, whatever the operation does in between.          *)
ChildSpec == ChildInit /\ [][ChildNext \/ CloseParent]_chainVars

(* What the limits and the parent are made of. *)
ChainTyped ==
  /\ parent \in [status : ClosedStatuses \cup {"running"}, depth : Nat, children : Nat]
  /\ limits \in [max_depth : Nat, max_children : Nat]

(* The chain of children starts typed.                                     *)
LEMMA ChainTypedInit == ChildInit => ChainTyped
BY LimitsAssumption DEF ChildInit, ChainTyped

(* And stays so.                                                           *)
LEMMA ChainTypedStep == ChainTyped /\ [ChildNext \/ CloseParent]_chainVars => ChainTyped'
<1> SUFFICES ASSUME ChainTyped, [ChildNext \/ CloseParent]_chainVars PROVE ChainTyped'
  OBVIOUS
<1> USE DEF ChainTyped
<1>1. CASE UNCHANGED <<parent, limits>>
  BY <1>1
<1>2. ASSUME NEW p \in Proposers, Start(p) PROVE ChainTyped'
  BY <1>2 DEF Start
<1>3. CASE CloseParent
  BY <1>3 DEF CloseParent, ClosedStatuses
<1>4. CASE Tighten
  BY <1>4 DEF Tighten
<1>5. ASSUME NEW status \in ClosedStatuses, Follow(status) PROVE ChainTyped'
  BY <1>5 DEF Follow
<1> QED
  BY <1>1, <1>2, <1>3, <1>4, <1>5
     DEF ChildNext, chainVars, Propose, ApproveChild, Drop

(* No child that a language model proposed or had a part in is started     *)
(* without an operator's approval of that child, whatever was admitted     *)
(* before (admit_automation_transition).                                   *)
THEOREM ModelsNeedApproval == ChildSpec => []NoChildOnTheModelsWordAlone
<1>1. ChildInit => NoChildOnTheModelsWordAlone
  BY DEF ChildInit, NoChildOnTheModelsWordAlone
<1>2. NoChildOnTheModelsWordAlone /\ [ChildNext \/ CloseParent]_chainVars
        => NoChildOnTheModelsWordAlone'
  <2> SUFFICES ASSUME NoChildOnTheModelsWordAlone, [ChildNext \/ CloseParent]_chainVars
               PROVE  NoChildOnTheModelsWordAlone'
    OBVIOUS
  <2> USE DEF NoChildOnTheModelsWordAlone
  <2>1. CASE UNCHANGED <<started, signed>>
    BY <2>1
  <2>2. ASSUME NEW p \in Proposers, Start(p) PROVE NoChildOnTheModelsWordAlone'
    <3>1. LET child == proposal[p].child
          IN  (child.flagged \/ child.source = "llm_proposal") => child \in signed
      BY <2>2, AdmittedAsItStands DEF Start
    <3>2. started' = started \cup {proposal[p].child} /\ signed' = signed
      BY <2>2 DEF Start
    <3> QED
      BY <3>1, <3>2
  <2>3. ASSUME NEW p \in Proposers, ApproveChild(p) PROVE NoChildOnTheModelsWordAlone'
    BY <2>3 DEF ApproveChild
  <2> QED
    BY <2>1, <2>2, <2>3
       DEF ChildNext, chainVars, Propose, Drop, CloseParent, Tighten, Follow
<1> QED
  BY <1>1, <1>2, PTL DEF ChildSpec

(* No child is started beyond the limits in force, of a class they do not  *)
(* allow or from a running operation, however many proposals were admitted *)
(* and whatever the limits were then.                                      *)
THEOREM LimitsHoldWhenStarted == ChildSpec => ChainStaysWithinLimits
<1> DEFINE Within ==
      parent'.children > parent.children =>
        /\ parent'.children <= limits.max_children
        /\ parent.depth + 1 <= limits.max_depth
        /\ parent.status \in ClosedStatuses
        /\ \A child \in started' \ started : child.class \in AllowedClasses
<1>1. ChainTyped /\ [ChildNext \/ CloseParent]_chainVars => [Within]_chainVars
  <2> SUFFICES ASSUME ChainTyped, [ChildNext \/ CloseParent]_chainVars,
                      parent'.children > parent.children
               PROVE  Within
    OBVIOUS
  <2>1. ASSUME NEW p \in Proposers, Start(p) PROVE Within
    <3>1. /\ ~(parent.depth + 1 > limits.max_depth)
          /\ ~(parent.children + 1 > limits.max_children)
          /\ parent.status # "running"
          /\ proposal[p].child.class \in AllowedClasses
      BY <2>1, AdmittedAsItStands DEF Start
    <3>2. /\ parent'.children = parent.children + 1
          /\ started' = started \cup {proposal[p].child}
      BY <2>1 DEF Start, ChainTyped
    <3> QED
      BY <3>1, <3>2 DEF ChainTyped
  <2>2. CASE parent'.children = parent.children
    BY <2>2 DEF ChainTyped
  <2>3. ASSUME NEW status \in ClosedStatuses, Follow(status) PROVE FALSE
    BY <2>3 DEF Follow, ChainTyped
  <2>4. CloseParent => parent'.children = parent.children
    BY DEF CloseParent, ChainTyped
  <2> QED
    BY <2>1, <2>2, <2>3, <2>4
       DEF ChildNext, chainVars, Propose, ApproveChild, Drop, Tighten
<1> QED
  BY <1>1, ChainTypedInit, ChainTypedStep, PTL DEF ChildSpec, ChainStaysWithinLimits
-----------------------------------------------------------------------------
(* What the event is made of.                                              *)
EventStates ==
  {"waiting", "stalled", "planned", "recorded", "dead_letter", "escalated", "autostart_blocked"}
EventTyped == event \in [state : EventStates, attempts : Nat, age : Nat, rules : Nat]

InboxSpec == InboxInit /\ [][InboxNext]_inboxVars

(* The inbox starts typed.                                                 *)
LEMMA EventTypedInit == InboxInit => EventTyped
BY DEF InboxInit, EventTyped, EventStates

(* And stays so.                                                           *)
LEMMA EventTypedStep == EventTyped /\ [InboxNext]_inboxVars => EventTyped'
<1> SUFFICES ASSUME EventTyped, [InboxNext]_inboxVars PROVE EventTyped'
  OBVIOUS
<1>1. CASE UNCHANGED event
  BY <1>1 DEF EventTyped
<1>2. ASSUME NEW how \in EventStates, Leaves(how) PROVE EventTyped'
  <2>1. event' = [event EXCEPT !.state = how, !.attempts = 0, !.age = 0]
    BY <1>2 DEF Leaves
  <2> QED
    BY <2>1 DEF EventTyped
<1>3. CASE PlanOperation \/ RecordEvent
  <2>1. Leaves("planned") \/ Leaves("recorded")
    BY <1>3 DEF PlanOperation, RecordEvent
  <2>2. "planned" \in EventStates /\ "recorded" \in EventStates
    BY DEF EventStates
  <2> QED
    BY <1>2, <2>1, <2>2
<1>4. CASE Stall
  <2> DEFINE more == event.attempts + 1
  <2>1. event' = [event EXCEPT !.state = "stalled", !.attempts = more]
    BY <1>4 DEF Stall
  <2>2. "stalled" \in EventStates /\ more \in Nat
    BY DEF EventStates, EventTyped
  <2> HIDE DEF more
  <2> QED
    BY <2>1, <2>2 DEF EventTyped
<1>5. CASE ChangeRules \/ Age
  BY <1>5 DEF ChangeRules, Age, EventTyped
<1>6. ASSUME NEW s \in Supervisors, Supervise(s) PROVE EventTyped'
  <2>1. \/ event' = [event EXCEPT !.state = "waiting"]
        \/ Leaves("dead_letter") \/ Leaves("escalated") \/ Leaves("autostart_blocked")
    BY <1>6 DEF Supervise
  <2>2. /\ "waiting" \in EventStates /\ "dead_letter" \in EventStates
        /\ "escalated" \in EventStates /\ "autostart_blocked" \in EventStates
    BY DEF EventStates
  <2>3. event' = [event EXCEPT !.state = "waiting"] => EventTyped'
    BY <2>2 DEF EventTyped
  <2> QED
    BY <1>2, <2>1, <2>2, <2>3
<1> QED
  BY <1>1, <1>3, <1>4, <1>5, <1>6
     DEF InboxNext, inboxVars, Decide, DropDecision, Observe, SignOff, Forget

(* The decision that still holds is one by the rules in force, and its     *)
(* outcome tells a plan from a record.                                     *)
LEMMA DecisionByRulesInForce ==
  ASSUME IntakeAdmitted
  PROVE  /\ intake.admission.outcome = "allowed" => TriggerNow.decision = "plan_operation"
         /\ intake.admission.outcome = "record_only" => TriggerNow.decision \in RecordOnlyDecisions
<1>1. intake.admission = AdmitTrigger(TriggerNow) /\ AdmitTrigger(TriggerNow) # Raised
  BY HoldsAsGivenNow DEF IntakeAdmitted, TriggerAdmission
<1>2. ValidTriggerRequest(TriggerNow)
  BY DEF IntakeAdmitted, TriggerNow, TriggerRequest
<1>3. CASE TriggerNow.decision \in RecordOnlyDecisions
  <2>1. AdmitTrigger(TriggerNow).outcome = "record_only"
    BY <1>1, <1>3, RecordSaysOutcome DEF AdmitTrigger
  <2> QED
    BY <1>1, <1>3, <2>1
<1>4. CASE TriggerNow.decision \notin RecordOnlyDecisions
  <2>1. AdmitTrigger(TriggerNow).outcome = "allowed"
    BY <1>1, <1>4, RecordSaysOutcome DEF AdmitTrigger
  <2> QED
    BY <1>1, <1>2, <1>4, <2>1 DEF ValidTriggerRequest
<1> QED
  BY <1>3, <1>4

(* What a supervisor's request says of the event as it stands. *)
LEMMA RequestOfSupervisor ==
  ASSUME NEW s, NEW action, NEW signoff, SupervisionNow(s, action, signoff) # Raised
  PROVE  LET q == SupervisionNow(s, action, signoff)
         IN  /\ q.action = action /\ q.human_signoff = signoff
             /\ q.attempt_count = event.attempts /\ q.max_attempts = MaxAttempts
             /\ q.age_seconds = event.age /\ q.max_age_seconds = MaxAge
BY GivenIsKept DEF SupervisionNow, SupervisorRequest, Filled

(* An action that still holds is warranted by the event as it stands.      *)
LEMMA ActionWarranted ==
  ASSUME EventTyped, NEW s, ActionAdmitted(s)
  PROVE  LET q == watch[s].request
         IN  /\ q.action \in InboxActions => event.attempts <= MaxAttempts
             /\ q.action = "block_autostart" => event.age >= MaxAge
             /\ q.action = "escalate_operator" => q.human_signoff
<1> DEFINE q == watch[s].request
           now == SupervisionNow(s, q.action, q.human_signoff)
<1>1. AdmitSupervisor(now) # Raised /\ AdmitSupervisor(now).outcome = "allowed"
  BY HoldsAsGivenNow DEF ActionAdmitted, SupervisorAdmission
<1>2. /\ now.action = q.action /\ now.human_signoff = q.human_signoff
      /\ now.attempt_count = event.attempts /\ now.max_attempts = MaxAttempts
      /\ now.age_seconds = event.age /\ now.max_age_seconds = MaxAge
  BY RequestOfSupervisor DEF ActionAdmitted
<1> HIDE DEF now, q
<1>3. /\ ~(now.action \in SignoffActions /\ ~now.human_signoff)
      /\ ~(now.action \in InboxActions /\ ~WithinRetryBudget(now))
      /\ ~(now.action = "block_autostart" /\ ~StaleAgeExceeded(now))
  BY <1>1, RecordSaysOutcome DEF AdmitSupervisor, SignoffActions, InboxActions
<1> QED
  BY <1>2, <1>3, BudgetAssumption
     DEF q, SignoffActions, WithinRetryBudget, StaleAgeExceeded, EventTyped

(* Whatever was admitted before, what is done about the event is what the  *)
(* rules in force, its attempts, its age and a sign-off then warrant, for  *)
(* every budget, age limit and number of rule sets and supervisors.        *)
THEOREM WarrantedWhenDone == InboxSpec => DoneOnlyAsWarranted
<1> DEFINE Warranted ==
      /\ Becomes("waiting", "planned") => TriggerNow.decision = "plan_operation"
      /\ Becomes("waiting", "recorded") => TriggerNow.decision \in RecordOnlyDecisions
      /\ Becomes("stalled", "waiting") \/ Becomes("stalled", "dead_letter") =>
           event.attempts <= MaxAttempts
      /\ Becomes("stalled", "autostart_blocked") => event.age >= MaxAge
      /\ Becomes("stalled", "escalated") =>
           \E s \in Supervisors : watch[s] # Nothing /\ watch[s].request.human_signoff
<1>1. EventTyped /\ [InboxNext]_inboxVars => [Warranted]_inboxVars
  <2> SUFFICES ASSUME EventTyped, [InboxNext]_inboxVars PROVE Warranted
    OBVIOUS
  <2>1. CASE event'.state = event.state
    BY <2>1 DEF Becomes
  <2>2. CASE PlanOperation
    <3>1. event'.state = "planned" /\ event.state = "waiting"
      BY <2>2 DEF PlanOperation, Leaves, EventTyped
    <3>2. TriggerNow.decision = "plan_operation"
      BY <2>2, DecisionByRulesInForce DEF PlanOperation
    <3> QED
      BY <3>1, <3>2 DEF Becomes
  <2>3. CASE RecordEvent
    <3>1. event'.state = "recorded" /\ event.state = "waiting"
      BY <2>3 DEF RecordEvent, Leaves, EventTyped
    <3>2. TriggerNow.decision \in RecordOnlyDecisions
      BY <2>3, DecisionByRulesInForce DEF RecordEvent
    <3> QED
      BY <3>1, <3>2 DEF Becomes
  <2>4. CASE Stall
    <3>1. event'.state = "stalled"
      BY <2>4 DEF Stall, EventTyped
    <3> QED
      BY <3>1 DEF Becomes
  <2>5. ASSUME NEW s \in Supervisors, Supervise(s) PROVE Warranted
    <3>1. event.state = "stalled" /\ watch[s] # Nothing /\ ActionAdmitted(s)
      BY <2>5 DEF Supervise
    <3>2. \/ watch[s].request.action = "retry_later" /\ event'.state = "waiting"
          \/ watch[s].request.action = "move_to_dead_letter" /\ event'.state = "dead_letter"
          \/ watch[s].request.action = "escalate_operator" /\ event'.state = "escalated"
          \/ watch[s].request.action = "block_autostart" /\ event'.state = "autostart_blocked"
      BY <2>5 DEF Supervise, Leaves, EventTyped
    <3>3. LET q == watch[s].request
          IN  /\ q.action \in InboxActions => event.attempts <= MaxAttempts
              /\ q.action = "block_autostart" => event.age >= MaxAge
              /\ q.action = "escalate_operator" => q.human_signoff
      BY <3>1, ActionWarranted
    <3> QED
      BY <3>1, <3>2, <3>3 DEF Becomes, InboxActions
  <2>6. CASE ChangeRules \/ Age
    BY <2>6, <2>1 DEF ChangeRules, Age, EventTyped
  <2> QED
    BY <2>1, <2>2, <2>3, <2>4, <2>5, <2>6
       DEF InboxNext, inboxVars, Decide, DropDecision, Observe, SignOff, Forget
<1> QED
  BY <1>1, EventTypedInit, EventTypedStep, PTL DEF InboxSpec, DoneOnlyAsWarranted
-----------------------------------------------------------------------------
(* The three parts start and move on their own.                            *)

(* The operation starts with its parts. *)
LEMMA InitComposed == Init => PipelineInit /\ InboxInit /\ ChildInit
BY DEF Init

(* Every step is one of the inbox, of the lifecycle or of the children, or *)
(* leaves each alone.                                                      *)
LEMMA StepComposed ==
  [Next]_vars => /\ [InboxNext]_inboxVars
                 /\ [ChildNext \/ CloseParent]_chainVars
                 /\ [PipelineNext \/ Close]_pipelineVars
BY DEF Next, Close, vars, inboxVars, chainVars, pipelineVars, CloseParent

(* Whatever the inbox, the lifecycle and the children do around it, no     *)
(* child goes ahead on a language model's word alone                       *)
(* (admit_automation_transition).                                          *)
THEOREM OperationNeedsApproval == Spec => []NoChildOnTheModelsWordAlone
<1>1. Spec => ChildSpec
  BY InitComposed, StepComposed, PTL DEF Spec, ChildSpec
<1> QED
  BY <1>1, ModelsNeedApproval, PTL

(* The chain of an operation stays within the limits in force              *)
(* (validate_automation_transition_admission).                             *)
THEOREM OperationWithinLimits == Spec => ChainStaysWithinLimits
<1>1. Spec => ChildSpec
  BY InitComposed, StepComposed, PTL DEF Spec, ChildSpec
<1> QED
  BY <1>1, LimitsHoldWhenStarted, PTL

(* What is done about the event an operation is for is warranted when it   *)
(* is done (validate_trigger_planning_admission,                           *)
(* validate_supervisor_action_admission).                                  *)
THEOREM OperationWarranted == Spec => DoneOnlyAsWarranted
<1>1. Spec => InboxSpec
  BY InitComposed, StepComposed, PTL DEF Spec, InboxSpec
<1> QED
  BY <1>1, WarrantedWhenDone, PTL
-----------------------------------------------------------------------------
(* What is approved once the ticket is: the contract it binds, with the    *)
(* steps of that contract's edition.                                       *)
Bound == Front(DigestOf("execution_ticket"))
WhatIsBound == [digest |-> Bound, steps |-> Plan(Last(Bound))]

TicketTyped ==
  ticket \in [schema_version : TicketVersions \cup {Missing},
              approval : {"pending", "approved", Missing}, max_runs : Nat]

(* A held ticket that is not pending says what an approver approved.       *)
TicketSaysApproved ==
  /\ TicketTyped
  /\ Held("execution_ticket") /\ ticket.approval # "pending" => WhatIsBound \in approved

(* The receipt comes after the ticket in the order of roles.               *)
LEMMA ReceiptAfterTicket ==
  /\ Place("execution_receipt") = 5
  /\ ChainRoles[4] = "execution_ticket"
<1>1. /\ DOMAIN ChainRoles = 1..7
      /\ ChainRoles[1] = "intent_contract" /\ ChainRoles[2] = "policy_decision"
      /\ ChainRoles[3] = "execution_contract" /\ ChainRoles[4] = "execution_ticket"
      /\ ChainRoles[5] = "execution_receipt" /\ ChainRoles[6] = "evidence_contract"
      /\ ChainRoles[7] = "artifact_chain_manifest"
  BY DEF ChainRoles
<1>2. ASSUME NEW i \in 1..7, ChainRoles[i] = "execution_receipt" PROVE i = 5
  <2>1. i = 1 \/ i = 2 \/ i = 3 \/ i = 4 \/ i = 5 \/ i = 6 \/ i = 7
    OBVIOUS
  <2> QED
    BY <1>1, <1>2, <2>1
<1> QED
  BY <1>1, <1>2 DEF Place

(* What another role's artifact becomes does not touch the ticket's.       *)
LEMMA OtherRolePlaced ==
  ASSUME NEW role, NEW state, role # "execution_ticket", Placed(role, state)
  PROVE  /\ Held("execution_ticket")' <=> Held("execution_ticket")
         /\ Held("execution_ticket") => Bound' = Bound
BY DEF Placed, Held, Bound, DigestOf

(* At first no ticket is held.                                             *)
LEMMA TicketInit == PipelineInit => TicketSaysApproved
BY DEF PipelineInit, TicketSaysApproved, TicketTyped, NoTicket, Held

(* A ticket that is pending, or not held, says nothing yet. *)
LEMMA PendingSaysNothing ==
  ASSUME TicketTyped, ticket' = [ticket EXCEPT !.approval = "pending"]
  PROVE  TicketSaysApproved'
BY DEF TicketTyped, TicketSaysApproved

(* A ticket that stays as it is says what it said. *)
LEMMA SameTicket ==
  ASSUME TicketSaysApproved, ticket' = ticket, approved \subseteq approved',
         Held("execution_ticket")' => Held("execution_ticket") /\ Bound' = Bound
  PROVE  TicketSaysApproved'
BY DEF TicketSaysApproved, TicketTyped, WhatIsBound

(* An artifact of another role that enters leaves the ticket alone.        *)
LEMMA EntryKeepsTicket ==
  ASSUME TicketSaysApproved, NEW role, NEW digest, role # "execution_ticket",
         Enter(role, digest), UNCHANGED <<ticket, approved>>
  PROVE  TicketSaysApproved'
BY SameTicket, OtherRolePlaced DEF Enter

(* Where the digest of a role's artifact is replaced, the ticket becomes   *)
(* pending if it is the ticket's (Change, Revalidate).                     *)
LEMMA ReplacedDigest ==
  ASSUME TicketSaysApproved, NEW role, Held(role), NEW new,
         held' = [held EXCEPT ![role].descriptor.digest = new],
         ticket' = Reticketed(role), approved' = approved
  PROVE  TicketSaysApproved'
<1>1. CASE role = "execution_ticket"
  BY <1>1, PendingSaysNothing DEF Reticketed, TicketSaysApproved
<1>2. CASE role # "execution_ticket"
  <2>1. /\ ticket' = ticket
        /\ Held("execution_ticket")' => Held("execution_ticket") /\ Bound' = Bound
    BY <1>2 DEF Reticketed, Held, Bound, DigestOf
  <2> QED
    BY <2>1, SameTicket
<1> QED
  BY <1>1, <1>2

(* Approving records the approval with the ticket.                         *)
LEMMA ApproveStep == TicketSaysApproved /\ Approve => TicketSaysApproved'
<1> SUFFICES ASSUME TicketSaysApproved, Approve PROVE TicketSaysApproved'
  OBVIOUS
<1>1. /\ UNCHANGED held
      /\ ticket' = [ticket EXCEPT !.approval = "approved"]
      /\ TheTicket.binds = DigestOf("execution_contract")
      /\ approved' = approved \cup {[digest |-> TheContract.digest, steps |-> TheContract.plan]}
  BY DEF Approve
<1>2. TheTicket.binds = Bound /\ TheContract.digest = DigestOf("execution_contract")
      /\ TheContract.plan = Plan(Last(DigestOf("execution_contract")))
  BY DEF TheTicket, TheContract, Bound
<1>3. WhatIsBound \in approved'
  BY <1>1, <1>2 DEF WhatIsBound
<1>4. WhatIsBound' = WhatIsBound
  BY <1>1 DEF WhatIsBound, Bound, DigestOf
<1>5. TicketTyped'
  BY <1>1 DEF TicketSaysApproved, TicketTyped
<1> QED
  BY <1>3, <1>4, <1>5 DEF TicketSaysApproved

(* Whatever of a change order is carried out, an approved ticket still says *)
(* what was approved.                                                      *)
LEMMA CarryOutStep == TicketSaysApproved /\ CarryOut => TicketSaysApproved'
<1> SUFFICES ASSUME TicketSaysApproved, CarryOut PROVE TicketSaysApproved'
  OBVIOUS
<1> DEFINE verb == Head(order.required_actions)[1]
           role == Head(order.required_actions)[2]
<1>1. CarryOutAction(verb, role) /\ approved' = approved
  BY DEF CarryOut
<1> HIDE DEF verb, role
<1>2. CASE UNCHANGED <<held, ticket>>
  BY <1>1, <1>2, SameTicket DEF Held, Bound, DigestOf
<1>3. CASE Held(role) /\ Placed(role, ArtifactState(held[role].descriptor, {})) /\ ticket' = ticket
  BY <1>1, <1>3, SameTicket DEF Placed, Held, Bound, DigestOf, ArtifactState
<1>4. CASE Held(role) /\ Revalidate(role)
  <2>1. CASE UNCHANGED <<held, ticket>>
    BY <1>2, <2>1
  <2>2. ASSUME NEW gone, held' = Without(gone), ticket' = ticket PROVE TicketSaysApproved'
    BY <1>1, <2>2, SameTicket DEF Without, Held, Bound, DigestOf
  <2>3. CASE /\ held' = [held EXCEPT ![role].descriptor.digest =
                            Rebound(role, Last(held[role].descriptor.digest))]
             /\ ticket' = Reticketed(role)
    <3> DEFINE new == Rebound(role, Last(held[role].descriptor.digest))
    <3>1. held' = [held EXCEPT ![role].descriptor.digest = new]
      BY <2>3
    <3> HIDE DEF new
    <3> QED
      BY <1>1, <1>4, <2>3, <3>1, ReplacedDigest
  <2> QED
    BY <1>4, <2>1, <2>2, <2>3 DEF Revalidate
<1> QED
  BY <1>1, <1>2, <1>3, <1>4 DEF CarryOutAction

(* Every step of the pipeline keeps what tickets say.                      *)
LEMMA TicketStep ==
  TicketSaysApproved /\ [PipelineNext \/ Close]_pipelineVars => TicketSaysApproved'
<1> SUFFICES ASSUME TicketSaysApproved, [PipelineNext \/ Close]_pipelineVars
             PROVE  TicketSaysApproved'
  OBVIOUS
<1>1. CASE UNCHANGED <<held, ticket, approved>>
  BY <1>1, SameTicket DEF Held, Bound, DigestOf
<1>2. ASSUME NEW role \in Roles, Provide(role) PROVE TicketSaysApproved'
  BY <1>2, EntryKeepsTicket DEF Provide, CanProvide
<1>3. ASSUME NEW version \in TicketVersions, IssueTicket(version) PROVE TicketSaysApproved'
  BY <1>3 DEF IssueTicket, TicketSaysApproved, TicketTyped
<1>4. ASSUME NEW steps, Run(steps) PROVE TicketSaysApproved'
  BY <1>4, EntryKeepsTicket DEF Run
<1>5. CASE Approve
  BY <1>5, ApproveStep
<1>6. CASE CarryOut
  BY <1>6, CarryOutStep
<1>7. ASSUME NEW role \in Changing, Change(role) PROVE TicketSaysApproved'
  <2> DEFINE old == held[role].descriptor.digest
             new == Append(Front(old), Last(old) + 1)
  <2>1. held' = [held EXCEPT ![role].descriptor.digest = new]
    BY <1>7 DEF Change
  <2>2. Held(role) /\ ticket' = Reticketed(role) /\ approved' = approved
    BY <1>7 DEF Change
  <2> HIDE DEF new
  <2> QED
    BY <2>1, <2>2, ReplacedDigest
<1>8. ASSUME NEW role \in Failing, Fault(role) PROVE TicketSaysApproved'
  BY <1>8, SameTicket DEF Fault, Placed, Held, Bound, DigestOf, ArtifactState
<1>9. CASE Close
  BY <1>9 DEF Close, TicketSaysApproved, TicketTyped, NoTicket, Held
<1> QED
  BY <1>1, <1>2, <1>3, <1>4, <1>5, <1>6, <1>7, <1>8, <1>9
     DEF PipelineNext, HostStep, pipelineVars, Advance, Hold, TakeOrder

(* What the ticket gate lets through is what the ticket says is approved.  *)
LEMMA RunIsApproved ==
  ASSUME TicketSaysApproved, NEW steps, CanRun(steps)
  PROVE  [digest |-> DigestOf("execution_contract"), steps |-> steps] \in approved
<1>1. Held("execution_ticket")
  BY ReceiptAfterTicket DEF CanRun, Wanted, PredecessorHeld
<1>2. /\ TheTicket.approval \in {"approve", "approved", "approved_for_dry_run"}
      /\ TheTicket.binds = TheContract.digest
      /\ TheContract.plan = steps
  BY DEF CanRun, TicketGate
<1>3. ticket.approval # "pending" /\ Bound = DigestOf("execution_contract")
      /\ Plan(Last(DigestOf("execution_contract"))) = steps
  BY <1>2 DEF TheTicket, TheContract, Bound
<1> QED
  BY <1>1, <1>3 DEF TicketSaysApproved, WhatIsBound

(* Nothing is run but a contract, with its steps, that an approver         *)
(* approved, whatever was changed, found faulty, withdrawn or carried out  *)
(* in between (validate_execution_ticket_gate, transition_decision).       *)
THEOREM OnlyApprovedRuns == Spec => []NothingRunsUnapproved
<1> DEFINE IInv == TicketSaysApproved /\ NothingRunsUnapproved
<1>1. PipelineInit => IInv
  BY TicketInit DEF PipelineInit, NothingRunsUnapproved
<1>2. IInv /\ [PipelineNext \/ Close]_pipelineVars => IInv'
  <2> SUFFICES ASSUME IInv, [PipelineNext \/ Close]_pipelineVars PROVE NothingRunsUnapproved'
    BY TicketStep
  <2> USE DEF NothingRunsUnapproved
  <2>1. CASE ran' = ran /\ approved \subseteq approved'
    BY <2>1
  <2>2. ASSUME NEW steps, Run(steps) PROVE NothingRunsUnapproved'
    BY <2>2, RunIsApproved DEF Run
  <2>3. CASE Close
    BY <2>3 DEF Close
  <2> QED
    BY <2>1, <2>2, <2>3
       DEF PipelineNext, HostStep, pipelineVars, Provide, IssueTicket, Advance, Hold, TakeOrder,
           Approve, CarryOut, Change, Fault
<1>3. Init /\ [][Next]_vars => []IInv
  BY <1>1, <1>2, InitComposed, StepComposed, PTL
<1> QED
  BY <1>3, PTL DEF Spec
-----------------------------------------------------------------------------
(* The least of a nonempty set of indices: the intervals below them,       *)
(* ordered by inclusion, have a smallest one.                              *)
LEMMA LeastIndex ==
  ASSUME NEW n \in Nat, NEW S, S \subseteq 1 .. n, S # {}
  PROVE  \E k \in S : \A j \in S : k <= j
<1> DEFINE below == {1 .. i : i \in S}
<1>1. ASSUME NEW i \in S PROVE IsFiniteSet(1 .. i) /\ 1 .. i \in SUBSET (1 .. n)
  <2>1. i \in 1 .. n
    OBVIOUS
  <2> QED
    BY <2>1, FS_Interval
<1>2. below \subseteq FiniteSubsetsOf(1 .. n) /\ below # {}
  BY <1>1 DEF FiniteSubsetsOf
<1> HIDE DEF below
<1>3. PICK x \in below : \A y \in below : ~(<<y, x>> \in StrictSubsetOrdering(1 .. n))
  BY <1>2, FS_StrictSubsetOrderingWellFounded, WFMin
<1> USE DEF below
<1>4. PICK k \in S : x = 1 .. k
  OBVIOUS
<1>5. ASSUME NEW j \in S, j < k PROVE FALSE
  <2>1. j \in 1 .. n /\ k \in 1 .. n
    OBVIOUS
  <2>2. 1 .. j \subseteq 1 .. k /\ k \in 1 .. k /\ k \notin 1 .. j
    BY <1>5, <2>1
  <2>3. ~(<<1 .. j, 1 .. k>> \in StrictSubsetOrdering(1 .. n))
    BY <1>3, <1>4
  <2> QED
    BY <1>1, <2>2, <2>3 DEF StrictSubsetOrdering
<1>6. \A j \in S : k <= j
  BY <1>5
<1> QED
  BY <1>6

(* Flattening is adding one sequence after the other.                      *)
LEMMA FlattenedStepwise ==
  ASSUME NEW ss, NEW n \in Nat \ {0}, Len(ss) = n
  PROVE  \E f : /\ f = [i \in 1..n |-> IF i = 1 THEN ss[i] ELSE f[i - 1] \o ss[i]]
                /\ FlattenSeq(ss) = f[n]
<1> DEFINE Adds(f, m) == f = [i \in 1..m |-> IF i = 1 THEN ss[i] ELSE f[i - 1] \o ss[i]]
           S == {m \in 1..n : ~\E f : Adds(f, m)}
<1> HIDE DEF Adds
<1>1. S = {}
  <2> SUFFICES ASSUME S # {} PROVE FALSE
    OBVIOUS
  <2>1. S \subseteq 1..n /\ \A j \in 1..n : j \notin S => \E f : Adds(f, j)
    OBVIOUS
  <2>2. ASSUME NEW j \in S PROVE ~\E f : Adds(f, j)
    OBVIOUS
  <2> HIDE DEF S
  <2>3. PICK m \in S : \A j \in S : m <= j
    BY <2>1, LeastIndex
  <2>4. m \in 1..n /\ ~\E f : Adds(f, m)
    BY <2>1, <2>2
  <2>5. CASE m = 1
    <3>1. Adds([i \in 1..1 |-> ss[i]], 1)
      BY DEF Adds
    <3> QED
      BY <2>4, <2>5, <3>1
  <2>6. CASE m # 1
    <3>1. m - 1 \in 1..n /\ ~(m <= m - 1)
      BY <2>4, <2>6
    <3>2. PICK f : Adds(f, m - 1)
      BY <2>1, <2>3, <3>1
    <3>3. \A i \in 1..(m - 1) : f[i] = IF i = 1 THEN ss[i] ELSE f[i - 1] \o ss[i]
      BY <3>2 DEF Adds
    <3> DEFINE g == [i \in 1..m |-> IF i < m THEN f[i] ELSE f[m - 1] \o ss[m]]
    <3>4. ASSUME NEW i \in 1..m PROVE g[i] = IF i = 1 THEN ss[i] ELSE g[i - 1] \o ss[i]
      <4>1. CASE i = m
        <5>1. m - 1 \in 1..m /\ m - 1 < m /\ ~(m < m)
          BY <2>4, <2>6
        <5>2. g[m] = f[m - 1] \o ss[m] /\ g[m - 1] = f[m - 1]
          BY <2>4, <5>1
        <5> QED
          BY <2>6, <4>1, <5>2
      <4>2. CASE i < m
        <5>1. i \in 1..(m - 1) /\ g[i] = f[i]
          BY <2>4, <4>2
        <5>2. f[i] = IF i = 1 THEN ss[i] ELSE f[i - 1] \o ss[i]
          BY <3>3, <5>1
        <5>3. i # 1 => g[i - 1] = f[i - 1]
          BY <2>4, <4>2
        <5> QED
          BY <5>1, <5>2, <5>3
      <4> QED
        BY <2>4, <4>1, <4>2
    <3>5. Adds(g, m)
      BY <3>4 DEF Adds
    <3> HIDE DEF g
    <3> QED
      BY <2>4, <3>5
  <2> QED
    BY <2>5, <2>6
<1> DEFINE flatten == CHOOSE f : f = [i \in 1..Len(ss) |-> IF i = 1 THEN ss[i] ELSE f[i - 1] \o ss[i]]
<1>2. Adds(flatten, n)
  <2>1. \E f : Adds(f, n)
    <3>1. n \in 1..n /\ n \notin S
      BY <1>1
    <3> QED
      BY <3>1
  <2> QED
    BY <2>1 DEF Adds
<1>3. FlattenSeq(ss) = flatten[n]
  BY DEF FlattenSeq
<1> HIDE DEF flatten
<1> QED
  BY <1>2, <1>3 DEF Adds

(* What is in two sequences joined is what is in either.                   *)
LEMMA ElementsOfBoth ==
  ASSUME NEW X, NEW a \in Seq(X), NEW b \in Seq(X)
  PROVE  \A x : x \in ToSet(a \o b) <=> x \in ToSet(a) \/ x \in ToSet(b)
<1>1. a \o b \in Seq(X) /\ Len(a \o b) = Len(a) + Len(b)
  OBVIOUS
<1>2. ASSUME NEW k \in 1..Len(b) PROVE (a \o b)[Len(a) + k] = b[k] /\ Len(a) + k \in 1..Len(a \o b)
  OBVIOUS
<1>3. ASSUME NEW k \in 1..Len(a) PROVE (a \o b)[k] = a[k] /\ k \in 1..Len(a \o b)
  OBVIOUS
<1>4. ASSUME NEW k \in 1..Len(a \o b) PROVE (a \o b)[k] \in ToSet(a) \cup ToSet(b)
  <2>1. CASE k <= Len(a)
    BY <1>1, <1>3, <2>1 DEF ToSet
  <2>2. CASE k > Len(a)
    <3> DEFINE j == k - Len(a)
    <3>1. j \in 1..Len(b) /\ k = Len(a) + j
      BY <1>1, <2>2
    <3> HIDE DEF j
    <3> QED
      BY <1>2, <3>1 DEF ToSet
  <2> QED
    BY <2>1, <2>2
<1>5. ASSUME NEW x, x \in ToSet(a) \/ x \in ToSet(b) PROVE x \in ToSet(a \o b)
  <2>1. CASE x \in ToSet(a)
    BY <1>1, <1>3, <2>1 DEF ToSet
  <2>2. CASE x \in ToSet(b)
    <3>1. PICK k \in 1..Len(b) : x = b[k]
      BY <2>2 DEF ToSet
    <3>2. Len(a) + k \in DOMAIN (a \o b) /\ x = (a \o b)[Len(a) + k]
      BY <1>1, <1>2, <3>1
    <3> QED
      BY <3>2 DEF ToSet
  <2> QED
    BY <1>5, <2>1, <2>2
<1>6. ASSUME NEW x \in ToSet(a \o b) PROVE x \in ToSet(a) \/ x \in ToSet(b)
  BY <1>1, <1>4 DEF ToSet
<1> QED
  BY <1>5, <1>6

(* What is in a sequence of sequences that is flattened is what was in one *)
(* of them.                                                                *)
LEMMA FlattenedElements ==
  ASSUME NEW X, NEW ss \in Seq(Seq(X))
  PROVE  /\ FlattenSeq(ss) \in Seq(X)
         /\ \A x : x \in ToSet(FlattenSeq(ss)) <=> \E i \in DOMAIN ss : x \in ToSet(ss[i])
<1> DEFINE n == Len(ss)
<1>1. CASE n = 0
  <2>1. ss = <<>> /\ FlattenSeq(ss) = <<>>
    BY <1>1 DEF FlattenSeq
  <2>2. ToSet(<<>>) = {} /\ <<>> \in Seq(X) /\ DOMAIN <<>> = {}
    BY DEF ToSet
  <2> QED
    BY <2>1, <2>2
<1>2. CASE n # 0
  <2>1. n \in Nat \ {0} /\ DOMAIN ss = 1..n /\ \A i \in 1..n : ss[i] \in Seq(X)
    BY <1>2
  <2> HIDE DEF n
  <2>2. PICK f : /\ f = [i \in 1..n |-> IF i = 1 THEN ss[i] ELSE f[i - 1] \o ss[i]]
                 /\ FlattenSeq(ss) = f[n]
    BY <2>1, FlattenedStepwise DEF n
  <2>3. \A i \in 1..n : f[i] = IF i = 1 THEN ss[i] ELSE f[i - 1] \o ss[i]
    BY <2>2
  <2> DEFINE Good(m) ==
               /\ f[m] \in Seq(X)
               /\ \A x : x \in ToSet(f[m]) <=> \E i \in 1..m : x \in ToSet(ss[i])
             S == {m \in 1..n : ~Good(m)}
  <2> HIDE DEF Good
  <2>4. S = {}
    <3> SUFFICES ASSUME S # {} PROVE FALSE
      OBVIOUS
    <3>1. S \subseteq 1..n /\ \A j \in 1..n : j \notin S => Good(j)
      OBVIOUS
    <3>2. ASSUME NEW j \in S PROVE ~Good(j)
      OBVIOUS
    <3> HIDE DEF S
    <3>3. PICK m \in S : \A j \in S : m <= j
      BY <2>1, <3>1, LeastIndex
    <3>4. m \in 1..n /\ ~Good(m)
      BY <3>1, <3>2
    <3>5. CASE m = 1
      <4>1. f[1] = ss[1] /\ ss[1] \in Seq(X) /\ 1..1 = {1}
        BY <2>1, <2>3
      <4> QED
        BY <3>4, <3>5, <4>1 DEF Good
    <3>6. CASE m # 1
      <4>1. m - 1 \in 1..n /\ ~(m <= m - 1)
        BY <2>1, <3>4, <3>6
      <4>2. Good(m - 1)
        BY <3>1, <3>3, <4>1
      <4>3. f[m] = f[m - 1] \o ss[m] /\ ss[m] \in Seq(X)
        BY <2>1, <2>3, <3>4, <3>6
      <4>4. f[m - 1] \in Seq(X) /\ f[m] \in Seq(X)
        BY <4>2, <4>3 DEF Good
      <4>5. \A x : x \in ToSet(f[m]) <=> x \in ToSet(f[m - 1]) \/ x \in ToSet(ss[m])
        BY <4>3, <4>4, ElementsOfBoth
      <4>6. 1..m = 1..(m - 1) \cup {m}
        BY <2>1, <3>4
      <4>7. \A x : x \in ToSet(f[m]) <=> \E i \in 1..m : x \in ToSet(ss[i])
        <5>1. \A x : x \in ToSet(f[m - 1]) <=> \E i \in 1..(m - 1) : x \in ToSet(ss[i])
          BY <4>2 DEF Good
        <5> QED
          BY <4>5, <4>6, <5>1
      <4> QED
        BY <3>4, <4>4, <4>7 DEF Good
    <3> QED
      BY <3>5, <3>6
  <2>5. Good(n)
    BY <2>1, <2>4
  <2> QED
    BY <2>1, <2>2, <2>5 DEF Good
<1> QED
  BY <1>1, <1>2
-----------------------------------------------------------------------------
(* Two digests agree on their first n editions. *)
Same(a, b, n) == \A i \in 1..n : a[i] = b[i]

(* The one is older: they agree up to an edition that is lower in it. *)
Before(a, b, n) == \E i \in 1..n : a[i] < b[i] /\ Same(a, b, i - 1)

NotAfter(a, b, n) == Same(a, b, n) \/ Before(a, b, n)

(* Digests of the role at a place. *)
DigestsAt(n) == {d \in Seq(Nat) : Len(d) = n}

(* An edition of a digest is a number. *)
LEMMA EditionIsNumber ==
  ASSUME NEW n \in Nat, NEW a \in DigestsAt(n), NEW i \in 1..n
  PROVE  a[i] \in Nat
BY DEF DigestsAt

(* What is older on fewer editions is older on more. *)
LEMMA OlderOnMore ==
  ASSUME NEW n \in Nat, NEW m \in Nat, m <= n, NEW a, NEW b, Before(a, b, m)
  PROVE  Before(a, b, n)
<1>1. PICK i \in 1..m : a[i] < b[i] /\ Same(a, b, i - 1)
  BY DEF Before
<1>2. i \in 1..n
  OBVIOUS
<1> QED
  BY <1>1, <1>2 DEF Before

(* What is not newer on more editions is not newer on fewer. *)
LEMMA NotNewerOnFewer ==
  ASSUME NEW n \in Nat, NEW m \in Nat, m <= n, NEW a, NEW b, NotAfter(a, b, n)
  PROVE  NotAfter(a, b, m)
<1>1. CASE Same(a, b, n)
  BY <1>1 DEF Same, NotAfter
<1>2. CASE Before(a, b, n)
  <2>1. PICK i \in 1..n : a[i] < b[i] /\ Same(a, b, i - 1)
    BY <1>2 DEF Before
  <2>2. CASE i \in 1..m
    BY <2>1, <2>2 DEF Before, NotAfter
  <2>3. CASE i \notin 1..m
    BY <2>1, <2>3 DEF Same, NotAfter
  <2> QED
    BY <2>2, <2>3
<1> QED
  BY <1>1, <1>2 DEF NotAfter

(* Age is transitive, and strict as soon as one part of it is. *)
LEMMA OlderThanNotNewer ==
  ASSUME NEW n \in Nat, NEW a, NEW b, NEW c,
         \A i \in 1..n : a[i] \in Nat /\ b[i] \in Nat /\ c[i] \in Nat,
         NotAfter(a, b, n), NotAfter(b, c, n)
  PROVE  /\ NotAfter(a, c, n)
         /\ Before(a, b, n) \/ Before(b, c, n) => Before(a, c, n)
<1>1. CASE Same(a, b, n) /\ Same(b, c, n)
  <2>1. Same(a, c, n)
    BY <1>1 DEF Same
  <2>2. ~Before(a, b, n) /\ ~Before(b, c, n)
    BY <1>1 DEF Same, Before
  <2> QED
    BY <2>1, <2>2 DEF NotAfter
<1>2. ASSUME NEW i \in 1..n, NEW j \in 1..n, a[i] < b[i], Same(a, b, i - 1),
             b[j] < c[j], Same(b, c, j - 1)
      PROVE  Before(a, c, n)
  <2>1. CASE i <= j
    <3>1. Same(a, c, i - 1)
      BY <1>2, <2>1 DEF Same
    <3>2. a[i] < c[i]
      BY <1>2, <2>1 DEF Same
    <3> QED
      BY <3>1, <3>2 DEF Before
  <2>2. CASE j < i
    <3>1. Same(a, c, j - 1)
      BY <1>2, <2>2 DEF Same
    <3>2. a[j] < c[j]
      BY <1>2, <2>2 DEF Same
    <3> QED
      BY <3>1, <3>2 DEF Before
  <2> QED
    BY <2>1, <2>2
<1>3. ASSUME Same(a, b, n), NEW j \in 1..n, b[j] < c[j], Same(b, c, j - 1)
      PROVE  Before(a, c, n)
  <2>1. Same(a, c, j - 1) /\ a[j] < c[j]
    BY <1>3 DEF Same
  <2> QED
    BY <2>1 DEF Before
<1>4. ASSUME Same(b, c, n), NEW i \in 1..n, a[i] < b[i], Same(a, b, i - 1)
      PROVE  Before(a, c, n)
  <2>1. Same(a, c, i - 1) /\ a[i] < c[i]
    BY <1>4 DEF Same
  <2> QED
    BY <2>1 DEF Before
<1>5. CASE Before(a, b, n) /\ Before(b, c, n)
  <2>1. Before(a, c, n)
    BY <1>2, <1>5 DEF Before
  <2> QED
    BY <2>1 DEF NotAfter
<1>6. CASE Same(a, b, n) /\ Before(b, c, n)
  <2>1. Before(a, c, n)
    BY <1>3, <1>6 DEF Before
  <2> QED
    BY <2>1 DEF NotAfter
<1>7. CASE Before(a, b, n) /\ Same(b, c, n)
  <2>1. Before(a, c, n)
    BY <1>4, <1>7 DEF Before
  <2> QED
    BY <2>1 DEF NotAfter
<1> QED
  BY <1>1, <1>5, <1>6, <1>7 DEF NotAfter

(* What agrees with it is as old. *)
LEMMA SameIsAsOld ==
  ASSUME NEW n \in Nat, NEW a, NEW b, NEW c, Same(a, b, n), NotAfter(b, c, n)
  PROVE  NotAfter(a, c, n)
<1>1. CASE Same(b, c, n)
  BY <1>1 DEF Same, NotAfter
<1>2. CASE Before(b, c, n)
  <2>1. PICK i \in 1..n : b[i] < c[i] /\ Same(b, c, i - 1)
    BY <1>2 DEF Before
  <2>2. a[i] < c[i] /\ Same(a, c, i - 1)
    BY <2>1 DEF Same
  <2> QED
    BY <2>2 DEF Before, NotAfter
<1> QED
  BY <1>1, <1>2 DEF NotAfter

(* What is older is another. *)
LEMMA OlderIsAnother ==
  ASSUME NEW n \in Nat, NEW a, NEW b, \A i \in 1..n : b[i] \in Nat, Before(a, b, n)
  PROVE  a # b
BY DEF Before

-----------------------------------------------------------------------------
(* Digests by place: g of the artifacts that are held, rec those recorded  *)
(* of them, left the places a change order has still to revalidate.        *)
DigestsTyped(g, rec) ==
  /\ DOMAIN g \subseteq 1..7
  /\ \A i \in DOMAIN g : g[i] \in DigestsAt(i)
  /\ \A i \in 1..7 : rec[i] \subseteq DigestsAt(i)

Unbroken(g) == \A i \in DOMAIN g : \A j \in 1..i : j \in DOMAIN g

(* An artifact is made of those before it as they are or were. *)
MadeInOrder(g) == \A i, j \in DOMAIN g : j < i => NotAfter(g[i], g[j], j)

(* What was recorded of an artifact is not newer than it is; where it was  *)
(* withdrawn, older than what it would be made of now.                     *)
RecordedInOrder(g, rec) ==
  /\ \A q \in DOMAIN g : \A d \in rec[q] : NotAfter(d, g[q], q)
  /\ \A q \in 1..7 \ DOMAIN g : \A d \in rec[q] :
       4 \in DOMAIN g /\ \A p \in DOMAIN g : p >= 4 => Before(d, g[p], p)

(* Where an artifact is not of its predecessor as that is, the predecessor *)
(* differs from all that was recorded of it, or the artifact is still to   *)
(* be revalidated.                                                         *)
Accounted(g, rec, left) ==
  \A p \in DOMAIN g \ {1} : Same(g[p], g[p - 1], p - 1) \/ p \in left \/ g[p - 1] \notin rec[p - 1]

WellChained(g, rec, left) ==
  /\ DigestsTyped(g, rec) /\ Unbroken(g) /\ MadeInOrder(g)
  /\ RecordedInOrder(g, rec) /\ Accounted(g, rec, left)

(* With less recorded, or more to be revalidated, all stays accounted for. *)
LEMMA LessRecorded ==
  ASSUME NEW g, NEW rec, NEW left, WellChained(g, rec, left),
         NEW rec2, \A i \in 1..7 : rec2[i] \subseteq rec[i],
         NEW left2, \A p \in DOMAIN g \ {1} : p \in left => p \in left2 \/ Same(g[p], g[p - 1], p - 1)
  PROVE  WellChained(g, rec2, left2)
<1>1. DigestsTyped(g, rec2) /\ Unbroken(g) /\ MadeInOrder(g)
  BY DEF WellChained, DigestsTyped
<1>2. RecordedInOrder(g, rec2)
  BY DEF WellChained, RecordedInOrder, DigestsTyped
<1>3. Accounted(g, rec2, left2)
  <2> SUFFICES ASSUME NEW p \in DOMAIN g \ {1}
               PROVE  Same(g[p], g[p - 1], p - 1) \/ p \in left2 \/ g[p - 1] \notin rec2[p - 1]
    BY DEF Accounted
  <2>1. p - 1 \in 1..7
    BY DEF WellChained, DigestsTyped
  <2>2. Same(g[p], g[p - 1], p - 1) \/ p \in left \/ g[p - 1] \notin rec[p - 1]
    BY DEF WellChained, Accounted
  <2> QED
    BY <2>1, <2>2
<1> QED
  BY <1>1, <1>2, <1>3 DEF WellChained

(* At a place where nothing was held there is an artifact now, made of its *)
(* predecessor as that is.                                                 *)
Entered(g, r, g2) ==
  /\ r \in 1..7 /\ r \notin DOMAIN g /\ (r # 1 => r - 1 \in DOMAIN g)
  /\ DOMAIN g2 = DOMAIN g \cup {r} /\ \A i \in DOMAIN g : g2[i] = g[i]
  /\ g2[r] \in DigestsAt(r) /\ (r # 1 => Same(g2[r], g[r - 1], r - 1))

RecordedAlso(rec, r, digest, rec2) ==
  \A i \in 1..7 : \A d \in rec2[i] : d \in rec[i] \/ (i = r /\ d = digest)

(* An artifact made of its predecessor as that is enters the chain.        *)
LEMMA ChainGrows ==
  ASSUME NEW g, NEW rec, NEW left, WellChained(g, rec, left),
         NEW r, NEW g2, Entered(g, r, g2), NEW rec2, RecordedAlso(rec, r, g2[r], rec2)
  PROVE  WellChained(g2, rec2, left)
<1> DEFINE new == g2[r]
<1> USE DEF WellChained, Entered, RecordedAlso
<1>1. DigestsTyped(g2, rec2)
  BY DEF DigestsTyped
<1>2. Unbroken(g2)
  <2> SUFFICES ASSUME NEW i \in DOMAIN g2, NEW j \in 1..i PROVE j \in DOMAIN g2
    BY DEF Unbroken
  <2>1. CASE i # r
    BY <2>1 DEF Unbroken
  <2>2. CASE i = r /\ j # r
    BY <2>2 DEF Unbroken
  <2> QED
    BY <2>1, <2>2
<1>3. \A i \in DOMAIN g : i < r
  BY DEF Unbroken, DigestsTyped
<1>4. ASSUME NEW j \in DOMAIN g PROVE NotAfter(new, g[j], j)
  <2>1. j < r /\ r - 1 \in DOMAIN g /\ j \in 1..7 /\ r # 1
    BY <1>3 DEF DigestsTyped
  <2>2. CASE j = r - 1
    BY <2>1, <2>2 DEF NotAfter
  <2>3. CASE j < r - 1
    <3>1. NotAfter(g[r - 1], g[j], j)
      BY <2>1, <2>3 DEF MadeInOrder
    <3>2. Same(new, g[r - 1], j)
      BY <2>1, <2>3 DEF Same
    <3> QED
      BY <2>1, <3>1, <3>2, SameIsAsOld
  <2> QED
    BY <2>1, <2>2, <2>3
<1>5. MadeInOrder(g2)
  BY <1>3, <1>4 DEF MadeInOrder, DigestsTyped
<1>6. ASSUME NEW q \in 1..7, NEW d \in rec[q], q \notin DOMAIN g
      PROVE  r > 4 /\ Before(d, new, r)
  <2>1. r > 4
    BY <1>3, <1>6 DEF RecordedInOrder
  <2>2. Before(d, g[r - 1], r - 1)
    BY <1>6, <2>1 DEF RecordedInOrder
  <2>3. Before(d, new, r - 1)
    BY <2>1, <2>2 DEF Before, Same
  <2> QED
    BY <2>1, <2>3, OlderOnMore
<1>7. RecordedInOrder(g2, rec2)
  <2>1. ASSUME NEW q \in DOMAIN g2, NEW d \in rec2[q] PROVE NotAfter(d, g2[q], q)
    <3>1. q \in 1..7
      BY DEF DigestsTyped
    <3>2. CASE q # r
      BY <3>1, <3>2 DEF RecordedInOrder
    <3>3. CASE q = r /\ d = new
      BY <3>3 DEF NotAfter, Same
    <3>4. CASE q = r /\ d \in rec[r]
      BY <3>4, <1>6 DEF NotAfter
    <3> QED
      BY <3>1, <3>2, <3>3, <3>4
  <2>2. ASSUME NEW q \in 1..7 \ DOMAIN g2, NEW d \in rec2[q]
        PROVE  4 \in DOMAIN g2 /\ \A p \in DOMAIN g2 : p >= 4 => Before(d, g2[p], p)
    <3>1. q # r /\ d \in rec[q] /\ q \notin DOMAIN g
      OBVIOUS
    <3>2. 4 \in DOMAIN g /\ \A p \in DOMAIN g : p >= 4 => Before(d, g[p], p)
      BY <3>1 DEF RecordedInOrder
    <3>3. Before(d, g2[r], r)
      BY <3>1, <1>6
    <3> QED
      BY <3>2, <3>3
  <2> QED
    BY <2>1, <2>2 DEF RecordedInOrder
<1>8. Accounted(g2, rec2, left)
  <2> SUFFICES ASSUME NEW p \in DOMAIN g2 \ {1}
               PROVE  Same(g2[p], g2[p - 1], p - 1) \/ p \in left \/ g2[p - 1] \notin rec2[p - 1]
    BY DEF Accounted
  <2>1. CASE p = r
    BY <2>1
  <2>2. CASE p # r
    <3>1. p \in DOMAIN g /\ p - 1 \in DOMAIN g /\ p - 1 # r /\ p - 1 \in 1..7
      BY <1>3, <2>2 DEF Unbroken, DigestsTyped
    <3>2. Same(g[p], g[p - 1], p - 1) \/ p \in left \/ g[p - 1] \notin rec[p - 1]
      BY <3>1 DEF Accounted
    <3> QED
      BY <3>1, <3>2
  <2> QED
    BY <2>1, <2>2
<1> QED
  BY <1>1, <1>2, <1>5, <1>7, <1>8

(* The artifact at a place becomes newer than it was, and either is of its *)
(* predecessor as much as it was or is so now.                             *)
LEMMA DigestRises ==
  ASSUME NEW g, NEW rec, NEW left, WellChained(g, rec, left),
         NEW r \in DOMAIN g, NEW new \in DigestsAt(r), Before(g[r], new, r),
         NEW left2, left \ {r} \subseteq left2,
         \/ (Same(new, g[r], r - 1) /\ left \subseteq left2)
         \/ (r # 1 /\ Same(new, g[r - 1], r - 1)),
         NEW g2, DOMAIN g2 = DOMAIN g, g2[r] = new, \A i \in DOMAIN g \ {r} : g2[i] = g[i]
  PROVE  WellChained(g2, rec, left2)
<1> USE DEF WellChained
<1>1. DigestsTyped(g2, rec) /\ Unbroken(g2)
  BY DEF DigestsTyped, Unbroken
<1>2. r \in 1..7 /\ g[r] \in DigestsAt(r)
  BY DEF DigestsTyped
<1>3. ASSUME NEW j \in DOMAIN g, j < r PROVE NotAfter(new, g[j], j)
  <2>1. j \in 1..7 /\ NotAfter(g[r], g[j], j)
    BY <1>3 DEF MadeInOrder, DigestsTyped
  <2>2. CASE Same(new, g[r], r - 1)
    <3>1. Same(new, g[r], j)
      BY <1>2, <1>3, <2>1, <2>2 DEF Same
    <3> QED
      BY <2>1, <3>1, SameIsAsOld
  <2>3. CASE r # 1 /\ Same(new, g[r - 1], r - 1)
    <3>1. r - 1 \in DOMAIN g
      BY <1>2, <2>3 DEF Unbroken
    <3>2. CASE j = r - 1
      BY <2>3, <3>2 DEF NotAfter
    <3>3. CASE j < r - 1
      <4>1. NotAfter(g[r - 1], g[j], j)
        BY <3>1, <3>3 DEF MadeInOrder
      <4>2. Same(new, g[r - 1], j)
        BY <1>2, <2>1, <2>3, <3>3 DEF Same
      <4> QED
        BY <2>1, <4>1, <4>2, SameIsAsOld
    <3> QED
      BY <1>2, <1>3, <2>1, <3>2, <3>3
  <2> QED
    BY <2>2, <2>3
<1>4. ASSUME NEW n \in 1..r, NEW k \in 1..7, k >= n, NEW d \in DigestsAt(k), NotAfter(d, g[r], n)
      PROVE  /\ NotAfter(d, new, n)
             /\ n = r => Before(d, new, n)
             /\ Before(d, g[r], n) => Before(d, new, n)
  <2>1. \A i \in 1..n : d[i] \in Nat /\ g[r][i] \in Nat /\ new[i] \in Nat
    BY <1>2, <1>4, EditionIsNumber
  <2>2. NotAfter(g[r], new, r)
    BY DEF NotAfter
  <2>3. n \in Nat /\ NotAfter(g[r], new, n)
    BY <1>2, <2>2, NotNewerOnFewer
  <2> QED
    BY <1>4, <2>1, <2>3, OlderThanNotNewer
<1>5. MadeInOrder(g2)
  <2> SUFFICES ASSUME NEW i \in DOMAIN g, NEW j \in DOMAIN g, j < i
               PROVE  NotAfter(g2[i], g2[j], j)
    BY DEF MadeInOrder
  <2>1. NotAfter(g[i], g[j], j) /\ i \in 1..7 /\ j \in 1..7
    BY DEF MadeInOrder, DigestsTyped
  <2>2. CASE i = r
    BY <1>3, <2>1, <2>2
  <2>3. CASE j = r
    <3>1. g[i] \in DigestsAt(i) /\ r \in 1..r
      BY <1>2 DEF DigestsTyped
    <3> QED
      BY <1>4, <2>1, <2>3, <3>1
  <2> QED
    BY <2>1, <2>2, <2>3
<1>6. RecordedInOrder(g2, rec)
  <2>1. ASSUME NEW q \in DOMAIN g, NEW d \in rec[q] PROVE NotAfter(d, g2[q], q)
    <3>1. NotAfter(d, g[q], q) /\ q \in 1..7 /\ d \in DigestsAt(q)
      BY DEF RecordedInOrder, DigestsTyped
    <3>2. r \in 1..r
      BY <1>2
    <3> QED
      BY <1>4, <3>1, <3>2
  <2>2. ASSUME NEW q \in 1..7 \ DOMAIN g, NEW d \in rec[q], NEW p \in DOMAIN g, p >= 4
        PROVE  Before(d, g2[p], p)
    <3>1. Before(d, g[p], p) /\ d \in DigestsAt(q) /\ p \in 1..7
      BY <2>2 DEF RecordedInOrder, DigestsTyped
    <3>2. q >= p
      BY <3>1 DEF Unbroken
    <3>3. p = r => Before(d, new, p)
      BY <1>2, <1>4, <3>1, <3>2 DEF NotAfter
    <3> QED
      BY <3>1, <3>3
  <2>3. ASSUME NEW q \in 1..7 \ DOMAIN g, NEW d \in rec[q] PROVE 4 \in DOMAIN g
    BY DEF RecordedInOrder
  <2> QED
    BY <2>1, <2>2, <2>3 DEF RecordedInOrder
<1>7. new \notin rec[r]
  <2> SUFFICES ASSUME new \in rec[r] PROVE FALSE
    OBVIOUS
  <2>1. NotAfter(new, g[r], r) /\ r \in 1..r /\ r >= r
    BY <1>2 DEF RecordedInOrder
  <2>2. Before(new, new, r)
    BY <1>2, <1>4, <2>1
  <2>3. \A i \in 1..r : new[i] \in Nat
    BY <1>2, EditionIsNumber
  <2> QED
    BY <1>2, <2>2, <2>3, OlderIsAnother
<1>8. Accounted(g2, rec, left2)
  <2> SUFFICES ASSUME NEW p \in DOMAIN g \ {1}
               PROVE  Same(g2[p], g2[p - 1], p - 1) \/ p \in left2 \/ g2[p - 1] \notin rec[p - 1]
    BY DEF Accounted
  <2>1. p \in 1..7 /\ p - 1 \in DOMAIN g
    BY DEF Unbroken, DigestsTyped
  <2>2. Same(g[p], g[p - 1], p - 1) \/ p \in left \/ g[p - 1] \notin rec[p - 1]
    BY DEF Accounted
  <2>3. CASE p = r
    <3>1. g2[p - 1] = g[p - 1]
      BY <2>1, <2>3
    <3>2. CASE Same(new, g[r], r - 1) /\ left \subseteq left2
      BY <2>1, <2>2, <2>3, <3>1, <3>2 DEF Same
    <3>3. CASE Same(new, g[r - 1], r - 1)
      BY <2>3, <3>1, <3>3
    <3> QED
      BY <2>3, <3>2, <3>3
  <2>4. CASE p - 1 = r
    BY <1>7, <2>4
  <2>5. CASE p # r /\ p - 1 # r
    BY <2>1, <2>2, <2>5
  <2> QED
    BY <2>3, <2>4, <2>5
<1> QED
  BY <1>1, <1>5, <1>6, <1>8

(* A receipt that is not of its ticket as that is, is withdrawn with all   *)
(* that rests on it.                                                       *)
LEMMA ChainIsCut ==
  ASSUME NEW g, NEW rec, NEW left, WellChained(g, rec, left),
         5 \in DOMAIN g, ~Same(g[5], g[4], 4),
         NEW left2, left \ {5} \subseteq left2,
         NEW g2, DOMAIN g2 = DOMAIN g \cap 1..4, \A i \in DOMAIN g2 : g2[i] = g[i]
  PROVE  WellChained(g2, rec, left2)
<1> USE DEF WellChained
<1>1. DigestsTyped(g2, rec) /\ Unbroken(g2) /\ MadeInOrder(g2)
  BY DEF DigestsTyped, Unbroken, MadeInOrder
<1>2. Accounted(g2, rec, left2)
  <2> SUFFICES ASSUME NEW p \in DOMAIN g2 \ {1}
               PROVE  Same(g2[p], g2[p - 1], p - 1) \/ p \in left2 \/ g2[p - 1] \notin rec[p - 1]
    BY DEF Accounted
  <2>1. p \in DOMAIN g /\ p \in 1..4 /\ p - 1 \in DOMAIN g2
    BY DEF Unbroken
  <2>2. Same(g[p], g[p - 1], p - 1) \/ p \in left \/ g[p - 1] \notin rec[p - 1]
    BY <2>1 DEF Accounted
  <2> QED
    BY <2>1, <2>2
<1>3. 4 \in DOMAIN g /\ Before(g[5], g[4], 4)
  <2>1. 4 \in DOMAIN g
    BY DEF Unbroken
  <2>2. NotAfter(g[5], g[4], 4)
    BY <2>1 DEF MadeInOrder
  <2> QED
    BY <2>1, <2>2 DEF NotAfter
<1>4. ASSUME NEW q \in 5..7, NEW d \in rec[q] PROVE Before(d, g[4], 4)
  <2>1. q \in 1..7 /\ d \in DigestsAt(q) /\ g[5] \in DigestsAt(5) /\ g[4] \in DigestsAt(4)
    BY <1>3 DEF DigestsTyped
  <2>2. CASE q \notin DOMAIN g
    BY <1>3, <2>1, <2>2 DEF RecordedInOrder
  <2>3. CASE q \in DOMAIN g
    <3>1. NotAfter(d, g[q], q) /\ g[q] \in DigestsAt(q)
      BY <2>3 DEF RecordedInOrder, DigestsTyped
    <3>2. NotAfter(d, g[q], 4)
      BY <2>1, <3>1, NotNewerOnFewer
    <3>3. NotAfter(g[q], g[5], 4)
      <4>1. CASE q = 5
        BY <4>1 DEF NotAfter, Same
      <4>2. CASE q # 5
        <5>1. NotAfter(g[q], g[5], 5)
          BY <2>3, <4>2 DEF MadeInOrder
        <5> QED
          BY <5>1, NotNewerOnFewer
      <4> QED
        BY <4>1, <4>2
    <3>4. ASSUME NEW i \in 1..4
          PROVE  d[i] \in Nat /\ g[q][i] \in Nat /\ g[5][i] \in Nat /\ g[4][i] \in Nat
      <4>1. i \in 1..q /\ i \in 1..5 /\ q \in Nat
        OBVIOUS
      <4> QED
        BY <2>1, <3>1, <4>1, EditionIsNumber
    <3>5. NotAfter(d, g[5], 4)
      BY <3>2, <3>3, <3>4, OlderThanNotNewer
    <3>6. NotAfter(g[5], g[4], 4)
      BY <1>3 DEF NotAfter
    <3> QED
      BY <1>3, <3>4, <3>5, <3>6, OlderThanNotNewer
  <2> QED
    BY <2>2, <2>3
<1>5. RecordedInOrder(g2, rec)
  <2>1. ASSUME NEW q \in DOMAIN g2, NEW d \in rec[q] PROVE NotAfter(d, g2[q], q)
    BY DEF RecordedInOrder
  <2>2. ASSUME NEW q \in 1..7 \ DOMAIN g2, NEW d \in rec[q]
        PROVE  4 \in DOMAIN g2 /\ \A p \in DOMAIN g2 : p >= 4 => Before(d, g2[p], p)
    <3>1. q \in 5..7
      BY <1>3 DEF Unbroken
    <3>2. \A p \in DOMAIN g2 : p >= 4 => p = 4
      OBVIOUS
    <3>3. 4 \in DOMAIN g2
      BY <1>3
    <3>4. Before(d, g[4], 4)
      BY <1>4, <3>1
    <3>5. g2[4] = g[4]
      BY <3>3
    <3> QED
      BY <3>2, <3>3, <3>4, <3>5
  <2> QED
    BY <2>1, <2>2 DEF RecordedInOrder
<1> QED
  BY <1>1, <1>2, <1>5

(* A change order records the digests of some of the artifacts that are    *)
(* held, and has all that were made of those revalidated.                  *)
LEMMA OrderRecords ==
  ASSUME NEW g, NEW rec, NEW left, WellChained(g, rec, left),
         NEW rec2, \A i \in 1..7 : \A d \in rec2[i] : d \in rec[i] \/ (i \in DOMAIN g /\ d = g[i]),
         NEW left2, left \subseteq left2,
         \A q \in 1..7 : rec2[q] \subseteq rec[q] \/ \A p \in 1..7 : p > q => p \in left2
  PROVE  WellChained(g, rec2, left2)
<1> USE DEF WellChained
<1>1. DigestsTyped(g, rec2)
  BY DEF DigestsTyped
<1>2. RecordedInOrder(g, rec2)
  <2>1. ASSUME NEW q \in DOMAIN g, NEW d \in rec2[q] PROVE NotAfter(d, g[q], q)
    <3>1. q \in 1..7
      BY DEF DigestsTyped
    <3> QED
      BY <3>1 DEF RecordedInOrder, NotAfter, Same
  <2> QED
    BY <2>1 DEF RecordedInOrder
<1>3. Accounted(g, rec2, left2)
  <2> SUFFICES ASSUME NEW p \in DOMAIN g \ {1}
               PROVE  Same(g[p], g[p - 1], p - 1) \/ p \in left2 \/ g[p - 1] \notin rec2[p - 1]
    BY DEF Accounted
  <2>1. p \in 1..7 /\ p - 1 \in 1..7 /\ p > p - 1
    BY DEF DigestsTyped
  <2>2. Same(g[p], g[p - 1], p - 1) \/ p \in left \/ g[p - 1] \notin rec[p - 1]
    BY DEF Accounted
  <2> QED
    BY <2>1, <2>2
<1> QED
  BY <1>1, <1>2, <1>3

(* Where all that is held was recorded as it is and nothing is left to be  *)
(* revalidated, every artifact is of all before it as they are.            *)
LEMMA AllOfThoseBefore ==
  ASSUME NEW g, NEW rec, WellChained(g, rec, {}), \A i \in DOMAIN g : g[i] \in rec[i],
         NEW i \in DOMAIN g, NEW p \in DOMAIN g, i < p
  PROVE  Same(g[p], g[i], i)
<1> DEFINE Off == {k \in 1..7 : k \in DOMAIN g /\ i < k /\ ~Same(g[k], g[i], i)}
<1>1. \A k \in DOMAIN g : k \in 1..7
  BY DEF WellChained, DigestsTyped
<1>2. Off = {}
  <2> SUFFICES ASSUME Off # {} PROVE FALSE
    OBVIOUS
  <2>1. PICK k \in Off : \A j \in Off : k <= j
    <3> HIDE DEF Off
    <3>1. Off \subseteq 1..7
      BY DEF Off
    <3> QED
      BY <3>1, LeastIndex
  <2>2. k \in 2..7 /\ k \in DOMAIN g /\ k - 1 \in DOMAIN g /\ i <= k - 1
    BY <1>1, <2>1 DEF WellChained, Unbroken
  <2>3. Same(g[k], g[k - 1], k - 1)
    <3>1. g[k - 1] \in rec[k - 1] /\ k \in DOMAIN g \ {1} /\ k \notin {}
      BY <2>2
    <3>2. Accounted(g, rec, {})
      BY DEF WellChained
    <3> QED
      BY <3>1, <3>2 DEF Accounted
  <2>4. i = k - 1 \/ Same(g[k - 1], g[i], i)
    <3>1. k - 1 \notin Off
      BY <2>1, <2>2
    <3> QED
      BY <1>1, <2>2, <3>1
  <2>5. Same(g[k], g[i], i)
    BY <1>1, <2>2, <2>3, <2>4 DEF Same
  <2> QED
    BY <2>1, <2>5
<1> QED
  BY <1>1, <1>2
-----------------------------------------------------------------------------
(* The roles, digests, conflicts and change orders of the lifecycle.       *)

(* The roles and their places. *)
LEMMA PlacesOfRoles ==
  /\ DOMAIN ChainRoles = 1..7 /\ Len(ChainRoles) = 7
  /\ \A i \in 1..7 : ChainRoles[i] \in Roles /\ Place(ChainRoles[i]) = i
  /\ \A role \in Roles : Place(role) \in 1..7 /\ ChainRoles[Place(role)] = role
<1>1. DOMAIN ChainRoles = 1..7 /\ Len(ChainRoles) = 7
  BY DEF ChainRoles
<1>2. /\ ChainRoles[1] = "intent_contract" /\ ChainRoles[2] = "policy_decision"
      /\ ChainRoles[3] = "execution_contract" /\ ChainRoles[4] = "execution_ticket"
      /\ ChainRoles[5] = "execution_receipt" /\ ChainRoles[6] = "evidence_contract"
      /\ ChainRoles[7] = "artifact_chain_manifest"
  BY DEF ChainRoles
<1>3. ASSUME NEW i \in 1..7, NEW j \in 1..7, ChainRoles[i] = ChainRoles[j] PROVE i = j
  <2>1. i = 1 \/ i = 2 \/ i = 3 \/ i = 4 \/ i = 5 \/ i = 6 \/ i = 7
    OBVIOUS
  <2>2. j = 1 \/ j = 2 \/ j = 3 \/ j = 4 \/ j = 5 \/ j = 6 \/ j = 7
    OBVIOUS
  <2> QED
    BY <1>2, <1>3, <2>1, <2>2
<1>4. \A role : role \in Roles <=> \E i \in 1..7 : ChainRoles[i] = role
  BY <1>1 DEF Roles, ToSet
<1>5. ASSUME NEW i \in 1..7 PROVE Place(ChainRoles[i]) = i
  <2>1. \E j \in 1..7 : ChainRoles[j] = ChainRoles[i]
    OBVIOUS
  <2>2. Place(ChainRoles[i]) \in 1..7 /\ ChainRoles[Place(ChainRoles[i])] = ChainRoles[i]
    BY <1>1, <2>1 DEF Place
  <2> QED
    BY <1>3, <2>2
<1> QED
  BY <1>1, <1>4, <1>5

(* What is made of a role's artifact is at the places after it. *)
LEMMA RolesDownstream ==
  ASSUME NEW role \in Roles
  PROVE  /\ DownstreamRoles(role) \in Seq(Roles)
         /\ \A r : r \in ToSet(DownstreamRoles(role)) <=> r \in Roles /\ Place(r) > Place(role)
<1> DEFINE n == Place(role)
           down == DownstreamRoles(role)
<1>1. n \in 1..7 /\ ChainRoles \in Seq(Roles)
  <2>1. ChainRoles = [i \in 1..Len(ChainRoles) |-> ChainRoles[i]]
    BY DEF ChainRoles
  <2>2. ChainRoles = [i \in 1..7 |-> ChainRoles[i]] /\ \A i \in 1..7 : ChainRoles[i] \in Roles
    BY <2>1, PlacesOfRoles
  <2>3. ChainRoles \in Seq(Roles)
    BY <2>2
  <2> QED
    BY <2>3, PlacesOfRoles
<1>2. down = [i \in 1..(7 - n) |-> ChainRoles[n + i]]
  <2>1. down = SubSeq(ChainRoles, n + 1, 7)
    BY PlacesOfRoles DEF DownstreamRoles
  <2> HIDE DEF n, down
  <2> QED
    BY <1>1, <2>1
<1> HIDE DEF n, down
<1>3. down \in Seq(Roles) /\ DOMAIN down = 1..(7 - n)
  BY <1>1, <1>2, PlacesOfRoles
<1>4. ASSUME NEW r \in ToSet(down) PROVE r \in Roles /\ Place(r) > n
  <2>1. PICK i \in 1..(7 - n) : r = ChainRoles[n + i]
    BY <1>2, <1>3 DEF ToSet
  <2>2. n + i \in 1..7
    BY <1>1
  <2> QED
    BY <1>1, <2>1, <2>2, PlacesOfRoles
<1>5. ASSUME NEW r \in Roles, Place(r) > n PROVE r \in ToSet(down)
  <2> DEFINE i == Place(r) - n
  <2>1. i \in 1..(7 - n) /\ n + i = Place(r)
    BY <1>1, <1>5, PlacesOfRoles
  <2> HIDE DEF i
  <2>2. down[i] = r /\ i \in DOMAIN down
    BY <1>2, <2>1, PlacesOfRoles
  <2> QED
    BY <2>2 DEF ToSet
<1> QED
  BY <1>3, <1>4, <1>5 DEF n, down

(* A digest is the one it was made of, with an edition of its own. *)
LEMMA Appended ==
  ASSUME NEW n \in Nat, NEW a \in DigestsAt(n), NEW e \in Nat
  PROVE  /\ Append(a, e) \in DigestsAt(n + 1)
         /\ Same(Append(a, e), a, n)
         /\ Append(a, e)[n + 1] = e
BY DEF DigestsAt, Same

(* It is told by that one and its own edition. *)
LEMMA AppendedIsSame ==
  ASSUME NEW n \in Nat, NEW a \in DigestsAt(n + 1), NEW b \in DigestsAt(n)
  PROVE  a = Append(b, Last(a)) <=> Same(a, b, n)
<1>1. Last(a) = a[n + 1] /\ Last(a) \in Nat
  BY DEF Last, DigestsAt
<1>2. Append(b, Last(a)) \in DigestsAt(n + 1) /\ Same(Append(b, Last(a)), b, n)
      /\ Append(b, Last(a))[n + 1] = a[n + 1]
  BY <1>1, Appended
<1>3. a = Append(b, Last(a)) => Same(a, b, n)
  BY <1>2
<1>4. ASSUME Same(a, b, n) PROVE a = Append(b, Last(a))
  <2> DEFINE c == Append(b, Last(a))
  <2>1. c \in DigestsAt(n + 1) /\ Same(c, b, n) /\ c[n + 1] = a[n + 1]
    BY <1>2
  <2> HIDE DEF c
  <2>2. \A i \in 1..(n + 1) : a[i] = c[i]
    BY <1>4, <2>1 DEF Same
  <2>3. a \in Seq(Nat) /\ c \in Seq(Nat) /\ Len(a) = n + 1 /\ Len(c) = n + 1
    BY <2>1 DEF DigestsAt
  <2>4. a = c
    BY <2>2, <2>3
  <2> QED
    BY <2>4 DEF c
<1> QED
  BY <1>3, <1>4

(* A change of the content raises the last edition. *)
LEMMA Changed ==
  ASSUME NEW n \in Nat, n > 0, NEW a \in DigestsAt(n)
  PROVE  LET new == Append(Front(a), Last(a) + 1)
         IN  new \in DigestsAt(n) /\ Same(new, a, n - 1) /\ Before(a, new, n)
<1> DEFINE front == Front(a)
           e == Last(a) + 1
           new == Append(front, e)
<1>1. front \in DigestsAt(n - 1) /\ Same(front, a, n - 1)
  BY DEF Front, DigestsAt, Same
<1>2. e \in Nat /\ a[n] < e
  BY DEF Last, DigestsAt
<1>3. n - 1 \in Nat /\ (n - 1) + 1 = n
  OBVIOUS
<1> HIDE DEF front, e
<1>4. new \in DigestsAt(n) /\ Same(new, front, n - 1) /\ new[n] = e
  BY <1>1, <1>2, <1>3, Appended
<1> HIDE DEF new
<1>5. Same(new, a, n - 1) /\ Same(a, new, n - 1)
  BY <1>1, <1>4 DEF Same
<1>6. n \in 1..n /\ a[n] < new[n]
  BY <1>2, <1>4
<1>7. Before(a, new, n)
  BY <1>5, <1>6 DEF Before
<1> QED
  BY <1>4, <1>5, <1>7 DEF new, front, e
-----------------------------------------------------------------------------
(* dict.fromkeys keeps what is there. *)
LEMMA DistinctElements ==
  ASSUME NEW X, NEW s \in Seq(X)
  PROVE  /\ Distinct(s) \in Seq(X)
         /\ \A x : x \in ToSet(Distinct(s)) <=> x \in ToSet(s)
<1> DEFINE ss == [i \in DOMAIN s |-> IF s[i] \in ToSet(SubSeq(s, 1, i - 1)) THEN <<>> ELSE <<s[i]>>]
<1>1. ss \in Seq(Seq(X)) /\ DOMAIN ss = 1..Len(s) /\ DOMAIN s = 1..Len(s)
  <2>1. DOMAIN ss = 1..Len(s) /\ Len(s) \in Nat
    OBVIOUS
  <2>2. ASSUME NEW i \in 1..Len(s) PROVE ss[i] \in Seq(X)
    OBVIOUS
  <2> HIDE DEF ss
  <2>3. ss = [i \in 1..Len(s) |-> ss[i]]
    BY <2>1 DEF ss
  <2> QED
    BY <2>1, <2>2, <2>3
<1>2. ASSUME NEW i \in 1..Len(s), NEW x \in ToSet(ss[i]) PROVE x \in ToSet(s)
  <2>1. ss[i] = <<>> \/ ss[i] = <<s[i]>>
    BY <1>1
  <2>2. ToSet(<<>>) = {} /\ ToSet(<<s[i]>>) = {s[i]}
    BY DEF ToSet
  <2>3. x = s[i]
    BY <1>2, <2>1, <2>2
  <2> QED
    BY <1>1, <2>3 DEF ToSet
<1>3. ASSUME NEW x \in ToSet(s) PROVE \E i \in 1..Len(s) : x \in ToSet(ss[i])
  <2> DEFINE at == {i \in 1..Len(s) : s[i] = x}
  <2>1. at \subseteq 1..Len(s) /\ at # {} /\ Len(s) \in Nat
    BY <1>1 DEF ToSet
  <2>2. \A i \in 1..Len(s) : i \in at <=> s[i] = x
    OBVIOUS
  <2> HIDE DEF at
  <2>3. PICK k \in at : \A j \in at : k <= j
    BY <2>1, LeastIndex
  <2>4. k \in 1..Len(s) /\ s[k] = x
    BY <2>1, <2>2
  <2>5. x \notin ToSet(SubSeq(s, 1, k - 1))
    <3> DEFINE t == SubSeq(s, 1, k - 1)
    <3>1. DOMAIN t = 1..(k - 1) /\ \A j \in 1..(k - 1) : t[j] = s[j] /\ j \in 1..Len(s)
      BY <2>1, <2>4
    <3> HIDE DEF t
    <3>2. \A j \in 1..(k - 1) : j \notin at
      BY <2>3, <2>4
    <3>3. x \notin ToSet(t)
      BY <2>2, <3>1, <3>2 DEF ToSet
    <3> QED
      BY <3>3 DEF t
  <2>6. ss[k] = <<x>>
    BY <1>1, <2>4, <2>5
  <2> HIDE DEF ss
  <2>7. x \in ToSet(ss[k])
    BY <2>6 DEF ToSet
  <2> QED
    BY <2>4, <2>7
<1>4. Distinct(s) = FlattenSeq(ss)
  BY DEF Distinct
<1> HIDE DEF ss
<1>5. /\ FlattenSeq(ss) \in Seq(X)
      /\ \A x : x \in ToSet(FlattenSeq(ss)) <=> \E i \in DOMAIN ss : x \in ToSet(ss[i])
  BY <1>1, FlattenedElements
<1> QED
  BY <1>1, <1>2, <1>3, <1>4, <1>5

(* What the host holds, what it bound and the order in its hands are made  *)
(* of.                                                                     *)
StatesOf(role) ==
  [descriptor : [artifact_type : {role}, schema_version : {"v0.2"},
                 digest : DigestsAt(Place(role)), role : {role}],
   blocked_reasons : SUBSET {"fault"},
   next_actions : SUBSET {<<"repair_artifact", Missing>>}]

HeldTyped ==
  /\ DOMAIN held \subseteq Roles
  /\ \A role \in DOMAIN held : held[role] \in StatesOf(role)

ExpectedTyped ==
  /\ DOMAIN expected = Roles
  /\ \A role \in Roles : expected[role] = Missing \/ expected[role] \in DigestsAt(Place(role))
  /\ \A role \in DOMAIN held : expected[role] # Missing

ConflictsFound ==
  {c \in [role : Roles, reason_code : {"artifact_digest_mismatch", "lifecycle_blocked"},
          expected_digest : Seq(Nat) \cup {Missing}, actual_digest : Seq(Nat)] :
     c.actual_digest \in DigestsAt(Place(c.role))}

OrderActions == {"repair_artifact", "rebuild_bindings_for", "revalidate_artifact"} \X Roles

ChangeOrders ==
  [conflicts : Seq(ConflictsFound), required_actions : Seq(OrderActions),
   invalidated_roles : SUBSET Roles]

(* What is missing is not a digest. *)
LEMMA MissingIsNoDigest == \A n : Missing \notin DigestsAt(n)
BY MissingAssumption DEF DigestsAt

(* What is in a sequence of one, and of none. *)
LEMMA OneElement ==
  ASSUME NEW x
  PROVE  /\ ToSet(<<>>) = {} /\ ToSet(<<x>>) = {x}
         /\ \A X : x \in X => <<x>> \in Seq(X)
         /\ \A X : <<>> \in Seq(X)
BY DEF ToSet

(* The conflicts of one artifact name it as it is. *)
LEMMA ConflictsOfOne ==
  ASSUME NEW role \in Roles, NEW state \in StatesOf(role), NEW e,
         e[role] = Missing \/ e[role] \in DigestsAt(Place(role))
  PROVE  LET found == ConflictsOf(role, state, e)
         IN  /\ found \in Seq(ConflictsFound)
             /\ \A c \in ToSet(found) : c.role = role /\ c.actual_digest = state.descriptor.digest
             /\ e[role] \notin {Missing, state.descriptor.digest} => ToSet(found) # {}
<1> DEFINE actual == state.descriptor.digest
           first == Conflict(role, "artifact_digest_mismatch", e[role], actual)
           second == Conflict(role, "lifecycle_blocked", Missing, actual)
           a == IF e[role] \notin {Missing, actual} THEN <<first>> ELSE <<>>
           b == IF Blocked(state) THEN <<second>> ELSE <<>>
<1>1. actual \in DigestsAt(Place(role))
  BY DEF StatesOf
<1>2. ConflictsOf(role, state, e) = a \o b
  BY DEF ConflictsOf
<1> HIDE DEF actual
<1>3. /\ first \in ConflictsFound /\ second \in ConflictsFound
      /\ first.role = role /\ second.role = role
      /\ first.actual_digest = actual /\ second.actual_digest = actual
  BY <1>1 DEF Conflict, ConflictsFound, DigestsAt
<1> HIDE DEF first, second
<1>4. /\ a \in Seq(ConflictsFound) /\ b \in Seq(ConflictsFound)
      /\ ToSet(a) \subseteq {first} /\ ToSet(b) \subseteq {second}
      /\ e[role] \notin {Missing, actual} => ToSet(a) = {first}
  BY <1>3, OneElement
<1> HIDE DEF a, b
<1>5. /\ a \o b \in Seq(ConflictsFound)
      /\ \A x : x \in ToSet(a \o b) <=> x \in ToSet(a) \/ x \in ToSet(b)
  BY <1>4, ElementsOfBoth
<1> QED
  BY <1>2, <1>3, <1>4, <1>5 DEF actual

(* The conflicts that are detected name artifacts that are held, as they   *)
(* are, and every one whose digest is not the one bound.                   *)
LEMMA DetectedConflicts ==
  ASSUME HeldTyped, ExpectedTyped, NEW listed \in Seq(Roles),
         \A role : role \in ToSet(listed) <=> Held(role)
  PROVE  LET found == DetectConflicts(listed, held, expected)
         IN  /\ found \in Seq(ConflictsFound)
             /\ \A c \in ToSet(found) : Held(c.role) /\ c.actual_digest = DigestOf(c.role)
             /\ \A role \in DOMAIN held :
                  expected[role] \notin {Missing, DigestOf(role)} =>
                    \E c \in ToSet(found) : c.role = role
<1> DEFINE n == Len(listed)
           Of(i) == ConflictsOf(listed[i], held[listed[i]], expected)
           ss == [i \in DOMAIN listed |-> Of(i)]
<1>1. n \in Nat /\ DOMAIN listed = 1..n
  OBVIOUS
<1>2. ASSUME NEW i \in 1..n
      PROVE  /\ listed[i] \in Roles /\ Held(listed[i])
             /\ Of(i) \in Seq(ConflictsFound)
             /\ \A c \in ToSet(Of(i)) : c.role = listed[i] /\ c.actual_digest = DigestOf(listed[i])
             /\ expected[listed[i]] \notin {Missing, DigestOf(listed[i])} => ToSet(Of(i)) # {}
  <2>1. listed[i] \in Roles /\ listed[i] \in ToSet(listed)
    BY DEF ToSet
  <2>2. /\ listed[i] \in DOMAIN held /\ held[listed[i]] \in StatesOf(listed[i])
        /\ expected[listed[i]] = Missing \/ expected[listed[i]] \in DigestsAt(Place(listed[i]))
    BY <2>1 DEF Held, HeldTyped, ExpectedTyped
  <2> DEFINE role == listed[i]
             state == held[role]
  <2>3. DigestOf(role) = state.descriptor.digest
    BY DEF DigestOf
  <2> HIDE DEF role, state
  <2>4. role \in Roles /\ state \in StatesOf(role)
        /\ (expected[role] = Missing \/ expected[role] \in DigestsAt(Place(role)))
    BY <2>1, <2>2 DEF role, state
  <2>5. LET found == ConflictsOf(role, state, expected)
        IN  /\ found \in Seq(ConflictsFound)
            /\ \A c \in ToSet(found) : c.role = role /\ c.actual_digest = state.descriptor.digest
            /\ expected[role] \notin {Missing, state.descriptor.digest} => ToSet(found) # {}
    BY <2>4, ConflictsOfOne
  <2> QED
    BY <2>1, <2>2, <2>3, <2>5 DEF Held, role, state
<1> HIDE DEF Of, n
<1>3. ss = [i \in 1..n |-> Of(i)] /\ \A i \in 1..n : Of(i) \in Seq(ConflictsFound)
  BY <1>1, <1>2
<1>4. ss \in Seq(Seq(ConflictsFound)) /\ DOMAIN ss = 1..n /\ \A i \in 1..n : ss[i] = Of(i)
  BY <1>1, <1>3
<1>5. DetectConflicts(listed, held, expected) = FlattenSeq(ss)
  BY DEF DetectConflicts, Of
<1> HIDE DEF ss
<1>6. /\ FlattenSeq(ss) \in Seq(ConflictsFound)
      /\ \A x : x \in ToSet(FlattenSeq(ss)) <=> \E i \in DOMAIN ss : x \in ToSet(ss[i])
  BY <1>4, FlattenedElements
<1>7. ASSUME NEW c \in ToSet(FlattenSeq(ss)) PROVE Held(c.role) /\ c.actual_digest = DigestOf(c.role)
  <2>1. PICK i \in 1..n : c \in ToSet(Of(i))
    BY <1>4, <1>6
  <2> QED
    BY <1>2, <2>1
<1>8. ASSUME NEW role \in DOMAIN held, expected[role] \notin {Missing, DigestOf(role)}
      PROVE  \E c \in ToSet(FlattenSeq(ss)) : c.role = role
  <2>1. PICK i \in 1..n : role = listed[i]
    BY <1>1 DEF ToSet, Held
  <2>2. PICK c \in ToSet(Of(i)) : c.role = role
    BY <1>2, <1>8, <2>1
  <2> QED
    BY <1>4, <1>6, <2>2
<1> QED
  BY <1>5, <1>6, <1>7, <1>8

(* Both ways of listing name what is held. *)
LEMMA ListedElements ==
  ASSUME HeldTyped, NEW listed \in {Listed, Reverse(Listed)}
  PROVE  listed \in Seq(Roles) /\ \A role : role \in ToSet(listed) <=> Held(role)
<1> DEFINE One(i) == IF Held(ChainRoles[i]) THEN <<ChainRoles[i]>> ELSE <<>>
           ss == [i \in DOMAIN ChainRoles |-> One(i)]
<1>1. ASSUME NEW i \in 1..7
      PROVE  /\ One(i) \in Seq(Roles)
             /\ \A role : role \in ToSet(One(i)) <=> role = ChainRoles[i] /\ Held(role)
  BY PlacesOfRoles, OneElement
<1> HIDE DEF One
<1>2. ss = [i \in 1..7 |-> One(i)]
  BY PlacesOfRoles
<1>3. ss \in Seq(Seq(Roles)) /\ DOMAIN ss = 1..7 /\ \A i \in 1..7 : ss[i] = One(i)
  BY <1>1, <1>2
<1>4. Listed = FlattenSeq(ss)
  BY DEF Listed, One
<1> HIDE DEF ss
<1>5. /\ FlattenSeq(ss) \in Seq(Roles)
      /\ \A x : x \in ToSet(FlattenSeq(ss)) <=> \E i \in DOMAIN ss : x \in ToSet(ss[i])
  BY <1>3, FlattenedElements
<1>6. \A role : role \in ToSet(Listed) <=> Held(role)
  <2>1. ASSUME NEW role \in ToSet(Listed) PROVE Held(role)
    <3>1. PICK i \in 1..7 : role \in ToSet(One(i))
      BY <1>3, <1>4, <1>5
    <3> QED
      BY <1>1, <3>1
  <2>2. ASSUME NEW role, Held(role) PROVE role \in ToSet(Listed)
    <3>1. role \in Roles
      BY <2>2 DEF HeldTyped, Held
    <3>2. Place(role) \in 1..7 /\ role = ChainRoles[Place(role)]
      BY <3>1, PlacesOfRoles
    <3>3. role \in ToSet(One(Place(role)))
      BY <1>1, <2>2, <3>2
    <3> QED
      BY <1>3, <1>4, <1>5, <3>2, <3>3
  <2> QED
    BY <2>1, <2>2
<1>7. Listed \in Seq(Roles)
  BY <1>4, <1>5
<1>8. /\ Reverse(Listed) \in Seq(Roles)
      /\ \A role : role \in ToSet(Reverse(Listed)) <=> role \in ToSet(Listed)
  <2> DEFINE n == Len(Listed)
             back == [i \in 1..n |-> Listed[(n - i) + 1]]
  <2>1. n \in Nat /\ DOMAIN Listed = 1..n /\ Reverse(Listed) = back
    BY <1>7 DEF Reverse
  <2>2. \A i \in 1..n : (n - i) + 1 \in 1..n /\ (n - ((n - i) + 1)) + 1 = i
    BY <2>1
  <2>3. \A i \in 1..n : Listed[i] \in Roles
    BY <1>7
  <2>4. back \in Seq(Roles) /\ DOMAIN back = 1..n
    BY <2>1, <2>2, <2>3
  <2>5. ASSUME NEW i \in 1..n PROVE back[i] \in ToSet(Listed) /\ Listed[i] \in ToSet(back)
    <3> DEFINE j == (n - i) + 1
    <3>1. j \in 1..n /\ (n - j) + 1 = i
      BY <2>2
    <3>2. back[i] = Listed[j] /\ back[j] = Listed[i]
      BY <3>1
    <3> HIDE DEF j, back
    <3> QED
      BY <2>1, <2>4, <3>1, <3>2 DEF ToSet
  <2> HIDE DEF back
  <2>6. \A role : role \in ToSet(back) <=> role \in ToSet(Listed)
    BY <2>1, <2>4, <2>5 DEF ToSet
  <2> QED
    BY <2>1, <2>4, <2>6
<1> QED
  BY <1>6, <1>7, <1>8

(* What a conflict asks for is done to the roles of the chain. *)
LEMMA ActionsOfOne ==
  ASSUME NEW c \in ConflictsFound
  PROVE  /\ ActionsFor(c) \in Seq(OrderActions)
         /\ \A role \in Roles : Place(role) > Place(c.role) =>
              <<"revalidate_artifact", role>> \in ToSet(ActionsFor(c))
<1> DEFINE down == DownstreamRoles(c.role)
           a == <<<<"repair_artifact", c.role>>>>
           b == IF c.reason_code = "artifact_digest_mismatch"
                THEN <<<<"rebuild_bindings_for", c.role>>>> ELSE <<>>
           v == Verb("revalidate_artifact", down)
<1>1. c.role \in Roles
  BY DEF ConflictsFound
<1>2. /\ down \in Seq(Roles)
      /\ \A r : r \in ToSet(down) <=> r \in Roles /\ Place(r) > Place(c.role)
  BY <1>1, RolesDownstream
<1>3. ActionsFor(c) = (a \o b) \o v
  BY DEF ActionsFor
<1>4. a \in Seq(OrderActions) /\ b \in Seq(OrderActions)
  <2>1. <<"repair_artifact", c.role>> \in OrderActions
        /\ <<"rebuild_bindings_for", c.role>> \in OrderActions
    BY <1>1 DEF OrderActions
  <2> QED
    BY <2>1, OneElement
<1> HIDE DEF down, a, b
<1>5. /\ v \in Seq(OrderActions) /\ DOMAIN v = DOMAIN down
      /\ \A i \in DOMAIN v : v[i] = <<"revalidate_artifact", down[i]>>
  <2>1. DOMAIN down = 1..Len(down) /\ Len(down) \in Nat /\ \A i \in 1..Len(down) : down[i] \in Roles
    BY <1>2
  <2>2. v = [i \in 1..Len(down) |-> <<"revalidate_artifact", down[i]>>]
    BY <2>1 DEF Verb
  <2>3. \A i \in 1..Len(down) : <<"revalidate_artifact", down[i]>> \in OrderActions
    BY <2>1 DEF OrderActions
  <2> QED
    BY <2>1, <2>2, <2>3
<1> HIDE DEF v
<1>6. a \o b \in Seq(OrderActions)
  BY <1>4
<1>7. ASSUME NEW role \in Roles, Place(role) > Place(c.role)
      PROVE  <<"revalidate_artifact", role>> \in ToSet((a \o b) \o v)
  <2>1. role \in ToSet(down)
    BY <1>2, <1>7
  <2>2. <<"revalidate_artifact", role>> \in ToSet(v)
    BY <1>5, <2>1 DEF ToSet
  <2> HIDE DEF ConflictsFound
  <2> DEFINE ab == a \o b
  <2>3. ab \in Seq(OrderActions)
    BY <1>6
  <2> HIDE DEF ab
  <2>4. <<"revalidate_artifact", role>> \in ToSet(ab \o v)
    BY <1>5, <2>2, <2>3, ElementsOfBoth
  <2> QED
    BY <2>4 DEF ab
<1>8. (a \o b) \o v \in Seq(OrderActions)
  BY <1>5, <1>6
<1> QED
  BY <1>3, <1>7, <1>8

(* A change order has what was made of an artifact in conflict revalidated. *)
LEMMA OrderForConflicts ==
  ASSUME NEW conflicts \in Seq(ConflictsFound)
  PROVE  LET new == ChangeOrder(conflicts)
         IN  /\ new \in ChangeOrders /\ new.conflicts = conflicts
             /\ \A c \in ToSet(conflicts) : \A role \in Roles :
                  Place(role) > Place(c.role) =>
                    /\ <<"revalidate_artifact", role>> \in ToSet(new.required_actions)
                    /\ role \in new.invalidated_roles
<1> DEFINE n == Len(conflicts)
           ss == [i \in DOMAIN conflicts |-> ActionsFor(conflicts[i])]
           actions == Distinct(FlattenSeq(ss))
           roles == UNION {ToSet(DownstreamRoles(conflicts[i].role)) : i \in DOMAIN conflicts}
<1>1. n \in Nat /\ DOMAIN conflicts = 1..n /\ \A i \in 1..n : conflicts[i] \in ConflictsFound
  OBVIOUS
<1>2. ChangeOrder(conflicts) =
        [conflicts |-> conflicts, required_actions |-> actions, invalidated_roles |-> roles]
  BY DEF ChangeOrder
<1> HIDE DEF n
<1>3. ss = [i \in 1..n |-> ActionsFor(conflicts[i])]
      /\ \A i \in 1..n : ActionsFor(conflicts[i]) \in Seq(OrderActions)
  BY <1>1, ActionsOfOne
<1>4. ss \in Seq(Seq(OrderActions)) /\ DOMAIN ss = 1..n
      /\ \A i \in 1..n : ss[i] = ActionsFor(conflicts[i])
  BY <1>1, <1>3
<1> HIDE DEF ss
<1>5. /\ FlattenSeq(ss) \in Seq(OrderActions)
      /\ \A x : x \in ToSet(FlattenSeq(ss)) <=> \E i \in DOMAIN ss : x \in ToSet(ss[i])
  BY <1>4, FlattenedElements
<1>6. /\ actions \in Seq(OrderActions)
      /\ \A x : x \in ToSet(actions) <=> x \in ToSet(FlattenSeq(ss))
  BY <1>5, DistinctElements
<1> HIDE DEF actions
<1>7. \A i \in 1..n : conflicts[i].role \in Roles
  BY <1>1 DEF ConflictsFound
<1>8. roles \subseteq Roles
  BY <1>1, <1>7, RolesDownstream
<1>9. ASSUME NEW c \in ToSet(conflicts), NEW role \in Roles, Place(role) > Place(c.role)
      PROVE  <<"revalidate_artifact", role>> \in ToSet(actions) /\ role \in roles
  <2>1. PICK i \in 1..n : c = conflicts[i]
    BY <1>1 DEF ToSet
  <2>2. <<"revalidate_artifact", role>> \in ToSet(ActionsFor(conflicts[i]))
    BY <1>1, <1>9, <2>1, ActionsOfOne
  <2>3. role \in ToSet(DownstreamRoles(conflicts[i].role))
    BY <1>7, <1>9, <2>1, RolesDownstream
  <2> QED
    BY <1>1, <1>4, <1>5, <1>6, <2>2, <2>3
<1> HIDE DEF roles
<1> QED
  BY <1>2, <1>6, <1>8, <1>9 DEF ChangeOrders

(* The order for no conflicts asks for nothing. *)
LEMMA NoOrder ==
  /\ ChangeOrder(<<>>) \in ChangeOrders
  /\ ChangeOrder(<<>>).conflicts = <<>> /\ ToSet(ChangeOrder(<<>>).required_actions) = {}
<1>1. <<>> \in Seq(ConflictsFound)
  BY OneElement
<1>2. ChangeOrder(<<>>) \in ChangeOrders /\ ChangeOrder(<<>>).conflicts = <<>>
  BY <1>1, OrderForConflicts
<1> DEFINE ss == [i \in DOMAIN <<>> |-> ActionsFor(<<>>[i])]
<1>3. ss \in Seq(Seq(OrderActions)) /\ DOMAIN ss = {}
  <2>1. DOMAIN ss = {} /\ ss = <<>>
    OBVIOUS
  <2> QED
    BY <2>1, OneElement
<1>4. ChangeOrder(<<>>).required_actions = Distinct(FlattenSeq(ss))
  BY DEF ChangeOrder
<1> HIDE DEF ss
<1>5. /\ FlattenSeq(ss) \in Seq(OrderActions)
      /\ \A x : x \notin ToSet(FlattenSeq(ss))
  BY <1>3, FlattenedElements
<1>6. \A x : x \notin ToSet(Distinct(FlattenSeq(ss)))
  BY <1>5, DistinctElements
<1> QED
  BY <1>2, <1>4, <1>6
-----------------------------------------------------------------------------
(* The artifacts that are held, as digests by their places.                *)

(* The digests of what is held, by place. *)
DigestChain == [i \in {j \in 1..7 : Held(ChainRoles[j])} |-> DigestOf(ChainRoles[i])]

(* The digests that are recorded of each place: the one the host bound,    *)
(* and those the conflicts of the order in its hands tell.                 *)
Recorded ==
  [i \in 1..7 |->
     {d \in DigestsAt(i) :
        \/ d = expected[ChainRoles[i]]
        \/ \E c \in ToSet(order.conflicts) : c.role = ChainRoles[i] /\ c.actual_digest = d}]

LeftToRevalidate ==
  {i \in 1..7 : <<"revalidate_artifact", ChainRoles[i]>> \in ToSet(order.required_actions)}

(* What is held, bound and being carried out accounts for every artifact   *)
(* that is out of date.                                                    *)
ChainKept ==
  /\ HeldTyped /\ ExpectedTyped /\ order \in ChangeOrders
  /\ WellChained(DigestChain, Recorded, LeftToRevalidate)

(* A held artifact's digest stands at its place. *)
LEMMA DigestAtPlace ==
  ASSUME HeldTyped
  PROVE  /\ DOMAIN DigestChain \subseteq 1..7
         /\ \A i \in DOMAIN DigestChain :
              /\ Held(ChainRoles[i]) /\ DigestChain[i] = DigestOf(ChainRoles[i])
              /\ DigestChain[i] \in DigestsAt(i)
         /\ \A role \in DOMAIN held :
              /\ role \in Roles /\ Place(role) \in DOMAIN DigestChain
              /\ DigestChain[Place(role)] = DigestOf(role)
         /\ \A role \in Roles : Place(role) \in DOMAIN DigestChain <=> Held(role)
<1>1. DOMAIN DigestChain = {j \in 1..7 : Held(ChainRoles[j])}
      /\ \A i \in DOMAIN DigestChain : DigestChain[i] = DigestOf(ChainRoles[i])
  BY DEF DigestChain
<1> HIDE DEF DigestChain
<1>2. ASSUME NEW role \in DOMAIN held
      PROVE  role \in Roles /\ DigestOf(role) \in DigestsAt(Place(role))
  BY DEF HeldTyped, StatesOf, DigestOf
<1>3. ASSUME NEW i \in DOMAIN DigestChain PROVE DigestChain[i] \in DigestsAt(i)
  BY <1>1, <1>2, PlacesOfRoles DEF Held
<1>4. ASSUME NEW role \in Roles PROVE Place(role) \in DOMAIN DigestChain <=> Held(role)
  BY <1>1, PlacesOfRoles
<1>5. ASSUME NEW role \in DOMAIN held PROVE DigestChain[Place(role)] = DigestOf(role)
  BY <1>1, <1>2, <1>4, PlacesOfRoles DEF Held
<1> QED
  BY <1>1, <1>2, <1>3, <1>4, <1>5 DEF Held

(* What an artifact would be made of now. *)
LEMMA ReboundDigest ==
  ASSUME HeldTyped, NEW role \in Roles, PredecessorHeld(role), NEW e \in Nat
  PROVE  /\ Rebound(role, e) \in DigestsAt(Place(role))
         /\ Rebound(role, e)[Place(role)] = e
         /\ Place(role) # 1 =>
              /\ Place(role) - 1 \in DOMAIN DigestChain
              /\ Same(Rebound(role, e), DigestChain[Place(role) - 1], Place(role) - 1)
              /\ Rebound(role, e) = Append(DigestChain[Place(role) - 1], e)
<1> DEFINE n == Place(role)
<1>1. n \in 1..7 /\ ChainRoles[n] = role
  BY PlacesOfRoles
<1> HIDE DEF n
<1>2. CASE n = 1
  <2>1. Rebound(role, e) = Append(<<>>, e)
    BY <1>2 DEF Rebound, n
  <2>2. <<>> \in DigestsAt(0) /\ 0 + 1 = 1
    BY DEF DigestsAt
  <2>3. Append(<<>>, e) \in DigestsAt(0 + 1) /\ Append(<<>>, e)[0 + 1] = e
    BY <2>2, Appended
  <2> QED
    BY <1>2, <2>1, <2>2, <2>3 DEF n
<1>3. CASE n # 1
  <2> DEFINE a == DigestChain[n - 1]
  <2>1. n - 1 \in 1..7 /\ Held(ChainRoles[n - 1])
    BY <1>1, <1>3 DEF PredecessorHeld, n
  <2>2. n - 1 \in DOMAIN DigestChain /\ a = DigestOf(ChainRoles[n - 1]) /\ a \in DigestsAt(n - 1)
    <3>1. ChainRoles[n - 1] \in Roles /\ Place(ChainRoles[n - 1]) = n - 1
      BY <2>1, PlacesOfRoles
    <3>2. n - 1 \in DOMAIN DigestChain
      BY <2>1, <3>1, DigestAtPlace
    <3> QED
      BY <3>2, DigestAtPlace
  <2>3. Rebound(role, e) = Append(a, e)
    BY <1>3, <2>2 DEF Rebound, n
  <2> HIDE DEF a
  <2>4. n - 1 \in Nat /\ (n - 1) + 1 = n
    BY <1>1, <1>3
  <2>5. Append(a, e) \in DigestsAt(n) /\ Same(Append(a, e), a, n - 1) /\ Append(a, e)[n] = e
    BY <2>2, <2>4, Appended
  <2> QED
    BY <2>2, <2>3, <2>5 DEF n, a
<1> QED
  BY <1>2, <1>3

(* An artifact is of its predecessor as that is when their digests agree.  *)
LEMMA UpToDateIsSame ==
  ASSUME HeldTyped, Unbroken(DigestChain), NEW role \in DOMAIN held
  PROVE  /\ PredecessorHeld(role)
         /\ Place(role) = 1 => UpToDate(role)
         /\ Place(role) # 1 =>
              (UpToDate(role) <=>
                 Same(DigestChain[Place(role)], DigestChain[Place(role) - 1], Place(role) - 1))
<1> DEFINE n == Place(role)
           a == DigestOf(role)
<1>1. /\ role \in Roles /\ n \in 1..7 /\ ChainRoles[n] = role
      /\ n \in DOMAIN DigestChain /\ DigestChain[n] = a /\ a \in DigestsAt(n)
  BY DigestAtPlace, PlacesOfRoles
<1>2. PredecessorHeld(role)
  <2>1. CASE n # 1
    <3>1. n - 1 \in 1..n /\ n - 1 \in 1..7
      BY <1>1, <2>1
    <3>2. n - 1 \in DOMAIN DigestChain
      BY <1>1, <3>1 DEF Unbroken
    <3>3. Held(ChainRoles[n - 1])
      BY <3>2, DigestAtPlace
    <3> QED
      BY <3>3 DEF PredecessorHeld
  <2> QED
    BY <2>1 DEF PredecessorHeld
<1>3. UpToDate(role) <=> a = Rebound(role, Last(a))
  BY DEF UpToDate
<1> HIDE DEF n, a
<1>4. Last(a) \in Nat /\ Last(a) = a[n]
  BY <1>1 DEF Last, DigestsAt
<1>5. CASE n = 1
  <2>1. Rebound(role, Last(a)) \in DigestsAt(1) /\ Rebound(role, Last(a))[1] = a[1]
    BY <1>1, <1>2, <1>4, <1>5, ReboundDigest DEF n
  <2>2. a \in DigestsAt(1)
    BY <1>1, <1>5
  <2>3. \A b, c \in DigestsAt(1) : b[1] = c[1] => b = c
    BY DEF DigestsAt
  <2>4. a = Rebound(role, Last(a))
    BY <2>1, <2>2, <2>3
  <2> QED
    BY <1>2, <1>3, <1>5, <2>4 DEF n
<1>6. CASE n # 1
  <2> DEFINE b == DigestChain[n - 1]
  <2>1. n - 1 \in DOMAIN DigestChain /\ Rebound(role, Last(a)) = Append(b, Last(a))
    BY <1>1, <1>2, <1>4, <1>6, ReboundDigest DEF n
  <2>2. b \in DigestsAt(n - 1) /\ n - 1 \in Nat /\ (n - 1) + 1 = n
    BY <1>1, <1>6, <2>1, DigestAtPlace
  <2> HIDE DEF b
  <2>3. a = Append(b, Last(a)) <=> Same(a, b, n - 1)
    BY <1>1, <2>2, AppendedIsSame
  <2> QED
    BY <1>1, <1>2, <1>3, <1>6, <2>1, <2>3 DEF n, b
<1> QED
  BY <1>5, <1>6

(* Where no artifact moves, the digests stay.                              *)
LEMMA DigestsStay ==
  ASSUME DOMAIN held' = DOMAIN held,
         \A role \in DOMAIN held : held'[role].descriptor = held[role].descriptor
  PROVE  DigestChain' = DigestChain
BY DEF DigestChain, Held, DigestOf

(* Where one digest is replaced, the others stay.                          *)
LEMMA OneDigestReplaced ==
  ASSUME HeldTyped, NEW role \in DOMAIN held, NEW new \in DigestsAt(Place(role)),
         held' = [held EXCEPT ![role].descriptor.digest = new]
  PROVE  /\ HeldTyped' /\ DOMAIN held' = DOMAIN held
         /\ DOMAIN DigestChain' = DOMAIN DigestChain
         /\ DigestChain'[Place(role)] = new
         /\ \A i \in DOMAIN DigestChain \ {Place(role)} : DigestChain'[i] = DigestChain[i]
<1>1. DOMAIN held' = DOMAIN held
  OBVIOUS
<1>2. \A r \in DOMAIN held \ {role} : held'[r] = held[r]
  OBVIOUS
<1>3. held'[role] \in StatesOf(role) /\ held'[role].descriptor.digest = new
  BY DEF HeldTyped, StatesOf
<1>4. HeldTyped'
  <2>1. \A r \in DOMAIN held' : held'[r] \in StatesOf(r)
    BY <1>1, <1>2, <1>3 DEF HeldTyped
  <2> QED
    BY <1>1, <2>1 DEF HeldTyped, StatesOf
<1>5. DOMAIN DigestChain' = DOMAIN DigestChain
  BY <1>1 DEF DigestChain, Held
<1>6. role \in Roles /\ Place(role) \in DOMAIN DigestChain /\ ChainRoles[Place(role)] = role
  BY DigestAtPlace, PlacesOfRoles
<1>7. DigestChain'[Place(role)] = new
  <2>1. \A i \in DOMAIN DigestChain' : DigestChain'[i] = held'[ChainRoles[i]].descriptor.digest
    BY DEF DigestChain, DigestOf
  <2> QED
    BY <1>3, <1>5, <1>6, <2>1
<1>8. ASSUME NEW i \in DOMAIN DigestChain \ {Place(role)} PROVE DigestChain'[i] = DigestChain[i]
  <2>1. i \in 1..7 /\ Held(ChainRoles[i]) /\ ChainRoles[i] # role
    BY <1>6, DigestAtPlace, PlacesOfRoles
  <2>2. held'[ChainRoles[i]] = held[ChainRoles[i]]
    BY <1>2, <2>1 DEF Held
  <2> QED
    BY <1>5, <2>1, <2>2 DEF DigestChain, DigestOf
<1> QED
  BY <1>1, <1>4, <1>5, <1>7, <1>8
-----------------------------------------------------------------------------
(* What the host does to its artifacts, action by action.                  *)

(* With nothing held, bound or being carried out, nothing is out of date.  *)
LEMMA NothingIsKept ==
  ASSUME NEW g, DOMAIN g = {}, NEW rec, \A i \in 1..7 : rec[i] = {}, NEW left
  PROVE  WellChained(g, rec, left)
BY DEF WellChained, DigestsTyped, Unbroken, MadeInOrder, RecordedInOrder, Accounted

(* Before anything is made, and after the operation is closed.             *)
LEMMA ChainKeptWhenEmpty ==
  ASSUME held = <<>>, expected = [role \in Roles |-> Missing], order = ChangeOrder(<<>>)
  PROVE  ChainKept
<1>1. HeldTyped
  BY DEF HeldTyped
<1>2. ExpectedTyped
  BY DEF ExpectedTyped
<1>3. order \in ChangeOrders /\ ToSet(order.conflicts) = {}
  BY NoOrder, OneElement
<1>4. DOMAIN DigestChain = {}
  BY DEF DigestChain, Held
<1>5. ASSUME NEW i \in 1..7 PROVE Recorded[i] = {}
  BY <1>3, MissingIsNoDigest, PlacesOfRoles DEF Recorded
<1>6. WellChained(DigestChain, Recorded, LeftToRevalidate)
  BY <1>4, <1>5, NothingIsKept
<1> QED
  BY <1>1, <1>2, <1>3, <1>6 DEF ChainKept

(* What is no longer recorded need not be accounted for.                   *)
LEMMA RecordedLess ==
  ASSUME ExpectedTyped, order \in ChangeOrders, ToSet(order'.conflicts) \subseteq ToSet(order.conflicts),
         \A i \in 1..7 :
           \/ expected'[ChainRoles[i]] = expected[ChainRoles[i]]
           \/ \E c \in ToSet(order.conflicts) :
                c.role = ChainRoles[i] /\ c.actual_digest = expected'[ChainRoles[i]]
  PROVE  \A i \in 1..7 : Recorded'[i] \subseteq Recorded[i]
<1> SUFFICES ASSUME NEW i \in 1..7, NEW d \in Recorded'[i] PROVE d \in Recorded[i]
  OBVIOUS
<1>1. /\ d \in DigestsAt(i)
      /\ \/ d = expected'[ChainRoles[i]]
         \/ \E c \in ToSet(order'.conflicts) : c.role = ChainRoles[i] /\ c.actual_digest = d
  BY DEF Recorded
<1>2. \/ d = expected[ChainRoles[i]]
      \/ \E c \in ToSet(order.conflicts) : c.role = ChainRoles[i] /\ c.actual_digest = d
  BY <1>1
<1> QED
  BY <1>1, <1>2 DEF Recorded

(* An artifact that is made of its predecessor as that is enters.          *)
LEMMA EntryKeepsChain ==
  ASSUME ChainKept, NEW role \in Roles, ~Held(role), PredecessorHeld(role),
         Enter(role, Rebound(role, 1)), order' = order
  PROVE  ChainKept'
<1> DEFINE r == Place(role)
           new == Rebound(role, 1)
           state == ArtifactStateForRole(role, new, {})
<1>1. r \in 1..7 /\ ChainRoles[r] = role /\ r \notin DOMAIN DigestChain
  BY DigestAtPlace, PlacesOfRoles DEF ChainKept
<1>2. /\ new \in DigestsAt(r)
      /\ r # 1 => /\ r - 1 \in DOMAIN DigestChain
                  /\ Same(new, DigestChain[r - 1], r - 1)
  BY ReboundDigest DEF ChainKept
<1>3. held' = [x \in DOMAIN held \cup {role} |-> IF x = role THEN state ELSE held[x]]
      /\ expected' = [expected EXCEPT ![role] = new]
  BY DEF Enter, Placed
<1> HIDE DEF new
<1>4. state \in StatesOf(role) /\ state.descriptor.digest = new
  <2>1. Missing # role /\ Missing # "v0.2" /\ Missing # new
    BY <1>2, MissingAssumption, MissingIsNoDigest
  <2>2. state.descriptor =
          [artifact_type |-> role, schema_version |-> "v0.2", digest |-> new, role |-> role]
    BY <2>1 DEF ArtifactStateForRole, Described, ArtifactState
  <2>3. state = [descriptor |-> state.descriptor, blocked_reasons |-> {}, next_actions |-> {}]
    BY DEF ArtifactStateForRole, ArtifactState
  <2> HIDE DEF state
  <2> QED
    BY <1>2, <2>2, <2>3 DEF StatesOf
<1> HIDE DEF state, r
<1>5. HeldTyped'
  <2>1. \A x \in DOMAIN held' : x \in Roles /\ held'[x] \in StatesOf(x)
    BY <1>3, <1>4 DEF ChainKept, HeldTyped
  <2> QED
    BY <2>1 DEF HeldTyped, StatesOf
<1>6. ExpectedTyped'
  <2>1. \A x \in Roles : expected'[x] = Missing \/ expected'[x] \in DigestsAt(Place(x))
    BY <1>2, <1>3 DEF ChainKept, ExpectedTyped, r
  <2>2. \A x \in DOMAIN held' : expected'[x] # Missing
    BY <1>2, <1>3, MissingIsNoDigest DEF ChainKept, ExpectedTyped
  <2> QED
    BY <1>3, <2>1, <2>2 DEF ChainKept, ExpectedTyped
<1>7. /\ DOMAIN DigestChain' = DOMAIN DigestChain \cup {r}
      /\ DigestChain'[r] = new
      /\ \A i \in DOMAIN DigestChain : DigestChain'[i] = DigestChain[i]
  <2>1. DOMAIN DigestChain' = {i \in 1..7 : ChainRoles[i] \in DOMAIN held'}
        /\ \A i \in DOMAIN DigestChain' : DigestChain'[i] = held'[ChainRoles[i]].descriptor.digest
    BY DEF DigestChain, Held, DigestOf
  <2>2. DOMAIN DigestChain = {i \in 1..7 : ChainRoles[i] \in DOMAIN held}
        /\ \A i \in DOMAIN DigestChain : DigestChain[i] = held[ChainRoles[i]].descriptor.digest
    BY DEF DigestChain, Held, DigestOf
  <2>3. \A i \in 1..7 : ChainRoles[i] = role <=> i = r
    BY <1>1, PlacesOfRoles
  <2> HIDE DEF DigestChain
  <2>4. DOMAIN DigestChain' = DOMAIN DigestChain \cup {r}
    BY <1>1, <1>3, <2>1, <2>2, <2>3
  <2>5. DigestChain'[r] = new
    BY <1>1, <1>3, <1>4, <2>1, <2>4
  <2>6. \A i \in DOMAIN DigestChain : DigestChain'[i] = DigestChain[i]
    BY <1>1, <1>3, <2>1, <2>2, <2>3, <2>4
  <2> QED
    BY <2>4, <2>5, <2>6
<1>8. ASSUME NEW i \in 1..7, NEW d \in Recorded'[i] PROVE d \in Recorded[i] \/ (i = r /\ d = new)
  <2>1. ChainRoles[i] \in Roles /\ (ChainRoles[i] = role <=> i = r)
    BY <1>1, PlacesOfRoles
  <2>2. expected'[ChainRoles[i]] = IF i = r THEN new ELSE expected[ChainRoles[i]]
    BY <1>3, <2>1 DEF ChainKept, ExpectedTyped
  <2> QED
    BY <2>2 DEF Recorded
<1>9. WellChained(DigestChain, Recorded, LeftToRevalidate)
  BY DEF ChainKept
<1>10. LeftToRevalidate' = LeftToRevalidate
  BY DEF LeftToRevalidate
<1>11. Entered(DigestChain, r, DigestChain')
  <2> HIDE DEF DigestChain
  <2> QED
    BY <1>1, <1>2, <1>7 DEF Entered
<1>12. RecordedAlso(Recorded, r, DigestChain'[r], Recorded')
  <2> HIDE DEF Recorded
  <2> QED
    BY <1>7, <1>8 DEF RecordedAlso
<1>13. WellChained(DigestChain', Recorded', LeftToRevalidate)
  <2> HIDE DEF DigestChain, Recorded, LeftToRevalidate
  <2> QED
    BY <1>9, <1>11, <1>12, ChainGrows
<1> QED
  BY <1>5, <1>6, <1>10, <1>13 DEF ChainKept

(* The content of an artifact changes.                                     *)
LEMMA ChangeKeepsChain ==
  ASSUME ChainKept, NEW role, Change(role)
  PROVE  ChainKept'
<1> DEFINE r == Place(role)
           old == held[role].descriptor.digest
           new == Append(Front(old), Last(old) + 1)
<1>1. role \in DOMAIN held /\ held' = [held EXCEPT ![role].descriptor.digest = new]
      /\ expected' = expected /\ order' = order
  BY DEF Change, Held
<1>2. r \in 1..7 /\ r \in DOMAIN DigestChain /\ DigestChain[r] = old /\ old \in DigestsAt(r)
  BY <1>1, DigestAtPlace DEF ChainKept, DigestOf
<1> HIDE DEF old
<1>3. r \in Nat /\ r > 0
  BY <1>2
<1> HIDE DEF r
<1>4. new \in DigestsAt(r) /\ Same(new, old, r - 1) /\ Before(old, new, r)
  BY <1>2, <1>3, Changed
<1> HIDE DEF new
<1>5. /\ HeldTyped' /\ DOMAIN held' = DOMAIN held
      /\ DOMAIN DigestChain' = DOMAIN DigestChain /\ DigestChain'[r] = new
      /\ \A i \in DOMAIN DigestChain \ {r} : DigestChain'[i] = DigestChain[i]
  BY <1>1, <1>4, OneDigestReplaced DEF ChainKept, r
<1>6. ExpectedTyped' /\ order' \in ChangeOrders
  BY <1>1, <1>5 DEF ChainKept, ExpectedTyped
<1>7. Recorded' = Recorded /\ LeftToRevalidate' = LeftToRevalidate
  BY <1>1 DEF Recorded, LeftToRevalidate
<1>8. WellChained(DigestChain, Recorded, LeftToRevalidate)
  BY DEF ChainKept
<1>9. WellChained(DigestChain', Recorded, LeftToRevalidate)
  <2> HIDE DEF DigestChain, Recorded, LeftToRevalidate
  <2> QED
    BY <1>2, <1>4, <1>5, <1>8, DigestRises
<1> QED
  BY <1>5, <1>6, <1>7, <1>9 DEF ChainKept

(* A fault that is found, and a repair, move no digest.                    *)
LEMMA PlacingKeepsDigests ==
  ASSUME HeldTyped, NEW role \in DOMAIN held, NEW reasons \in SUBSET {"fault"},
         Placed(role, ArtifactState(held[role].descriptor, reasons))
  PROVE  HeldTyped' /\ DOMAIN held' = DOMAIN held /\ DigestChain' = DigestChain
<1> DEFINE state == ArtifactState(held[role].descriptor, reasons)
<1>1. held' = [x \in DOMAIN held \cup {role} |-> IF x = role THEN state ELSE held[x]]
  BY DEF Placed
<1>2. state \in StatesOf(role) /\ state.descriptor = held[role].descriptor
  BY DEF HeldTyped, StatesOf, ArtifactState
<1> HIDE DEF state
<1>3. DOMAIN held' = DOMAIN held
  BY <1>1
<1>4. \A x \in DOMAIN held : held'[x] \in StatesOf(x) /\ held'[x].descriptor = held[x].descriptor
  BY <1>1, <1>2 DEF HeldTyped
<1>5. HeldTyped'
  BY <1>3, <1>4 DEF HeldTyped, StatesOf
<1> QED
  BY <1>3, <1>4, <1>5, DigestsStay

(* Where digests, bindings and the order stay, so does what they say.      *)
LEMMA StayKeepsChain ==
  ASSUME ChainKept, HeldTyped', DOMAIN held' = DOMAIN held, DigestChain' = DigestChain,
         expected' = expected, order' = order
  PROVE  ChainKept'
<1>1. ExpectedTyped' /\ order' \in ChangeOrders
  BY DEF ChainKept, ExpectedTyped
<1>2. Recorded' = Recorded /\ LeftToRevalidate' = LeftToRevalidate
  BY DEF Recorded, LeftToRevalidate
<1> QED
  BY <1>1, <1>2 DEF ChainKept

(* An action that is carried out leaves the order.                         *)
LEMMA OrderPopped ==
  ASSUME NEW o \in ChangeOrders, o.required_actions # <<>>,
         NEW o2, o2 = IF Len(o.required_actions) = 1 THEN ChangeOrder(<<>>)
                      ELSE [o EXCEPT !.required_actions = Tail(@)]
  PROVE  /\ o2 \in ChangeOrders /\ ToSet(o2.conflicts) \subseteq ToSet(o.conflicts)
         /\ Head(o.required_actions) \in OrderActions
         /\ \A x \in ToSet(o.required_actions) :
              x = Head(o.required_actions) \/ x \in ToSet(o2.required_actions)
<1> DEFINE s == o.required_actions
<1>1. s \in Seq(OrderActions) /\ s # <<>>
  BY DEF ChangeOrders
<1>2. o2 = IF Len(s) = 1 THEN ChangeOrder(<<>>) ELSE [o EXCEPT !.required_actions = Tail(s)]
  OBVIOUS
<1> HIDE DEF s
<1>3. DOMAIN s = 1..Len(s) /\ Len(s) \in Nat /\ Len(s) # 0 /\ Head(s) = s[1] /\ s[1] \in OrderActions
  BY <1>1
<1>4. CASE Len(s) = 1
  <2>1. \A x \in ToSet(s) : x = Head(s)
    BY <1>3, <1>4 DEF ToSet
  <2> QED
    BY <1>2, <1>3, <1>4, <2>1, NoOrder, OneElement DEF s
<1>5. CASE Len(s) # 1
  <2> DEFINE t == Tail(s)
  <2>1. o2 = [o EXCEPT !.required_actions = t]
    BY <1>2, <1>5
  <2>2. t \in Seq(OrderActions) /\ Len(t) = Len(s) - 1 /\ DOMAIN t = 1..(Len(s) - 1)
        /\ \A i \in 1..(Len(s) - 1) : t[i] = s[i + 1]
    BY <1>1, <1>3
  <2> HIDE DEF t
  <2>3. o2 \in ChangeOrders /\ o2.conflicts = o.conflicts /\ o2.required_actions = t
    BY <2>1, <2>2 DEF ChangeOrders
  <2>4. ASSUME NEW k \in 1..Len(s), k # 1 PROVE s[k] \in ToSet(t)
    <3> DEFINE i == k - 1
    <3>1. i \in 1..(Len(s) - 1) /\ i + 1 = k
      BY <1>3, <2>4
    <3> HIDE DEF i
    <3>2. t[i] = s[k] /\ i \in DOMAIN t
      BY <2>2, <3>1
    <3> QED
      BY <3>2 DEF ToSet
  <2>5. \A x \in ToSet(s) : x = Head(s) \/ x \in ToSet(t)
    BY <1>3, <2>4 DEF ToSet
  <2> QED
    BY <1>3, <2>3, <2>5 DEF s
<1> QED
  BY <1>4, <1>5

(* Carrying out an action that moves no digest, when what it leaves is     *)
(* accounted for.                                                          *)
LEMMA SettlingKeepsChain ==
  ASSUME ChainKept, HeldTyped', DigestChain' = DigestChain, ExpectedTyped', order' \in ChangeOrders,
         \A i \in 1..7 : Recorded'[i] \subseteq Recorded[i],
         \A p \in DOMAIN DigestChain \ {1} : p \in LeftToRevalidate =>
           p \in LeftToRevalidate' \/ Same(DigestChain[p], DigestChain[p - 1], p - 1)
  PROVE  ChainKept'
<1>1. WellChained(DigestChain, Recorded, LeftToRevalidate)
  BY DEF ChainKept
<1>2. WellChained(DigestChain, Recorded', LeftToRevalidate')
  <2> HIDE DEF DigestChain, Recorded, LeftToRevalidate
  <2> QED
    BY <1>1, LessRecorded
<1> QED
  BY <1>2 DEF ChainKept

(* Revalidating an artifact that is out of date makes it newer.            *)
LEMMA RevalidatedIsNewer ==
  ASSUME NEW n \in Nat, NEW a, NEW b, NEW new, NotAfter(a, b, n), ~Same(a, b, n), Same(new, b, n)
  PROVE  Before(a, new, n + 1)
<1>1. PICK i \in 1..n : a[i] < b[i] /\ Same(a, b, i - 1)
  BY DEF NotAfter, Before
<1>2. a[i] < new[i] /\ Same(a, new, i - 1) /\ i \in 1..(n + 1)
  BY <1>1 DEF Same
<1> QED
  BY <1>2 DEF Before

(* An artifact that is out of date is made again.                          *)
LEMMA RevalidationKeepsChain ==
  ASSUME ChainKept, NEW role \in DOMAIN held, ~UpToDate(role),
         held' = [held EXCEPT ![role].descriptor.digest =
                    Rebound(role, Last(held[role].descriptor.digest))],
         expected' = expected, order' \in ChangeOrders,
         \A i \in 1..7 : Recorded'[i] \subseteq Recorded[i],
         \A i \in LeftToRevalidate : i \in LeftToRevalidate' \/ i = Place(role)
  PROVE  ChainKept'
<1> DEFINE r == Place(role)
           old == held[role].descriptor.digest
           new == Rebound(role, Last(old))
<1>1. WellChained(DigestChain, Recorded, LeftToRevalidate) /\ Unbroken(DigestChain)
      /\ HeldTyped /\ ExpectedTyped
  BY DEF ChainKept, WellChained
<1>2. /\ role \in Roles /\ r \in 1..7 /\ r \in DOMAIN DigestChain
      /\ DigestChain[r] = old /\ old \in DigestsAt(r)
  BY <1>1, DigestAtPlace, PlacesOfRoles DEF DigestOf
<1>3. r # 1 /\ ~Same(old, DigestChain[r - 1], r - 1) /\ PredecessorHeld(role)
  BY <1>1, <1>2, UpToDateIsSame
<1>4. held' = [held EXCEPT ![role].descriptor.digest = new]
  OBVIOUS
<1> HIDE DEF old
<1>5. Last(old) \in Nat
  <2> HIDE DEF r
  <2> QED
    BY <1>2 DEF Last, DigestsAt
<1>6. new \in DigestsAt(r) /\ r - 1 \in DOMAIN DigestChain /\ Same(new, DigestChain[r - 1], r - 1)
  BY <1>1, <1>2, <1>3, <1>5, ReboundDigest
<1> HIDE DEF new
<1>7. /\ HeldTyped' /\ DOMAIN held' = DOMAIN held
      /\ DOMAIN DigestChain' = DOMAIN DigestChain /\ DigestChain'[r] = new
      /\ \A i \in DOMAIN DigestChain \ {r} : DigestChain'[i] = DigestChain[i]
  BY <1>1, <1>4, <1>6, OneDigestReplaced
<1>8. ExpectedTyped'
  BY <1>1, <1>7 DEF ExpectedTyped
<1>9. Before(old, new, r)
  <2>1. NotAfter(old, DigestChain[r - 1], r - 1)
    BY <1>1, <1>2, <1>3, <1>6 DEF WellChained, MadeInOrder
  <2>2. r - 1 \in Nat /\ (r - 1) + 1 = r
    BY <1>2
  <2>3. Before(old, new, (r - 1) + 1)
    BY <1>3, <1>6, <2>1, <2>2, RevalidatedIsNewer
  <2> QED
    BY <2>2, <2>3
<1>10. LeftToRevalidate \ {r} \subseteq LeftToRevalidate'
  OBVIOUS
<1> HIDE DEF r
<1>11. WellChained(DigestChain', Recorded, LeftToRevalidate')
  <2> HIDE DEF DigestChain, Recorded, LeftToRevalidate
  <2> QED
    BY <1>1, <1>2, <1>3, <1>6, <1>7, <1>9, <1>10, DigestRises
<1>12. WellChained(DigestChain', Recorded', LeftToRevalidate')
  <2> HIDE DEF DigestChain, Recorded, LeftToRevalidate
  <2> QED
    BY <1>11, LessRecorded
<1> QED
  BY <1>7, <1>8, <1>12 DEF ChainKept

(* A receipt that is out of date is withdrawn with all that rests on it.   *)
LEMMA WithdrawalKeepsChain ==
  ASSUME ChainKept, "execution_receipt" \in DOMAIN held, ~UpToDate("execution_receipt"),
         held' = Without({"execution_receipt"} \cup ToSet(DownstreamRoles("execution_receipt"))),
         expected' = expected, order' \in ChangeOrders,
         \A i \in 1..7 : Recorded'[i] \subseteq Recorded[i],
         \A i \in LeftToRevalidate : i \in LeftToRevalidate' \/ i = 5
  PROVE  ChainKept'
<1>1. WellChained(DigestChain, Recorded, LeftToRevalidate) /\ Unbroken(DigestChain)
      /\ HeldTyped /\ ExpectedTyped
  BY DEF ChainKept, WellChained
<1>2. Place("execution_receipt") = 5
  BY ReceiptAfterTicket
<1>3. 5 \in DOMAIN DigestChain /\ ~Same(DigestChain[5], DigestChain[4], 4)
      /\ "execution_receipt" \in Roles
  <2>1. 5 - 1 = 4 /\ 5 # 1
    OBVIOUS
  <2> QED
    BY <1>1, <1>2, <2>1, DigestAtPlace, UpToDateIsSame
<1>4. /\ \A role : role \in DOMAIN held' <=> role \in DOMAIN held /\ Place(role) <= 4
      /\ \A role \in DOMAIN held' : held'[role] = held[role]
  <2>1. ASSUME NEW role \in DOMAIN held
        PROVE  role \in {"execution_receipt"} \cup ToSet(DownstreamRoles("execution_receipt"))
                 <=> ~(Place(role) <= 4)
    <3>1. role \in Roles /\ Place(role) \in 1..7 /\ ChainRoles[Place(role)] = role
      BY <1>1, PlacesOfRoles DEF HeldTyped
    <3>2. role \in ToSet(DownstreamRoles("execution_receipt")) <=> Place(role) > 5
      BY <1>2, <1>3, <3>1, RolesDownstream
    <3>3. role = "execution_receipt" <=> Place(role) = 5
      BY <1>2, <1>3, <3>1, PlacesOfRoles
    <3> QED
      BY <3>1, <3>2, <3>3
  <2> QED
    BY <2>1 DEF Without
<1>5. HeldTyped' /\ ExpectedTyped'
  <2>1. \A role \in DOMAIN held' : role \in Roles /\ held'[role] \in StatesOf(role)
    BY <1>1, <1>4 DEF HeldTyped
  <2>2. HeldTyped'
    BY <2>1 DEF HeldTyped, StatesOf
  <2> QED
    BY <1>1, <1>4, <2>2 DEF ExpectedTyped
<1>6. /\ DOMAIN DigestChain' = DOMAIN DigestChain \cap 1..4
      /\ \A i \in DOMAIN DigestChain' : DigestChain'[i] = DigestChain[i]
  <2>1. DOMAIN DigestChain' = {i \in 1..7 : ChainRoles[i] \in DOMAIN held'}
        /\ \A i \in DOMAIN DigestChain' : DigestChain'[i] = held'[ChainRoles[i]].descriptor.digest
    BY DEF DigestChain, Held, DigestOf
  <2>2. DOMAIN DigestChain = {i \in 1..7 : ChainRoles[i] \in DOMAIN held}
        /\ \A i \in DOMAIN DigestChain : DigestChain[i] = held[ChainRoles[i]].descriptor.digest
    BY DEF DigestChain, Held, DigestOf
  <2> HIDE DEF DigestChain
  <2>3. \A i \in 1..7 : ChainRoles[i] \in DOMAIN held' <=> ChainRoles[i] \in DOMAIN held /\ i <= 4
    BY <1>4, PlacesOfRoles
  <2> QED
    BY <1>4, <2>1, <2>2, <2>3
<1>7. LeftToRevalidate \ {5} \subseteq LeftToRevalidate'
  OBVIOUS
<1>8. WellChained(DigestChain', Recorded, LeftToRevalidate')
  <2> HIDE DEF DigestChain, Recorded, LeftToRevalidate
  <2> QED
    BY <1>1, <1>3, <1>6, <1>7, ChainIsCut
<1>9. WellChained(DigestChain', Recorded', LeftToRevalidate')
  <2> HIDE DEF DigestChain, Recorded, LeftToRevalidate
  <2> QED
    BY <1>8, LessRecorded
<1> QED
  BY <1>5, <1>9 DEF ChainKept

(* Whatever of a change order is carried out.                              *)
LEMMA CarryOutKeepsChain == ChainKept /\ CarryOut => ChainKept'
<1> SUFFICES ASSUME ChainKept, CarryOut PROVE ChainKept'
  OBVIOUS
<1> DEFINE next == Head(order.required_actions)
           verb == next[1]
           role == next[2]
<1>1. /\ order \in ChangeOrders /\ HeldTyped /\ ExpectedTyped /\ Unbroken(DigestChain)
      /\ order.required_actions # <<>>
      /\ CarryOutAction(verb, role)
      /\ order' = IF Len(order.required_actions) = 1 THEN ChangeOrder(<<>>)
                  ELSE [order EXCEPT !.required_actions = Tail(@)]
  BY DEF ChainKept, WellChained, CarryOut, Pending
<1>2. /\ order' \in ChangeOrders /\ ToSet(order'.conflicts) \subseteq ToSet(order.conflicts)
      /\ next \in OrderActions
      /\ \A x \in ToSet(order.required_actions) : x = next \/ x \in ToSet(order'.required_actions)
  BY <1>1, OrderPopped
<1> HIDE DEF next
<1>3. role \in Roles /\ next = <<verb, role>>
      /\ verb \in {"repair_artifact", "rebuild_bindings_for", "revalidate_artifact"}
  BY <1>2 DEF OrderActions
<1> HIDE DEF verb, role
<1>4. ASSUME NEW i \in LeftToRevalidate
      PROVE  i \in LeftToRevalidate' \/ (verb = "revalidate_artifact" /\ i = Place(role))
  <2>1. i \in 1..7 /\ <<"revalidate_artifact", ChainRoles[i]>> \in ToSet(order.required_actions)
    BY DEF LeftToRevalidate
  <2>2. CASE <<"revalidate_artifact", ChainRoles[i]>> \in ToSet(order'.required_actions)
    BY <2>1, <2>2 DEF LeftToRevalidate
  <2>3. CASE <<"revalidate_artifact", ChainRoles[i]>> = <<verb, role>>
    BY <2>1, <2>3, PlacesOfRoles
  <2> QED
    BY <1>2, <1>3, <2>1, <2>2, <2>3
<1>5. ASSUME \/ expected' = expected
             \/ \E c \in ToSet(order.conflicts) :
                  c.role = role /\ expected' = [expected EXCEPT ![role] = c.actual_digest]
      PROVE  /\ \A i \in 1..7 : Recorded'[i] \subseteq Recorded[i]
             /\ DOMAIN held' \subseteq DOMAIN held => ExpectedTyped'
  <2>1. CASE expected' = expected
    BY <1>1, <1>2, <2>1, RecordedLess DEF ExpectedTyped
  <2>2. ASSUME NEW c \in ToSet(order.conflicts), c.role = role,
               expected' = [expected EXCEPT ![role] = c.actual_digest]
        PROVE  /\ \A i \in 1..7 : Recorded'[i] \subseteq Recorded[i]
               /\ DOMAIN held' \subseteq DOMAIN held => ExpectedTyped'
    <3>1. \A i \in 1..7 : \/ expected'[ChainRoles[i]] = expected[ChainRoles[i]]
                          \/ c.role = ChainRoles[i] /\ c.actual_digest = expected'[ChainRoles[i]]
      BY <1>1, <1>3, <2>2, PlacesOfRoles DEF ExpectedTyped
    <3>2. \A i \in 1..7 : Recorded'[i] \subseteq Recorded[i]
      BY <1>1, <1>2, <3>1, RecordedLess
    <3>3. c.actual_digest \in DigestsAt(Place(role))
      <4>1. order.conflicts \in Seq(ConflictsFound)
        BY <1>1 DEF ChangeOrders
      <4>2. c \in ConflictsFound
        BY <4>1 DEF ToSet
      <4> QED
        BY <2>2, <4>2 DEF ConflictsFound
    <3>4. DOMAIN held' \subseteq DOMAIN held => ExpectedTyped'
      BY <1>1, <1>3, <2>2, <3>3, MissingIsNoDigest DEF ExpectedTyped
    <3> QED
      BY <3>2, <3>4
  <2> QED
    BY <1>5, <2>1, <2>2
<1>6. ASSUME HeldTyped', DOMAIN held' = DOMAIN held, DigestChain' = DigestChain,
             \/ expected' = expected
             \/ \E c \in ToSet(order.conflicts) :
                  c.role = role /\ expected' = [expected EXCEPT ![role] = c.actual_digest],
             verb # "revalidate_artifact" \/ ~Held(role) \/ UpToDate(role)
      PROVE  ChainKept'
  <2>1. ExpectedTyped' /\ \A i \in 1..7 : Recorded'[i] \subseteq Recorded[i]
    BY <1>5, <1>6
  <2>2. ASSUME NEW p \in DOMAIN DigestChain \ {1}, p \in LeftToRevalidate
        PROVE  p \in LeftToRevalidate' \/ Same(DigestChain[p], DigestChain[p - 1], p - 1)
    <3>1. CASE verb = "revalidate_artifact" /\ p = Place(role)
      <4>1. role \in DOMAIN held
        BY <1>1, <1>3, <3>1, DigestAtPlace DEF Held
      <4>2. UpToDate(role) /\ Place(role) # 1
        BY <1>6, <3>1, <4>1 DEF Held
      <4> QED
        BY <1>1, <3>1, <4>1, <4>2, UpToDateIsSame
    <3> QED
      BY <1>4, <2>2, <3>1
  <2> QED
    BY <1>2, <1>6, <2>1, <2>2, SettlingKeepsChain
<1>7. held' = held => HeldTyped' /\ DOMAIN held' = DOMAIN held /\ DigestChain' = DigestChain
  BY <1>1 DEF HeldTyped, DigestChain, Held, DigestOf
<1>8. CASE ~Held(role) /\ UNCHANGED <<held, expected, ticket>>
  BY <1>6, <1>7, <1>8
<1>9. CASE /\ Held(role) /\ verb = "repair_artifact"
           /\ Placed(role, ArtifactState(held[role].descriptor, {}))
           /\ UNCHANGED <<expected, ticket>>
  <2>1. role \in DOMAIN held /\ {} \in SUBSET {"fault"} /\ HeldTyped
    BY <1>1, <1>9 DEF Held
  <2>2. Placed(role, ArtifactState(held[role].descriptor, {}))
    BY <1>9
  <2>3. HeldTyped' /\ DOMAIN held' = DOMAIN held /\ DigestChain' = DigestChain
    BY <2>1, <2>2, PlacingKeepsDigests
  <2> QED
    BY <1>6, <1>9, <2>3
<1>10. CASE Held(role) /\ verb = "rebuild_bindings_for" /\ Rebind(role) /\ UNCHANGED <<held, ticket>>
  <2>1. PICK i \in DOMAIN order.conflicts :
          /\ order.conflicts[i].role = role
          /\ expected' = [expected EXCEPT ![role] = order.conflicts[i].actual_digest]
    BY <1>10 DEF Rebind
  <2>2. \E c \in ToSet(order.conflicts) :
          c.role = role /\ expected' = [expected EXCEPT ![role] = c.actual_digest]
    BY <2>1 DEF ToSet
  <2> QED
    BY <1>6, <1>7, <1>10, <2>2
<1>11. CASE Held(role) /\ verb = "revalidate_artifact" /\ Revalidate(role) /\ UNCHANGED expected
  <2>1. CASE UpToDate(role)
    BY <1>6, <1>7, <1>11, <2>1 DEF Revalidate
  <2>2. CASE ~UpToDate(role) /\ role = "execution_receipt"
    <3>1. held' = Without({"execution_receipt"} \cup ToSet(DownstreamRoles("execution_receipt")))
      BY <1>11, <2>2 DEF Revalidate
    <3>2. \A i \in LeftToRevalidate : i \in LeftToRevalidate' \/ i = 5
      BY <1>4, <2>2, ReceiptAfterTicket
    <3>3. \A i \in 1..7 : Recorded'[i] \subseteq Recorded[i]
      BY <1>5, <1>11
    <3> QED
      BY <1>2, <1>11, <2>2, <3>1, <3>2, <3>3, WithdrawalKeepsChain DEF Held
  <2>3. CASE ~UpToDate(role) /\ role # "execution_receipt"
    <3>1. held' = [held EXCEPT ![role].descriptor.digest =
                     Rebound(role, Last(held[role].descriptor.digest))]
      BY <1>11, <2>3 DEF Revalidate
    <3>2. \A i \in LeftToRevalidate : i \in LeftToRevalidate' \/ i = Place(role)
      BY <1>4
    <3>3. \A i \in 1..7 : Recorded'[i] \subseteq Recorded[i]
      BY <1>5, <1>11
    <3> QED
      BY <1>2, <1>11, <2>3, <3>1, <3>2, <3>3, RevalidationKeepsChain DEF Held
  <2> QED
    BY <2>1, <2>2, <2>3
<1> QED
  BY <1>1, <1>8, <1>9, <1>10, <1>11 DEF CarryOutAction

(* A change order is taken.                                                *)
LEMMA TakingKeepsChain ==
  ASSUME ChainKept, NEW listed \in {Listed, Reverse(Listed)}, TakeOrder(listed)
  PROVE  ChainKept'
<1> DEFINE found == DetectConflicts(listed, held, expected)
<1>1. /\ HeldTyped /\ ExpectedTyped /\ WellChained(DigestChain, Recorded, LeftToRevalidate)
      /\ order.required_actions = <<>> /\ order' = ChangeOrder(found)
      /\ held' = held /\ expected' = expected
  BY DEF ChainKept, TakeOrder, Pending, IndexOver, StateIndex
<1>2. listed \in Seq(Roles) /\ \A role : role \in ToSet(listed) <=> Held(role)
  BY <1>1, ListedElements
<1>3. /\ found \in Seq(ConflictsFound)
      /\ \A c \in ToSet(found) : Held(c.role) /\ c.actual_digest = DigestOf(c.role)
  BY <1>1, <1>2, DetectedConflicts
<1> HIDE DEF found
<1>4. /\ order' \in ChangeOrders /\ order'.conflicts = found
      /\ \A c \in ToSet(found) : \A role \in Roles :
           Place(role) > Place(c.role) =>
             <<"revalidate_artifact", role>> \in ToSet(order'.required_actions)
  BY <1>1, <1>3, OrderForConflicts
<1>5. HeldTyped' /\ ExpectedTyped' /\ DigestChain' = DigestChain
  BY <1>1 DEF HeldTyped, ExpectedTyped, DigestChain, Held, DigestOf
<1>6. LeftToRevalidate \subseteq LeftToRevalidate'
  BY <1>1, OneElement DEF LeftToRevalidate
<1>7. ASSUME NEW i \in 1..7, NEW d \in Recorded'[i], d \notin Recorded[i]
      PROVE  \E c \in ToSet(found) : c.role = ChainRoles[i] /\ c.actual_digest = d
  BY <1>1, <1>4, <1>7 DEF Recorded
<1>8. ASSUME NEW i \in 1..7, NEW d \in Recorded'[i]
      PROVE  d \in Recorded[i] \/ (i \in DOMAIN DigestChain /\ d = DigestChain[i])
  <2> SUFFICES ASSUME d \notin Recorded[i] PROVE i \in DOMAIN DigestChain /\ d = DigestChain[i]
    OBVIOUS
  <2>1. PICK c \in ToSet(found) : c.role = ChainRoles[i] /\ c.actual_digest = d
    BY <1>7
  <2>2. Held(ChainRoles[i]) /\ d = DigestOf(ChainRoles[i])
    BY <1>3, <2>1
  <2>3. i \in DOMAIN DigestChain
    BY <1>1, <2>2, DigestAtPlace, PlacesOfRoles
  <2> QED
    BY <1>1, <2>2, <2>3, DigestAtPlace
<1>9. ASSUME NEW q \in 1..7
      PROVE  Recorded'[q] \subseteq Recorded[q] \/ \A p \in 1..7 : p > q => p \in LeftToRevalidate'
  <2> SUFFICES ASSUME NEW d \in Recorded'[q], d \notin Recorded[q], NEW p \in 1..7, p > q
               PROVE  p \in LeftToRevalidate'
    OBVIOUS
  <2>1. PICK c \in ToSet(found) : c.role = ChainRoles[q]
    BY <1>7
  <2>2. ChainRoles[p] \in Roles /\ Place(ChainRoles[p]) > Place(c.role)
    BY <2>1, PlacesOfRoles
  <2>3. <<"revalidate_artifact", ChainRoles[p]>> \in ToSet(order'.required_actions)
    BY <1>4, <2>2
  <2> QED
    BY <2>3 DEF LeftToRevalidate
<1>10. WellChained(DigestChain, Recorded', LeftToRevalidate')
  <2> HIDE DEF DigestChain, Recorded, LeftToRevalidate
  <2> QED
    BY <1>1, <1>6, <1>8, <1>9, OrderRecords
<1> QED
  BY <1>4, <1>5, <1>10 DEF ChainKept

(* Every step of the operation keeps its artifacts accounted for.          *)
LEMMA ChainKeptStep == ChainKept /\ [PipelineNext \/ Close]_pipelineVars => ChainKept'
<1> SUFFICES ASSUME ChainKept, [PipelineNext \/ Close]_pipelineVars PROVE ChainKept'
  OBVIOUS
<1>1. CASE UNCHANGED <<held, expected, order>>
  <2>1. HeldTyped' /\ DigestChain' = DigestChain
    BY <1>1 DEF ChainKept, HeldTyped, DigestChain, Held, DigestOf
  <2> QED
    BY <1>1, <2>1, StayKeepsChain
<1>2. ASSUME NEW role \in Roles, Provide(role) PROVE ChainKept'
  BY <1>2, EntryKeepsChain DEF Provide, CanProvide, Wanted
<1>3. ASSUME NEW version \in TicketVersions, IssueTicket(version) PROVE ChainKept'
  <2>1. "execution_ticket" \in Roles
    BY ReceiptAfterTicket, PlacesOfRoles
  <2> QED
    BY <1>3, <2>1, EntryKeepsChain DEF IssueTicket, Wanted
<1>4. ASSUME NEW steps, Run(steps) PROVE ChainKept'
  <2>1. "execution_receipt" \in Roles
    BY DEF Roles, ChainRoles, ToSet
  <2> QED
    BY <1>4, <2>1, EntryKeepsChain DEF Run, CanRun, Wanted
<1>5. CASE CarryOut
  BY <1>5, CarryOutKeepsChain
<1>6. ASSUME NEW listed \in {Listed, Reverse(Listed)}, TakeOrder(listed) PROVE ChainKept'
  BY <1>6, TakingKeepsChain
<1>7. ASSUME NEW role \in Changing, Change(role) PROVE ChainKept'
  BY <1>7, ChangeKeepsChain
<1>8. ASSUME NEW role \in Failing, Fault(role) PROVE ChainKept'
  <2>1. role \in DOMAIN held /\ Placed(role, ArtifactState(held[role].descriptor, {"fault"}))
        /\ expected' = expected /\ order' = order /\ HeldTyped
    BY <1>8 DEF Fault, Held, ChainKept
  <2>2. HeldTyped' /\ DOMAIN held' = DOMAIN held /\ DigestChain' = DigestChain
    BY <2>1, PlacingKeepsDigests
  <2> QED
    BY <2>1, <2>2, StayKeepsChain
<1>9. CASE Close
  <2>1. (/\ held = <<>> /\ expected = [role \in Roles |-> Missing]
         /\ order = ChangeOrder(<<>>))' => ChainKept'
    BY ChainKeptWhenEmpty, PTL
  <2> QED
    BY <1>9, <2>1 DEF Close
<1> QED
  BY <1>1, <1>2, <1>3, <1>4, <1>5, <1>6, <1>7, <1>8, <1>9
     DEF PipelineNext, HostStep, pipelineVars, Advance, Hold, Approve
-----------------------------------------------------------------------------
(* The operation as a whole.                                               *)

(* From the start, and through every step of the operation.                *)
LEMMA ChainAlwaysKept == Init /\ [][Next]_vars => []ChainKept
<1>1. PipelineInit => ChainKept
  BY ChainKeptWhenEmpty DEF PipelineInit
<1> QED
  BY <1>1, ChainKeptStep, InitComposed, StepComposed, PTL

(* The change order the index shows is the one for the conflicts among all *)
(* that is held.                                                           *)
LEMMA ConflictsOfTheIndex ==
  ASSUME ChainKept
  PROVE  LET found == DetectConflicts(Listed, held, expected)
         IN  /\ TheIndex.change_order = ChangeOrder(found)
             /\ found \in Seq(ConflictsFound)
             /\ \A role \in DOMAIN held :
                  expected[role] # DigestOf(role) => \E c \in ToSet(found) : c.role = role
<1> DEFINE found == DetectConflicts(Listed, held, expected)
<1>1. TheIndex.change_order = ChangeOrder(found)
  BY DEF TheIndex, IndexOver, StateIndex
<1>2. HeldTyped /\ ExpectedTyped
  BY DEF ChainKept
<1>3. Listed \in Seq(Roles) /\ \A role : role \in ToSet(Listed) <=> Held(role)
  BY <1>2, ListedElements
<1>4. /\ found \in Seq(ConflictsFound)
      /\ \A role \in DOMAIN held :
           expected[role] \notin {Missing, DigestOf(role)} => \E c \in ToSet(found) : c.role = role
  BY <1>2, <1>3, DetectedConflicts
<1> HIDE DEF found
<1>5. \A role \in DOMAIN held : expected[role] # Missing
  BY <1>2 DEF ExpectedTyped
<1> QED
  BY <1>1, <1>4, <1>5 DEF found

(* What is bound of a held artifact as it is, is recorded of its place.    *)
LEMMA BoundAsItIs ==
  ASSUME ChainKept, NEW i \in DOMAIN DigestChain,
         expected[ChainRoles[i]] = DigestOf(ChainRoles[i])
  PROVE  DigestChain[i] \in Recorded[i]
<1>1. i \in 1..7 /\ DigestChain[i] = expected[ChainRoles[i]] /\ DigestChain[i] \in DigestsAt(i)
  BY DigestAtPlace DEF ChainKept
<1> HIDE DEF DigestChain
<1> QED
  BY <1>1 DEF Recorded

(* Where digests, bindings and the order account for every artifact, one   *)
(* that is out of date is named.                                           *)
LEMMA NamedWhenKept == ChainKept => OutOfDateIsAlwaysNamed
<1> SUFFICES ASSUME ChainKept, NEW role \in DOMAIN held, ~UpToDate(role),
                    <<"revalidate_artifact", role>> \notin ToSet(order.required_actions)
             PROVE  role \in TheIndex.change_order.invalidated_roles
  BY DEF OutOfDateIsAlwaysNamed
<1> DEFINE p == Place(role)
           found == DetectConflicts(Listed, held, expected)
<1>1. HeldTyped /\ WellChained(DigestChain, Recorded, LeftToRevalidate) /\ Unbroken(DigestChain)
  BY DEF ChainKept, WellChained
<1>2. /\ role \in Roles /\ p \in 1..7 /\ ChainRoles[p] = role /\ p \in DOMAIN DigestChain
  BY <1>1, DigestAtPlace, PlacesOfRoles
<1>3. p # 1 /\ ~Same(DigestChain[p], DigestChain[p - 1], p - 1)
  BY <1>1, UpToDateIsSame
<1>4. p \notin LeftToRevalidate
  BY <1>2 DEF LeftToRevalidate
<1> HIDE DEF p
<1>5. p - 1 \in DOMAIN DigestChain /\ DigestChain[p - 1] \notin Recorded[p - 1]
  <2>1. p - 1 \in 1..p
    BY <1>2, <1>3
  <2> HIDE DEF DigestChain, Recorded, LeftToRevalidate
  <2>2. p - 1 \in DOMAIN DigestChain
    BY <1>1, <1>2, <2>1 DEF Unbroken
  <2>3. p \in DOMAIN DigestChain \ {1}
    BY <1>2, <1>3
  <2> QED
    BY <1>1, <1>3, <1>4, <2>2, <2>3 DEF WellChained, Accounted
<1> DEFINE before == ChainRoles[p - 1]
<1>6. before \in DOMAIN held /\ before \in Roles /\ Place(before) = p - 1
  <2>1. p - 1 \in 1..7
    BY <1>2, <1>3
  <2> QED
    BY <1>1, <1>5, <2>1, DigestAtPlace, PlacesOfRoles DEF Held
<1>7. expected[before] # DigestOf(before)
  BY <1>5, BoundAsItIs
<1> HIDE DEF before
<1>8. /\ TheIndex.change_order = ChangeOrder(found) /\ found \in Seq(ConflictsFound)
      /\ \E c \in ToSet(found) : c.role = before
  BY <1>6, <1>7, ConflictsOfTheIndex
<1> HIDE DEF found
<1>9. PICK c \in ToSet(found) : c.role = before
  BY <1>8
<1>10. Place(role) > Place(c.role)
  BY <1>2, <1>6, <1>9 DEF p
<1> QED
  BY <1>2, <1>8, <1>9, <1>10, OrderForConflicts

(* An artifact that is not of its predecessor as that is now is always     *)
(* named, whatever changed, failed, was rebound, revalidated or withdrawn  *)
(* before, and however many editions there were                            *)
(* (ConflictDetector.downstream_roles, change_order_for_conflicts).        *)
THEOREM OutOfDateNamed == Spec => []OutOfDateIsAlwaysNamed
BY ChainAlwaysKept, NamedWhenKept, PTL DEF Spec
-----------------------------------------------------------------------------
(* A transition is allowed only while no artifact is blocked.              *)
LEMMA NothingBlockedWhenAllowed ==
  ASSUME NEW from, NEW to, Allowed(EvaluateTransition(from, to, held))
  PROVE  \A role \in DOMAIN held : ~Blocked(held[role])
<1> SUFFICES ASSUME NEW role \in DOMAIN held, Blocked(held[role]) PROVE FALSE
  OBVIOUS
<1> DEFINE barred == Canonical(to) \notin NextStates(from)
           missing == MissingRoles(RequiredRoles(to), held)
           blockers == (IF barred THEN {<<"transition_not_allowed", Missing>>} ELSE {})
                       \cup Advice("artifact_blocked", BlockedRoles(held))
                       \cup Advice("missing_artifact", missing)
           advice == (IF barred THEN Advice("transition_to", NextStates(from)) ELSE {})
                     \cup UNION {held[r].next_actions : r \in BlockedRoles(held)}
                     \cup Advice("provide_artifact", missing)
<1>1. <<"artifact_blocked", role>> \in blockers
  BY DEF Advice, BlockedRoles
<1>2. EvaluateTransition(from, to, held) =
        IF blockers = {}
        THEN TransitionDecision("allowed", "ok", Canonical(from), Canonical(to), {}, {})
        ELSE TransitionDecision("blocked", "lifecycle_blocked", Canonical(from), Canonical(to),
                                blockers, advice)
  BY DEF EvaluateTransition
<1> HIDE DEF blockers, advice
<1> QED
  BY <1>1, <1>2 DEF Allowed, TransitionDecision

(* A ready index has every held artifact bound as it is.                   *)
LEMMA BoundWhenReady ==
  ASSUME ChainKept, IndexStatus(TheIndex, BoundRoles) = "ready", NEW role \in DOMAIN held
  PROVE  expected[role] = DigestOf(role)
<1> SUFFICES ASSUME expected[role] # DigestOf(role) PROVE FALSE
  OBVIOUS
<1> DEFINE found == DetectConflicts(Listed, held, expected)
<1>1. /\ TheIndex.change_order = ChangeOrder(found)
      /\ \E c \in ToSet(found) : c.role = role
  BY ConflictsOfTheIndex
<1>2. ~Required(ChangeOrder(found))
  BY <1>1 DEF IndexStatus
<1> HIDE DEF found
<1>3. found = <<>>
  BY <1>2 DEF Required, ChangeOrder
<1> QED
  BY <1>1, <1>3, OneElement

(* Where all is bound as it is and no order is being carried out, nothing  *)
(* is stale.                                                               *)
LEMMA NothingStale ==
  ASSUME ChainKept, ~Pending, \A r \in DOMAIN held : expected[r] = DigestOf(r),
         NEW role \in DOMAIN held
  PROVE  ~Stale(role)
<1> DEFINE p == Place(role)
<1>1. HeldTyped /\ WellChained(DigestChain, Recorded, LeftToRevalidate) /\ Unbroken(DigestChain)
  BY DEF ChainKept, WellChained
<1>2. /\ p \in 1..7 /\ p \in DOMAIN DigestChain
      /\ DigestChain[p] = DigestOf(role) /\ DigestOf(role) \in DigestsAt(p)
  BY <1>1, DigestAtPlace, PlacesOfRoles
<1>3. LeftToRevalidate = {}
  BY OneElement DEF Pending, LeftToRevalidate
<1>4. ASSUME NEW i \in DOMAIN DigestChain PROVE DigestChain[i] \in Recorded[i]
  BY <1>1, BoundAsItIs, DigestAtPlace DEF Held
<1> HIDE DEF p
<1>5. ASSUME NEW i \in 1..(p - 1) PROVE DigestOf(ChainRoles[i]) = SubSeq(DigestOf(role), 1, i)
  <2> DEFINE a == DigestOf(role)
             b == DigestOf(ChainRoles[i])
  <2>1. i \in 1..7 /\ i \in 1..p /\ i < p
    BY <1>2
  <2>2. i \in DOMAIN DigestChain
    BY <1>1, <1>2, <2>1 DEF Unbroken
  <2>3. DigestChain[i] = b /\ b \in DigestsAt(i)
    BY <1>1, <2>2, DigestAtPlace
  <2>4. Same(a, b, i)
    <3>1. WellChained(DigestChain, Recorded, {})
      BY <1>1, <1>3
    <3> HIDE DEF DigestChain, Recorded
    <3> QED
      BY <1>2, <1>4, <2>1, <2>2, <2>3, <3>1, AllOfThoseBefore
  <2>5. a \in Seq(Nat) /\ Len(a) = p /\ b \in Seq(Nat) /\ Len(b) = i
    BY <1>2, <2>3 DEF DigestsAt
  <2> HIDE DEF a, b
  <2> DEFINE cut == SubSeq(a, 1, i)
  <2>6. cut \in Seq(Nat) /\ Len(cut) = i /\ \A j \in 1..i : cut[j] = a[j]
    BY <2>1, <2>5
  <2> HIDE DEF cut
  <2>7. b = cut
    BY <2>4, <2>5, <2>6 DEF Same
  <2> QED
    BY <2>7 DEF a, b, cut
<1> QED
  BY <1>5 DEF Stale, p

(* A chain is called verified, under whichever name, only when every       *)
(* artifact in it is of the artifacts before it as they are now, however   *)
(* often any of them was changed, made again or withdrawn                  *)
(* (TransitionGate.evaluate with ArtifactStateIndex.summary).              *)
THEOREM VerifiedWhenCurrent == Spec => VerifiedOnlyWhenCurrent
<1> DEFINE Step == stage' # stage /\ Canonical(stage') \in VerifiedStages =>
                     \A role \in DOMAIN held : ~Stale(role) /\ ~Blocked(held[role])
<1>1. ChainKept /\ [PipelineNext \/ Close]_pipelineVars => [Step]_pipelineVars
  <2> SUFFICES ASSUME ChainKept, [PipelineNext \/ Close]_pipelineVars,
                      stage' # stage, Canonical(stage') \in VerifiedStages
               PROVE  \A role \in DOMAIN held : ~Stale(role) /\ ~Blocked(held[role])
    OBVIOUS
  <2>1. ASSUME NEW to \in StageNames, Advance(to)
        PROVE  \A role \in DOMAIN held : ~Stale(role) /\ ~Blocked(held[role])
    <3>1. /\ Allowed(EvaluateTransition(stage, to, held)) /\ ~Pending
          /\ IndexStatus(TheIndex, BoundRoles) = "ready"
      BY <2>1 DEF Advance, CanAdvance
    <3>2. \A role \in DOMAIN held : ~Blocked(held[role])
      BY <3>1, NothingBlockedWhenAllowed
    <3>3. \A role \in DOMAIN held : expected[role] = DigestOf(role)
      BY <3>1, BoundWhenReady
    <3> QED
      BY <3>1, <3>2, <3>3, NothingStale
  <2>2. CASE Hold
    BY <2>2 DEF Hold, Canonical, VerifiedStages
  <2>3. ~(stage' = stage)
    OBVIOUS
  <2> QED
    BY <2>1, <2>2, <2>3
       DEF PipelineNext, HostStep, pipelineVars, Provide, IssueTicket, Run, TakeOrder, Approve,
           CarryOut, Change, Fault, Close
<1>2. Init /\ [][Next]_vars => [][Step]_pipelineVars
  BY <1>1, ChainAlwaysKept, StepComposed, PTL
<1>3. Spec => [][Step]_pipelineVars
  BY <1>2, PTL DEF Spec
<1> QED
  BY <1>3 DEF VerifiedOnlyWhenCurrent
=============================================================================
