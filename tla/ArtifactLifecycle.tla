-------------------------- MODULE ArtifactLifecycle --------------------------
(***************************************************************************)
(* The governed artifacts of a run: the lifecycle gate (lifecycle.py), the *)
(* detector of conflicts between them and its change orders                *)
(* (deconfliction.py), the index over both (state_index.py), the gate      *)
(* before execution (core.py) and the ticket gate                          *)
(* (execution/ticket_gate.py).  Pure.  held maps each role to the state of *)
(* the artifact held in it; an advice is a pair <<verb, what>> for the     *)
(* text "verb:what".                                                       *)
(***************************************************************************)
EXTENDS Naturals, Sequences, SequencesExt, Absence

(* The order of the downstream table: each role before those it feeds. *)
ChainRoles ==
  <<"intent_contract", "policy_decision", "execution_contract", "execution_ticket",
    "execution_receipt", "evidence_contract", "artifact_chain_manifest">>

Roles == ToSet(ChainRoles)
Place(role) == CHOOSE i \in DOMAIN ChainRoles : ChainRoles[i] = role

(* A plausible regression: the ticket's row lost the receipt. *)
DownstreamRoles_Gap(role) ==
  SelectSeq(SubSeq(ChainRoles, Place(role) + 1, Len(ChainRoles)),
            LAMBDA r : role # "execution_ticket" \/ r # "execution_receipt")

(* ConflictDetector.downstream_roles *)
DownstreamRoles(role) == SubSeq(ChainRoles, Place(role) + 1, Len(ChainRoles))
-----------------------------------------------------------------------------
(* Artifact states.                                                        *)

(* ArtifactDescriptor.from_mapping *)
Described(d) ==
  IF Missing \in {d.artifact_type, d.schema_version, d.digest} THEN Raised ELSE d

ArtifactState(descriptor, blocked_reasons) ==
  [descriptor |-> descriptor,
   blocked_reasons |-> blocked_reasons,
   next_actions |-> IF blocked_reasons = {} THEN {} ELSE {<<"repair_artifact", Missing>>}]

(* artifact_state_for_role *)
ArtifactStateForRole(role, digest, blocked_reasons) ==
  ArtifactState(
    Described([artifact_type |-> role, schema_version |-> "v0.2", digest |-> digest, role |-> role]),
    blocked_reasons)

Blocked(state) == state.blocked_reasons # {}
BlockedRoles(held) == {role \in DOMAIN held : Blocked(held[role])}
-----------------------------------------------------------------------------
(* Lifecycle transitions.                                                  *)

Canonical(state) ==
  CASE state = "chain_verified" -> "verified_chain"
    [] state = "lifecycle_verified" -> "verified_lifecycle"
    [] OTHER -> state

Transitions ==
  [missing |-> {"intent_prepared"},
   intent_prepared |-> {"policy_decided"},
   policy_decided |-> {"execution_contract_prepared"},
   execution_contract_prepared |-> {"execution_ticket_approved"},
   execution_ticket_approved |-> {"execution_receipt_recorded"},
   execution_receipt_recorded |-> {"evidence_recorded"},
   evidence_recorded |-> {"verified_chain"},
   verified_chain |-> {"verified_lifecycle"},
   verified_lifecycle |-> {},
   blocked |-> {"intent_prepared", "policy_decided", "execution_contract_prepared",
                "execution_ticket_approved", "verified_chain"}]

NextStates(state) ==
  IF Canonical(state) \in DOMAIN Transitions THEN Transitions[Canonical(state)] ELSE {}

Requirements ==
  [intent_prepared |-> {"intent_contract"},
   policy_decided |-> {"intent_contract", "policy_decision"},
   execution_contract_prepared |-> {"intent_contract", "policy_decision", "execution_contract"},
   execution_ticket_approved |->
     {"intent_contract", "policy_decision", "execution_contract", "execution_ticket"},
   execution_receipt_recorded |-> {"execution_contract", "execution_ticket", "execution_receipt"},
   evidence_recorded |-> {"execution_ticket", "execution_receipt", "evidence_contract"},
   verified_chain |-> {"artifact_chain_manifest"},
   verified_lifecycle |-> {"artifact_chain_manifest"}]

MissingRoles(required, held) == required \ DOMAIN held

RequiredRoles(state) ==
  IF Canonical(state) \in DOMAIN Requirements THEN Requirements[Canonical(state)] ELSE {}

TransitionDecision(status, reason_code, from, to, blockers, next_actions) ==
  [status |-> status, reason_code |-> reason_code, from_state |-> from, to_state |-> to,
   blockers |-> blockers, next_actions |-> next_actions]

Allowed(d) == d.status \in {"allowed", "ok"} /\ d.blockers = {}

Advice(verb, things) == {<<verb, thing>> : thing \in things}

(* TransitionGate.evaluate *)
EvaluateTransition(from, to, held) ==
  LET barred  == Canonical(to) \notin NextStates(from)
      missing == MissingRoles(RequiredRoles(to), held)
      blockers == (IF barred THEN {<<"transition_not_allowed", Missing>>} ELSE {})
                  \cup Advice("artifact_blocked", BlockedRoles(held))
                  \cup Advice("missing_artifact", missing)
      advice == (IF barred THEN Advice("transition_to", NextStates(from)) ELSE {})
                \cup UNION {held[role].next_actions : role \in BlockedRoles(held)}
                \cup Advice("provide_artifact", missing)
  IN  IF blockers = {}
      THEN TransitionDecision("allowed", "ok", Canonical(from), Canonical(to), {}, {})
      ELSE TransitionDecision("blocked", "lifecycle_blocked", Canonical(from), Canonical(to),
                              blockers, advice)

(* ArtifactLifecycleController.next_actions *)
NextActions(current, held) ==
  UNION {LET d == EvaluateTransition(current, to, held)
         IN  IF Allowed(d) THEN {<<"transition_to", to>>} ELSE d.next_actions :
           to \in NextStates(current)}
-----------------------------------------------------------------------------
(* Conflicts and change orders.  listed is the order in which the caller   *)
(* lists the held artifacts, expected the digests it bound earlier.        *)

Conflict(role, reason_code, expected_digest, actual_digest) ==
  [role |-> role, reason_code |-> reason_code, expected_digest |-> expected_digest,
   actual_digest |-> actual_digest]

ConflictsOf(role, state, expected) ==
  LET actual == state.descriptor.digest
  IN  (IF expected[role] \notin {Missing, actual}
       THEN <<Conflict(role, "artifact_digest_mismatch", expected[role], actual)>> ELSE <<>>)
      \o (IF Blocked(state)
          THEN <<Conflict(role, "lifecycle_blocked", Missing, actual)>> ELSE <<>>)

DetectConflicts(listed, held, expected) ==
  FlattenSeq([i \in DOMAIN listed |-> ConflictsOf(listed[i], held[listed[i]], expected)])

(* dict.fromkeys: the first of each stays. *)
Distinct(s) ==
  FlattenSeq([i \in DOMAIN s |-> IF s[i] \in ToSet(SubSeq(s, 1, i - 1)) THEN <<>> ELSE <<s[i]>>])

Verb(verb, roles) == [i \in DOMAIN roles |-> <<verb, roles[i]>>]

(* A plausible regression: bindings are rebuilt for a blocked artifact and *)
(* not for one whose digest moved.                                         *)
ActionsFor_NoRebuild(conflict) ==
  <<<<"repair_artifact", conflict.role>>>>
  \o (IF conflict.reason_code # "artifact_digest_mismatch"
      THEN <<<<"rebuild_bindings_for", conflict.role>>>> ELSE <<>>)
  \o Verb("revalidate_artifact", DownstreamRoles(conflict.role))

ActionsFor(conflict) ==
  <<<<"repair_artifact", conflict.role>>>>
  \o (IF conflict.reason_code = "artifact_digest_mismatch"
      THEN <<<<"rebuild_bindings_for", conflict.role>>>> ELSE <<>>)
  \o Verb("revalidate_artifact", DownstreamRoles(conflict.role))

(* change_order_for_conflicts *)
ChangeOrder(conflicts) ==
  [conflicts |-> conflicts,
   required_actions |->
     Distinct(FlattenSeq([i \in DOMAIN conflicts |-> ActionsFor(conflicts[i])])),
   invalidated_roles |->
     UNION {ToSet(DownstreamRoles(conflicts[i].role)) : i \in DOMAIN conflicts}]

Required(order) == order.conflicts # <<>>
-----------------------------------------------------------------------------
(* The index over the held artifacts.                                      *)

StateIndex(listed, held, expected) ==
  [states_by_role |-> held, change_order |-> ChangeOrder(DetectConflicts(listed, held, expected))]

IndexNextActions(index, required) ==
  Advice("provide_artifact", MissingRoles(required, index.states_by_role))
  \cup UNION {LET own == index.states_by_role[role].next_actions
              IN  IF own # {} THEN own ELSE {<<"repair_artifact", role>>} :
                role \in BlockedRoles(index.states_by_role)}
  \cup ToSet(index.change_order.required_actions)

(* A plausible regression: the digests are compared and not reported. *)
IndexStatus_StatesOnly(index, required) ==
  IF MissingRoles(required, index.states_by_role) = {} /\ BlockedRoles(index.states_by_role) = {}
  THEN "ready" ELSE "blocked"

(* ArtifactStateIndex.summary *)
IndexStatus(index, required) ==
  IF /\ MissingRoles(required, index.states_by_role) = {}
     /\ BlockedRoles(index.states_by_role) = {}
     /\ ~Required(index.change_order)
  THEN "ready" ELSE "blocked"
-----------------------------------------------------------------------------
(* The gates before and after execution.                                   *)

(* ExecutionPrerequisites.missing_reasons *)
PrerequisitesMissing(p, live) ==
  (IF p.has_prepared_execution_contract THEN {} ELSE {"missing_prepared_execution_contract"})
  \cup (IF p.policy_decision_status \in {"allow", "allowed", "passed", "ok"} THEN {}
        ELSE {"missing_or_invalid_policy_decision"})
  \cup (IF p.execution_ticket_status \in {"approve", "approved", "approved_for_dry_run", "passed", "ok"}
        THEN {} ELSE {"missing_or_invalid_execution_ticket"})
  \cup (IF p.trust_decision_status \in {"trusted", "passed", "ok"} THEN {}
        ELSE {"missing_or_invalid_trust_decision"})
  \cup (IF p.runner_profile_allowed THEN {} ELSE {"runner_profile_not_allowed"})
  \cup (IF live /\ ~p.live_backend_enabled THEN {"live_backend_disabled"} ELSE {})

(* ExecutionPrerequisites.transition_decision *)
PrerequisiteDecision(p, live) ==
  LET reasons == PrerequisitesMissing(p, live)
  IN  IF reasons = {} THEN TransitionDecision("allowed", "ok", Missing, Missing, {}, {})
      ELSE TransitionDecision("blocked",
             IF "live_backend_disabled" \in reasons THEN "execution_disabled" ELSE "raw_intent_rejected",
             Missing, Missing, reasons,
             Advice(Missing, {"prepare_execution_contract", "obtain_policy_decision",
                         "approve_execution_ticket", "verify_trust_decision",
                         "select_allowed_runner_profile"}))

(* _validate_typed_raw_steps, and the same of a contract's plan *)
TypedStep(step) == step.tool # Missing /\ step.args \in Seq(STRING)

(* What SCLite holds of a scoped (v0.3) ticket: it names its contract. *)
TicketSemantics(ticket, contract) == ticket.binds = contract.digest

(* A plausible regression: an approved ticket and the contract's own plan  *)
(* are enough.                                                             *)
TicketGate_AnyContract(ticket, contract, raw_steps) ==
  /\ ticket # Missing /\ contract # Missing
  /\ \A i \in DOMAIN raw_steps : TypedStep(raw_steps[i])
  /\ ticket.schema_version \in {"v0.2", "v0.3"}
  /\ ticket.approval \in {"approve", "approved", "approved_for_dry_run"}
  /\ ticket.max_runs >= 1
  /\ contract.plan = raw_steps

(* validate_execution_ticket_gate *)
TicketGate(ticket, contract, raw_steps) ==
  /\ ticket # Missing /\ contract # Missing
  /\ \A i \in DOMAIN raw_steps : TypedStep(raw_steps[i])
  /\ ticket.schema_version \in {"v0.2", "v0.3"}
  /\ ticket.schema_version = "v0.3" => TicketSemantics(ticket, contract)
  /\ ticket.approval \in {"approve", "approved", "approved_for_dry_run"}
  /\ ticket.max_runs >= 1
  /\ ticket.binds = contract.digest
  /\ \A i \in DOMAIN contract.plan : TypedStep(contract.plan[i])
  /\ contract.plan = raw_steps

(* What SCLite holds of a ticket's use: the receipt was taken of that      *)
(* ticket, and the ticket of that contract.                                *)
TicketUse(ticket, contract, receipt) ==
  IsPrefix(contract.digest, ticket.digest) /\ IsPrefix(ticket.digest, receipt.digest)

(* validate_scoped_ticket_use_gate *)
TicketUseGate(ticket, contract, receipt) ==
  IF Missing \in {ticket, contract, receipt} \/ ~TicketUse(ticket, contract, receipt)
  THEN Raised ELSE [status |-> "passed", profile |-> ticket.schema_version]
=============================================================================
