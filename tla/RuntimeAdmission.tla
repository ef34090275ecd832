-------------------------- MODULE RuntimeAdmission --------------------------
(***************************************************************************)
(* compose_runtime_admission_result (govengine/admission.py) and the gate  *)
(* it asks (govengine/execution/gate.py, govengine/core.py): summaries of  *)
(* earlier decisions become one admission.  All of it is computation.      *)
(*                                                                         *)
(* A summary is a record with every field the code looks at; a field the   *)
(* payload does not have is Absent.  Which words and identifiers travel    *)
(* along and the list of next actions are left out, and so is the order of *)
(* the blockers.                                                           *)
(***************************************************************************)
CONSTANT Absent  \* a field that a payload does not have

IsEmpty(p) == \A f \in DOMAIN p : p[f] = Absent
Says(p, f) == p[f] = TRUE
Denies(p, f) == p[f] = FALSE
FirstOf(w, v) == IF w # Absent THEN w ELSE v

PolicyPassed == {"allow", "allowed", "passed", "ok"}
TicketPassed == {"approve", "approved", "approved_for_dry_run", "passed", "ok"}
TrustPassed == {"trusted", "passed", "ok"}
GuardPassed == {"passed", "ok", "allowed"}
ReplayFailures == {"replayed", "stale", "expired", "blocked", "failed"}

TrustDenied == {"denied", "deny", "untrusted", "not_trusted", "trust_status_not_allowed"}
VerificationFailed ==
  {"failed", "failure", "error", "signature_value_mismatch", "unsupported_signature_mode",
   "wrong_key"}
DigestMismatch == {"signature_digest_mismatch", "digest_mismatch"}
SignerRefused == {"signer_not_allowed", "unknown_signer", "wrong_signer"}
TrustFailures == TrustDenied \cup VerificationFailed \cup DigestMismatch \cup SignerRefused
-----------------------------------------------------------------------------
(* The status of each part. *)

Prepared(p) ==
  ~Denies(p, "allowed") /\ p.status \in {"prepared", "passed", "ok", "allowed"}

(* GovPolicyDecision: it has no "allowed" of its own. *)
GovPolicyDecision(decision) == [allowed |-> Absent, decision |-> decision]

(* policy_verdict_to_gov_policy_decision: the verdict of the policy engine *)
(* in the words of an admission.  Its obligations, constraints and         *)
(* blockers travel along, and an admission does not look at them.          *)
PolicyVerdictDecision(decision) ==
  GovPolicyDecision(CASE decision = "allow_with_obligations" -> "allow"
                      [] decision = "approval_required" -> "require_approval"
                      [] decision \in {"allow", "deny"} -> decision)

PolicyStatus(p) ==
  IF IsEmpty(p) THEN "missing"
  ELSE IF p.allowed # Absent THEN (IF Says(p, "allowed") THEN "allowed" ELSE "denied")
  ELSE FirstOf(p.decision, "unknown")

TicketStatus(t) ==
  IF IsEmpty(t) THEN "missing"
  ELSE IF Denies(t, "allowed") THEN "denied"
  ELSE FirstOf(t.status, FirstOf(t.approval, "unknown"))

TrustStatus(t) ==
  IF IsEmpty(t) THEN "missing"
  ELSE IF t.reason_code \in TrustFailures THEN t.reason_code
  ELSE IF t.trusted # Absent THEN (IF Says(t, "trusted") THEN "trusted" ELSE "denied")
  ELSE FirstOf(t.status, "unknown")

GuardedStatus(g) ==
  IF IsEmpty(g) THEN "missing"
  ELSE IF Denies(g, "guarded") THEN "not_guarded"
  ELSE IF Denies(g, "strict") THEN "not_strict"
  ELSE IF g.status \in {"blocked", "failed", "denied"} \/ Denies(g, "allowed") THEN "failed"
  ELSE FirstOf(g.verification_status, FirstOf(g.status, "missing"))

(* A plausible regression: a replay answer counts without the guard's own. *)
ReplayStatus_AnswerAlone(r, g, runtime_consumable) ==
  FirstOf(r.replay_status, FirstOf(g.replay_status, "missing"))

(* _replay_runtime_status: what the guard reported and what a separate     *)
(* replay answer says must agree.                                          *)
ReplayStatus(r, g, runtime_consumable) ==
  LET own == g.replay_status
      answer == r.replay_status
  IN  IF ~runtime_consumable THEN FirstOf(answer, FirstOf(own, "missing"))
      ELSE IF own \in ReplayFailures THEN own
      ELSE IF answer \in ReplayFailures THEN answer
      ELSE IF answer # Absent /\ own = Absent THEN "missing"
      ELSE IF answer # Absent /\ own # answer THEN "replayed"
      ELSE FirstOf(own, "missing")

ReceiptRequired(o) ==
  Says(o, "required") \/ o.status \in {"required", "passed", "ok"}

Binds(o) == IF o.binds = Absent THEN {} ELSE o.binds

RunnerAllowed(r) == Says(r, "allowed")
LiveEnabled(r) == Says(r, "live_backend_enabled")
-----------------------------------------------------------------------------
(* ExecutionGate.evaluate over ExecutionPrerequisites.missing_reasons.  An *)
(* input is [prepared, policy, ticket, trust : status of each, runner,     *)
(* runtime_consumable, guarded, replay].                                   *)

MissingReasons(i, live) ==
  (IF i.prepared THEN {} ELSE {"missing_prepared_execution_contract"})
  \cup (IF i.policy \in PolicyPassed THEN {} ELSE {"missing_or_invalid_policy_decision"})
  \cup (IF i.ticket \in TicketPassed THEN {} ELSE {"missing_or_invalid_execution_ticket"})
  \cup (IF i.trust \in TrustPassed THEN {} ELSE {"missing_or_invalid_trust_decision"})
  \cup (IF RunnerAllowed(i.runner) THEN {} ELSE {"runner_profile_not_allowed"})
  \cup (IF live /\ ~LiveEnabled(i.runner) THEN {"live_backend_disabled"} ELSE {})

GuardBlockers(i) ==
  IF ~i.runtime_consumable THEN {}
  ELSE (IF i.guarded \in GuardPassed THEN {} ELSE {"missing_or_invalid_kernel_guard"})
       \cup (IF i.replay = "fresh" THEN {} ELSE {"missing_or_replayed_guarded_root"})

GateReason(i, live) ==
  CASE GuardBlockers(i) # {} /\ i.replay \in {"replayed", "stale", "expired"} -> "replay_detected"
    [] GuardBlockers(i) # {} /\ i.replay \notin {"replayed", "stale", "expired"} -> "kernel_guard_required"
    [] GuardBlockers(i) = {} /\ "live_backend_disabled" \in MissingReasons(i, live) -> "execution_disabled"
    [] OTHER -> IF MissingReasons(i, live) = {} THEN "ok" ELSE "raw_intent_rejected"

(* A plausible regression: a guard that fails hides what else fails. *)
Gate_GuardFirst(i, live) ==
  [blockers |-> IF GuardBlockers(i) # {} THEN GuardBlockers(i) ELSE MissingReasons(i, live),
   reason_code |-> GateReason(i, live)]

Gate(i, live) ==
  [blockers |-> MissingReasons(i, live) \cup GuardBlockers(i),
   reason_code |-> GateReason(i, live)]

(* A plausible regression: the replay status the caller put there before   *)
(* stays.                                                                  *)
EvaluateRuntimeConsumable_KeepReplay(i, g, live) ==
  Gate([i EXCEPT !.runtime_consumable = TRUE,
                 !.guarded = FirstOf(g.verification_status, FirstOf(g.status, "missing"))], live)

(* evaluate_runtime_consumable: the gate asked with a guarded decision and *)
(* not through an admission.                                               *)
EvaluateRuntimeConsumable(i, g, live) ==
  Gate([i EXCEPT !.runtime_consumable = TRUE,
                 !.guarded = FirstOf(g.verification_status, FirstOf(g.status, "missing")),
                 !.replay = FirstOf(g.replay_status, "missing")], live)

GateInput(s, runtime_consumable) ==
  [prepared |-> Prepared(s.prepared),
   policy |-> PolicyStatus(s.policy),
   ticket |-> TicketStatus(s.ticket),
   trust |-> TrustStatus(s.trust),
   runner |-> s.runner,
   runtime_consumable |-> runtime_consumable,
   guarded |-> GuardedStatus(s.guarded),
   replay |-> ReplayStatus(s.replay, s.guarded, runtime_consumable)]
-----------------------------------------------------------------------------
(* The admission.  The gate's word for a failing part is replaced by a     *)
(* more exact one.                                                         *)

PolicyBlocker(status) ==
  CASE status \in PolicyPassed -> ""
    [] status = "missing" -> "missing_or_invalid_policy_decision"
    [] status \in {"deny", "denied"} -> "policy_denied"
    [] status \in {"defer", "deferred"} -> "policy_deferred"
    [] status = "require_approval" -> "policy_requires_approval"
    [] status = "dry_run_only" -> "policy_dry_run_only"
    [] status = "record_only" -> "policy_record_only"
    [] OTHER -> "unknown_policy_decision"

TicketBlocker(status) ==
  CASE status \in TicketPassed -> ""
    [] status = "missing" -> "missing_or_invalid_execution_ticket"
    [] status \in {"invalid", "malformed"} -> "invalid_execution_ticket"
    [] status \in {"denied", "deny", "rejected", "unapproved", "pending"} ->
         "execution_ticket_not_approved"
    [] status \in {"mismatch", "mismatched", "scope_mismatch", "digest_mismatch"} ->
         "execution_ticket_mismatch"
    [] status \in {"stale", "expired"} -> "execution_ticket_stale"
    [] status \in {"failed", "failure", "error"} -> "execution_ticket_failed"
    [] OTHER -> "unknown_execution_ticket_status"

TrustBlocker(status) ==
  CASE status \in TrustPassed -> ""
    [] status = "missing" -> "missing_or_invalid_trust_decision"
    [] status \in TrustDenied -> "trust_decision_denied"
    [] status \in VerificationFailed -> "trust_verification_failed"
    [] status \in DigestMismatch -> "signature_digest_mismatch"
    [] status \in SignerRefused -> "trust_signer_not_allowed"
    [] OTHER -> "unknown_trust_decision_status"

RunnerBlocker(runner, live) ==
  IF IsEmpty(runner) THEN "missing_runner_profile"
  ELSE IF ~RunnerAllowed(runner) THEN "runner_profile_not_allowed"
  ELSE IF live /\ ~LiveEnabled(runner) THEN "live_backend_disabled" ELSE ""

ReplaceOrAppend(blockers, old, new) ==
  IF new = "" THEN blockers ELSE (blockers \ {old}) \cup {new}

PolicyOutcome(status) ==
  CASE status \in {"dry_run_only", "record_only"} -> status
    [] status \in {"defer", "deferred", "require_approval"} -> "needs_review"
    [] OTHER -> "blocked"

FirstBlocker(policy, ticket, trust, runner, receipt, gate) ==
  CASE policy # "" -> policy
    [] policy = "" /\ ticket # "" -> ticket
    [] policy = "" /\ ticket = "" /\ trust # "" -> trust
    [] policy = "" /\ ticket = "" /\ trust = "" /\ runner # "" -> runner
    [] OTHER -> IF receipt # "" THEN receipt ELSE gate

Compose(id, s, runtime_consumable, live) ==
  LET input == GateInput(s, runtime_consumable)
      gate == Gate(input, live)
      policy == PolicyBlocker(input.policy)
      ticket == TicketBlocker(input.ticket)
      trust == TrustBlocker(input.trust)
      runner == RunnerBlocker(s.runner, live)
      receipt == IF ReceiptRequired(s.receipt) THEN "" ELSE "receipt_obligation_required"
      named ==
        ReplaceOrAppend(
          ReplaceOrAppend(
            ReplaceOrAppend(
              ReplaceOrAppend(gate.blockers, "missing_or_invalid_policy_decision", policy),
              "missing_or_invalid_execution_ticket", ticket),
            "missing_or_invalid_trust_decision", trust),
          "runner_profile_not_allowed", runner)
      blockers == named \cup ({receipt} \ {""})
      allowed == gate.blockers = {} /\ blockers = {}
  IN  [admission_id |-> id,
       allowed |-> allowed,
       status |-> IF allowed THEN "allowed" ELSE PolicyOutcome(input.policy),
       reason_code |-> IF allowed THEN "all_required_gates_passed"
                       ELSE FirstBlocker(policy, ticket, trust, runner, receipt, gate.reason_code),
       blockers |-> blockers,
       signals |-> s]

(* validate_runtime_admission_result: what a well-formed admission is. *)
WellFormed(a) ==
  /\ a.allowed <=> a.status = "allowed"
  /\ a.allowed <=> a.blockers = {}

(* A plausible regression: a separate replay answer is enough as proof. *)
ProofInputs_AnyReplay(a) ==
  /\ a.allowed
  /\ GuardedStatus(a.signals.guarded) = "passed"
  /\ ReplayStatus(a.signals.replay, a.signals.guarded, FALSE) = "fresh"
  /\ ReceiptRequired(a.signals.receipt)
  /\ RunnerAllowed(a.signals.runner) /\ ~LiveEnabled(a.signals.runner)
  /\ {"admission", "ticket"} \subseteq Binds(a.signals.receipt)

(* validate_runtime_admission_proof_inputs *)
ProofInputs(a) ==
  /\ WellFormed(a) /\ a.allowed
  /\ GuardedStatus(a.signals.guarded) = "passed"
  /\ ReplayStatus(a.signals.replay, a.signals.guarded, TRUE) = "fresh"
  /\ TrustStatus(a.signals.trust) \in TrustPassed
  /\ TicketStatus(a.signals.ticket) \in TicketPassed
  /\ ReceiptRequired(a.signals.receipt)
  /\ RunnerAllowed(a.signals.runner) /\ ~LiveEnabled(a.signals.runner)
  /\ a.signals.guarded.root_chain_digest # Absent
  /\ a.signals.ticket.ticket_id # Absent /\ a.signals.ticket.ticket_digest # Absent
  /\ {"admission", "ticket"} \subseteq Binds(a.signals.receipt)
=============================================================================
