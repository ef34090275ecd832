--------------------------- MODULE RunnerProtocol ---------------------------
(***************************************************************************)
(* Runner requests, their supervision, runner receipts and the binding of  *)
(* a receipt to the request, admission and ticket it answers               *)
(* (govengine/execution).  Pure.  A step result is the index of its step;  *)
(* step output, reason codes and control decisions are left out.           *)
(***************************************************************************)
EXTENDS Naturals, Sequences, FiniteSets

CONSTANTS
  Missing,  \* an empty text, an absent field
  Raised    \* the call raised

Digest(kind, content) == [kind |-> kind, content |-> content]
RequestDigest(q) == Digest("request", q)

Statuses == {"dry-run", "succeeded", "blocked", "failed", "interrupted"}
-----------------------------------------------------------------------------
(* From an approved execution spec to a request.                           *)

ValidApprovedSpec(s) ==
  /\ s.spec_version = "2026-03-18.approved.v1"
  /\ s.decision = "approve"
  /\ s.artifact_type = "approved_execution_spec"

(* approved_execution_steps asks for a tool and a list of arguments; what  *)
(* is in the list is asked below.                                          *)
ApprovedSteps(s) ==
  IF /\ ValidApprovedSpec(s)
     /\ s.execution_plan # <<>>
     /\ \A i \in DOMAIN s.execution_plan :
          /\ s.execution_plan[i].tool # Missing
          /\ s.execution_plan[i].args \in {"texts", "mixed"}
  THEN s.execution_plan ELSE Raised

NormalizeSteps(steps) ==
  IF \A i \in DOMAIN steps : steps[i].args = "texts" THEN steps ELSE Raised

RunnerRequest(spec, request_id, gate, dry_run) ==
  LET raw == ApprovedSteps(spec)
      steps == IF raw = Raised THEN Raised ELSE NormalizeSteps(raw)
  IN  IF steps = Raised THEN Raised
      ELSE [request_id |-> IF request_id = Missing THEN "approved-spec-request" ELSE request_id,
            source |-> "approved_execution_spec", steps |-> steps,
            approved_execution_spec |-> spec, execution_ticket_gate |-> gate,
            dry_run |-> dry_run]
-----------------------------------------------------------------------------
(* Supervision.                                                            *)

ValidPlan(p) ==
  /\ p.timeout_seconds > 0
  /\ p.dry_run \/ p.live_backend_enabled
  /\ p.receipt_required

SupervisionPlan(q, live_backend_enabled, timeout_seconds) ==
  LET p == [request_id |-> q.request_id, dry_run |-> q.dry_run,
            live_backend_enabled |-> live_backend_enabled,
            timeout_seconds |-> timeout_seconds, receipt_required |-> TRUE]
  IN  IF ValidPlan(p) THEN p ELSE Raised

(* A plausible regression: the plan's word for the mode is taken. *)
Supervised_PlanMode(q, p) == ValidPlan(p) /\ p.request_id = q.request_id

(* validate_supervised_runner_request *)
Supervised(q, p) ==
  /\ ValidPlan(p)
  /\ q.source = "approved_execution_spec"
  /\ p.request_id = q.request_id
  /\ q.dry_run \/ p.live_backend_enabled
-----------------------------------------------------------------------------
(* Receipts and their binding.                                             *)

NoBinding ==
  [admission_id |-> Missing, admission_digest |-> Missing, ticket_id |-> Missing,
   ticket_digest |-> Missing, request_id |-> Missing, request_digest |-> Missing,
   receipt_id |-> Missing, receipt_digest |-> Missing, status |-> Missing]

Present(b) == b # NoBinding

Receipt(q, status, results) ==
  [status |-> status, request_id |-> q.request_id, step_results |-> results, binding |-> NoBinding]

(* DryRunRunner.run *)
DryRun(q) == Receipt(q, IF q.dry_run THEN "dry-run" ELSE "blocked", DOMAIN q.steps)

(* The receipt's own digest is cleared first. *)
ReceiptDigest(r) ==
  Digest("receipt", IF Present(r.binding) THEN [r EXCEPT !.binding.receipt_digest = Missing] ELSE r)

(* runner_receipt_with_binding.  refs are the references its caller names. *)
WithBinding(r, refs, receipt_id, receipt_digest) ==
  LET bound == [r EXCEPT !.binding =
        [admission_id |-> refs.admission_id, admission_digest |-> refs.admission_digest,
         ticket_id |-> refs.ticket_id, ticket_digest |-> refs.ticket_digest,
         request_id |-> r.request_id, request_digest |-> refs.request_digest,
         receipt_id |-> receipt_id, receipt_digest |-> receipt_digest, status |-> r.status]]
  IN  IF receipt_digest # Missing THEN bound
      ELSE [bound EXCEPT !.binding.receipt_digest = ReceiptDigest(bound)]
-----------------------------------------------------------------------------
(* Verification.  For each reference a verifier may have a record, whose   *)
(* fields may name it more than once, and a value given beside it: all of  *)
(* them must agree.                                                        *)

(* _record_identifier, _digest_reference, _expected_admission_digest *)
Agreed(values) ==
  CASE values = {} -> Missing
    [] Cardinality(values) = 1 -> CHOOSE v \in values : TRUE
    [] OTHER -> Raised

Anchored == {"admission_id", "admission_digest", "ticket_id", "ticket_digest"}

(* validate_runner_receipt_for_request *)
ReceiptForRequest(q, r) ==
  /\ r.request_id = q.request_id
  /\ r.binding.request_id \in {Missing, q.request_id}
  /\ r.step_results \subseteq DOMAIN q.steps

AnchorsMatch(b, anchors) ==
  \A f \in Anchored : Agreed(anchors[f]) \in {Missing, b[f]}

(* A plausible regression: the digest of the request is taken at its word. *)
BindingValid_RequestUnseen(q, r, anchors) ==
  LET b == r.binding
  IN  /\ \A f \in DOMAIN b : b[f] # Missing
      /\ b.request_id = q.request_id /\ b.status = r.status /\ r.status \in Statuses
      /\ AnchorsMatch(b, anchors)
      /\ b.receipt_digest = ReceiptDigest(r)

(* validate_runner_receipt_binding *)
BindingValid(q, r, anchors) ==
  LET b == r.binding
  IN  /\ \A f \in DOMAIN b : b[f] # Missing
      /\ b.request_id = q.request_id
      /\ b.status = r.status
      /\ r.status \in Statuses
      /\ b.request_digest = RequestDigest(q)
      /\ b.receipt_digest = ReceiptDigest(r)
      /\ AnchorsMatch(b, anchors)

(* The verifier of scripts/verify_runner_receipt_binding.py: the receipt   *)
(* against its request, then its binding, then the assurance               *)
(* (runner_receipt_binding_verification_summary).                          *)
Assurance(q, r, anchors) ==
  IF ~ReceiptForRequest(q, r) \/ ~BindingValid(q, r, anchors) THEN Raised
  ELSE IF \A f \in Anchored : anchors[f] # {} THEN "verified"
  ELSE "self_consistent"
=============================================================================
