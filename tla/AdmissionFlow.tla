--------------------------- MODULE AdmissionFlow ---------------------------
(***************************************************************************)
(* Runtime admissions composed from the answers of guard replay.  A host   *)
(* verifies guarded bundles and claims them (ReplayClaims, which           *)
(* GuardReplay implements), keeps the answers, and composes an admission   *)
(* for a job later, from whichever answer, ticket, trust decision and      *)
(* policy decision it has at hand.  Nothing in an admission says when its  *)
(* parts were obtained.                                                    *)
(***************************************************************************)
EXTENDS ReplayClaims, RuntimeAdmission, FiniteSets

CONSTANTS
  Jobs,        \* what is to be admitted, by admission id
  Summaries,   \* what a host has for the parts other than guard and replay,
               \* and what it asks for (runtime_consumable, live)
  Sound        \* one set of parts that passes, to compare with

ASSUME SoundAssumption ==
  \A consumable, live \in BOOLEAN : Compose("sound", Sound, consumable, live).allowed

(* What is absent is no text, no truth value and no record. *)
ASSUME AbsentAssumption ==
  /\ Absent \notin {"fresh", "passed"} \cup ReplayFailures
  /\ Absent \notin BOOLEAN /\ Absent \notin Records

(* A summary of a runner profile has the field that lets it run.           *)
ASSUME SummaryAssumption ==
  \A s \in Summaries :
    s.runtime_consumable \in BOOLEAN /\ s.live \in BOOLEAN /\ "allowed" \in DOMAIN s.runner

VARIABLES
  admission,  \* the admission of each job
  asked       \* what each was composed for (history)

flow == <<vars, admission, asked>>

NoAdmission == [admission_id |-> Absent]
Composed(j) == admission[j] # NoAdmission

NoGuarded ==
  [guarded |-> Absent, strict |-> Absent, allowed |-> Absent, status |-> Absent,
   verification_status |-> Absent, replay_status |-> Absent,
   root_chain_digest |-> Absent, bundle |-> Absent]

Digestless(r) == r.root_chain_digest = NoText

(* GuardedBundleRuntimeDecision of an answer of the replay store. *)
GuardedDecision(a) ==
  [NoGuarded EXCEPT
     !.allowed = RuntimeAllowed(a.status),
     !.status = IF RuntimeAllowed(a.status) THEN "allowed" ELSE "blocked",
     !.verification_status = "passed",
     !.replay_status = a.status,
     !.root_chain_digest = IF Digestless(a.record) THEN Absent ELSE a.record.root_chain_digest,
     !.bundle = a.record]

(* The same call for a bundle whose guard does not verify. *)
UnverifiedDecision ==
  [NoGuarded EXCEPT !.allowed = FALSE, !.status = "blocked",
                    !.verification_status = "failed", !.replay_status = "not_checked"]

(* What SCLite says of a bundle that no replay store was asked about. *)
BareVerification(r, strict) ==
  [NoGuarded EXCEPT !.guarded = TRUE, !.strict = strict, !.verification_status = "passed",
                    !.root_chain_digest = IF Digestless(r) THEN Absent ELSE r.root_chain_digest,
                    !.bundle = r]

NoReplay == [replay_status |-> Absent]

(* GuardReplayDecision of an answer. *)
ReplayDecision(a) == [replay_status |-> a.status]

Answered == {returned[i] : i \in DOMAIN returned}

GuardedParts ==
  {NoGuarded, UnverifiedDecision}
  \cup {GuardedDecision(a) : a \in Answered}
  \cup {BareVerification(r, strict) : r \in Records, strict \in BOOLEAN}

ReplayParts == {NoReplay} \cup {ReplayDecision(a) : a \in Answered}

Signals(s, g, r) ==
  [prepared |-> s.prepared, policy |-> s.policy, ticket |-> s.ticket, trust |-> s.trust,
   runner |-> s.runner, receipt |-> s.receipt, guarded |-> g, replay |-> r]

NotAsked == [runtime_consumable |-> FALSE, live |-> FALSE]

AInit ==
  /\ Init
  /\ admission = [j \in Jobs |-> NoAdmission]
  /\ asked = [j \in Jobs |-> NotAsked]

(* compose_runtime_admission_result *)
ComposeAdmission(j) ==
  \E s \in Summaries, g \in GuardedParts, r \in ReplayParts :
    /\ ~Composed(j)
    /\ admission' = [admission EXCEPT ![j] =
         Compose(j, Signals(s, g, r), s.runtime_consumable, s.live)]
    /\ asked' = [asked EXCEPT ![j] =
         [runtime_consumable |-> s.runtime_consumable, live |-> s.live]]
    /\ UNCHANGED vars

ANext ==
  \/ Next /\ UNCHANGED <<admission, asked>>
  \/ \E j \in Jobs : ComposeAdmission(j)

ASpec == AInit /\ [][ANext]_flow
-----------------------------------------------------------------------------
Admitted(j) == Composed(j) /\ admission[j].allowed
Bundle(a) == a.signals.guarded.bundle

(* A runtime-consumable admission rests on one claim: the store answered   *)
(* fresh for the payload of its bundle exactly once, whichever answers the *)
(* host combined and whatever it crashed between                           *)
(* (_replay_runtime_status, record_guard_replay_file).                     *)
AdmittedOnOneFreshClaim ==
  \A j \in Jobs : Admitted(j) /\ asked[j].runtime_consumable =>
    /\ Bundle(admission[j]) # Absent
    /\ Cardinality({i \in DOMAIN returned :
         returned[i].status = "fresh" /\ Replays(returned[i].record, Bundle(admission[j]))}) = 1

(* An admission that passes the proof check is as good as one composed for *)
(* a runtime, even when the host composed it for review only: composing    *)
(* its parts as runtime-consumable and not live would allow it too         *)
(* (validate_runtime_admission_proof_inputs).                              *)
ProvenIsConsumable ==
  \A j \in Jobs : Composed(j) /\ ProofInputs(admission[j]) =>
    Compose(j, admission[j].signals, TRUE, FALSE).allowed

(* The two ways to the gate agree: what evaluate_runtime_consumable says   *)
(* of a decision of verify_guard_and_record_replay is what an admission    *)
(* composed from it says, the receipt obligation apart, also when the gate *)
(* input was filled in for another bundle before.                          *)
BothRoutesAgree ==
  \A j \in Jobs : Composed(j) =>
    LET a == admission[j]
        input == GateInput(a.signals, asked[j].runtime_consumable)
    IN  \A answer \in Answered :
          LET g == GuardedDecision(answer)
              s == [a.signals EXCEPT !.guarded = g, !.replay = NoReplay]
          IN  Compose(j, s, TRUE, asked[j].live).allowed
                <=> /\ EvaluateRuntimeConsumable(input, g, asked[j].live).blockers = {}
                    /\ ReceiptRequired(s.receipt)

(* The parts that a blocker or a reason code speaks of. *)
PartsOf(word) ==
  CASE word \in {"missing_prepared_execution_contract", "raw_intent_rejected"} -> {"prepared"}
    [] word \in {"missing_or_invalid_policy_decision", "unknown_policy_decision", "policy_denied",
                 "policy_deferred", "policy_requires_approval", "policy_dry_run_only",
                 "policy_record_only"} -> {"policy"}
    [] word \in {"missing_or_invalid_execution_ticket", "invalid_execution_ticket",
                 "execution_ticket_not_approved", "execution_ticket_mismatch",
                 "execution_ticket_stale", "execution_ticket_failed",
                 "unknown_execution_ticket_status"} -> {"ticket"}
    [] word \in {"missing_or_invalid_trust_decision", "trust_decision_denied",
                 "trust_verification_failed", "signature_digest_mismatch",
                 "trust_signer_not_allowed", "unknown_trust_decision_status"} -> {"trust"}
    [] word \in {"missing_runner_profile", "runner_profile_not_allowed",
                 "live_backend_disabled", "execution_disabled"} -> {"runner"}
    [] word = "receipt_obligation_required" -> {"receipt"}
    [] word \in {"missing_or_invalid_kernel_guard", "missing_or_replayed_guarded_root",
                 "replay_detected", "kernel_guard_required"} -> {"guarded", "replay"}
    [] OTHER -> {}

BlockedParts(a) == UNION {PartsOf(b) : b \in a.blockers}

(* The blockers are the whole reason and no more: repairing exactly the    *)
(* parts they name admits the job, and repairing any others leaves the     *)
(* same parts blocked.  A host that follows them gets somewhere, and the   *)
(* top-level reason is about a part that fails; the admission is one that  *)
(* validate_runtime_admission_result accepts (ExecutionGate.evaluate,      *)
(* _replace_or_append).                                                    *)
BlockersAreTheWholeReason ==
  \A j \in Jobs : Composed(j) =>
    LET a == admission[j]
        blocked == BlockedParts(a)
        Repaired(parts) ==
          [p \in DOMAIN a.signals |-> IF p \in parts THEN Sound[p] ELSE a.signals[p]]
        Again(parts) == Compose(j, Repaired(parts), asked[j].runtime_consumable, asked[j].live)
        others == DOMAIN a.signals \ blocked
    IN  /\ WellFormed(a)
        /\ Again(blocked).allowed
        /\ BlockedParts(Again(others)) = blocked
        /\ ~a.allowed => PartsOf(a.reason_code) \cap blocked # {}
-----------------------------------------------------------------------------
(* The inductive invariant behind these.                                   *)

(* What the store answers. *)
Statuses == {"fresh", "seen", "replayed", "blocked"}

(* The store and its answers have their types. *)
StoreTyped ==
  /\ claimed \in Seq(Records)
  /\ returned \in Seq([record : Records, status : Statuses, require_fresh : BOOLEAN])

(* No claim replays another. *)
ClaimsAreApart ==
  \A k, l \in DOMAIN claimed : Replays(claimed[k], claimed[l]) => k = l

(* What was said to be fresh was claimed, and is said so once. *)
FreshIsClaimed ==
  \A i \in DOMAIN returned : returned[i].status = "fresh" => IsClaimed(returned[i].record)

FreshIsSaidOnce ==
  \A i, k \in DOMAIN returned :
    /\ returned[i].status = "fresh" /\ returned[k].status = "fresh"
    /\ returned[i].record = returned[k].record
    => i = k

(* Whenever it was composed, an admission is of parts that are there.      *)
IsComposed(j) ==
  \E s \in Summaries, g \in GuardedParts, r \in ReplayParts :
    /\ admission[j] = Compose(j, Signals(s, g, r), s.runtime_consumable, s.live)
    /\ asked[j] = [runtime_consumable |-> s.runtime_consumable, live |-> s.live]

(* Together with where admissions come from, these are inductive. *)
FlowInv ==
  /\ StoreTyped /\ ClaimsAreApart /\ FreshIsClaimed /\ FreshIsSaidOnce
  /\ DOMAIN admission = Jobs /\ DOMAIN asked = Jobs
  /\ \A j \in Jobs : Composed(j) => IsComposed(j)
=============================================================================
