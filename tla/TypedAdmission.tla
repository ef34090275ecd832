--------------------------- MODULE TypedAdmission ---------------------------
(***************************************************************************)
(* govengine/typed_execution_governed_admission.py: a typed mutation is    *)
(* refused on its own (TypedExecution); this adapter lets it pass when the *)
(* governance transaction of the very same step allows it.  Version v0.1   *)
(* discounts the approval blocker only, v0.2 also admits a plugin backend  *)
(* under exact policy controls.                                            *)
(*                                                                         *)
(* An evaluation here is an evaluation of GovernanceDecision with checks   *)
(* before and a projection after it.  Later a runtime validates admissions *)
(* against the records it holds, which may be those of another call.       *)
(***************************************************************************)
EXTENDS GovernanceDecision, TypedExecution

CONSTANTS
  Typeds,   \* names of the typed requests
  Typed,    \* the content of each
  Delays    \* how long after the evaluation time callers admit

ASSUME DelayAssumption == Delays \subseteq Nat

VARIABLES
  admission,  \* the admission of each call
  accepted    \* the last validation that accepted it (history)

tvars == <<vars, admission, accepted>>

Versions == {"v0.1", "v0.2"}
GovernedModes == {"apply", "recovery"}

NoAdmission == [stage |-> "none"]
Refused == [stage |-> "raised"]
NeverAccepted == [at |-> Never]

TInit ==
  /\ Init
  /\ admission = [c \in Calls |-> NoAdmission]
  /\ accepted = [c \in Calls |-> NeverAccepted]
-----------------------------------------------------------------------------
(* What the two records must agree on before anything is evaluated. *)

MutationPosture(t) ==
  /\ t.operation_mode = "apply" /\ ~t.read_only /\ IsMutation(t)
  /\ t.descriptor.mode = "apply"

Discountable(version) ==
  ApprovalBlockers \cup (IF version = "v0.2" THEN {"unsupported_backend_class"} ELSE {})

Discounted(version, t) == TypedBlockers(t) \cap Discountable(version)

(* A plausible regression: having the approval blocker is enough, whatever *)
(* else the step is refused for.                                           *)
Precheck_IgnoreResidual(version, t) == Discounted(version, t) # {}

(* _validate_typed_mutation_precheck, and the blockers that                *)
(* _validated_typed_plugin_mutation_precheck asks for.                     *)
Precheck(version, t) ==
  /\ TypedBlockers(t) \cap ApprovalBlockers # {}
  /\ version = "v0.2" => "unsupported_backend_class" \in TypedBlockers(t)
  /\ TypedBlockers(t) \subseteq Discountable(version)

(* _validated_typed_plugin_mutation_precheck: an uncertified backend must  *)
(* be exactly what the governance request requires and the runtime has.    *)
PluginPosture(t, q) ==
  LET d == t.descriptor
  IN  /\ d.backend_class \notin SupportedBackendClasses \cup RawShellBackendClasses
      /\ d.certification_tier = "plugin"
      /\ d.identity_class \in {"none", "plugin_declared"}
      /\ d.secrets = {} /\ d.declared # {}
      /\ d.egress_class \in LocalEgress
      /\ d.boundary_egress = d.egress_class
      /\ t.allowed_network_egress = {d.egress_class}
      /\ q.requirements.required_backend_class = d.backend_class
      /\ t.required_capabilities = q.requirements.required_capabilities
      /\ d.declared = t.required_capabilities
      /\ d.backend_class \in q.inventory.backend_classes
      /\ t.required_capabilities \subseteq q.inventory.capabilities

(* A plausible regression: the facts need not name the typed request. *)
RequestBinding_NoDigest(t, q, mode) ==
  /\ t.operation = q.operation
  /\ t.execution_spec = q.execution_spec
  /\ t.payload = q.payload
  /\ t.side_effect_class = q.side_effect_class
  /\ q.execution_facts.metadata.actual_operation_mode = mode

(* _validate_typed_governance_request_binding.  The facts are digest-bound *)
(* into the approval, and name the whole typed request.                    *)
RequestBinding(t, q, mode) ==
  /\ t.operation = q.operation
  /\ t.execution_spec = q.execution_spec
  /\ t.payload = q.payload
  /\ t.side_effect_class = q.side_effect_class
  /\ q.execution_facts.metadata.typed_request = TypedDigest(t)
  /\ q.execution_facts.metadata.actual_operation_mode = mode

(* Everything evaluate_typed_execution_governed_admission checks before    *)
(* it calls evaluate_governance, and its validation checks again.          *)
Admissible(x) ==
  LET t == Typed[x.typed]
      q == Request[x.request]
  IN  /\ ValidTyped(t) /\ x.request \in ValidRequests
      /\ x.mode \in GovernedModes
      /\ MutationPosture(t)
      /\ Precheck(x.version, t)
      /\ x.version = "v0.2" => PluginPosture(t, q)
      /\ RequestBinding(t, q, x.mode)

Inputs ==
  {[version |-> v, typed |-> t, mode |-> m, request |-> r] :
     v \in Versions, t \in Typeds, m \in GovernedModes \cup {"dry_run"}, r \in Requests}
AdmissibleInputs == {x \in Inputs : Admissible(x)}
UnfitRequests == {x.request : x \in Inputs \ AdmissibleInputs}
-----------------------------------------------------------------------------
(* The admission record. *)

Item(s) == Text(<<s>>)

PluginControlled(t, controls) ==
  /\ controls.allowed_backend_classes = {Item(t.descriptor.backend_class)}
  /\ controls.allowed_network_egress = {Item(t.descriptor.egress_class)}

Expired(d, at) == d.status = "allowed" /\ at >= d.grant.expires_at

(* A plausible regression: an admission is not held to the grant's expiry. *)
DecisionBlockers_NoExpiry(version, t, d, at) ==
  Failing([governance_decision_not_allowed |-> d.status # "allowed",
           plugin_policy_control_mismatch |->
             version = "v0.2" /\ ~PluginControlled(t, d.controls)])

(* _governed_v02_decision_blockers, and what v0.1 checks of the decision.  *)
(* The blockers of the decision itself are part of the decision.           *)
DecisionBlockers(version, t, d, at) ==
  Failing([governance_decision_not_allowed |-> d.status # "allowed",
           plugin_policy_control_mismatch |->
             version = "v0.2" /\ ~PluginControlled(t, d.controls),
           governance_decision_expired |-> Expired(d, at)])

(* A plausible regression: any decision of the same request will do. *)
Binds_AnyDecision(t, r, d) == [typed |-> t, request |-> r, decision |-> "any"]

(* The digests an admission carries of its owners' records, by name; the   *)
(* other fields it copies are parts of these records.                      *)
Binds(t, r, d) == [typed |-> t, request |-> r, decision |-> d]

AdmissionOf(x, d, at) ==
  LET t == Typed[x.typed]
      blockers == DecisionBlockers(x.version, t, d, at)
  IN  [version |-> x.version, status |-> IF blockers = {} THEN "passed" ELSE "blocked",
       actual_mode |-> x.mode, binds |-> Binds(x.typed, x.request, d),
       discounted |-> Discounted(x.version, t), blockers |-> blockers,
       approved |-> Request[x.request].approval # NoApproval,
       admitted_at |-> at, expires_at |-> d.grant.expires_at]

(* _validate_admission_shape and _validate_admission_v02_shape. *)
ValidAdmissionShape(a) ==
  /\ a.actual_mode \in GovernedModes
  /\ a.discounted \cap ApprovalBlockers # {}
  /\ a.version = "v0.2" => "unsupported_backend_class" \in a.discounted
  /\ a.discounted \subseteq Discountable(a.version)
  /\ (a.status = "passed") = (a.blockers = {})
  /\ a.status = "passed" => a.approved /\ a.admitted_at < a.expires_at

(* _validate_decision_request_binding: the digest of the request, and the  *)
(* fields of the grant that are taken from it.                             *)
DecisionOfRequest(d, request) == d.request = request

(* validate_typed_execution_governed_admission (and _v02): the admission   *)
(* against the inputs x and the decision d that somebody has at hand.      *)
Validates(a, x, d, at) ==
  /\ DecisionOfRequest(d, x.request)
  /\ x.version = a.version /\ x.mode = a.actual_mode
  /\ x \in AdmissibleInputs
  /\ ValidAdmissionShape(a)
  /\ a.binds = Binds(x.typed, x.request, d)
  /\ a.discounted = Discounted(a.version, Typed[x.typed])
  /\ d.status = "allowed" => a.admitted_at >= d.grant.issued_at
  /\ a.admitted_at <= at
  /\ a.blockers = DecisionBlockers(a.version, Typed[x.typed], d, at)
  /\ a.expires_at = d.grant.expires_at
-----------------------------------------------------------------------------
(* evaluate_typed_execution_governed_admission: the checks, the governance *)
(* evaluation, and the projection, which validates itself.                 *)

BeginAdmission(c, x, nonce, lifetime, delay) ==
  /\ Begin(c, x.request, nonce, lifetime)
  /\ admission' = [admission EXCEPT ![c] =
       [stage |-> "evaluating", input |-> x, admitted_at |-> now + delay]]
  /\ UNCHANGED accepted

(* Inputs that do not belong together: the call raises. *)
RefuseInput(c, r) ==
  /\ call[c].stage = "idle"
  /\ call' = [call EXCEPT ![c].stage = "raised", ![c].request = r]
  /\ admission' = [admission EXCEPT ![c] = Refused]
  /\ UNCHANGED <<hostVars, accepted>>

Projected(adm, d) ==
  LET a == AdmissionOf(adm.input, d, adm.admitted_at)
  IN  IF Validates(a, adm.input, d, adm.admitted_at)
      THEN [stage |-> "returned", input |-> adm.input, record |-> a]
      ELSE Refused

EvaluateAdmission(c) ==
  /\ Evaluation(c)
  /\ admission' = CASE call'[c].stage = "raised" -> [admission EXCEPT ![c] = Refused]
                    [] call'[c].stage = "decided" ->
                         [admission EXCEPT ![c] = Projected(@, call'[c].decision)]
                    [] OTHER -> admission
  /\ UNCHANGED accepted

(* A runtime validates the admission of call c against the decision of     *)
(* call d and the requests it has at hand.  A refusal changes nothing, and *)
(* inputs that do not belong together are always refused.                  *)
Validate(c, d, x) ==
  /\ Validates(admission[c].record, x, call[d].decision, now)
  /\ accepted' = [accepted EXCEPT ![c] =
       [typed |-> x.typed, request |-> x.request, decision |-> call[d].decision, at |-> now]]
  /\ UNCHANGED <<vars, admission>>

TNext ==
  \/ Host /\ UNCHANGED <<admission, accepted>>
  \/ \E c \in Calls :
       \/ \E x \in AdmissibleInputs, n \in Nonces \cup {NoNonce}, l \in Lifetimes, w \in Delays :
            BeginAdmission(c, x, n, l, w)
       \/ \E r \in UnfitRequests : RefuseInput(c, r)
       \/ EvaluateAdmission(c)
       \/ /\ admission[c].stage = "returned"
          /\ \E d \in Calls, x \in AdmissibleInputs :
               call[d].stage = "decided" /\ Validate(c, d, x)

TSpec == TInit /\ [][TNext]_tvars
-----------------------------------------------------------------------------
Passed(c) == admission[c].stage = "returned" /\ admission[c].record.status = "passed"
Step(c) == Typed[admission[c].input.typed]

(* An admission is accepted only together with the typed request, the      *)
(* governance request and the decision it was made of, even when another   *)
(* call decided the same request (the table of comparisons in              *)
(* validate_typed_execution_governed_admission).                           *)
AcceptedAdmissionIsExact ==
  \A c \in Calls : accepted[c] # NeverAccepted =>
    /\ accepted[c].typed = admission[c].input.typed
    /\ accepted[c].request = call[c].request
    /\ accepted[c].decision = call[c].decision

(* Whoever approved a mutation that passes approved this typed request in  *)
(* this mode: the digest chain goes from the attestation over the subject  *)
(* and the facts to the typed request                                      *)
(* (_validate_typed_governance_request_binding, approval_subject_digest).  *)
ApprovedAsTyped ==
  \A c \in Calls : Passed(c) =>
    LET metadata == RequestOf(c).approval.subject.execution_facts.content.metadata
    IN  /\ metadata.typed_request.content = Step(c)
        /\ metadata.actual_operation_mode = admission[c].input.mode

ExactlyNamed(c) ==
  LET t == Step(c)
      verdict == GatesOf[call[c].request].initial
      inventory == RequestOf(c).inventory
  IN  /\ admission[c].input.version = "v0.2"
      /\ Allowlist(verdict, "allowed_backend_classes") = {Item(t.descriptor.backend_class)}
      /\ Allowlist(verdict, "allowed_network_egress") = {Item(Egress(t))}
      /\ t.backend_class \in inventory.backend_classes
      /\ t.required_capabilities \subseteq inventory.capabilities

(* The adapter lifts the approval requirement and nothing else: what       *)
(* passes has its secrets and capabilities, promises a receipt, leaves the *)
(* host only where an independent policy lets it, and runs on a known      *)
(* backend, or on a plugin that the runtime has and the rule that decided  *)
(* names, with its egress and no other (_validate_typed_mutation_precheck, *)
(* _governed_v02_decision_blockers, project_runtime_controls).             *)
OnlyApprovalIsLifted ==
  \A c \in Calls : Passed(c) =>
    LET t == Step(c)
    IN  /\ t.receipt_required
        /\ \A s \in t.descriptor.secrets : s.required => s.present
        /\ MissingCapabilities(t) = {}
        /\ Egress(t) \in NetworkEgress =>
             t.network_policy # NoNetworkPolicy /\ Egress(t) \in t.network_policy.egress
        /\ t.backend_class \notin RawShellBackendClasses
        /\ t.backend_class \in SupportedBackendClasses \/ ExactlyNamed(c)

(* An admission that passed is valid from the time it names until its      *)
(* grant expires, and not a moment longer.                                 *)
ValidUntilGrantExpires ==
  \A c \in Calls : Passed(c) =>
    LET a == admission[c].record
        grant == call[c].decision.grant
    IN  Validates(a, admission[c].input, call[c].decision, now)
          <=> a.admitted_at <= now /\ now < grant.expires_at
-----------------------------------------------------------------------------
(* The inductive invariant behind these.                                   *)

(* Where the admission of a call is, its evaluation is. *)
InStep(c) ==
  /\ admission[c].stage = "none" => call[c].stage = "idle"
  /\ admission[c].stage = "evaluating" =>
       call[c].stage \in {"validated", "activated", "approved"}
  /\ call[c].stage \in {"validated", "activated", "approved"} =>
       admission[c].stage = "evaluating"
  /\ admission[c].stage = "returned" => call[c].stage = "decided"

(* It is about the inputs it began with, of which the call has the request. *)
OfItsInput(c) ==
  admission[c].stage \in {"evaluating", "returned"} =>
    /\ admission[c].input \in AdmissibleInputs
    /\ admission[c].input.request = call[c].request

(* What was returned is the projection of the decision, and validated then. *)
IsProjection(c) ==
  admission[c].stage = "returned" =>
    LET a == admission[c].record
        x == admission[c].input
    IN  /\ a = AdmissionOf(x, call[c].decision, a.admitted_at)
        /\ Validates(a, x, call[c].decision, a.admitted_at)

AcceptedAsReturned(c) ==
  accepted[c] # NeverAccepted =>
    /\ admission[c].stage = "returned"
    /\ Binds(accepted[c].typed, accepted[c].request, accepted[c].decision)
         = admission[c].record.binds

TypedInv ==
  /\ EvidenceInv
  /\ DOMAIN admission = Calls /\ DOMAIN accepted = Calls
  /\ \A c \in Calls : InStep(c) /\ OfItsInput(c) /\ IsProjection(c) /\ AcceptedAsReturned(c)
=============================================================================
