------------------------- MODULE GovernanceDecision -------------------------
(***************************************************************************)
(* evaluate_governance (govengine/governance_decision.py): one transaction *)
(* from a validated request to a decision, against a host whose policy     *)
(* activation and approval revocations change while evaluations run.       *)
(*                                                                         *)
(* The function is split where it reads host state through a port: the     *)
(* activation binding is read once, the revocation list is read once, and  *)
(* everything else is computed from what the call already holds.  The      *)
(* evaluation time is fixed when the call begins.                          *)
(***************************************************************************)
EXTENDS GovernanceRequest

CONSTANTS
  Calls,           \* evaluations, each runs once
  Requests,        \* names of the requests that are submitted
  Request,         \* the content of each
  Bindings,        \* what the activation port may return, by name
  Binding,         \* the content of each
  FirstBinding,    \* the binding in force at the start
  TrustPolicy,     \* the host's ApprovalTrustPolicy
  SignedApprovals, \* the attestations whose signature verifies
  Nonces,          \* authorization nonces
  NoNonce,         \* the empty nonce
  NoRequest, NoBinding,
  Lifetimes,       \* the authorization lifetimes callers ask for
  MaxLifetime,     \* MAX_AUTHORIZATION_LIFETIME_SECONDS
  Revocable,       \* bound: the approvals the host may revoke
  MaxTime          \* bound: the clock stops here

ASSUME TimeAssumption ==
  MaxTime \in Nat /\ MaxLifetime \in Nat \ {0} /\ Lifetimes \subseteq Nat
ASSUME BindingAssumption ==
  /\ FirstBinding \in Bindings
  /\ NoBinding \notin Bindings
  /\ \A b \in Bindings : Binding[b].policy_epoch \in Nat
ASSUME RequestAssumption ==
  NoRequest \notin Requests /\ NoNonce \notin Nonces
(* The rules of a compiled pack are a tuple, and its "int" values integers. *)
ASSUME RulesAssumption ==
  \A r \in Requests :
    LET rules == Request[r].policy_pack.rules
    IN  /\ Len(rules) \in Nat /\ DOMAIN rules = 1 .. Len(rules)
        /\ \A i \in DOMAIN rules : \A j \in DOMAIN rules[i].constraints :
             LET value == rules[i].constraints[j].value
             IN  value.type = "int" => value.num \in Int

Times == 0 .. MaxTime
Never == MaxTime + 1

ApprovalIds ==
  {Request[r].approval.approval_id : r \in {s \in Requests : Request[s].approval # NoApproval}}

VARIABLES
  now,        \* the host clock
  binding,    \* what current_binding returns
  retiredAt,  \* when each binding was replaced (history)
  revokedAt,  \* when each approval was revoked; the port answers revokedAt <= now
  call        \* the evaluations

hostVars == <<now, binding, retiredAt, revokedAt>>
vars == <<now, binding, retiredAt, revokedAt, call>>

Stages == {"idle", "validated", "activated", "approved", "decided", "raised"}

NoDecision == [status |-> "none"]

NewCall ==
  [stage |-> "idle", request |-> NoRequest, evaluated_at |-> 0, nonce |-> NoNonce,
   expires_at |-> 0, activation |-> NoBinding, decision |-> NoDecision]

Init ==
  /\ now = 0
  /\ binding = FirstBinding
  /\ retiredAt = [b \in Bindings |-> Never]
  /\ revokedAt = [a \in ApprovalIds |-> Never]
  /\ call = [c \in Calls |-> NewCall]
-----------------------------------------------------------------------------
(* The host: time passes, policies are superseded, revoked or expire, and  *)
(* approvals are revoked.  Activation moves forward only.                  *)

Tick ==
  /\ now < MaxTime
  /\ now' = now + 1
  /\ UNCHANGED <<binding, retiredAt, revokedAt, call>>

Supersedes(new, old) ==
  \/ new.policy_epoch > old.policy_epoch
  \/ /\ new.policy_epoch = old.policy_epoch
     /\ old.status = "active" /\ new.status # "active"

ChangeBinding(b) ==
  /\ Supersedes(Binding[b], Binding[binding])
  /\ binding' = b
  /\ retiredAt' = [retiredAt EXCEPT ![binding] = now]
  /\ UNCHANGED <<now, revokedAt, call>>

RevokeApproval(a) ==
  /\ revokedAt[a] = Never
  /\ revokedAt' = [revokedAt EXCEPT ![a] = now]
  /\ UNCHANGED <<now, binding, retiredAt, call>>
-----------------------------------------------------------------------------
(* The pure parts of the evaluation. *)

(* _resolve_approval_requirement. *)
ResolveApproval(verdict, approved) ==
  IF verdict.decision = "approval_required" /\ approved
  THEN [verdict EXCEPT !.decision = "allow_with_obligations",
                       !.reason = "approval_requirement_satisfied", !.blockers = {}]
  ELSE verdict

ApprovalRequired(q, verdict) ==
  q.side_effect_class = "mutation" \/ verdict.decision = "approval_required"

(* The gates of a request whose approval, if any, was validated.  They are *)
(* a function of the request alone: no clock and no port is read.          *)
Gates(q) ==
  LET initial == EvaluatePolicy(q.execution_facts.facts, q.policy_pack.rules)
      approved == q.approval # NoApproval
  IN  [initial |-> initial,
       plan |-> AdmitPolicyExecution(ResolveApproval(initial, approved)),
       scope |-> EvaluateScopePolicy(q.requested_scope, q.scope_policy),
       capability |-> EvaluateCapability(q.requirements, q.inventory),
       needs_approval |-> ApprovalRequired(q, initial) /\ ~approved]

(* _decision_outcome. *)
DecisionOutcome(g) ==
  LET scoped == g.scope = "scope_allowed"
      capable == g.capability = "capabilities_compatible"
  IN  IF \/ g.initial.decision = "deny"
         \/ ~g.plan.allowed /\ g.initial.decision # "approval_required"
      THEN [status |-> "denied", reason |-> g.plan.reason]
      ELSE IF ~scoped THEN [status |-> "denied", reason |-> g.scope]
      ELSE IF ~capable THEN [status |-> "denied", reason |-> g.capability]
      ELSE IF g.needs_approval
      THEN [status |-> "approval_required", reason |-> "approval_attestation_required"]
      ELSE IF ~g.plan.allowed THEN [status |-> "denied", reason |-> g.plan.reason]
      ELSE [status |-> "allowed", reason |-> "all_governance_gates_passed"]

ValidRequests == {r \in Requests : ValidRequest(Request[r])}
GatesOf == [r \in Requests |-> Gates(Request[r])]
-----------------------------------------------------------------------------
(* Evaluation. *)

(* validate_governance_request, and evaluated_at fixed by the caller. *)
Begin(c, r, nonce, lifetime) ==
  /\ call[c].stage = "idle"
  /\ call' = [call EXCEPT ![c] =
       [NewCall EXCEPT !.stage = IF r \in ValidRequests THEN "validated" ELSE "raised",
                       !.request = r, !.evaluated_at = now, !.nonce = nonce,
                       !.expires_at = now + lifetime]]
  /\ UNCHANGED hostVars

(* A plausible regression: the status of the binding is not looked at. *)
ActivationCovers_AnyStatus(b, q, at) ==
  /\ b.policy_id = q.policy_pack.policy_id
  /\ b.policy_pack = q.digests.policy_pack
  /\ b.policy_epoch = q.policy_epoch
  /\ b.not_before <= at /\ at < b.expires_at

(* _validate_policy_activation. *)
ActivationCovers(b, q, at) ==
  /\ b.policy_id = q.policy_pack.policy_id
  /\ b.policy_version = q.policy_pack.version
  /\ b.policy_pack = q.digests.policy_pack
  /\ b.policy_epoch = q.policy_epoch
  /\ q.policy_pack.schema_version = "v1" =>
       /\ b.issuer_ref = q.policy_pack.issuer_ref
       /\ b.not_before >= q.policy_pack.not_before
       /\ b.expires_at <= q.policy_pack.expires_at
  /\ b.status = "active"
  /\ b.not_before <= at /\ at < b.expires_at

ReadActivation(c) ==
  LET ev == call[c]
      b == Binding[binding]
      q == Request[ev.request]
      ok == /\ b.not_before < b.expires_at
            /\ ActivationCovers(b, q, ev.evaluated_at)
            /\ FactsNameRequest(q)
            /\ GatesOf[ev.request].initial # Raised
  IN  /\ ev.stage = "validated"
      /\ call' = [call EXCEPT ![c].stage = IF ok THEN "activated" ELSE "raised",
                              ![c].activation = IF ok THEN binding ELSE NoBinding]
      /\ UNCHANGED hostVars

(* validate_approval_attestation after its binding checks, which           *)
(* ValidRequest made already: trust, window, revocation.                   *)
ApprovalTrusted(a, at) ==
  /\ a.approver_role \in TrustPolicy.trusted_roles
  /\ a.trust_domain \in TrustPolicy.trusted_domains
  /\ TrustPolicy.trusted_approver_refs # {} => a.approver_ref \in TrustPolicy.trusted_approver_refs
  /\ TrustPolicy.require_signature_ref => a.has_signature_ref
  /\ a.not_before <= at /\ at < a.expires_at

IsRevoked(a) == revokedAt[a.approval_id] <= now

(* _validated_approval: nothing to do without an attestation, otherwise    *)
(* every check must pass or the whole evaluation raises.                   *)
ValidateApproval(c) ==
  LET ev == call[c]
      a == Request[ev.request].approval
      ok == a = NoApproval \/ /\ ApprovalTrusted(a, ev.evaluated_at)
                              /\ ~IsRevoked(a)
                              /\ a.approval_id \in SignedApprovals
  IN  /\ ev.stage = "activated"
      /\ call' = [call EXCEPT ![c].stage = IF ok THEN "approved" ELSE "raised"]
      /\ UNCHANGED hostVars

(* A plausible regression: a grant may outlive its approval.               *)
AuthorizationOk_IgnoreApproval(ev) ==
  /\ ev.nonce # NoNonce
  /\ ev.expires_at > ev.evaluated_at
  /\ ev.expires_at - ev.evaluated_at <= MaxLifetime
  /\ ev.expires_at <= Binding[ev.activation].expires_at

(* A plausible regression: the caller may ask for any lifetime. *)
AuthorizationOk_AnyLifetime(ev) ==
  LET a == Request[ev.request].approval
  IN  /\ ev.nonce # NoNonce
      /\ ev.expires_at > ev.evaluated_at
      /\ ev.expires_at <= Binding[ev.activation].expires_at
      /\ a # NoApproval => ev.expires_at <= a.expires_at

(* _authorization: the checks on the caller's nonce and expiry. *)
AuthorizationOk(ev) ==
  LET a == Request[ev.request].approval
  IN  /\ ev.nonce # NoNonce
      /\ ev.expires_at > ev.evaluated_at
      /\ ev.expires_at - ev.evaluated_at <= MaxLifetime
      /\ ev.expires_at <= Binding[ev.activation].expires_at
      /\ a # NoApproval => ev.expires_at <= a.expires_at

(* The GovernanceDecision record, which is its own digest.  The grant is   *)
(* the part of GovernanceAuthorization that is not a field of the request. *)
NoGrant == [nonce |-> NoNonce, issued_at |-> 0, expires_at |-> 0]

Decision(ev, outcome, plan) ==
  [status |-> outcome.status, reason |-> outcome.reason, request |-> ev.request,
   controls |-> plan.controls,
   grant |-> IF outcome.status = "allowed"
             THEN [nonce |-> ev.nonce, issued_at |-> ev.evaluated_at,
                   expires_at |-> ev.expires_at]
             ELSE NoGrant]

(* The rest of evaluate_governance: plan, trace, scope, capability,        *)
(* outcome, authorization and the validation of the finished decision.     *)
Decide(c) ==
  LET ev == call[c]
      g == GatesOf[ev.request]
      outcome == DecisionOutcome(g)
      raises == \/ g.scope = "raised"
                \/ outcome.status = "allowed" /\ ~AuthorizationOk(ev)
  IN  /\ ev.stage = "approved"
      /\ call' = [call EXCEPT ![c].stage = IF raises THEN "raised" ELSE "decided",
                              ![c].decision = IF raises THEN NoDecision
                                              ELSE Decision(ev, outcome, g.plan)]
      /\ UNCHANGED hostVars

Evaluation(c) ==
  \/ ReadActivation(c)
  \/ ValidateApproval(c)
  \/ Decide(c)

Host ==
  \/ Tick
  \/ \E b \in Bindings : ChangeBinding(b)
  \/ \E a \in ApprovalIds \cap Revocable : RevokeApproval(a)

Next ==
  \/ Host
  \/ \E c \in Calls :
       \/ \E r \in Requests, n \in Nonces \cup {NoNonce}, t \in Lifetimes : Begin(c, r, n, t)
       \/ Evaluation(c)

Spec == Init /\ [][Next]_vars
-----------------------------------------------------------------------------
DecisionStatuses == {"allowed", "approval_required", "denied"}

Grants == [nonce : Nonces \cup {NoNonce}, issued_at : Times, expires_at : Nat]

DecisionRecords ==
  [status : DecisionStatuses, reason : {DecisionOutcome(GatesOf[r]).reason : r \in Requests},
   request : Requests, controls : {GatesOf[r].plan.controls : r \in Requests},
   grant : Grants]

CallRecords ==
  [stage : Stages, request : Requests \cup {NoRequest}, evaluated_at : Times,
   nonce : Nonces \cup {NoNonce}, expires_at : Nat, activation : Bindings \cup {NoBinding},
   decision : DecisionRecords \cup {NoDecision}]

(* Every variable has its type, and a call has the parts its stage needs. *)
TypeOK ==
  /\ now \in Times
  /\ binding \in Bindings
  /\ retiredAt \in [Bindings -> Times \cup {Never}]
  /\ revokedAt \in [ApprovalIds -> Times \cup {Never}]
  /\ call \in [Calls -> CallRecords]
  /\ \A c \in Calls :
       /\ call[c].stage # "idle" => call[c].request \in Requests
       /\ call[c].stage \in {"activated", "approved", "decided"} => call[c].activation \in Bindings
       /\ call[c].stage = "decided" => call[c].decision \in DecisionRecords

Allowed(c) == call[c].stage = "decided" /\ call[c].decision.status = "allowed"
RequestOf(c) == Request[call[c].request]

(* The bindings that put a request's policy in force. *)
ActiveBindings(q) ==
  {b \in Bindings : /\ Binding[b].policy_pack = q.digests.policy_pack
                    /\ Binding[b].policy_epoch = q.policy_epoch
                    /\ Binding[b].status = "active"}

(* An evaluation that begins after its policy was superseded, revoked or   *)
(* expired, or after its approval was revoked, never allows: the ports are *)
(* read inside the call, not before it (_validate_policy_activation,       *)
(* validate_approval_attestation).                                         *)
NoAllowAfterWithdrawal ==
  \A c \in Calls : Allowed(c) =>
    /\ \A b \in ActiveBindings(RequestOf(c)) : call[c].evaluated_at <= retiredAt[b]
    /\ RequestOf(c).approval # NoApproval =>
         call[c].evaluated_at <= revokedAt[RequestOf(c).approval.approval_id]

(* A mutation is allowed only with an approval of exactly this subject by  *)
(* a trusted approver, whatever the policy pack says and whatever else the *)
(* same approver approved (approval_required in evaluate_governance).      *)
MutationNeedsExactApproval ==
  \A c \in Calls :
    LET q == RequestOf(c)
        a == q.approval
    IN  Allowed(c) /\ q.side_effect_class = "mutation" =>
          /\ a # NoApproval
          /\ a.subject = SubjectRecord(q)
          /\ a.approver_role \in TrustPolicy.trusted_roles
          /\ a.approval_id \in SignedApprovals

(* What an allowed request touches lies inside the host's scope policy and *)
(* the runtime's inventory: the network destination is bound to its origin *)
(* and covered on every axis, private networks need their own consent, the *)
(* runtime has the backend class, the side effect class and every          *)
(* capability (evaluate_scope_policy, evaluate_capability_compatibility).  *)
AllowedWithinScopeAndCapabilities ==
  \A c \in Calls : Allowed(c) =>
    LET q == RequestOf(c)
        d == q.requested_scope.destination
        policy == q.scope_policy
    IN  /\ q.requested_scope.target_namespace \in policy.allowed_target_namespaces
        /\ d # NoDestination =>
             /\ policy.network_allowed
             /\ d.origin_bound
             /\ d.scheme \in policy.allowed_schemes
             /\ d.effective_port \in policy.allowed_ports
             /\ d.address_class \in policy.allowed_address_classes
             /\ d.address_class = "public" \/ policy.private_networks_allowed
        /\ q.requirements.required_capabilities \subseteq q.inventory.capabilities
        /\ q.requirements.required_backend_class \in q.inventory.backend_classes
        /\ q.side_effect_class \in q.inventory.side_effect_classes

(* A request that some rule of its pack denies is never allowed, approved  *)
(* or not, unless the built-in approval invariant took the decision before *)
(* any rule was matched; and an approval never lifts the invariants that   *)
(* deny (_evaluate_invariants, _resolve_approval_requirement).             *)
MustBeDenied ==
  {r \in Requests :
     LET facts == Request[r].execution_facts.facts
         rules == Request[r].policy_pack.rules
     IN  \/ UnsafeShape(facts) \/ Destructive(facts)
         \/ /\ EvaluateInvariants(facts) = NoInvariant
            /\ \E i \in MatchedRules(facts, rules) : rules[i].effect = "deny"}

ApprovalNeverLiftsDeny == \A c \in Calls : Allowed(c) => call[c].request \notin MustBeDenied
-----------------------------------------------------------------------------
(* The inductive invariant behind NoAllowAfterWithdrawal and               *)
(* MutationNeedsExactApproval.                                             *)

Epoch(b) == Binding[b].policy_epoch

(* A binding that was replaced never comes back into force. *)
RetiredStaysRetired ==
  \A b \in Bindings : retiredAt[b] # Never =>
    \/ Epoch(b) < Epoch(binding)
    \/ Epoch(b) = Epoch(binding) /\ Binding[binding].status # "active"

BegunInThePast(ev) == ev.evaluated_at <= now

(* What the activation port told a call was not withdrawn when it began. *)
ActivationWasCurrent(ev) ==
  ev.stage \in {"activated", "approved", "decided"} =>
    \A b \in ActiveBindings(Request[ev.request]) : ev.evaluated_at <= retiredAt[b]

(* Likewise for the approval, which was trusted and signed as well. *)
ApprovalWasCurrent(ev) ==
  LET a == Request[ev.request].approval
  IN  ev.stage \in {"approved", "decided"} /\ a # NoApproval =>
        /\ ev.evaluated_at <= revokedAt[a.approval_id]
        /\ ApprovalTrusted(a, ev.evaluated_at)
        /\ a.approval_id \in SignedApprovals

OnlyValidRequestsProceed(ev) ==
  ev.stage \notin {"idle", "raised"} => ev.request \in ValidRequests

(* A decision is the outcome of the gates of its call's request. *)
DecisionFollowsGates(ev) ==
  ev.stage = "decided" =>
    /\ ev.decision.status = DecisionOutcome(GatesOf[ev.request]).status
    /\ ev.decision.request = ev.request
    /\ ev.decision.controls = GatesOf[ev.request].plan.controls

CallEvidence(ev) ==
  /\ BegunInThePast(ev)
  /\ ActivationWasCurrent(ev)
  /\ ApprovalWasCurrent(ev)
  /\ OnlyValidRequestsProceed(ev)
  /\ DecisionFollowsGates(ev)

EvidenceInv ==
  /\ TypeOK
  /\ RetiredStaysRetired
  /\ \A c \in Calls : CallEvidence(call[c])-----------------------------------------------------------------------------
(* The inductive invariant behind IoBeforeEvidenceExpires of               *)
(* GovernedExecution.                                                      *)

(* The bindings that were in force so far. *)
InForce(b) == b = binding \/ retiredAt[b] # Never

(* Activation moves forward, so no epoch was ever active under two. *)
OneActivePerEpoch ==
  \A a, b \in Bindings :
    /\ InForce(a) /\ InForce(b) /\ Epoch(a) = Epoch(b)
    /\ Binding[a].status = "active" /\ Binding[b].status = "active"
    => a = b

ActivationWasInForce(ev) ==
  ev.stage \in {"activated", "approved", "decided"} =>
    /\ ev.activation \in ActiveBindings(Request[ev.request])
    /\ InForce(ev.activation)

(* A grant is the one that _authorization checked. *)
GrantIsAuthorized(ev) ==
  ev.stage = "decided" /\ ev.decision.status = "allowed" =>
    ev.decision.grant.expires_at = ev.expires_at /\ AuthorizationOk(ev)

GrantInv ==
  /\ OneActivePerEpoch
  /\ \A c \in Calls : ActivationWasInForce(call[c]) /\ GrantIsAuthorized(call[c])
=============================================================================
