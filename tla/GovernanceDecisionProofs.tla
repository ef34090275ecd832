---------------------- MODULE GovernanceDecisionProofs ----------------------
(***************************************************************************)
(* Proofs about evaluate_governance against a changing host, for every     *)
(* number of calls, requests and bindings and every clock bound; and, at   *)
(* the end, about the typed admissions that are made of its decisions.     *)
(***************************************************************************)
EXTENDS TypedAdmission, PolicyProofs

(* The outcome of the gates is always one of the three decision statuses. *)
LEMMA OutcomeStatus == \A g : DecisionOutcome(g).status \in DecisionStatuses
BY DEF DecisionOutcome, DecisionStatuses

(* The initial state has its type. *)
LEMMA TypeInit == Init => TypeOK
BY TimeAssumption, BindingAssumption
   DEF Init, TypeOK, Times, Never, NewCall, CallRecords, Stages, NoDecision

(* Only one call changes, and it keeps its type. *)
LEMMA OneCallTyped ==
  ASSUME TypeOK, NEW c \in Calls, NEW ev,
         ev \in CallRecords,
         ev.stage # "idle" => ev.request \in Requests,
         ev.stage \in {"activated", "approved", "decided"} => ev.activation \in Bindings,
         ev.stage = "decided" => ev.decision \in DecisionRecords,
         call' = [call EXCEPT ![c] = ev], UNCHANGED hostVars
  PROVE  TypeOK'
BY DEF TypeOK, hostVars

(* The decision that Decide writes has the type of a decision. *)
LEMMA DecisionTyped ==
  ASSUME NEW ev \in CallRecords, ev.request \in Requests
  PROVE  LET g == GatesOf[ev.request]
         IN  Decision(ev, DecisionOutcome(g), g.plan) \in DecisionRecords
<1> DEFINE g == GatesOf[ev.request]
           o == DecisionOutcome(g)
<1>1. o.status \in DecisionStatuses
  BY OutcomeStatus
<1>2. /\ ev.nonce \in Nonces \cup {NoNonce} /\ ev.evaluated_at \in Times /\ ev.expires_at \in Nat
      /\ 0 \in Times
  BY TimeAssumption DEF CallRecords, Times
<1>3. (IF o.status = "allowed"
       THEN [nonce |-> ev.nonce, issued_at |-> ev.evaluated_at, expires_at |-> ev.expires_at]
       ELSE NoGrant) \in Grants
  BY <1>2 DEF Grants, NoGrant
<1>4. o.reason \in {DecisionOutcome(GatesOf[r]).reason : r \in Requests}
  OBVIOUS
<1>5. g.plan.controls \in {GatesOf[r].plan.controls : r \in Requests}
  OBVIOUS
<1> QED
  BY <1>1, <1>3, <1>4, <1>5 DEF Decision, DecisionRecords

(* Every action, of the host or of a call, preserves the type invariant. *)
LEMMA TypeNext == TypeOK /\ [Next]_vars => TypeOK'
<1> SUFFICES ASSUME TypeOK, [Next]_vars PROVE TypeOK'
  OBVIOUS
<1>1. CASE Tick
  BY <1>1, TimeAssumption DEF Tick, TypeOK, Times
<1>2. CASE \E b \in Bindings : ChangeBinding(b)
  BY <1>2 DEF ChangeBinding, TypeOK
<1>3. CASE \E a \in ApprovalIds \cap Revocable : RevokeApproval(a)
  BY <1>3 DEF RevokeApproval, TypeOK
<1>4. ASSUME NEW c \in Calls, NEW r \in Requests, NEW n \in Nonces \cup {NoNonce},
             NEW t \in Lifetimes, Begin(c, r, n, t)
      PROVE  TypeOK'
  <2> DEFINE ev == [NewCall EXCEPT !.stage = IF r \in ValidRequests THEN "validated" ELSE "raised",
                       !.request = r, !.evaluated_at = now, !.nonce = n, !.expires_at = now + t]
  <2>1. now \in Times /\ now + t \in Nat
    BY TimeAssumption DEF TypeOK, Times
  <2>2. ev \in CallRecords /\ ev.request \in Requests /\ ev.stage \in {"validated", "raised"}
    BY <2>1 DEF NewCall, CallRecords, Stages, NoDecision
  <2>3. call' = [call EXCEPT ![c] = ev] /\ UNCHANGED hostVars
    BY <1>4 DEF Begin
  <2> QED
    BY <2>2, <2>3, OneCallTyped
<1>5. ASSUME NEW c \in Calls, ReadActivation(c) PROVE TypeOK'
  <2>1. call[c] \in CallRecords /\ call[c].request \in Requests /\ binding \in Bindings
    BY <1>5 DEF ReadActivation, TypeOK
  <2>2. PICK ok \in BOOLEAN :
          /\ call' = [call EXCEPT ![c].stage = IF ok THEN "activated" ELSE "raised",
                                  ![c].activation = IF ok THEN binding ELSE NoBinding]
          /\ UNCHANGED hostVars
    BY <1>5 DEF ReadActivation
  <2> DEFINE ev == [call[c] EXCEPT !.stage = IF ok THEN "activated" ELSE "raised",
                                   !.activation = IF ok THEN binding ELSE NoBinding]
  <2>3. /\ ev \in CallRecords /\ ev.request \in Requests /\ ev.stage \in {"activated", "raised"}
        /\ ev.stage = "activated" => ev.activation \in Bindings
    BY <2>1 DEF CallRecords, Stages
  <2>4. call' = [call EXCEPT ![c] = ev]
    BY <2>2 DEF TypeOK
  <2> QED
    BY <2>2, <2>3, <2>4, OneCallTyped
<1>6. ASSUME NEW c \in Calls, ValidateApproval(c) PROVE TypeOK'
  <2>1. /\ call[c] \in CallRecords /\ call[c].request \in Requests
        /\ call[c].activation \in Bindings
    BY <1>6 DEF ValidateApproval, TypeOK
  <2>2. PICK ok \in BOOLEAN :
          /\ call' = [call EXCEPT ![c].stage = IF ok THEN "approved" ELSE "raised"]
          /\ UNCHANGED hostVars
    BY <1>6 DEF ValidateApproval
  <2> DEFINE ev == [call[c] EXCEPT !.stage = IF ok THEN "approved" ELSE "raised"]
  <2>3. /\ ev \in CallRecords /\ ev.request \in Requests /\ ev.stage \in {"approved", "raised"}
        /\ ev.activation \in Bindings
    BY <2>1 DEF CallRecords, Stages
  <2>4. call' = [call EXCEPT ![c] = ev]
    BY <2>2 DEF TypeOK
  <2> QED
    BY <2>2, <2>3, <2>4, OneCallTyped
<1>7. ASSUME NEW c \in Calls, Decide(c) PROVE TypeOK'
  <2>1. /\ call[c] \in CallRecords /\ call[c].request \in Requests
        /\ call[c].activation \in Bindings
    BY <1>7 DEF Decide, TypeOK
  <2> DEFINE g == GatesOf[call[c].request]
             d == Decision(call[c], DecisionOutcome(g), g.plan)
  <2>2. PICK raises \in BOOLEAN :
          /\ call' = [call EXCEPT ![c].stage = IF raises THEN "raised" ELSE "decided",
                                  ![c].decision = IF raises THEN NoDecision ELSE d]
          /\ UNCHANGED hostVars
    BY <1>7 DEF Decide
  <2> DEFINE ev == [call[c] EXCEPT !.stage = IF raises THEN "raised" ELSE "decided",
                                   !.decision = IF raises THEN NoDecision ELSE d]
  <2>3. d \in DecisionRecords
    BY <2>1, DecisionTyped
  <2>4. /\ ev \in CallRecords /\ ev.request \in Requests /\ ev.activation \in Bindings
        /\ ev.stage \in {"decided", "raised"} /\ ev.stage = "decided" => ev.decision \in DecisionRecords
    <3> HIDE DEF d
    <3> QED  BY <2>1, <2>3 DEF CallRecords, Stages
  <2>5. call' = [call EXCEPT ![c] = ev]
    <3> HIDE DEF d
    <3> QED  BY <2>2 DEF TypeOK
  <2> QED
    <3> HIDE DEF ev
    <3> QED  BY <2>2, <2>4, <2>5, OneCallTyped
<1>8. CASE UNCHANGED vars
  BY <1>8 DEF vars, TypeOK
<1> QED
  BY <1>1, <1>2, <1>3, <1>4, <1>5, <1>6, <1>7, <1>8 DEF Next, Host, Evaluation

(* Type correctness of every reachable state: in particular every decision *)
(* that evaluate_governance returns is a well-formed GovernanceDecision.   *)
THEOREM TypeCorrect == Spec => []TypeOK
BY TypeInit, TypeNext, PTL DEF Spec
-----------------------------------------------------------------------------
(* The initial state satisfies the inductive invariant. *)
LEMMA EvidenceInit == Init => EvidenceInv
<1> SUFFICES ASSUME Init PROVE EvidenceInv
  OBVIOUS
<1>1. TypeOK
  BY TypeInit
<1>2. RetiredStaysRetired
  BY DEF Init, RetiredStaysRetired
<1>3. \A c \in Calls : CallEvidence(call[c])
  BY DEF Init, NewCall, CallEvidence, BegunInThePast, ActivationWasCurrent,
         ApprovalWasCurrent, OnlyValidRequestsProceed, DecisionFollowsGates
<1> QED
  BY <1>1, <1>2, <1>3 DEF EvidenceInv

(* A step of one call leaves the host and the other calls alone. *)
LEMMA OneCallEvidence ==
  ASSUME EvidenceInv, TypeOK', NEW c \in Calls, CallEvidence(call[c])',
         \A d \in Calls \ {c} : call'[d] = call[d], UNCHANGED hostVars
  PROVE  EvidenceInv'
<1>1. RetiredStaysRetired'
  BY DEF EvidenceInv, RetiredStaysRetired, hostVars
<1>2. \A d \in Calls \ {c} : CallEvidence(call[d])'
  BY DEF EvidenceInv, CallEvidence, BegunInThePast, ActivationWasCurrent,
         ApprovalWasCurrent, OnlyValidRequestsProceed, DecisionFollowsGates, hostVars
<1> QED
  BY <1>1, <1>2 DEF EvidenceInv

(* The arithmetic of the history: a time of the past is before Never. *)
LEMMA TimesBeforeNever ==
  ASSUME TypeOK
  PROVE  /\ Never \in Nat /\ now \in Nat /\ now < Never
         /\ \A b \in Bindings : retiredAt[b] \in Nat
         /\ \A a \in ApprovalIds : revokedAt[a] \in Nat
         /\ \A c \in Calls : call[c].evaluated_at \in Nat
BY TimeAssumption DEF TypeOK, Times, Never, CallRecords

(* A binding that replaces another leaves it behind for good. *)
LEMMA ChangeKeepsRetired ==
  ASSUME EvidenceInv, NEW b \in Bindings, ChangeBinding(b)
  PROVE  RetiredStaysRetired'
<1> SUFFICES ASSUME NEW d \in Bindings, retiredAt'[d] # Never
             PROVE  \/ Epoch(d) < Epoch(b)
                    \/ Epoch(d) = Epoch(b) /\ Binding[b].status # "active"
  BY DEF RetiredStaysRetired, ChangeBinding, Epoch
<1>1. /\ binding \in Bindings
      /\ Epoch(b) \in Nat /\ Epoch(d) \in Nat /\ Epoch(binding) \in Nat
  BY BindingAssumption DEF EvidenceInv, TypeOK, Epoch
<1>2. \/ Epoch(b) > Epoch(binding)
      \/ /\ Epoch(b) = Epoch(binding)
         /\ Binding[binding].status = "active" /\ Binding[b].status # "active"
  BY DEF ChangeBinding, Supersedes, Epoch
<1>3. d = binding \/ retiredAt[d] # Never
  BY DEF ChangeBinding, EvidenceInv, TypeOK
<1>4. retiredAt[d] # Never => \/ Epoch(d) < Epoch(binding)
                              \/ Epoch(d) = Epoch(binding) /\ Binding[binding].status # "active"
  BY DEF EvidenceInv, RetiredStaysRetired
<1> QED
  BY <1>1, <1>2, <1>3, <1>4

(* The approval of a submitted request is one the host can revoke. *)
LEMMA ApprovalIdKnown ==
  ASSUME NEW r \in Requests, Request[r].approval # NoApproval
  PROVE  Request[r].approval.approval_id \in ApprovalIds
BY DEF ApprovalIds

(* The inductive step. *)
LEMMA EvidenceNext == EvidenceInv /\ [Next]_vars => EvidenceInv'
<1> SUFFICES ASSUME EvidenceInv, [Next]_vars PROVE EvidenceInv'
  OBVIOUS
<1>t. TypeOK /\ TypeOK'
  BY TypeNext DEF EvidenceInv
<1>n. /\ Never \in Nat /\ now \in Nat /\ now < Never
      /\ \A b \in Bindings : retiredAt[b] \in Nat
      /\ \A a \in ApprovalIds : revokedAt[a] \in Nat
      /\ \A c \in Calls : call[c].evaluated_at \in Nat
  BY <1>t, TimesBeforeNever
<1>p. \A c \in Calls : call[c].evaluated_at <= now
  BY DEF EvidenceInv, CallEvidence, BegunInThePast
<1>1. CASE Tick
  <2>1. RetiredStaysRetired'
    BY <1>1 DEF EvidenceInv, RetiredStaysRetired, Tick
  <2>2. \A c \in Calls : BegunInThePast(call[c])'
    BY <1>1, <1>n, <1>p DEF BegunInThePast, Tick
  <2>3. \A c \in Calls : CallEvidence(call[c])'
    BY <1>1, <2>2 DEF EvidenceInv, Tick, CallEvidence, ActivationWasCurrent,
         ApprovalWasCurrent, OnlyValidRequestsProceed, DecisionFollowsGates
  <2> QED
    BY <1>t, <2>1, <2>3 DEF EvidenceInv
<1>2. ASSUME NEW b \in Bindings, ChangeBinding(b) PROVE EvidenceInv'
  <2>1. RetiredStaysRetired'
    BY <1>2, ChangeKeepsRetired
  <2>2. \A c \in Calls, d \in Bindings :
          call[c].evaluated_at <= retiredAt[d] => call[c].evaluated_at <= retiredAt'[d]
    BY <1>2, <1>p, <1>t DEF ChangeBinding, TypeOK
  <2>3. \A c \in Calls : ActivationWasCurrent(call[c])'
    <3> SUFFICES ASSUME NEW c \in Calls, call[c].stage \in {"activated", "approved", "decided"},
                        NEW d \in ActiveBindings(Request[call[c].request])
                 PROVE  call[c].evaluated_at <= retiredAt'[d]
      BY <1>2 DEF ActivationWasCurrent, ChangeBinding
    <3>1. d \in Bindings
      BY DEF ActiveBindings
    <3>2. call[c].evaluated_at <= retiredAt[d]
      BY DEF EvidenceInv, CallEvidence, ActivationWasCurrent
    <3> QED
      BY <2>2, <3>1, <3>2
  <2>4. \A c \in Calls : CallEvidence(call[c])'
    BY <1>2, <2>3 DEF EvidenceInv, ChangeBinding, CallEvidence, BegunInThePast,
         ApprovalWasCurrent, OnlyValidRequestsProceed, DecisionFollowsGates
  <2> QED
    BY <1>t, <2>1, <2>4 DEF EvidenceInv
<1>3. ASSUME NEW a \in ApprovalIds \cap Revocable, RevokeApproval(a) PROVE EvidenceInv'
  <2>1. RetiredStaysRetired'
    BY <1>3 DEF EvidenceInv, RetiredStaysRetired, RevokeApproval
  <2>2. \A c \in Calls, i \in ApprovalIds :
          call[c].evaluated_at <= revokedAt[i] => call[c].evaluated_at <= revokedAt'[i]
    BY <1>3, <1>p, <1>t DEF RevokeApproval, TypeOK
  <2>3. \A c \in Calls : ApprovalWasCurrent(call[c])'
    <3> SUFFICES ASSUME NEW c \in Calls, call[c].stage \in {"approved", "decided"},
                        Request[call[c].request].approval # NoApproval
                 PROVE  LET i == Request[call[c].request].approval
                        IN  /\ call[c].evaluated_at <= revokedAt'[i.approval_id]
                            /\ ApprovalTrusted(i, call[c].evaluated_at)
                            /\ i.approval_id \in SignedApprovals
      BY <1>3 DEF ApprovalWasCurrent, RevokeApproval
    <3>1. call[c].request \in Requests
      BY <1>t DEF TypeOK
    <3>2. Request[call[c].request].approval.approval_id \in ApprovalIds
      BY <3>1, ApprovalIdKnown
    <3>3. ApprovalWasCurrent(call[c])
      BY DEF EvidenceInv, CallEvidence
    <3> QED
      BY <2>2, <3>2, <3>3 DEF ApprovalWasCurrent
  <2>4. \A c \in Calls : CallEvidence(call[c])'
    BY <1>3, <2>3 DEF EvidenceInv, RevokeApproval, CallEvidence, BegunInThePast,
         ActivationWasCurrent, OnlyValidRequestsProceed, DecisionFollowsGates
  <2> QED
    BY <1>t, <2>1, <2>4 DEF EvidenceInv
<1>4. ASSUME NEW c \in Calls, NEW r \in Requests, NEW n \in Nonces \cup {NoNonce},
             NEW t \in Lifetimes, Begin(c, r, n, t)
      PROVE  EvidenceInv'
  <2>1. /\ call'[c].stage = IF r \in ValidRequests THEN "validated" ELSE "raised"
        /\ call'[c].request = r /\ call'[c].evaluated_at = now
        /\ \A d \in Calls \ {c} : call'[d] = call[d]
        /\ UNCHANGED hostVars
    BY <1>4, <1>t DEF Begin, NewCall, TypeOK
  <2>2. CallEvidence(call[c])'
    BY <2>1, <1>n DEF CallEvidence, BegunInThePast, ActivationWasCurrent, ApprovalWasCurrent,
         OnlyValidRequestsProceed, DecisionFollowsGates, hostVars
  <2> QED
    BY <1>t, <2>1, <2>2, OneCallEvidence
<1>5. ASSUME NEW c \in Calls, ReadActivation(c) PROVE EvidenceInv'
  <2> DEFINE q == Request[call[c].request]
  <2>1. /\ call'[c].stage \in {"activated", "raised"}
        /\ call'[c].request = call[c].request /\ call'[c].evaluated_at = call[c].evaluated_at
        /\ \A d \in Calls \ {c} : call'[d] = call[d]
        /\ UNCHANGED hostVars
        /\ call[c].stage = "validated"
    BY <1>5, <1>t DEF ReadActivation, TypeOK, CallRecords
  <2>2. call'[c].stage = "activated" =>
          Binding[binding].status = "active" /\ Epoch(binding) = q.policy_epoch
    BY <1>5, <1>t DEF ReadActivation, ActivationCovers, TypeOK, CallRecords, Epoch
  <2>3. ASSUME call'[c].stage = "activated", NEW d \in ActiveBindings(q)
        PROVE  call[c].evaluated_at <= retiredAt[d]
    <3>1. d \in Bindings /\ Epoch(d) = Epoch(binding) /\ Epoch(d) \in Nat
      BY <2>2, <2>3, BindingAssumption DEF ActiveBindings, Epoch
    <3>2. retiredAt[d] = Never
      BY <2>2, <2>3, <3>1 DEF EvidenceInv, RetiredStaysRetired
    <3> QED
      BY <3>2, <1>n, <1>p
  <2>4. ActivationWasCurrent(call[c])'
    BY <2>1, <2>3 DEF ActivationWasCurrent, hostVars
  <2>5. CallEvidence(call[c])
    BY DEF EvidenceInv
  <2>6. CallEvidence(call[c])'
    BY <2>1, <2>4, <2>5 DEF CallEvidence, BegunInThePast, ApprovalWasCurrent,
         OnlyValidRequestsProceed, DecisionFollowsGates, hostVars
  <2> QED
    BY <1>t, <2>1, <2>6, OneCallEvidence
<1>6. ASSUME NEW c \in Calls, ValidateApproval(c) PROVE EvidenceInv'
  <2> DEFINE a == Request[call[c].request].approval
  <2>1. /\ call'[c].stage \in {"approved", "raised"}
        /\ call'[c].request = call[c].request /\ call'[c].evaluated_at = call[c].evaluated_at
        /\ \A d \in Calls \ {c} : call'[d] = call[d]
        /\ UNCHANGED hostVars
        /\ call[c].stage = "activated"
    BY <1>6, <1>t DEF ValidateApproval, TypeOK, CallRecords
  <2>2. call'[c].stage = "approved" /\ a # NoApproval =>
          /\ ApprovalTrusted(a, call[c].evaluated_at)
          /\ ~(revokedAt[a.approval_id] <= now)
          /\ a.approval_id \in SignedApprovals
    BY <1>6, <1>t DEF ValidateApproval, IsRevoked, TypeOK, CallRecords
  <2>3. a # NoApproval => a.approval_id \in ApprovalIds
    BY <1>t, <2>1, ApprovalIdKnown DEF TypeOK
  <2>4. ApprovalWasCurrent(call[c])'
    <3> SUFFICES ASSUME call'[c].stage = "approved", a # NoApproval
                 PROVE  call[c].evaluated_at <= revokedAt[a.approval_id]
      BY <2>1, <2>2 DEF ApprovalWasCurrent, hostVars
    <3>1. revokedAt[a.approval_id] \in Nat
      BY <2>3, <1>n
    <3> HIDE DEF a
    <3> QED
      BY <2>2, <3>1, <1>n, <1>p
  <2>5. CallEvidence(call[c])
    BY DEF EvidenceInv
  <2>6. CallEvidence(call[c])'
    BY <2>1, <2>4, <2>5 DEF CallEvidence, BegunInThePast, ActivationWasCurrent,
         OnlyValidRequestsProceed, DecisionFollowsGates, hostVars
  <2> QED
    BY <1>t, <2>1, <2>6, OneCallEvidence
<1>7. ASSUME NEW c \in Calls, Decide(c) PROVE EvidenceInv'
  <2>1. /\ call'[c].stage \in {"decided", "raised"}
        /\ call'[c].request = call[c].request /\ call'[c].evaluated_at = call[c].evaluated_at
        /\ \A d \in Calls \ {c} : call'[d] = call[d]
        /\ UNCHANGED hostVars
        /\ call[c].stage = "approved"
    BY <1>7, <1>t DEF Decide, TypeOK, CallRecords
  <2>2. DecisionFollowsGates(call[c])'
    <3> HIDE DEF DecisionOutcome
    <3> SUFFICES ASSUME call'[c].stage = "decided"
                 PROVE  LET g == GatesOf[call[c].request]
                        IN  /\ call'[c].decision.status = DecisionOutcome(g).status
                            /\ call'[c].decision.request = call[c].request
                            /\ call'[c].decision.controls = g.plan.controls
      BY <2>1 DEF DecisionFollowsGates
    <3>1. call'[c].decision = Decision(call[c], DecisionOutcome(GatesOf[call[c].request]),
                                       GatesOf[call[c].request].plan)
      BY <1>7, <1>t DEF Decide, TypeOK, CallRecords
    <3> QED
      BY <3>1 DEF Decision
  <2>3. CallEvidence(call[c])
    BY DEF EvidenceInv
  <2>4. CallEvidence(call[c])'
    BY <2>1, <2>2, <2>3 DEF CallEvidence, BegunInThePast, ActivationWasCurrent,
         ApprovalWasCurrent, OnlyValidRequestsProceed, hostVars
  <2> QED
    BY <1>t, <2>1, <2>4, OneCallEvidence
<1>8. CASE UNCHANGED vars
  BY <1>8, <1>t DEF vars, EvidenceInv, RetiredStaysRetired, CallEvidence, BegunInThePast,
       ActivationWasCurrent, ApprovalWasCurrent, OnlyValidRequestsProceed, DecisionFollowsGates
<1> QED
  BY <1>1, <1>2, <1>3, <1>4, <1>5, <1>6, <1>7, <1>8 DEF Next, Host, Evaluation

(* The invariant the withdrawal theorems rest on holds in every state. *)
LEMMA EvidenceInvariant == Spec => []EvidenceInv
BY EvidenceInit, EvidenceNext, PTL DEF Spec

(* No evaluation allows once its policy or its approval was withdrawn      *)
(* before it began: a retired binding never returns, and both ports are    *)
(* read after the evaluation time is fixed.                                *)
THEOREM WithdrawnNeverAllows == Spec => []NoAllowAfterWithdrawal
<1>1. EvidenceInv => NoAllowAfterWithdrawal
  BY DEF EvidenceInv, CallEvidence, ActivationWasCurrent, ApprovalWasCurrent,
         NoAllowAfterWithdrawal, Allowed, RequestOf
<1> QED
  BY <1>1, EvidenceInvariant, PTL

(* A request whose gates still miss an approval is never allowed. *)
LEMMA MissingApprovalNotAllowed ==
  ASSUME NEW g, g.needs_approval
  PROVE  DecisionOutcome(g).status # "allowed"
BY DEF DecisionOutcome

(* Every allowed mutation carries a trusted, signed approval of exactly    *)
(* the subject of its request.                                             *)
THEOREM MutationsAreApproved == Spec => []MutationNeedsExactApproval
<1>1. ASSUME EvidenceInv, NEW c \in Calls, Allowed(c),
             RequestOf(c).side_effect_class = "mutation"
      PROVE  LET q == RequestOf(c)
                 a == q.approval
             IN  /\ a # NoApproval
                 /\ a.subject = SubjectRecord(q)
                 /\ a.approver_role \in TrustPolicy.trusted_roles
                 /\ a.approval_id \in SignedApprovals
  <2> DEFINE q == Request[call[c].request]
             g == GatesOf[call[c].request]
  <2>1. /\ call[c].request \in Requests /\ call[c].request \in ValidRequests
        /\ DecisionOutcome(g).status = "allowed"
        /\ ApprovalWasCurrent(call[c]) /\ call[c].stage = "decided"
    BY <1>1 DEF EvidenceInv, TypeOK, CallEvidence, Allowed, OnlyValidRequestsProceed,
         DecisionFollowsGates
  <2>2. g.needs_approval <=> (ApprovalRequired(q, g.initial) /\ ~(q.approval # NoApproval))
    BY <2>1 DEF GatesOf, Gates
  <2>3. ApprovalRequired(q, g.initial)
    BY <1>1 DEF ApprovalRequired, RequestOf
  <2>4. ~g.needs_approval
    BY <2>1, MissingApprovalNotAllowed
  <2>5. q.approval # NoApproval
    BY <2>2, <2>3, <2>4
  <2>6. q.approval.subject = SubjectRecord(q)
    BY <2>1, <2>5 DEF ValidRequests, ValidRequest, ApprovalBoundTo
  <2>7. /\ q.approval.approver_role \in TrustPolicy.trusted_roles
        /\ q.approval.approval_id \in SignedApprovals
    BY <2>1, <2>5 DEF ApprovalWasCurrent, ApprovalTrusted
  <2> QED
    BY <2>5, <2>6, <2>7 DEF RequestOf
<1>2. EvidenceInv => MutationNeedsExactApproval
  BY <1>1 DEF MutationNeedsExactApproval
<1> QED
  BY <1>2, EvidenceInvariant, PTL

(* What is allowed passed the scope gate and the capability gate. *)
LEMMA AllowedPassedGates ==
  ASSUME NEW g, DecisionOutcome(g).status = "allowed"
  PROVE  /\ g.scope = "scope_allowed" /\ g.capability = "capabilities_compatible"
         /\ g.plan.allowed /\ g.initial.decision # "deny"
BY DEF DecisionOutcome

(* The one reason of the scope gate that is not a refusal is reached only  *)
(* past every check on the way.                                            *)
LEMMA ScopeAllowed ==
  ASSUME NEW scope, NEW policy, EvaluateScopePolicy(scope, policy) = "scope_allowed",
         ValidScopePolicy(policy)
  PROVE  LET d == scope.destination
         IN  /\ scope.target_namespace \in policy.allowed_target_namespaces
             /\ d # NoDestination =>
                  /\ policy.network_allowed
                  /\ d.origin_bound
                  /\ d.scheme \in policy.allowed_schemes
                  /\ d.effective_port \in policy.allowed_ports
                  /\ d.address_class \in policy.allowed_address_classes
                  /\ d.address_class = "public" \/ policy.private_networks_allowed
<1> DEFINE d == scope.destination
<1>1. scope.target_namespace \in policy.allowed_target_namespaces
  BY DEF EvaluateScopePolicy
<1>2. ASSUME d # NoDestination
      PROVE  /\ policy.network_allowed
             /\ d.origin_bound
             /\ d.scheme \in policy.allowed_schemes
             /\ d.effective_port \in policy.allowed_ports
             /\ d.address_class \in policy.allowed_address_classes
             /\ d.address_class \in PrivateAddressClasses => policy.private_networks_allowed
  BY <1>2 DEF EvaluateScopePolicy
<1>3. policy.allowed_address_classes \subseteq PrivateAddressClasses \cup {"public"}
  BY DEF ValidScopePolicy, AddressClasses
<1> QED
  BY <1>1, <1>2, <1>3

(* What an allowed request touches lies inside the host's scope policy and *)
(* the runtime's inventory (evaluate_scope_policy,                         *)
(* evaluate_capability_compatibility).                                     *)
THEOREM AllowedStaysInScope == Spec => []AllowedWithinScopeAndCapabilities
<1>1. ASSUME EvidenceInv, NEW c \in Calls, Allowed(c)
      PROVE  LET q == RequestOf(c)
                 d == q.requested_scope.destination
                 policy == q.scope_policy
             IN  /\ q.requested_scope.target_namespace \in policy.allowed_target_namespaces
                 /\ d # NoDestination =>
                      /\ policy.network_allowed
                      /\ d.origin_bound
                      /\ d.scheme \in policy.allowed_schemes
                      /\ d.effective_port \in policy.allowed_ports
                      /\ d.address_class \in policy.allowed_address_classes
                      /\ d.address_class = "public" \/ policy.private_networks_allowed
                 /\ q.requirements.required_capabilities \subseteq q.inventory.capabilities
                 /\ q.requirements.required_backend_class \in q.inventory.backend_classes
                 /\ q.side_effect_class \in q.inventory.side_effect_classes
  <2> DEFINE r == call[c].request
             q == Request[r]
  <2>1. r \in Requests /\ r \in ValidRequests /\ DecisionOutcome(GatesOf[r]).status = "allowed"
    BY <1>1 DEF EvidenceInv, TypeOK, CallEvidence, Allowed, OnlyValidRequestsProceed,
         DecisionFollowsGates
  <2>2. /\ ValidScopePolicy(q.scope_policy)
        /\ q.requirements.side_effect_class = q.side_effect_class
    BY <2>1 DEF ValidRequests, ValidRequest, ScopeCapabilityBound
  <2>3. /\ EvaluateScopePolicy(q.requested_scope, q.scope_policy) = "scope_allowed"
        /\ EvaluateCapability(q.requirements, q.inventory) = "capabilities_compatible"
    BY <2>1, AllowedPassedGates DEF GatesOf, Gates
  <2>4. /\ q.requirements.required_capabilities \subseteq q.inventory.capabilities
        /\ q.requirements.required_backend_class \in q.inventory.backend_classes
        /\ q.requirements.side_effect_class \in q.inventory.side_effect_classes
    BY <2>3 DEF EvaluateCapability
  <2> QED
    BY <2>2, <2>3, <2>4, ScopeAllowed DEF RequestOf
<1>2. EvidenceInv => AllowedWithinScopeAndCapabilities
  BY <1>1 DEF AllowedWithinScopeAndCapabilities
<1> QED
  BY <1>2, EvidenceInvariant, PTL

(* The verdict on a request that must be denied is a denial, or the        *)
(* matching of some other rule raised.                                     *)
LEMMA VerdictOnDenied ==
  ASSUME NEW r \in Requests, r \in MustBeDenied
  PROVE  GatesOf[r].initial.decision \in {"deny", "raised"}
<1> DEFINE facts == Request[r].execution_facts.facts
           rules == Request[r].policy_pack.rules
<1>1. GatesOf[r].initial = EvaluatePolicy(facts, rules)
  BY DEF GatesOf, Gates
<1>2. CASE UnsafeShape(facts) \/ Destructive(facts)
  <2>1. EvaluateInvariants(facts).decision = "deny"
    BY <1>2 DEF EvaluateInvariants, BareVerdict, Verdict
  <2>2. NoInvariant.decision = "none"
    BY DEF NoInvariant, BareVerdict, Verdict
  <2>3. EvaluatePolicy(facts, rules) = EvaluateInvariants(facts)
    BY <2>1, <2>2 DEF EvaluatePolicy
  <2> QED
    BY <1>1, <2>1, <2>3
<1>3. CASE /\ EvaluateInvariants(facts) = NoInvariant
           /\ \E i \in MatchedRules(facts, rules) : rules[i].effect = "deny"
  <2>1. PICK i \in MatchedRules(facts, rules) : rules[i].effect = "deny"
    BY <1>3
  <2>2. MatchedRules(facts, rules) \subseteq DOMAIN rules
    BY DEF MatchedRules
  <2>3. SelectRule(rules, MatchedRules(facts, rules)).decision = "deny"
    BY <2>1, <2>2, RulesAssumption, DenyRuleWins
  <2>4. Raised.decision = "raised"
    BY DEF Raised, Verdict
  <2>5. EvaluatePolicy(facts, rules) \in {Raised, SelectRule(rules, MatchedRules(facts, rules))}
    BY <1>3, <2>1 DEF EvaluatePolicy
  <2> QED
    BY <1>1, <2>3, <2>4, <2>5
<1> QED
  BY <1>2, <1>3 DEF MustBeDenied

(* A verdict that raised is no plan, approved or not. *)
LEMMA RaisedHasNoPlan ==
  ASSUME NEW r \in Requests, GatesOf[r].initial.decision = "raised"
  PROVE  ~GatesOf[r].plan.allowed
<1> DEFINE initial == GatesOf[r].initial
<1>1. GatesOf[r].plan = AdmitPolicyExecution(ResolveApproval(initial, Request[r].approval # NoApproval))
  BY DEF GatesOf, Gates
<1>2. ResolveApproval(initial, Request[r].approval # NoApproval) = initial
  BY DEF ResolveApproval
<1>3. initial.reason \in AdmitPolicyExecution(initial).blockers
  BY DEF AdmitPolicyExecution
<1>4. AdmitPolicyExecution(initial).allowed = (AdmitPolicyExecution(initial).blockers = {})
  BY DEF AdmitPolicyExecution
<1> QED
  BY <1>1, <1>2, <1>3, <1>4

(* An approval never lifts a denial: neither one of the invariants nor one *)
(* of a rule of the pack (_evaluate_invariants,                            *)
(* _resolve_approval_requirement).                                         *)
THEOREM DenialsStand == Spec => []ApprovalNeverLiftsDeny
<1>1. ASSUME EvidenceInv, NEW c \in Calls, Allowed(c)
      PROVE  call[c].request \notin MustBeDenied
  <2> DEFINE r == call[c].request
  <2>1. r \in Requests /\ DecisionOutcome(GatesOf[r]).status = "allowed"
    BY <1>1 DEF EvidenceInv, TypeOK, CallEvidence, Allowed, OnlyValidRequestsProceed,
         DecisionFollowsGates, ValidRequests
  <2>2. GatesOf[r].plan.allowed /\ GatesOf[r].initial.decision # "deny"
    BY <2>1, AllowedPassedGates
  <2> QED
    BY <2>1, <2>2, VerdictOnDenied, RaisedHasNoPlan
<1>2. EvidenceInv => ApprovalNeverLiftsDeny
  BY <1>1 DEF ApprovalNeverLiftsDeny
<1> QED
  BY <1>2, EvidenceInvariant, PTL
-----------------------------------------------------------------------------
(* From the verdict to the controls of a decision. *)

(* An approval satisfies the requirement of a verdict and leaves its       *)
(* obligations and constraints alone.                                      *)
LEMMA ResolutionKeepsControls ==
  ASSUME NEW facts, NEW rules, NEW approved \in BOOLEAN
  PROVE  LET v == EvaluatePolicy(facts, rules)
             resolved == ResolveApproval(v, approved)
         IN  resolved.obligations = v.obligations /\ resolved.constraints = v.constraints
<1> DEFINE v == EvaluatePolicy(facts, rules)
<1>1. v = Verdict(v.decision, v.reason, v.blockers, v.obligations, v.constraints)
  BY VerdictShape
<1> HIDE DEF v
<1>2. /\ ResolveApproval(v, approved).obligations = v.obligations
      /\ ResolveApproval(v, approved).constraints = v.constraints
  BY <1>1 DEF ResolveApproval, Verdict
<1> QED
  BY <1>2 DEF v

(* The controls of a plan are those of the verdict on its request, or the  *)
(* defaults of a plan that is blocked.                                     *)
LEMMA PlanControls ==
  ASSUME NEW r \in Requests
  PROVE  LET g == GatesOf[r]
         IN  /\ \/ g.plan.controls = ProjectRuntimeControls(g.initial)
                \/ g.plan.controls = DefaultControls
             /\ g.plan.allowed =>
                  Projectable(g.initial) /\ g.plan.controls = ProjectRuntimeControls(g.initial)
<1> DEFINE q == Request[r]
           initial == EvaluatePolicy(q.execution_facts.facts, q.policy_pack.rules)
           resolved == ResolveApproval(initial, q.approval # NoApproval)
           plan == AdmitPolicyExecution(resolved)
<1>1. GatesOf[r].initial = initial /\ GatesOf[r].plan = plan
  BY DEF GatesOf, Gates
<1>2. resolved.obligations = initial.obligations /\ resolved.constraints = initial.constraints
  BY ResolutionKeepsControls
<1> HIDE DEF initial, resolved
<1>3. /\ ProjectRuntimeControls(resolved) = ProjectRuntimeControls(initial)
      /\ Projectable(resolved) <=> Projectable(initial)
  BY <1>2, ProjectionOfControls
<1>4. \/ plan.controls = ProjectRuntimeControls(resolved)
      \/ plan.controls = DefaultControls
  BY DEF AdmitPolicyExecution
<1>5. plan.allowed =>
        Projectable(resolved) /\ plan.controls = ProjectRuntimeControls(resolved)
  <2> DEFINE allows == resolved.decision \in {"allow", "allow_with_obligations"}
             blockers == resolved.blockers
                         \cup (IF allows THEN {} ELSE {resolved.reason})
                         \cup (IF allows /\ ~Projectable(resolved)
                               THEN {"unprojectable_policy_control"} ELSE {})
  <2>1. /\ plan.allowed = (blockers = {})
        /\ plan.controls = IF allows /\ Projectable(resolved)
                           THEN ProjectRuntimeControls(resolved) ELSE DefaultControls
    BY DEF AdmitPolicyExecution
  <2>2. blockers = {} => allows /\ Projectable(resolved)
    OBVIOUS
  <2> HIDE DEF plan, blockers
  <2> QED
    BY <2>1, <2>2
<1> QED
  BY <1>1, <1>3, <1>4, <1>5

-----------------------------------------------------------------------------
(* Nothing was activated or granted before the first step. *)
LEMMA GrantInit == Init => GrantInv
BY DEF Init, NewCall, GrantInv, OneActivePerEpoch, InForce, ActivationWasInForce, GrantIsAuthorized

(* A step of one call keeps the grants of the others. *)
LEMMA OneCallGrant ==
  ASSUME GrantInv, NEW c \in Calls, UNCHANGED hostVars,
         \A d \in Calls \ {c} : call'[d] = call[d],
         (ActivationWasInForce(call[c]) /\ GrantIsAuthorized(call[c]))'
  PROVE  GrantInv'
<1>1. OneActivePerEpoch'
  BY DEF GrantInv, OneActivePerEpoch, InForce, hostVars
<1>2. \A d \in Calls \ {c} : (ActivationWasInForce(call[d]) /\ GrantIsAuthorized(call[d]))'
  BY DEF GrantInv, ActivationWasInForce, GrantIsAuthorized, InForce, hostVars
<1> QED
  BY <1>1, <1>2 DEF GrantInv

(* A binding that comes into force is the first of its epoch, or is not    *)
(* active.                                                                 *)
LEMMA ChangeKeepsEpochs ==
  ASSUME EvidenceInv, GrantInv, NEW b \in Bindings, ChangeBinding(b)
  PROVE  GrantInv'
<1>1. /\ binding \in Bindings /\ DOMAIN retiredAt = Bindings /\ now # Never
      /\ \A d \in Bindings : Epoch(d) \in Nat
  BY BindingAssumption, TimesBeforeNever DEF EvidenceInv, TypeOK, Epoch
<1>2. \A d \in Bindings : InForce(d)' <=> d = b \/ InForce(d)
  BY <1>1 DEF ChangeBinding, InForce
<1>3. ASSUME NEW d \in Bindings, InForce(d), Epoch(d) = Epoch(b),
             Binding[d].status = "active", Binding[b].status = "active"
      PROVE  FALSE
  <2>1. Epoch(b) > Epoch(binding)
    BY <1>3 DEF ChangeBinding, Supersedes, Epoch
  <2>2. d = binding \/ Epoch(d) < Epoch(binding) \/ Epoch(d) = Epoch(binding)
    BY <1>3 DEF InForce, EvidenceInv, RetiredStaysRetired
  <2> QED
    BY <1>1, <1>3, <2>1, <2>2
<1>4. OneActivePerEpoch'
  BY <1>2, <1>3 DEF GrantInv, OneActivePerEpoch, Epoch
<1>5. call' = call
  BY DEF ChangeBinding
<1>6. ASSUME NEW c \in Calls PROVE (ActivationWasInForce(call[c]) /\ GrantIsAuthorized(call[c]))'
  <2>1. ActivationWasInForce(call[c]) /\ GrantIsAuthorized(call[c])
    BY DEF GrantInv
  <2>2. GrantIsAuthorized(call[c])'
    BY <1>5, <2>1 DEF GrantIsAuthorized
  <2>3. ActivationWasInForce(call[c])'
    BY <1>2, <1>5, <2>1 DEF ActivationWasInForce, ActiveBindings
  <2> QED
    BY <2>2, <2>3
<1> QED
  BY <1>4, <1>6 DEF GrantInv

(* The inductive step. *)
LEMMA GrantNext == EvidenceInv /\ GrantInv /\ [Next]_vars => GrantInv'
<1> SUFFICES ASSUME EvidenceInv, GrantInv, [Next]_vars PROVE GrantInv'
  OBVIOUS
<1>t. TypeOK
  BY DEF EvidenceInv
<1>1. ASSUME UNCHANGED <<binding, retiredAt, call>> PROVE GrantInv'
  BY <1>1 DEF GrantInv, OneActivePerEpoch, InForce, ActivationWasInForce, GrantIsAuthorized
<1>2. CASE Tick \/ (\E a \in ApprovalIds \cap Revocable : RevokeApproval(a)) \/ UNCHANGED vars
  BY <1>1, <1>2 DEF Tick, RevokeApproval, vars
<1>3. ASSUME NEW c \in Calls, NEW r \in Requests, NEW n \in Nonces \cup {NoNonce},
             NEW t \in Lifetimes, Begin(c, r, n, t)
      PROVE  GrantInv'
  <2>1. /\ call'[c].stage \in {"validated", "raised"} /\ UNCHANGED hostVars
        /\ \A d \in Calls \ {c} : call'[d] = call[d]
    BY <1>3, <1>t DEF Begin, NewCall, TypeOK
  <2> QED
    BY <2>1, OneCallGrant DEF ActivationWasInForce, GrantIsAuthorized
<1>4. ASSUME NEW c \in Calls, ReadActivation(c) PROVE GrantInv'
  <2> DEFINE q == Request[call[c].request]
  <2>1. /\ call'[c].stage \in {"activated", "raised"} /\ UNCHANGED hostVars
        /\ call'[c].request = call[c].request
        /\ call'[c].stage = "activated" => call'[c].activation = binding
        /\ \A d \in Calls \ {c} : call'[d] = call[d]
    BY <1>4, <1>t DEF ReadActivation, TypeOK, CallRecords
  <2>2. call'[c].stage = "activated" =>
          ActivationCovers(Binding[binding], q, call[c].evaluated_at)
    BY <1>4, <1>t DEF ReadActivation, TypeOK, CallRecords
  <2>3. call'[c].stage = "activated" => binding \in ActiveBindings(q)
    BY <2>2, <1>t DEF ActivationCovers, ActiveBindings, TypeOK
  <2>4. ActivationWasInForce(call[c])'
    BY <2>1, <2>3 DEF ActivationWasInForce, InForce, hostVars
  <2> QED
    BY <2>1, <2>4, OneCallGrant DEF GrantIsAuthorized
<1>5. ASSUME NEW c \in Calls, ValidateApproval(c) PROVE GrantInv'
  <2>1. /\ call[c].stage = "activated" /\ call'[c].stage \in {"approved", "raised"}
        /\ UNCHANGED hostVars
        /\ call'[c].request = call[c].request /\ call'[c].activation = call[c].activation
        /\ \A d \in Calls \ {c} : call'[d] = call[d]
    BY <1>5, <1>t DEF ValidateApproval, TypeOK, CallRecords
  <2>2. ActivationWasInForce(call[c])'
    BY <2>1 DEF GrantInv, ActivationWasInForce, InForce, hostVars
  <2> QED
    BY <2>1, <2>2, OneCallGrant DEF GrantIsAuthorized
<1>6. ASSUME NEW c \in Calls, Decide(c) PROVE GrantInv'
  <2> DEFINE ev == call[c]
             g == GatesOf[ev.request]
             outcome == DecisionOutcome(g)
             raises == \/ g.scope = "raised"
                       \/ outcome.status = "allowed" /\ ~AuthorizationOk(ev)
             d == Decision(ev, outcome, g.plan)
             next == [ev EXCEPT !.stage = IF raises THEN "raised" ELSE "decided",
                                !.decision = IF raises THEN NoDecision ELSE d]
  <2>1. /\ call' = [call EXCEPT ![c] = next] /\ UNCHANGED hostVars
        /\ call[c] \in CallRecords /\ ev.stage = "approved"
    BY <1>6, <1>t DEF Decide, TypeOK
  <2>2. /\ next.stage = (IF raises THEN "raised" ELSE "decided")
        /\ next.decision = (IF raises THEN NoDecision ELSE d)
        /\ next.request = ev.request /\ next.evaluated_at = ev.evaluated_at
        /\ next.nonce = ev.nonce /\ next.expires_at = ev.expires_at
        /\ next.activation = ev.activation
    BY <2>1 DEF CallRecords
  <2>3. /\ d.status = outcome.status
        /\ d.status = "allowed" => d.grant.expires_at = ev.expires_at
    BY DEF Decision
  <2>4. AuthorizationOk(ev) => AuthorizationOk(next)
    <3> HIDE DEF next
    <3> QED  BY <2>2 DEF AuthorizationOk
  <2> HIDE DEF next, d, outcome, g
  <2>5. /\ call'[c] = next /\ \A e \in Calls \ {c} : call'[e] = call[e]
    BY <2>1, <1>t DEF TypeOK
  <2>6. GrantIsAuthorized(next)
    BY <2>2, <2>3, <2>4 DEF GrantIsAuthorized
  <2>7. GrantIsAuthorized(call[c])'
    BY <2>5, <2>6 DEF GrantIsAuthorized
  <2>8. ActivationWasInForce(call[c])'
    BY <2>1, <2>2, <2>5 DEF GrantInv, ActivationWasInForce, InForce, hostVars
  <2> QED
    BY <2>1, <2>5, <2>7, <2>8, OneCallGrant
<1> QED
  BY <1>2, <1>3, <1>4, <1>5, <1>6, ChangeKeepsEpochs DEF Next, Host, Evaluation
-----------------------------------------------------------------------------
(* Typed admissions.                                                       *)

(* The initial state satisfies the inductive invariant. *)
LEMMA TypedInit == TInit => TypedInv
<1> SUFFICES ASSUME TInit PROVE TypedInv
  OBVIOUS
<1>1. EvidenceInv
  BY EvidenceInit DEF TInit
<1>2. \A c \in Calls : InStep(c) /\ OfItsInput(c) /\ IsProjection(c) /\ AcceptedAsReturned(c)
  BY DEF TInit, Init, NewCall, NoAdmission, InStep, OfItsInput, IsProjection, AcceptedAsReturned
<1> QED
  BY <1>1, <1>2 DEF TypedInv, TInit

(* A call whose inputs do not belong together raises before it evaluates,  *)
(* which keeps what the evaluations rest on.                               *)
LEMMA RefuseKeepsEvidence ==
  ASSUME EvidenceInv, NEW c \in Calls, NEW r \in UnfitRequests, RefuseInput(c, r)
  PROVE  EvidenceInv'
<1>1. r \in Requests
  BY DEF UnfitRequests, Inputs
<1>2. call[c] \in CallRecords /\ TypeOK
  BY DEF EvidenceInv, TypeOK
<1> DEFINE ev == [call[c] EXCEPT !.stage = "raised", !.request = r]
<1>3. ev \in CallRecords /\ ev.stage = "raised" /\ ev.request \in Requests
  BY <1>1, <1>2 DEF CallRecords, Stages
<1>4. call' = [call EXCEPT ![c] = ev] /\ UNCHANGED hostVars
  BY <1>2 DEF RefuseInput, TypeOK
<1>5. TypeOK'
  BY <1>2, <1>3, <1>4, OneCallTyped
<1>6. call'[c] = ev /\ \A d \in Calls \ {c} : call'[d] = call[d]
  BY <1>2, <1>4 DEF TypeOK
<1>7. ev.evaluated_at = call[c].evaluated_at
  BY <1>2 DEF CallRecords
<1>8. CallEvidence(call[c])'
  BY <1>3, <1>4, <1>6, <1>7 DEF EvidenceInv, CallEvidence, BegunInThePast, ActivationWasCurrent,
       ApprovalWasCurrent, OnlyValidRequestsProceed, DecisionFollowsGates, hostVars
<1> QED
  BY <1>4, <1>5, <1>6, <1>8, OneCallEvidence

(* Every step keeps what the evaluations rest on. *)
LEMMA TypedKeepsEvidence == EvidenceInv /\ [TNext]_tvars => EvidenceInv'
<1> SUFFICES ASSUME EvidenceInv, [TNext]_tvars PROVE EvidenceInv'
  OBVIOUS
<1>1. CASE [Next]_vars
  BY <1>1, EvidenceNext
<1>2. CASE \E c \in Calls : \E r \in UnfitRequests : RefuseInput(c, r)
  BY <1>2, RefuseKeepsEvidence
<1>3. ASSUME NEW c \in Calls, NEW x \in AdmissibleInputs, NEW n \in Nonces \cup {NoNonce},
             NEW l \in Lifetimes, NEW w \in Delays, BeginAdmission(c, x, n, l, w)
      PROVE  [Next]_vars
  <2>1. x.request \in Requests
    BY DEF AdmissibleInputs, Inputs
  <2> QED
    BY <1>3, <2>1 DEF BeginAdmission, Next
<1> QED
  BY <1>1, <1>2, <1>3 DEF TNext, tvars, EvaluateAdmission, Validate, Next

(* A step of one call keeps what is known of the others. *)
LEMMA OthersKept ==
  ASSUME TypedInv, EvidenceInv', NEW c \in Calls,
         DOMAIN admission' = Calls, DOMAIN accepted' = Calls,
         \A d \in Calls \ {c} :
           call'[d] = call[d] /\ admission'[d] = admission[d] /\ accepted'[d] = accepted[d],
         (InStep(c) /\ OfItsInput(c) /\ IsProjection(c) /\ AcceptedAsReturned(c))'
  PROVE  TypedInv'
<1> SUFFICES ASSUME NEW d \in Calls
             PROVE  (InStep(d) /\ OfItsInput(d) /\ IsProjection(d) /\ AcceptedAsReturned(d))'
  BY DEF TypedInv
<1>1. InStep(d) /\ OfItsInput(d) /\ IsProjection(d) /\ AcceptedAsReturned(d)
  BY DEF TypedInv
<1> QED
  BY <1>1 DEF InStep, OfItsInput, IsProjection, AcceptedAsReturned

(* An admission that was not accepted before the step is not after it. *)
LEMMA NotReturnedNotAccepted ==
  ASSUME TypedInv, NEW c \in Calls, admission[c].stage # "returned"
  PROVE  accepted[c] = NeverAccepted
BY DEF TypedInv, AcceptedAsReturned

(* An evaluation that takes a step was under way and keeps its request; no *)
(* other call moves.                                                       *)
LEMMA EvaluationMoves ==
  ASSUME TypeOK, NEW c \in Calls, Evaluation(c)
  PROVE  /\ call[c].stage \in {"validated", "activated", "approved"}
         /\ call'[c].stage \in {"activated", "approved", "decided", "raised"}
         /\ call'[c].request = call[c].request
         /\ \A d \in Calls \ {c} : call'[d] = call[d]
BY DEF Evaluation, ReadActivation, ValidateApproval, Decide, TypeOK, CallRecords

(* The adapter's evaluation step: it goes on, raises, or returns the       *)
(* projection of the decision that was just made, once that validated.     *)
LEMMA EvaluateKeepsTyped ==
  ASSUME TypedInv, EvidenceInv', NEW c \in Calls, EvaluateAdmission(c)
  PROVE  TypedInv'
<1> DEFINE adm == admission[c]
           d == call'[c].decision
           a == AdmissionOf(adm.input, d, adm.admitted_at)
<1>1. /\ call[c].stage \in {"validated", "activated", "approved"}
      /\ call'[c].stage \in {"activated", "approved", "decided", "raised"}
      /\ call'[c].request = call[c].request
      /\ \A e \in Calls \ {c} : call'[e] = call[e]
  BY EvaluationMoves DEF EvaluateAdmission, TypedInv, EvidenceInv
<1>2. /\ DOMAIN admission = Calls /\ DOMAIN accepted = Calls
      /\ InStep(c) /\ OfItsInput(c)
  BY DEF TypedInv
<1>3. adm.stage = "evaluating"
  BY <1>1, <1>2 DEF InStep
<1>4. accepted' = accepted /\ accepted[c] = NeverAccepted
  BY <1>3, NotReturnedNotAccepted DEF EvaluateAdmission
<1>5. AcceptedAsReturned(c)'
  BY <1>4 DEF AcceptedAsReturned
<1>6. CASE call'[c].stage = "raised"
  <2>1. admission' = [admission EXCEPT ![c] = Refused]
    BY <1>6 DEF EvaluateAdmission
  <2>2. (InStep(c) /\ OfItsInput(c) /\ IsProjection(c))'
    BY <1>2, <1>6, <2>1 DEF Refused, InStep, OfItsInput, IsProjection
  <2> QED
    BY <1>1, <1>2, <1>4, <1>5, <2>1, <2>2, OthersKept
<1>7. CASE call'[c].stage \in {"activated", "approved"}
  <2>1. admission' = admission
    BY <1>7 DEF EvaluateAdmission
  <2>2. (InStep(c) /\ OfItsInput(c) /\ IsProjection(c))'
    BY <1>1, <1>2, <1>3, <1>7, <2>1 DEF InStep, OfItsInput, IsProjection
  <2> QED
    BY <1>1, <1>2, <1>4, <1>5, <2>1, <2>2, OthersKept
<1>8. CASE call'[c].stage = "decided"
  <2>1. admission' = [admission EXCEPT ![c] = Projected(adm, d)]
    BY <1>8 DEF EvaluateAdmission
  <2>2. admission'[c] = Projected(adm, d)
    BY <1>2, <2>1
  <2>3. CASE ~Validates(a, adm.input, d, adm.admitted_at)
    <3>1. Projected(adm, d) = Refused
      BY <2>3 DEF Projected
    <3>2. (InStep(c) /\ OfItsInput(c) /\ IsProjection(c))'
      BY <1>8, <2>2, <3>1 DEF Refused, InStep, OfItsInput, IsProjection
    <3> QED
      BY <1>1, <1>2, <1>4, <1>5, <2>1, <3>2, OthersKept
  <2>4. CASE Validates(a, adm.input, d, adm.admitted_at)
    <3>1. Projected(adm, d) = [stage |-> "returned", input |-> adm.input, record |-> a]
      BY <2>4 DEF Projected
    <3>2. a.admitted_at = adm.admitted_at
      BY DEF AdmissionOf
    <3>3. IsProjection(c)'
      <4> HIDE DEF a, d
      <4> SUFFICES /\ a = AdmissionOf(adm.input, d, a.admitted_at)
                   /\ Validates(a, adm.input, d, a.admitted_at)
        BY <2>2, <3>1 DEF IsProjection, d
      <4> QED
        BY <2>4, <3>2 DEF a
    <3>4. (InStep(c) /\ OfItsInput(c))'
      BY <1>1, <1>2, <1>3, <1>8, <2>2, <3>1 DEF InStep, OfItsInput
    <3> QED
      BY <1>1, <1>2, <1>4, <1>5, <2>1, <3>3, <3>4, OthersKept
  <2> QED
    BY <2>3, <2>4
<1> QED
  BY <1>1, <1>6, <1>7, <1>8
(* The inductive step. *)
LEMMA TypedNext == TypedInv /\ [TNext]_tvars => TypedInv'
<1> SUFFICES ASSUME TypedInv, [TNext]_tvars PROVE TypedInv'
  OBVIOUS
<1>e. EvidenceInv /\ TypeOK /\ EvidenceInv'
  BY TypedKeepsEvidence DEF TypedInv, EvidenceInv
<1>d. DOMAIN admission = Calls /\ DOMAIN accepted = Calls /\ DOMAIN call = Calls
  BY <1>e DEF TypedInv, TypeOK
<1>1. CASE UNCHANGED <<call, admission, accepted>>
  BY <1>e, <1>1 DEF TypedInv, InStep, OfItsInput, IsProjection, AcceptedAsReturned
<1>2. ASSUME NEW c \in Calls, NEW x \in AdmissibleInputs, NEW n \in Nonces \cup {NoNonce},
             NEW l \in Lifetimes, NEW w \in Delays, BeginAdmission(c, x, n, l, w)
      PROVE  TypedInv'
  <2>1. x.request \in ValidRequests
    BY DEF AdmissibleInputs, Admissible
  <2>2. /\ call[c].stage = "idle"
        /\ call'[c].stage = "validated" /\ call'[c].request = x.request
        /\ \A d \in Calls \ {c} : call'[d] = call[d]
    BY <1>2, <1>d, <2>1 DEF BeginAdmission, Begin, NewCall
  <2>3. admission[c].stage # "returned"
    BY <2>2 DEF TypedInv, InStep
  <2>4. accepted' = accepted /\ accepted[c] = NeverAccepted
    BY <1>2, <2>3, NotReturnedNotAccepted DEF BeginAdmission
  <2>5. /\ DOMAIN admission' = Calls
        /\ admission'[c].stage = "evaluating" /\ admission'[c].input = x
        /\ \A d \in Calls \ {c} : admission'[d] = admission[d]
    BY <1>2, <1>d DEF BeginAdmission
  <2>6. (InStep(c) /\ OfItsInput(c) /\ IsProjection(c) /\ AcceptedAsReturned(c))'
    BY <2>2, <2>4, <2>5 DEF InStep, OfItsInput, IsProjection, AcceptedAsReturned
  <2> QED
    BY <1>d, <1>e, <2>2, <2>4, <2>5, <2>6, OthersKept
<1>3. ASSUME NEW c \in Calls, NEW r \in UnfitRequests, RefuseInput(c, r) PROVE TypedInv'
  <2>1. /\ call[c].stage = "idle" /\ call'[c].stage = "raised"
        /\ \A d \in Calls \ {c} : call'[d] = call[d]
    BY <1>3, <1>d, <1>e DEF RefuseInput, TypeOK, CallRecords
  <2>2. admission[c].stage # "returned"
    BY <2>1 DEF TypedInv, InStep
  <2>3. accepted' = accepted /\ accepted[c] = NeverAccepted
    BY <1>3, <2>2, NotReturnedNotAccepted DEF RefuseInput
  <2>4. /\ DOMAIN admission' = Calls /\ admission'[c].stage = "raised"
        /\ \A d \in Calls \ {c} : admission'[d] = admission[d]
    BY <1>3, <1>d DEF RefuseInput, Refused
  <2>5. (InStep(c) /\ OfItsInput(c) /\ IsProjection(c) /\ AcceptedAsReturned(c))'
    BY <2>1, <2>3, <2>4 DEF InStep, OfItsInput, IsProjection, AcceptedAsReturned
  <2> QED
    BY <1>d, <1>e, <2>1, <2>3, <2>4, <2>5, OthersKept
<1>4. ASSUME NEW c \in Calls, EvaluateAdmission(c) PROVE TypedInv'
  BY <1>4, <1>e, EvaluateKeepsTyped
<1>5. ASSUME NEW c \in Calls, NEW d \in Calls, NEW x \in AdmissibleInputs,
             admission[c].stage = "returned", Validate(c, d, x)
      PROVE  TypedInv'
  <2>1. /\ admission[c].record.binds = Binds(x.typed, x.request, call[d].decision)
        /\ UNCHANGED <<call, admission>>
    BY <1>5 DEF Validate, Validates, vars
  <2>2. /\ DOMAIN accepted' = Calls
        /\ accepted'[c] = [typed |-> x.typed, request |-> x.request,
                            decision |-> call[d].decision, at |-> now]
        /\ \A e \in Calls \ {c} : accepted'[e] = accepted[e]
    BY <1>5, <1>d DEF Validate
  <2>3. InStep(c) /\ OfItsInput(c) /\ IsProjection(c)
    BY DEF TypedInv
  <2>4. (InStep(c) /\ OfItsInput(c) /\ IsProjection(c))'
    BY <2>1, <2>3 DEF InStep, OfItsInput, IsProjection
  <2>5. AcceptedAsReturned(c)'
    BY <1>5, <2>1, <2>2 DEF AcceptedAsReturned
  <2> QED
    BY <1>d, <1>e, <2>1, <2>2, <2>4, <2>5, OthersKept
<1> QED
  BY <1>1, <1>2, <1>3, <1>4, <1>5
  DEF TNext, tvars, vars, Host, Tick, ChangeBinding, RevokeApproval

(* The invariant behind the four theorems holds in every state. *)
LEMMA TypedInvariant == TSpec => []TypedInv
BY TypedInit, TypedNext, PTL DEF TSpec

(* An admission is accepted only with the records it was made of, even     *)
(* when another call decided the same request                              *)
(* (validate_typed_execution_governed_admission).                          *)
THEOREM AcceptedExactly == TSpec => []AcceptedAdmissionIsExact
<1>1. ASSUME TypedInv, NEW c \in Calls, accepted[c] # NeverAccepted
      PROVE  /\ accepted[c].typed = admission[c].input.typed
             /\ accepted[c].request = call[c].request
             /\ accepted[c].decision = call[c].decision
  <2>1. /\ admission[c].stage = "returned"
        /\ Binds(accepted[c].typed, accepted[c].request, accepted[c].decision)
             = admission[c].record.binds
        /\ admission[c].input.request = call[c].request
    BY <1>1 DEF TypedInv, AcceptedAsReturned, OfItsInput
  <2>2. admission[c].record.binds
          = Binds(admission[c].input.typed, admission[c].input.request, call[c].decision)
    BY <1>1, <2>1 DEF TypedInv, IsProjection, Validates
  <2> QED
    BY <2>1, <2>2 DEF Binds
<1>2. TypedInv => AcceptedAdmissionIsExact
  BY <1>1 DEF AcceptedAdmissionIsExact
<1> QED
  BY <1>2, TypedInvariant, PTL

(* What an admission that passed rests on: its inputs belong together, its *)
(* decision blocks nothing at the time it names, and it was approved.      *)
LEMMA PassedRestsOn ==
  ASSUME TypedInv, NEW c \in Calls, Passed(c)
  PROVE  LET x == admission[c].input
             a == admission[c].record
         IN  /\ x \in AdmissibleInputs /\ x.request = call[c].request
             /\ x.request \in Requests
             /\ call[c].stage = "decided" /\ call[c].decision \in DecisionRecords
             /\ Request[x.request].approval # NoApproval
             /\ Validates(a, x, call[c].decision, a.admitted_at)
             /\ a.version = x.version /\ a.blockers = {}
             /\ DecisionBlockers(x.version, Typed[x.typed], call[c].decision, a.admitted_at) = {}
<1> DEFINE x == admission[c].input
           a == admission[c].record
<1>1. /\ admission[c].stage = "returned" /\ a.status = "passed"
      /\ x \in AdmissibleInputs /\ x.request = call[c].request
      /\ a = AdmissionOf(x, call[c].decision, a.admitted_at)
      /\ Validates(a, x, call[c].decision, a.admitted_at)
      /\ call[c].stage = "decided"
  BY DEF Passed, TypedInv, OfItsInput, IsProjection, InStep
<1>2. x.request \in Requests
  BY <1>1 DEF AdmissibleInputs, Inputs
<1>3. call[c].decision \in DecisionRecords
  BY <1>1 DEF TypedInv, EvidenceInv, TypeOK
<1>4. /\ a.blockers = {} /\ a.approved /\ x.version = a.version
      /\ a.blockers = DecisionBlockers(a.version, Typed[x.typed], call[c].decision, a.admitted_at)
  BY <1>1 DEF Validates, ValidAdmissionShape
<1>5. a.approved = (Request[x.request].approval # NoApproval)
  BY <1>1 DEF AdmissionOf
<1> QED
  BY <1>1, <1>2, <1>3, <1>4, <1>5

(* Whoever approved a mutation that passes approved this typed request in  *)
(* this mode: the digests chain the attestation to it                      *)
(* (_validate_typed_governance_request_binding, approval_subject_digest).  *)
THEOREM ApprovalNamesTheTypedRequest == TSpec => []ApprovedAsTyped
<1>1. ASSUME TypedInv, NEW c \in Calls, Passed(c)
      PROVE  LET metadata == RequestOf(c).approval.subject.execution_facts.content.metadata
             IN  /\ metadata.typed_request.content = Step(c)
                 /\ metadata.actual_operation_mode = admission[c].input.mode
  <2> DEFINE x == admission[c].input
             q == Request[x.request]
             t == Typed[x.typed]
  <2>1. x \in AdmissibleInputs /\ x.request = call[c].request /\ q.approval # NoApproval
    BY <1>1, PassedRestsOn
  <2>2. ValidRequest(q) /\ RequestBinding(t, q, x.mode)
    BY <2>1 DEF AdmissibleInputs, Admissible, ValidRequests
  <2>3. q.approval.subject = SubjectRecord(q) /\ q.digests = ClaimedDigests(q)
    BY <2>1, <2>2 DEF ValidRequest, ApprovalBoundTo
  <2>4. q.approval.subject.execution_facts = Digest("execution_facts", q.execution_facts)
    BY <2>3 DEF SubjectRecord, ClaimedDigests
  <2>5. q.approval.subject.execution_facts.content = q.execution_facts
    BY <2>4 DEF Digest
  <2>6. /\ q.execution_facts.metadata.typed_request.content = t
        /\ q.execution_facts.metadata.actual_operation_mode = x.mode
    BY <2>2 DEF RequestBinding, TypedDigest, Digest
  <2> QED
    BY <2>1, <2>5, <2>6 DEF RequestOf, Step
<1>2. TypedInv => ApprovedAsTyped
  BY <1>1 DEF ApprovedAsTyped
<1> QED
  BY <1>2, TypedInvariant, PTL

(* Nothing in the decision blocks it exactly when it allows, controls a    *)
(* plugin exactly, and has not expired.                                    *)
LEMMA NoDecisionBlocker ==
  ASSUME NEW version, NEW t, NEW d, NEW at
  PROVE  DecisionBlockers(version, t, d, at) = {} <=>
           /\ d.status = "allowed"
           /\ version = "v0.2" => PluginControlled(t, d.controls)
           /\ ~Expired(d, at)
<1> DEFINE denied == d.status # "allowed"
           loose == version = "v0.2" /\ ~PluginControlled(t, d.controls)
           checks == [governance_decision_not_allowed |-> denied,
                      plugin_policy_control_mismatch |-> loose,
                      governance_decision_expired |-> Expired(d, at)]
<1>1. DecisionBlockers(version, t, d, at) = {b \in DOMAIN checks : checks[b]}
  BY Zenon DEF DecisionBlockers, Failing
<1>2. denied \in BOOLEAN /\ loose \in BOOLEAN /\ Expired(d, at) \in BOOLEAN
  BY DEF Expired
<1>3. {b \in DOMAIN checks : checks[b]} = {} <=> ~denied /\ ~loose /\ ~Expired(d, at)
  <2> HIDE DEF denied, loose
  <2> QED  BY <1>2, SMT
<1> QED
  BY <1>1, <1>3

(* An admission that passed validates from the time it names until its     *)
(* grant expires, and not a moment longer.                                 *)
THEOREM ValidExactlyUntilExpiry == TSpec => []ValidUntilGrantExpires
<1>1. ASSUME TypedInv, NEW c \in Calls, Passed(c)
      PROVE  LET a == admission[c].record
                 grant == call[c].decision.grant
             IN  Validates(a, admission[c].input, call[c].decision, now)
                   <=> a.admitted_at <= now /\ now < grant.expires_at
  <2> DEFINE x == admission[c].input
             a == admission[c].record
             d == call[c].decision
             t == Typed[x.typed]
  <2>1. /\ d \in DecisionRecords
        /\ Validates(a, x, d, a.admitted_at)
        /\ a.version = x.version /\ a.blockers = {}
        /\ DecisionBlockers(x.version, t, d, a.admitted_at) = {}
    BY <1>1, PassedRestsOn
  <2>2. now \in Nat /\ d.grant.expires_at \in Nat
    BY <1>1, <2>1, TimeAssumption
       DEF TypedInv, EvidenceInv, TypeOK, Times, DecisionRecords, Grants
  <2>3. Validates(a, x, d, now) <=>
          a.admitted_at <= now /\ DecisionBlockers(x.version, t, d, now) = {}
    BY <2>1 DEF Validates
  <2>4. d.status = "allowed" /\ (x.version = "v0.2" => PluginControlled(t, d.controls))
    BY <2>1, NoDecisionBlocker
  <2>5. DecisionBlockers(x.version, t, d, now) = {} <=> ~(now >= d.grant.expires_at)
    BY <2>4, NoDecisionBlocker DEF Expired
  <2> QED
    BY <2>2, <2>3, <2>5
<1>2. TypedInv => ValidUntilGrantExpires
  BY <1>1 DEF ValidUntilGrantExpires
<1> QED
  BY <1>2, TypedInvariant, PTL-----------------------------------------------------------------------------
(* A check that fails is a blocker of the step. *)
LEMMA FailedCheckBlocks ==
  ASSUME NEW t, NEW b \in DOMAIN CompatibilityChecks(t), CompatibilityChecks(t)[b]
  PROVE  b \in TypedBlockers(t)
BY DEF TypedBlockers, CompatibilityBlockers, Failing

(* What the compatibility checks of a typed step refuse. *)
LEMMA RefusedFor ==
  ASSUME NEW t
  PROVE  /\ ~t.receipt_required => "receipt_required" \in TypedBlockers(t)
         /\ (\E s \in t.descriptor.secrets : s.required /\ ~s.present)
              => "secret_ref_requirements_met" \in TypedBlockers(t)
         /\ MissingCapabilities(t) # {}
              => "missing_required_capability_descriptors" \in TypedBlockers(t)
         /\ t.backend_class \in RawShellBackendClasses
              => "raw_shell_backend_blocked" \in TypedBlockers(t)
         /\ t.backend_class \notin SupportedBackendClasses \cup RawShellBackendClasses
              => "unsupported_backend_class" \in TypedBlockers(t)
         /\ ~NetworkMatches(t)
              => \/ "network_policy_binding_missing" \in TypedBlockers(t)
                 \/ "network_boundary_mismatch" \in TypedBlockers(t)
<1> DEFINE checks == CompatibilityChecks(t)
<1>1. {"receipt_required", "secret_ref_requirements_met", "raw_shell_backend_blocked",
       "missing_required_capability_descriptors", "unsupported_backend_class",
       "network_policy_binding_missing", "network_boundary_mismatch"} \subseteq DOMAIN checks
  BY DEF CompatibilityChecks
<1>2. ~t.receipt_required => checks["receipt_required"]
  BY DEF CompatibilityChecks
<1>3. (\E s \in t.descriptor.secrets : s.required /\ ~s.present)
         => checks["secret_ref_requirements_met"]
  BY DEF CompatibilityChecks
<1>4. MissingCapabilities(t) # {} => checks["missing_required_capability_descriptors"]
  BY DEF CompatibilityChecks
<1>5. t.backend_class \in RawShellBackendClasses => checks["raw_shell_backend_blocked"]
  BY DEF CompatibilityChecks
<1>6. t.backend_class \notin SupportedBackendClasses \cup RawShellBackendClasses
        => checks["unsupported_backend_class"]
  BY DEF CompatibilityChecks
<1>7. ~NetworkMatches(t) => \/ checks["network_policy_binding_missing"]
                            \/ checks["network_boundary_mismatch"]
  BY DEF CompatibilityChecks
<1> HIDE DEF checks
<1> QED
  BY <1>1, <1>2, <1>3, <1>4, <1>5, <1>6, <1>7, FailedCheckBlocks DEF checks

(* A step whose egress leaves the host matches only through a network      *)
(* policy that allows it.                                                  *)
LEMMA NetworkNeedsPolicy ==
  ASSUME NEW t, NetworkMatches(t), Egress(t) \in NetworkEgress
  PROVE  t.network_policy # NoNetworkPolicy /\ Egress(t) \in t.network_policy.egress
BY DEF NetworkMatches, LocalEgress, NetworkEgress

(* An uncertified backend that passes is one the rule names exactly.       *)
LEMMA PluginIsNamed ==
  ASSUME TypedInv, NEW c \in Calls, Passed(c), admission[c].input.version = "v0.2"
  PROVE  ExactlyNamed(c)
<1> DEFINE x == admission[c].input
           t == Typed[x.typed]
           q == Request[x.request]
           d == call[c].decision
           at == admission[c].record.admitted_at
           controls == GatesOf[x.request].plan.controls
<1>1. /\ x \in AdmissibleInputs /\ x.request = call[c].request /\ x.request \in Requests
      /\ call[c].stage = "decided"
      /\ DecisionBlockers(x.version, t, d, at) = {}
  BY PassedRestsOn
<1>2. PluginControlled(t, d.controls)
  BY <1>1, NoDecisionBlocker
<1>3. d.controls = controls
  BY <1>1 DEF TypedInv, EvidenceInv, CallEvidence, DecisionFollowsGates
<1>4. /\ controls.allowed_backend_classes = {Item(t.descriptor.backend_class)}
      /\ controls.allowed_network_egress = {Item(t.descriptor.egress_class)}
  BY <1>2, <1>3 DEF PluginControlled
<1>5. /\ Allowlist(GatesOf[x.request].initial, "allowed_backend_classes")
           = {Item(t.descriptor.backend_class)}
      /\ Allowlist(GatesOf[x.request].initial, "allowed_network_egress")
           = {Item(t.descriptor.egress_class)}
  <2> DEFINE initial == GatesOf[x.request].initial
  <2>1. controls = ProjectRuntimeControls(initial) \/ controls = DefaultControls
    BY <1>1, PlanControls
  <2>2. controls = ProjectRuntimeControls(initial)
    BY <1>4, <2>1 DEF DefaultControls
  <2> HIDE DEF controls, initial
  <2>3. /\ controls.allowed_backend_classes = Allowlist(initial, "allowed_backend_classes")
        /\ controls.allowed_network_egress = Allowlist(initial, "allowed_network_egress")
    BY <2>2 DEF ProjectRuntimeControls
  <2> QED
    BY <1>4, <2>3 DEF initial
<1>6. ValidTyped(t) /\ PluginPosture(t, q)
  BY <1>1 DEF AdmissibleInputs, Admissible
<1>7. Egress(t) = t.descriptor.egress_class
  BY <1>6 DEF PluginPosture, Egress
<1>8. t.backend_class = t.descriptor.backend_class
  BY <1>6 DEF ValidTyped, ConsistentTyped
<1>9. /\ t.backend_class \in q.inventory.backend_classes
      /\ t.required_capabilities \subseteq q.inventory.capabilities
  BY <1>6, <1>8 DEF PluginPosture
<1> QED
  BY <1>1, <1>5, <1>7, <1>9 DEF ExactlyNamed, Step, RequestOf

(* The adapter lifts the approval requirement and nothing else             *)
(* (_validate_typed_mutation_precheck, _governed_v02_decision_blockers,    *)
(* project_runtime_controls).                                              *)
THEOREM LiftsOnlyApproval == TSpec => []OnlyApprovalIsLifted
<1>1. ASSUME TypedInv, NEW c \in Calls, Passed(c)
      PROVE  LET t == Step(c)
             IN  /\ t.receipt_required
                 /\ \A s \in t.descriptor.secrets : s.required => s.present
                 /\ MissingCapabilities(t) = {}
                 /\ Egress(t) \in NetworkEgress =>
                      t.network_policy # NoNetworkPolicy /\ Egress(t) \in t.network_policy.egress
                 /\ t.backend_class \notin RawShellBackendClasses
                 /\ t.backend_class \in SupportedBackendClasses \/ ExactlyNamed(c)
  <2> DEFINE x == admission[c].input
             t == Typed[x.typed]
  <2>1. TypedBlockers(t) \subseteq Discountable(x.version)
    BY <1>1, PassedRestsOn DEF AdmissibleInputs, Admissible, Precheck
  <2>2. /\ {"receipt_required", "secret_ref_requirements_met", "raw_shell_backend_blocked",
            "missing_required_capability_descriptors", "network_policy_binding_missing",
            "network_boundary_mismatch"} \cap TypedBlockers(t) = {}
        /\ "unsupported_backend_class" \in TypedBlockers(t) => x.version = "v0.2"
    BY <2>1 DEF Discountable, ApprovalBlockers
  <2>3. /\ t.receipt_required
        /\ \A s \in t.descriptor.secrets : s.required => s.present
        /\ MissingCapabilities(t) = {}
        /\ NetworkMatches(t)
        /\ t.backend_class \notin RawShellBackendClasses
        /\ t.backend_class \in SupportedBackendClasses \/ x.version = "v0.2"
    BY <2>2, RefusedFor
  <2>4. t.backend_class \in SupportedBackendClasses \/ ExactlyNamed(c)
    BY <1>1, <2>3, PluginIsNamed
  <2> HIDE DEF t
  <2>5. Egress(t) \in NetworkEgress =>
          t.network_policy # NoNetworkPolicy /\ Egress(t) \in t.network_policy.egress
    BY <2>3, NetworkNeedsPolicy
  <2> QED
    BY <2>3, <2>4, <2>5 DEF Step, t
<1>2. TypedInv => OnlyApprovalIsLifted
  BY <1>1 DEF OnlyApprovalIsLifted
<1> QED
  BY <1>2, TypedInvariant, PTL
=============================================================================
