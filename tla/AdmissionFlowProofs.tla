------------------------ MODULE AdmissionFlowProofs ------------------------
(***************************************************************************)
(* Proofs about runtime admissions, for all records, all parts a host may  *)
(* put together, and any number of jobs, claims and answers.               *)
(***************************************************************************)
EXTENDS AdmissionFlow, FiniteSetTheorems, TLAPS
-----------------------------------------------------------------------------
(* The claim store. *)

(* A record replays itself, and whatever replays it. *)
LEMMA ReplaysBothWays ==
  ASSUME NEW r, NEW p
  PROVE  Replays(r, r) /\ (Replays(r, p) => Replays(p, r))
BY DEF Replays, SamePayload, SameGuard

(* A claim joins those made before it, and replays none of them. *)
LEMMA ClaimKeepsStore ==
  ASSUME FlowInv, NEW r \in Records, Claim(r)
  PROVE  (StoreTyped /\ ClaimsAreApart /\ FreshIsClaimed /\ FreshIsSaidOnce)'
<1>1. /\ claimed \in Seq(Records) /\ claimed' = Append(claimed, r) /\ returned' = returned
      /\ ~IsKnown(r)
  BY DEF FlowInv, StoreTyped, Claim
<1>2. /\ claimed' \in Seq(Records) /\ DOMAIN claimed' = 1..(Len(claimed) + 1)
      /\ DOMAIN claimed = 1..Len(claimed) /\ Len(claimed) \in Nat
      /\ \A k \in 1..Len(claimed) : claimed'[k] = claimed[k]
      /\ claimed'[Len(claimed) + 1] = r
  BY <1>1
<1>3. StoreTyped'
  BY <1>1, <1>2 DEF FlowInv, StoreTyped
<1>4. \A k \in DOMAIN claimed : ~Replays(r, claimed[k]) /\ ~Replays(claimed[k], r)
  BY <1>1, ReplaysBothWays DEF IsKnown
<1>5. ClaimsAreApart'
  <2> SUFFICES ASSUME NEW k \in DOMAIN claimed', NEW l \in DOMAIN claimed',
                      Replays(claimed'[k], claimed'[l])
               PROVE  k = l
    BY DEF ClaimsAreApart
  <2>1. CASE k \in DOMAIN claimed /\ l \in DOMAIN claimed
    BY <2>1, <1>2 DEF FlowInv, ClaimsAreApart
  <2>2. CASE k \in DOMAIN claimed /\ l \notin DOMAIN claimed
    BY <2>2, <1>2, <1>4
  <2>3. CASE k \notin DOMAIN claimed /\ l \in DOMAIN claimed
    BY <2>3, <1>2, <1>4
  <2> QED
    BY <2>1, <2>2, <2>3, <1>2
<1>6. \A q : IsClaimed(q) => IsClaimed(q)'
  BY <1>2 DEF IsClaimed
<1>7. FreshIsClaimed' /\ FreshIsSaidOnce'
  BY <1>1, <1>6 DEF FlowInv, FreshIsClaimed, FreshIsSaidOnce
<1> QED
  BY <1>3, <1>5, <1>7

(* An answer that says fresh is the first to say so of its claim. *)
LEMMA AnswerKeepsStore ==
  ASSUME FlowInv, NEW r \in Records, NEW require_fresh \in BOOLEAN, Answer(r, require_fresh)
  PROVE  /\ (StoreTyped /\ ClaimsAreApart /\ FreshIsClaimed /\ FreshIsSaidOnce)'
         /\ Answered \subseteq Answered'
<1>1. PICK status \in Statuses :
        /\ status = "fresh" => IsClaimed(r) /\ ~AnsweredFresh(r)
        /\ returned' = Append(returned,
             [record |-> r, status |-> status, require_fresh |-> require_fresh])
        /\ UNCHANGED claimed
  BY DEF Answer, Statuses
<1> DEFINE a == [record |-> r, status |-> status, require_fresh |-> require_fresh]
           Answers == [record : Records, status : Statuses, require_fresh : BOOLEAN]
<1>2. a \in Answers /\ returned \in Seq(Answers)
  BY DEF FlowInv, StoreTyped
<1>3. /\ returned' \in Seq(Answers) /\ DOMAIN returned' = 1..(Len(returned) + 1)
      /\ DOMAIN returned = 1..Len(returned) /\ Len(returned) \in Nat
      /\ \A i \in 1..Len(returned) : returned'[i] = returned[i]
      /\ returned'[Len(returned) + 1] = a
  BY <1>1, <1>2
<1>4. StoreTyped' /\ ClaimsAreApart'
  BY <1>1, <1>3 DEF FlowInv, StoreTyped, ClaimsAreApart
<1>5. FreshIsClaimed'
  BY <1>1, <1>3 DEF FlowInv, FreshIsClaimed, IsClaimed
<1>6. FreshIsSaidOnce'
  <2> SUFFICES ASSUME NEW i \in DOMAIN returned', NEW k \in DOMAIN returned',
                      returned'[i].status = "fresh", returned'[k].status = "fresh",
                      returned'[i].record = returned'[k].record
               PROVE  i = k
    BY DEF FreshIsSaidOnce
  <2>1. CASE i \in DOMAIN returned /\ k \in DOMAIN returned
    BY <2>1, <1>3 DEF FlowInv, FreshIsSaidOnce
  <2>2. CASE i \in DOMAIN returned /\ k \notin DOMAIN returned
    BY <2>2, <1>1, <1>3 DEF AnsweredFresh
  <2>3. CASE i \notin DOMAIN returned /\ k \in DOMAIN returned
    BY <2>3, <1>1, <1>3 DEF AnsweredFresh
  <2> QED
    BY <2>1, <2>2, <2>3, <1>3
<1>7. Answered \subseteq Answered'
  BY <1>3 DEF Answered
<1> QED
  BY <1>4, <1>5, <1>6, <1>7

(* An admission stays composed of parts that are there: answers are never  *)
(* taken back.                                                             *)
LEMMA ComposedStays ==
  ASSUME Answered \subseteq Answered', UNCHANGED <<admission, asked>>, NEW j, IsComposed(j)
  PROVE  IsComposed(j)'
<1>1. GuardedParts \subseteq GuardedParts' /\ ReplayParts \subseteq ReplayParts'
  BY DEF GuardedParts, ReplayParts
<1>2. PICK s \in Summaries, g \in GuardedParts, r \in ReplayParts :
        /\ admission[j] = Compose(j, Signals(s, g, r), s.runtime_consumable, s.live)
        /\ asked[j] = [runtime_consumable |-> s.runtime_consumable, live |-> s.live]
  BY DEF IsComposed
<1>3. /\ g \in GuardedParts' /\ r \in ReplayParts'
      /\ admission'[j] = Compose(j, Signals(s, g, r), s.runtime_consumable, s.live)
      /\ asked'[j] = [runtime_consumable |-> s.runtime_consumable, live |-> s.live]
  BY <1>1, <1>2
<1> QED
  BY <1>3 DEF IsComposed

(* The initial state satisfies the inductive invariant. *)
LEMMA FlowInit == AInit => FlowInv
BY DEF AInit, Init, FlowInv, StoreTyped, ClaimsAreApart, FreshIsClaimed, FreshIsSaidOnce, Composed

(* Every step keeps the inductive invariant. *)
LEMMA FlowNext == FlowInv /\ [ANext]_flow => FlowInv'
<1> SUFFICES ASSUME FlowInv, [ANext]_flow PROVE FlowInv'
  OBVIOUS
<1> DEFINE Store == StoreTyped /\ ClaimsAreApart /\ FreshIsClaimed /\ FreshIsSaidOnce
<1>1. ASSUME Store', Answered \subseteq Answered', UNCHANGED <<admission, asked>>
      PROVE  FlowInv'
  <2>1. \A j \in Jobs : Composed(j)' => IsComposed(j)'
    BY <1>1, ComposedStays DEF FlowInv, Composed
  <2> QED
    BY <1>1, <2>1 DEF FlowInv
<1>2. CASE UNCHANGED flow
  <2>1. Store' /\ Answered' = Answered
    BY <1>2 DEF flow, vars, FlowInv, StoreTyped, ClaimsAreApart, FreshIsClaimed, FreshIsSaidOnce,
       IsClaimed, Answered
  <2> QED
    BY <1>1, <1>2, <2>1 DEF flow
<1>3. ASSUME NEW r \in Records, Claim(r), UNCHANGED <<admission, asked>> PROVE FlowInv'
  <2>1. Answered' = Answered
    BY <1>3 DEF Claim, Answered
  <2> QED
    BY <1>1, <1>3, <2>1, ClaimKeepsStore
<1>4. ASSUME NEW r \in Records, NEW require_fresh \in BOOLEAN, Answer(r, require_fresh),
             UNCHANGED <<admission, asked>>
      PROVE  FlowInv'
  BY <1>1, <1>4, AnswerKeepsStore
<1>5. ASSUME NEW j \in Jobs, ComposeAdmission(j) PROVE FlowInv'
  <2>1. UNCHANGED vars
    BY <1>5 DEF ComposeAdmission
  <2>2. Store' /\ Answered' = Answered
    BY <2>1 DEF vars, FlowInv, StoreTyped, ClaimsAreApart, FreshIsClaimed, FreshIsSaidOnce,
       IsClaimed, Answered
  <2>3. PICK s \in Summaries, g \in GuardedParts, r \in ReplayParts :
          /\ admission' = [admission EXCEPT ![j] =
               Compose(j, Signals(s, g, r), s.runtime_consumable, s.live)]
          /\ asked' = [asked EXCEPT ![j] =
               [runtime_consumable |-> s.runtime_consumable, live |-> s.live]]
    BY <1>5 DEF ComposeAdmission
  <2>4. GuardedParts' = GuardedParts /\ ReplayParts' = ReplayParts
    BY <2>2 DEF GuardedParts, ReplayParts
  <2>5. IsComposed(j)'
    BY <2>3, <2>4 DEF FlowInv, IsComposed
  <2>6. ASSUME NEW k \in Jobs \ {j}, Composed(k)' PROVE IsComposed(k)'
    BY <2>3, <2>4, <2>6 DEF FlowInv, IsComposed, Composed
  <2> QED
    BY <2>2, <2>3, <2>5, <2>6 DEF FlowInv
<1> QED
  BY <1>2, <1>3, <1>4, <1>5 DEF ANext, Next

(* What the results below rest on: claims are apart, fresh is said once of *)
(* each, and every admission is composed of parts the host has.            *)
THEOREM FlowInvariant == ASpec => []FlowInv
BY FlowInit, FlowNext, PTL DEF ASpec
-----------------------------------------------------------------------------
(* What an admission is made of. *)

(* What the gate says of some parts, and the blocker of a missing receipt.  *)
GateOf(s, consumable, live) == Gate(GateInput(s, consumable), live)
ReceiptBlocker(s) == IF ReceiptRequired(s.receipt) THEN "" ELSE "receipt_obligation_required"

(* The blockers of the gate, named more exactly where a part has a word.    *)
NamedBlockers(s, consumable, live) ==
  ReplaceOrAppend(
    ReplaceOrAppend(
      ReplaceOrAppend(
        ReplaceOrAppend(GateOf(s, consumable, live).blockers,
          "missing_or_invalid_policy_decision", PolicyBlocker(PolicyStatus(s.policy))),
        "missing_or_invalid_execution_ticket", TicketBlocker(TicketStatus(s.ticket))),
      "missing_or_invalid_trust_decision", TrustBlocker(TrustStatus(s.trust))),
    "runner_profile_not_allowed", RunnerBlocker(s.runner, live))

(* These with that of the receipt are the blockers of the admission.       *)
ReceiptBlockers(s) == {ReceiptBlocker(s)} \ {""}
AllBlockers(s, consumable, live) == NamedBlockers(s, consumable, live) \cup ReceiptBlockers(s)

(* When each part passes. *)
RunnerPasses(runner, live) ==
  ~IsEmpty(runner) /\ RunnerAllowed(runner) /\ (live => LiveEnabled(runner))

(* Only a runtime needs the guard: passed, and fresh in the store.         *)
GuardPasses(s, consumable) ==
  consumable =>
    /\ GuardedStatus(s.guarded) \in GuardPassed
    /\ ReplayStatus(s.replay, s.guarded, consumable) = "fresh"

(* All parts pass.                                                         *)
Passes(s, consumable, live) ==
  /\ Prepared(s.prepared)
  /\ PolicyStatus(s.policy) \in PolicyPassed
  /\ TicketStatus(s.ticket) \in TicketPassed
  /\ TrustStatus(s.trust) \in TrustPassed
  /\ RunnerPasses(s.runner, live)
  /\ ReceiptRequired(s.receipt)
  /\ GuardPasses(s, consumable)

(* The fields of an admission. *)
LEMMA FieldsOfCompose ==
  ASSUME NEW id, NEW s, NEW consumable \in BOOLEAN, NEW live \in BOOLEAN
  PROVE  LET a == Compose(id, s, consumable, live)
         IN  /\ a.signals = s
             /\ a.blockers = AllBlockers(s, consumable, live)
             /\ a.allowed <=> GateOf(s, consumable, live).blockers = {} /\ a.blockers = {}
  BY DEF Compose, AllBlockers, NamedBlockers, GateOf, GateInput, ReceiptBlocker, ReceiptBlockers

(* What an admission that blocks says of itself. *)
LEMMA BlockedSays ==
  ASSUME NEW id, NEW s, NEW consumable \in BOOLEAN, NEW live \in BOOLEAN,
         ~Compose(id, s, consumable, live).allowed
  PROVE  LET a == Compose(id, s, consumable, live)
         IN  /\ a.status = PolicyOutcome(PolicyStatus(s.policy))
             /\ a.reason_code =
                  FirstBlocker(PolicyBlocker(PolicyStatus(s.policy)),
                               TicketBlocker(TicketStatus(s.ticket)),
                               TrustBlocker(TrustStatus(s.trust)),
                               RunnerBlocker(s.runner, live), ReceiptBlocker(s),
                               GateOf(s, consumable, live).reason_code)
  BY DEF Compose, GateOf, GateInput, ReceiptBlocker

(* A status has a blocker exactly when it does not pass. *)
LEMMA PolicyBlockerExactly == \A status : PolicyBlocker(status) = "" <=> status \in PolicyPassed
BY DEF PolicyBlocker, PolicyPassed

(* A ticket has a blocker exactly when its status does not pass.           *)
LEMMA TicketBlockerExactly == \A status : TicketBlocker(status) = "" <=> status \in TicketPassed
BY DEF TicketBlocker, TicketPassed

(* A trust decision has a blocker exactly when its status does not pass.   *)
LEMMA TrustBlockerExactly == \A status : TrustBlocker(status) = "" <=> status \in TrustPassed
BY DEF TrustBlocker, TrustPassed, TrustDenied, VerificationFailed, DigestMismatch, SignerRefused

(* A runner profile has a blocker exactly when it may not run.             *)
LEMMA RunnerBlockerExactly ==
  ASSUME NEW runner, NEW live \in BOOLEAN
  PROVE  RunnerBlocker(runner, live) = "" <=> RunnerPasses(runner, live)
BY DEF RunnerBlocker, RunnerPasses

(* The gate blocks nothing exactly when everything it looks at passes. *)
LEMMA GateExactly ==
  ASSUME NEW i, NEW live \in BOOLEAN
  PROVE  Gate(i, live).blockers = {} <=>
           /\ i.prepared /\ i.policy \in PolicyPassed /\ i.ticket \in TicketPassed
           /\ i.trust \in TrustPassed /\ RunnerAllowed(i.runner)
           /\ live => LiveEnabled(i.runner)
           /\ i.runtime_consumable => i.guarded \in GuardPassed /\ i.replay = "fresh"
BY DEF Gate, MissingReasons, GuardBlockers

(* An admission allows exactly when all its parts pass: naming a blocker   *)
(* more exactly neither loses nor invents one.                             *)
LEMMA AllowedExactly ==
  ASSUME NEW id, NEW s, NEW consumable \in BOOLEAN, NEW live \in BOOLEAN
  PROVE  LET a == Compose(id, s, consumable, live)
         IN  /\ a.allowed <=> Passes(s, consumable, live)
             /\ a.allowed <=> a.blockers = {}
<1> DEFINE a == Compose(id, s, consumable, live)
           gate == GateOf(s, consumable, live)
           policy == PolicyBlocker(PolicyStatus(s.policy))
           ticket == TicketBlocker(TicketStatus(s.ticket))
           trust == TrustBlocker(TrustStatus(s.trust))
           runner == RunnerBlocker(s.runner, live)
<1>1. a.blockers = {} <=>
        gate.blockers = {} /\ policy = "" /\ ticket = "" /\ trust = "" /\ runner = ""
          /\ ReceiptRequired(s.receipt)
  <2>1. NamedBlockers(s, consumable, live) = {} <=>
          gate.blockers = {} /\ policy = "" /\ ticket = "" /\ trust = "" /\ runner = ""
    BY DEF NamedBlockers, ReplaceOrAppend
  <2>2. a.blockers = AllBlockers(s, consumable, live)
    BY FieldsOfCompose
  <2>3. ReceiptBlockers(s) = {} <=> ReceiptRequired(s.receipt)
    <3>1. ReceiptBlocker(s) = "" <=> ReceiptRequired(s.receipt)
      BY DEF ReceiptBlocker
    <3> QED
      BY <3>1 DEF ReceiptBlockers
  <2> QED
    BY <2>1, <2>2, <2>3 DEF AllBlockers
<1>2. gate.blockers = {} <=>
        /\ Prepared(s.prepared) /\ PolicyStatus(s.policy) \in PolicyPassed
        /\ TicketStatus(s.ticket) \in TicketPassed /\ TrustStatus(s.trust) \in TrustPassed
        /\ RunnerAllowed(s.runner) /\ (live => LiveEnabled(s.runner))
        /\ GuardPasses(s, consumable)
  BY GateExactly DEF GateOf, GateInput, GuardPasses
<1>3. a.allowed <=> gate.blockers = {} /\ a.blockers = {}
  BY FieldsOfCompose
<1> HIDE DEF a, gate, policy, ticket, trust, runner
<1>4. /\ policy = "" <=> PolicyStatus(s.policy) \in PolicyPassed
      /\ ticket = "" <=> TicketStatus(s.ticket) \in TicketPassed
      /\ trust = "" <=> TrustStatus(s.trust) \in TrustPassed
      /\ runner = "" <=> RunnerPasses(s.runner, live)
  BY PolicyBlockerExactly, TicketBlockerExactly, TrustBlockerExactly, RunnerBlockerExactly
     DEF policy, ticket, trust, runner
<1>5. (a.allowed <=> Passes(s, consumable, live)) /\ (a.allowed <=> a.blockers = {})
  BY <1>1, <1>2, <1>3, <1>4 DEF Passes, RunnerPasses
<1> QED
  BY <1>5 DEF a
-----------------------------------------------------------------------------
(* The guard and the store. *)

(* The absent value is none of the texts and truth values of the code. *)
LEMMA AbsentIsNothing ==
  /\ Absent # "fresh" /\ Absent # "passed" /\ Absent \notin ReplayFailures
  /\ Absent # TRUE /\ Absent # FALSE
  /\ Absent \notin Records
BY AbsentAssumption DEF ReplayFailures

(* Of the parts a host may have for a guard, only an answer of the store   *)
(* that said fresh passes for a runtime.                                   *)
LEMMA OnlyFreshAnswersPass ==
  ASSUME NEW g \in GuardedParts, NEW r,
         GuardedStatus(g) \in GuardPassed, ReplayStatus(r, g, TRUE) = "fresh"
  PROVE  \E a \in Answered : g = GuardedDecision(a) /\ a.status = "fresh"
<1>1. GuardedStatus(NoGuarded) = "missing"
  BY DEF GuardedStatus, IsEmpty, NoGuarded
<1>2. GuardedStatus(UnverifiedDecision) \in {"missing", "not_guarded", "not_strict", "failed"}
  BY DEF GuardedStatus, UnverifiedDecision, NoGuarded, Denies
<1>3. "missing" \notin GuardPassed /\ "not_guarded" \notin GuardPassed
      /\ "not_strict" \notin GuardPassed /\ "failed" \notin GuardPassed
  BY DEF GuardPassed
<1>4. g.replay_status = "fresh"
  BY DEF ReplayStatus, FirstOf, ReplayFailures
<1>5. ASSUME NEW q \in Records, NEW strict \in BOOLEAN, g = BareVerification(q, strict)
      PROVE  FALSE
  <2>1. g.replay_status = Absent
    BY <1>5 DEF BareVerification, NoGuarded
  <2> QED
    BY <2>1, <1>4, AbsentIsNothing
<1>6. PICK a \in Answered : g = GuardedDecision(a)
  BY <1>1, <1>2, <1>3, <1>5 DEF GuardedParts
<1>7. g.replay_status = a.status
  BY <1>6 DEF GuardedDecision, NoGuarded
<1> QED
  BY <1>4, <1>6, <1>7

(* The answers that said fresh for a record, or for one that it replays. *)
FreshAnswers(record) ==
  {i \in DOMAIN returned : returned[i].status = "fresh" /\ Replays(returned[i].record, record)}

(* A claimed record was answered fresh at most once, and so was whatever   *)
(* replays it.                                                             *)
LEMMA OneFreshAnswer ==
  ASSUME FlowInv, NEW a \in Answered, a.status = "fresh"
  PROVE  Cardinality(FreshAnswers(a.record)) = 1
<1>1. PICK i \in DOMAIN returned : returned[i] = a
  BY DEF Answered
<1> DEFINE fresh == FreshAnswers(a.record)
<1>2. i \in fresh
  BY <1>1, ReplaysBothWays DEF FreshAnswers
<1>3. ASSUME NEW k \in fresh PROVE k = i
  <2>1. PICK m \in DOMAIN claimed : claimed[m] = returned[k].record
    BY <1>3 DEF FlowInv, FreshIsClaimed, IsClaimed, FreshAnswers
  <2>2. PICK l \in DOMAIN claimed : claimed[l] = a.record
    BY <1>1 DEF FlowInv, FreshIsClaimed, IsClaimed
  <2>3. m = l
    BY <1>3, <2>1, <2>2 DEF FlowInv, ClaimsAreApart, FreshAnswers
  <2> QED
    BY <1>1, <1>3, <2>1, <2>2, <2>3 DEF FlowInv, FreshIsSaidOnce, FreshAnswers
<1>4. fresh = {i}
  BY <1>2, <1>3
<1> QED
  BY <1>4, FS_Singleton

(* An admission for a runtime rests on one claim that the store answered   *)
(* fresh once, whatever its host put together and however late             *)
(* (_replay_runtime_status, record_guard_replay_file).                     *)
THEOREM AdmissionsRestOnOneClaim == ASpec => []AdmittedOnOneFreshClaim
<1>1. ASSUME FlowInv, NEW j \in Jobs, Admitted(j), asked[j].runtime_consumable
      PROVE  /\ Bundle(admission[j]) # Absent
             /\ Cardinality(FreshAnswers(Bundle(admission[j]))) = 1
  <2>1. PICK s \in Summaries, g \in GuardedParts, r \in ReplayParts :
          /\ admission[j] = Compose(j, Signals(s, g, r), s.runtime_consumable, s.live)
          /\ asked[j] = [runtime_consumable |-> s.runtime_consumable, live |-> s.live]
    BY <1>1 DEF FlowInv, Admitted, IsComposed
  <2> DEFINE signals == Signals(s, g, r)
  <2>2. s.runtime_consumable \in BOOLEAN /\ s.runtime_consumable = TRUE /\ s.live \in BOOLEAN
    BY <1>1, <2>1, SummaryAssumption
  <2>3. signals.guarded = g /\ signals.replay = r
    BY DEF Signals
  <2> HIDE DEF signals
  <2>4. admission[j].signals = signals /\ Passes(signals, s.runtime_consumable, s.live)
    <3>1. admission[j] = Compose(j, signals, s.runtime_consumable, s.live)
      BY <2>1 DEF signals
    <3>2. admission[j].allowed
      BY <1>1 DEF Admitted
    <3> QED
      BY <2>2, <3>1, <3>2, FieldsOfCompose, AllowedExactly
  <2>5. GuardedStatus(g) \in GuardPassed /\ ReplayStatus(r, g, TRUE) = "fresh"
    BY <2>2, <2>3, <2>4 DEF Passes, GuardPasses
  <2>6. PICK a \in Answered : g = GuardedDecision(a) /\ a.status = "fresh"
    BY <2>5, OnlyFreshAnswersPass
  <2>7. Bundle(admission[j]) = a.record
    BY <2>3, <2>4, <2>6 DEF Bundle, GuardedDecision, NoGuarded
  <2>8. a.record \in Records
    <3>1. PICK i \in DOMAIN returned : returned[i] = a
      BY DEF Answered
    <3> DEFINE Answers == [record : Records, status : Statuses, require_fresh : BOOLEAN]
    <3>2. returned \in Seq(Answers)
      BY <1>1 DEF FlowInv, StoreTyped
    <3> HIDE DEF Answers
    <3>3. a \in Answers
      BY <3>1, <3>2
    <3> QED
      BY <3>3 DEF Answers
  <2>9. Cardinality(FreshAnswers(a.record)) = 1
    BY <1>1, <2>6, OneFreshAnswer
  <2>10. a.record # Absent
    BY <2>8, AbsentIsNothing
  <2> QED
    BY <2>7, <2>9, <2>10
<1>2. FlowInv => AdmittedOnOneFreshClaim
  BY <1>1 DEF AdmittedOnOneFreshClaim, FreshAnswers
<1> QED
  BY <1>2, FlowInvariant, PTL

(* What passes the proof check would have been admitted for a runtime, as  *)
(* it stands and not live: the check misses no part of the gate            *)
(* (validate_runtime_admission_proof_inputs).                              *)
THEOREM ProofMissesNothing == ASpec => []ProvenIsConsumable
<1>1. ASSUME FlowInv, NEW j \in Jobs, Composed(j), ProofInputs(admission[j])
      PROVE  Compose(j, admission[j].signals, TRUE, FALSE).allowed
  <2>1. PICK s \in Summaries, g \in GuardedParts, r \in ReplayParts :
          admission[j] = Compose(j, Signals(s, g, r), s.runtime_consumable, s.live)
    BY <1>1 DEF FlowInv, IsComposed
  <2> DEFINE signals == Signals(s, g, r)
  <2> HIDE DEF signals
  <2>2. s.runtime_consumable \in BOOLEAN /\ s.live \in BOOLEAN
    BY SummaryAssumption
  <2>3. admission[j].signals = signals /\ Passes(signals, s.runtime_consumable, s.live)
    <3>1. admission[j] = Compose(j, signals, s.runtime_consumable, s.live)
      BY <2>1 DEF signals
    <3>2. admission[j].allowed
      BY <1>1 DEF ProofInputs
    <3> QED
      BY <2>2, <3>1, <3>2, FieldsOfCompose, AllowedExactly
  <2>4. GuardPasses(signals, TRUE)
    BY <1>1, <2>3 DEF ProofInputs, GuardPasses, GuardPassed
  <2>5. Passes(signals, TRUE, FALSE)
    BY <2>3, <2>4 DEF Passes, RunnerPasses
  <2> QED
    BY <2>3, <2>5, AllowedExactly
<1>2. FlowInv => ProvenIsConsumable
  BY <1>1 DEF ProvenIsConsumable
<1> QED
  BY <1>2, FlowInvariant, PTL
-----------------------------------------------------------------------------
(* The two routes. *)

(* Both routes read one guarded decision alike. *)
LEMMA GuardReadAlike ==
  ASSUME NEW a \in Answered
  PROVE  LET g == GuardedDecision(a)
         IN  /\ GuardedStatus(g) \in GuardPassed /\ ReplayStatus(NoReplay, g, TRUE) = "fresh"
                  <=> a.status = "fresh"
             /\ FirstOf(g.verification_status, FirstOf(g.status, "missing")) \in GuardPassed
             /\ FirstOf(g.replay_status, "missing") = "fresh" <=> a.status = "fresh"
<1> DEFINE g == GuardedDecision(a)
<1>1. /\ g.guarded = Absent /\ g.strict = Absent /\ g.verification_status = "passed"
      /\ g.replay_status = a.status /\ g.allowed = RuntimeAllowed(a.status)
      /\ g.status = IF RuntimeAllowed(a.status) THEN "allowed" ELSE "blocked"
      /\ "verification_status" \in DOMAIN g
  BY DEF GuardedDecision, NoGuarded
<1>2. RuntimeAllowed(a.status) <=> a.status = "fresh"
  BY DEF RuntimeAllowed, Allowed
<1> HIDE DEF g
<1>3. ~IsEmpty(g) /\ ~Denies(g, "guarded") /\ ~Denies(g, "strict")
  BY <1>1, AbsentIsNothing DEF IsEmpty, Denies
<1>4. CASE a.status = "fresh"
  <2>1. g.status = "allowed" /\ ~Denies(g, "allowed")
    BY <1>1, <1>2, <1>4 DEF Denies
  <2>2. GuardedStatus(g) = "passed"
    BY <1>1, <1>3, <2>1, AbsentIsNothing DEF GuardedStatus, FirstOf
  <2>3. ReplayStatus(NoReplay, g, TRUE) = "fresh"
    BY <1>1, <1>4, AbsentIsNothing DEF ReplayStatus, NoReplay, FirstOf, ReplayFailures
  <2> QED
    BY <1>1, <1>4, <2>2, <2>3, AbsentIsNothing DEF FirstOf, GuardPassed, g
<1>5. CASE a.status # "fresh"
  <2>1. ReplayStatus(NoReplay, g, TRUE) # "fresh"
    BY <1>1, <1>5, AbsentIsNothing DEF ReplayStatus, NoReplay, FirstOf, ReplayFailures
  <2> QED
    BY <1>1, <1>5, <2>1, AbsentIsNothing DEF FirstOf, GuardPassed, g
<1> QED
  BY <1>4, <1>5

(* The gate asked with a guarded decision says what an admission composed  *)
(* from that decision says, the receipt obligation apart                   *)
(* (evaluate_runtime_consumable, compose_runtime_admission_result).        *)
THEOREM RoutesAgree == ASpec => []BothRoutesAgree
<1>1. ASSUME FlowInv, NEW j \in Jobs, Composed(j), NEW answer \in Answered
      PROVE  LET a == admission[j]
                 input == GateInput(a.signals, asked[j].runtime_consumable)
                 g == GuardedDecision(answer)
                 s == [a.signals EXCEPT !.guarded = g, !.replay = NoReplay]
             IN  Compose(j, s, TRUE, asked[j].live).allowed
                   <=> /\ EvaluateRuntimeConsumable(input, g, asked[j].live).blockers = {}
                       /\ ReceiptRequired(s.receipt)
  <2>1. PICK x \in Summaries, y \in GuardedParts, z \in ReplayParts :
          /\ admission[j] = Compose(j, Signals(x, y, z), x.runtime_consumable, x.live)
          /\ asked[j] = [runtime_consumable |-> x.runtime_consumable, live |-> x.live]
    BY <1>1 DEF FlowInv, IsComposed
  <2> DEFINE signals == Signals(x, y, z)
             live == asked[j].live
             input == GateInput(signals, asked[j].runtime_consumable)
             g == GuardedDecision(answer)
             s == [signals EXCEPT !.guarded = g, !.replay = NoReplay]
             i == [input EXCEPT !.runtime_consumable = TRUE,
                     !.guarded = FirstOf(g.verification_status, FirstOf(g.status, "missing")),
                     !.replay = FirstOf(g.replay_status, "missing")]
  <2>2. /\ asked[j].runtime_consumable \in BOOLEAN /\ live \in BOOLEAN
        /\ x.runtime_consumable \in BOOLEAN /\ x.live \in BOOLEAN
    BY <2>1, SummaryAssumption
  <2>3. admission[j].signals = signals
    BY <2>1, <2>2, FieldsOfCompose
  <2>4. /\ s.prepared = x.prepared /\ s.policy = x.policy /\ s.ticket = x.ticket
        /\ s.trust = x.trust /\ s.runner = x.runner /\ s.receipt = x.receipt
        /\ s.guarded = g /\ s.replay = NoReplay
    BY DEF Signals
  <2>5. /\ i.prepared = Prepared(x.prepared) /\ i.policy = PolicyStatus(x.policy)
        /\ i.ticket = TicketStatus(x.ticket) /\ i.trust = TrustStatus(x.trust)
        /\ i.runner = x.runner /\ i.runtime_consumable = TRUE
        /\ i.guarded = FirstOf(g.verification_status, FirstOf(g.status, "missing"))
        /\ i.replay = FirstOf(g.replay_status, "missing")
    BY DEF GateInput, Signals
  <2>6. EvaluateRuntimeConsumable(input, g, live) = Gate(i, live)
    BY DEF EvaluateRuntimeConsumable
  <2> HIDE DEF signals, live, input, g, s, i
  <2>7. RunnerAllowed(x.runner) => ~IsEmpty(x.runner)
    BY SummaryAssumption, AbsentIsNothing DEF RunnerAllowed, Says, IsEmpty
  <2>8. Gate(i, live).blockers = {} <=>
          /\ Prepared(x.prepared) /\ PolicyStatus(x.policy) \in PolicyPassed
          /\ TicketStatus(x.ticket) \in TicketPassed /\ TrustStatus(x.trust) \in TrustPassed
          /\ RunnerAllowed(x.runner) /\ (live => LiveEnabled(x.runner))
          /\ answer.status = "fresh"
    BY <2>2, <2>5, GateExactly, GuardReadAlike DEF g
  <2>9. Compose(j, s, TRUE, live).allowed <=> Passes(s, TRUE, live)
    BY <2>2, AllowedExactly
  <2>10. Passes(s, TRUE, live) <=>
           /\ Prepared(x.prepared) /\ PolicyStatus(x.policy) \in PolicyPassed
           /\ TicketStatus(x.ticket) \in TicketPassed /\ TrustStatus(x.trust) \in TrustPassed
           /\ RunnerAllowed(x.runner) /\ (live => LiveEnabled(x.runner))
           /\ answer.status = "fresh" /\ ReceiptRequired(s.receipt)
    BY <2>4, <2>7, GuardReadAlike DEF Passes, RunnerPasses, GuardPasses, g
  <2> QED
    BY <2>3, <2>6, <2>8, <2>9, <2>10 DEF signals, live, input, g, s
<1>2. FlowInv => BothRoutesAgree
  BY <1>1 DEF BothRoutesAgree
<1> QED
  BY <1>2, FlowInvariant, PTL
-----------------------------------------------------------------------------
(* The blockers and the parts they speak of. *)

(* The parts some blockers speak of.                                       *)
PartsOfAll(words) == UNION {PartsOf(w) : w \in words}

(* The parts of some words and others. *)
LEMMA PartsOfUnion ==
  /\ PartsOfAll({}) = {}
  /\ \A w : PartsOfAll({w}) = PartsOf(w)
  /\ \A v, w : PartsOfAll(v \cup w) = PartsOfAll(v) \cup PartsOfAll(w)
BY DEF PartsOfAll

(* What the words of the gate speak of. *)
LEMMA GateWords ==
  /\ PartsOf("missing_prepared_execution_contract") = {"prepared"}
  /\ PartsOf("raw_intent_rejected") = {"prepared"}
  /\ PartsOf("missing_or_invalid_policy_decision") = {"policy"}
  /\ PartsOf("missing_or_invalid_execution_ticket") = {"ticket"}
  /\ PartsOf("missing_or_invalid_trust_decision") = {"trust"}
  /\ PartsOf("runner_profile_not_allowed") = {"runner"}
  /\ PartsOf("live_backend_disabled") = {"runner"}
  /\ PartsOf("missing_runner_profile") = {"runner"}
  /\ PartsOf("receipt_obligation_required") = {"receipt"}
  /\ PartsOf("missing_or_invalid_kernel_guard") = {"guarded", "replay"}
  /\ PartsOf("missing_or_replayed_guarded_root") = {"guarded", "replay"}
  /\ PartsOf("replay_detected") = {"guarded", "replay"}
  /\ PartsOf("kernel_guard_required") = {"guarded", "replay"}
BY DEF PartsOf

(* What the more exact words speak of. *)
LEMMA PolicyWords == \A status : PolicyBlocker(status) # "" => PartsOf(PolicyBlocker(status)) = {"policy"}
<1> SUFFICES ASSUME NEW status, PolicyBlocker(status) # "" PROVE PartsOf(PolicyBlocker(status)) = {"policy"}
  OBVIOUS
<1>1. PolicyBlocker(status) \in
        {"missing_or_invalid_policy_decision", "unknown_policy_decision", "policy_denied",
         "policy_deferred", "policy_requires_approval", "policy_dry_run_only", "policy_record_only"}
  BY DEF PolicyBlocker, PolicyPassed
<1> QED
  BY <1>1 DEF PartsOf

(* The words for a ticket speak of the ticket.                             *)
LEMMA TicketWords == \A status : TicketBlocker(status) # "" => PartsOf(TicketBlocker(status)) = {"ticket"}
<1> SUFFICES ASSUME NEW status, TicketBlocker(status) # "" PROVE PartsOf(TicketBlocker(status)) = {"ticket"}
  OBVIOUS
<1>1. TicketBlocker(status) \in
        {"missing_or_invalid_execution_ticket", "invalid_execution_ticket",
         "execution_ticket_not_approved", "execution_ticket_mismatch", "execution_ticket_stale",
         "execution_ticket_failed", "unknown_execution_ticket_status"}
  BY DEF TicketBlocker, TicketPassed
<1> QED
  BY <1>1 DEF PartsOf

(* The words for a trust decision speak of it.                             *)
LEMMA TrustWords == \A status : TrustBlocker(status) # "" => PartsOf(TrustBlocker(status)) = {"trust"}
<1> SUFFICES ASSUME NEW status, TrustBlocker(status) # "" PROVE PartsOf(TrustBlocker(status)) = {"trust"}
  OBVIOUS
<1>1. TrustBlocker(status) \in
        {"missing_or_invalid_trust_decision", "trust_decision_denied", "trust_verification_failed",
         "signature_digest_mismatch", "trust_signer_not_allowed", "unknown_trust_decision_status"}
  BY DEF TrustBlocker, TrustPassed, TrustDenied, VerificationFailed, DigestMismatch, SignerRefused
<1> QED
  BY <1>1 DEF PartsOf

(* The words for a runner profile speak of the runner.                     *)
LEMMA RunnerWords ==
  ASSUME NEW runner, NEW live \in BOOLEAN, RunnerBlocker(runner, live) # ""
  PROVE  PartsOf(RunnerBlocker(runner, live)) = {"runner"}
<1>1. RunnerBlocker(runner, live) \in
        {"missing_runner_profile", "runner_profile_not_allowed", "live_backend_disabled"}
  BY DEF RunnerBlocker
<1> QED
  BY <1>1, GateWords

(* A more exact word for a part that is blocked already speaks of nothing  *)
(* else.                                                                   *)
LEMMA ReplaceKeepsParts ==
  ASSUME NEW words, NEW old, NEW new, NEW p, PartsOf(old) = {p},
         new # "" => PartsOf(new) = {p} /\ p \in PartsOfAll(words)
  PROVE  PartsOfAll(ReplaceOrAppend(words, old, new)) = PartsOfAll(words)
<1>1. CASE new = ""
  BY <1>1 DEF ReplaceOrAppend
<1>2. CASE new # ""
  <2> DEFINE rest == words \ {old}
  <2>1. PartsOfAll(words) = PartsOfAll(rest) \cup {p}
    <3>1. PartsOfAll(rest) \subseteq PartsOfAll(words)
      BY DEF PartsOfAll
    <3>2. ASSUME NEW x \in PartsOfAll(words), x # p PROVE x \in PartsOfAll(rest)
      BY <3>2 DEF PartsOfAll
    <3> QED
      BY <1>2, <3>1, <3>2
  <2>2. ReplaceOrAppend(words, old, new) = rest \cup {new}
    BY <1>2 DEF ReplaceOrAppend
  <2> HIDE DEF rest
  <2>3. PartsOfAll(rest \cup {new}) = PartsOfAll(rest) \cup PartsOfAll({new})
    BY PartsOfUnion
  <2>4. PartsOfAll({new}) = {p}
    BY <1>2, PartsOfUnion
  <2> QED
    BY <2>1, <2>2, <2>3, <2>4
<1> QED
  BY <1>1, <1>2

(* The parts that do not pass. *)
Failing(s, consumable, live) ==
  (IF Prepared(s.prepared) THEN {} ELSE {"prepared"})
  \cup (IF PolicyStatus(s.policy) \in PolicyPassed THEN {} ELSE {"policy"})
  \cup (IF TicketStatus(s.ticket) \in TicketPassed THEN {} ELSE {"ticket"})
  \cup (IF TrustStatus(s.trust) \in TrustPassed THEN {} ELSE {"trust"})
  \cup (IF RunnerPasses(s.runner, live) THEN {} ELSE {"runner"})
  \cup (IF GuardPasses(s, consumable) THEN {} ELSE {"guarded", "replay"})

(* The gate blocks on exactly these. *)
LEMMA GateParts ==
  ASSUME NEW s, NEW consumable \in BOOLEAN, NEW live \in BOOLEAN,
         IsEmpty(s.runner) => ~RunnerAllowed(s.runner)
  PROVE  PartsOfAll(GateOf(s, consumable, live).blockers) = Failing(s, consumable, live)
<1> DEFINE i == GateInput(s, consumable)
           prepared == IF i.prepared THEN {} ELSE {"missing_prepared_execution_contract"}
           policy == IF i.policy \in PolicyPassed THEN {} ELSE {"missing_or_invalid_policy_decision"}
           ticket == IF i.ticket \in TicketPassed THEN {} ELSE {"missing_or_invalid_execution_ticket"}
           trust == IF i.trust \in TrustPassed THEN {} ELSE {"missing_or_invalid_trust_decision"}
           runner == IF RunnerAllowed(i.runner) THEN {} ELSE {"runner_profile_not_allowed"}
           backend == IF live /\ ~LiveEnabled(i.runner) THEN {"live_backend_disabled"} ELSE {}
           guard == GuardBlockers(i)
<1>1. GateOf(s, consumable, live).blockers =
        prepared \cup policy \cup ticket \cup trust \cup runner \cup backend \cup guard
  BY DEF GateOf, Gate, MissingReasons
<1>2. /\ i.prepared = Prepared(s.prepared) /\ i.policy = PolicyStatus(s.policy)
      /\ i.ticket = TicketStatus(s.ticket) /\ i.trust = TrustStatus(s.trust)
      /\ i.runner = s.runner /\ i.runtime_consumable = consumable
      /\ i.guarded = GuardedStatus(s.guarded)
      /\ i.replay = ReplayStatus(s.replay, s.guarded, consumable)
  BY DEF GateInput
<1> HIDE DEF i
<1>3. PartsOfAll(prepared) = IF Prepared(s.prepared) THEN {} ELSE {"prepared"}
  BY <1>2, PartsOfUnion, GateWords
<1>4. PartsOfAll(policy) = IF PolicyStatus(s.policy) \in PolicyPassed THEN {} ELSE {"policy"}
  BY <1>2, PartsOfUnion, GateWords
<1>5. PartsOfAll(ticket) = IF TicketStatus(s.ticket) \in TicketPassed THEN {} ELSE {"ticket"}
  BY <1>2, PartsOfUnion, GateWords
<1>6. PartsOfAll(trust) = IF TrustStatus(s.trust) \in TrustPassed THEN {} ELSE {"trust"}
  BY <1>2, PartsOfUnion, GateWords
<1>7. PartsOfAll(runner) \cup PartsOfAll(backend)
        = IF RunnerPasses(s.runner, live) THEN {} ELSE {"runner"}
  BY <1>2, PartsOfUnion, GateWords DEF RunnerPasses
<1>8. PartsOfAll(guard) = IF GuardPasses(s, consumable) THEN {} ELSE {"guarded", "replay"}
  <2> DEFINE verified == IF i.guarded \in GuardPassed THEN {} ELSE {"missing_or_invalid_kernel_guard"}
             fresh == IF i.replay = "fresh" THEN {} ELSE {"missing_or_replayed_guarded_root"}
  <2>1. guard = IF ~consumable THEN {} ELSE verified \cup fresh
    BY <1>2 DEF GuardBlockers
  <2>2. /\ PartsOfAll(verified) = IF i.guarded \in GuardPassed THEN {} ELSE {"guarded", "replay"}
        /\ PartsOfAll(fresh) = IF i.replay = "fresh" THEN {} ELSE {"guarded", "replay"}
    BY PartsOfUnion, GateWords
  <2> HIDE DEF verified, fresh, guard
  <2>3. PartsOfAll(verified \cup fresh) = PartsOfAll(verified) \cup PartsOfAll(fresh)
    BY PartsOfUnion
  <2>4. PartsOfAll(verified \cup fresh)
          = IF i.guarded \in GuardPassed /\ i.replay = "fresh" THEN {} ELSE {"guarded", "replay"}
    BY <2>2, <2>3
  <2> QED
    BY <1>2, <2>1, <2>4, PartsOfUnion DEF GuardPasses
<1>9. PartsOfAll(prepared \cup policy \cup ticket \cup trust \cup runner \cup backend \cup guard)
        = PartsOfAll(prepared) \cup PartsOfAll(policy) \cup PartsOfAll(ticket)
            \cup PartsOfAll(trust) \cup PartsOfAll(runner) \cup PartsOfAll(backend)
            \cup PartsOfAll(guard)
  <2> HIDE DEF prepared, policy, ticket, trust, runner, backend, guard
  <2> DEFINE w2 == prepared \cup policy
             w3 == w2 \cup ticket
             w4 == w3 \cup trust
             w5 == w4 \cup runner
             w6 == w5 \cup backend
  <2>1. /\ PartsOfAll(w2) = PartsOfAll(prepared) \cup PartsOfAll(policy)
        /\ PartsOfAll(w3) = PartsOfAll(w2) \cup PartsOfAll(ticket)
        /\ PartsOfAll(w4) = PartsOfAll(w3) \cup PartsOfAll(trust)
        /\ PartsOfAll(w5) = PartsOfAll(w4) \cup PartsOfAll(runner)
        /\ PartsOfAll(w6) = PartsOfAll(w5) \cup PartsOfAll(backend)
        /\ PartsOfAll(w6 \cup guard) = PartsOfAll(w6) \cup PartsOfAll(guard)
    <3> HIDE DEF w2, w3, w4, w5, w6
    <3>1. \A v, w : PartsOfAll(v \cup w) = PartsOfAll(v) \cup PartsOfAll(w)
      BY PartsOfUnion
    <3> QED
      BY <3>1, Zenon DEF w2, w3, w4, w5, w6
  <2>2. w6 \cup guard
          = prepared \cup policy \cup ticket \cup trust \cup runner \cup backend \cup guard
    OBVIOUS
  <2> HIDE DEF w2, w3, w4, w5, w6
  <2> QED
    BY <2>1, <2>2
<1> HIDE DEF prepared, policy, ticket, trust, runner, backend, guard
<1> QED
  BY <1>1, <1>3, <1>4, <1>5, <1>6, <1>7, <1>8, <1>9 DEF Failing

(* These with the receipt, which the gate does not look at.                *)
NotPassing(s, consumable, live) ==
  Failing(s, consumable, live) \cup (IF ReceiptRequired(s.receipt) THEN {} ELSE {"receipt"})

(* An admission is blocked on exactly the parts that do not pass.          *)
LEMMA BlockedExactly ==
  ASSUME NEW id, NEW s, NEW consumable \in BOOLEAN, NEW live \in BOOLEAN,
         IsEmpty(s.runner) => ~RunnerAllowed(s.runner)
  PROVE  BlockedParts(Compose(id, s, consumable, live)) = NotPassing(s, consumable, live)
<1> DEFINE a == Compose(id, s, consumable, live)
           failing == Failing(s, consumable, live)
           policy == PolicyBlocker(PolicyStatus(s.policy))
           ticket == TicketBlocker(TicketStatus(s.ticket))
           trust == TrustBlocker(TrustStatus(s.trust))
           runner == RunnerBlocker(s.runner, live)
           b0 == GateOf(s, consumable, live).blockers
           b1 == ReplaceOrAppend(b0, "missing_or_invalid_policy_decision", policy)
           b2 == ReplaceOrAppend(b1, "missing_or_invalid_execution_ticket", ticket)
           b3 == ReplaceOrAppend(b2, "missing_or_invalid_trust_decision", trust)
           b4 == ReplaceOrAppend(b3, "runner_profile_not_allowed", runner)
<1>1. PartsOfAll(b0) = failing
  BY GateParts
<1>2. a.blockers = b4 \cup ReceiptBlockers(s)
  <2>1. a.blockers = AllBlockers(s, consumable, live)
    BY FieldsOfCompose
  <2>2. b4 = NamedBlockers(s, consumable, live)
    BY DEF NamedBlockers
  <2> HIDE DEF a, b4
  <2> QED
    BY <2>1, <2>2 DEF AllBlockers
<1>3. /\ policy # "" => PartsOf(policy) = {"policy"} /\ "policy" \in failing
      /\ ticket # "" => PartsOf(ticket) = {"ticket"} /\ "ticket" \in failing
      /\ trust # "" => PartsOf(trust) = {"trust"} /\ "trust" \in failing
      /\ runner # "" => PartsOf(runner) = {"runner"} /\ "runner" \in failing
  <2>1. policy # "" => PartsOf(policy) = {"policy"} /\ "policy" \in failing
    BY PolicyWords, PolicyBlockerExactly DEF Failing
  <2>2. ticket # "" => PartsOf(ticket) = {"ticket"} /\ "ticket" \in failing
    BY TicketWords, TicketBlockerExactly DEF Failing
  <2>3. trust # "" => PartsOf(trust) = {"trust"} /\ "trust" \in failing
    BY TrustWords, TrustBlockerExactly DEF Failing
  <2>4. runner # "" => PartsOf(runner) = {"runner"} /\ "runner" \in failing
    BY RunnerWords, RunnerBlockerExactly DEF Failing
  <2> QED
    BY <2>1, <2>2, <2>3, <2>4
<1> HIDE DEF failing, policy, ticket, trust, runner, b0
<1>4. PartsOfAll(b1) = failing
  BY <1>1, <1>3, GateWords, ReplaceKeepsParts
<1> HIDE DEF b1
<1>5. PartsOfAll(b2) = failing
  BY <1>3, <1>4, GateWords, ReplaceKeepsParts
<1> HIDE DEF b2
<1>6. PartsOfAll(b3) = failing
  BY <1>3, <1>5, GateWords, ReplaceKeepsParts
<1> HIDE DEF b3
<1>7. PartsOfAll(b4) = failing
  BY <1>3, <1>6, GateWords, ReplaceKeepsParts
<1> HIDE DEF b4
<1>8. PartsOfAll(ReceiptBlockers(s)) = IF ReceiptRequired(s.receipt) THEN {} ELSE {"receipt"}
  <2>1. ReceiptBlockers(s)
          = IF ReceiptRequired(s.receipt) THEN {} ELSE {"receipt_obligation_required"}
    BY DEF ReceiptBlockers, ReceiptBlocker
  <2> QED
    BY <2>1, PartsOfUnion, GateWords
<1>9. PartsOfAll(b4 \cup ReceiptBlockers(s)) = PartsOfAll(b4) \cup PartsOfAll(ReceiptBlockers(s))
  BY PartsOfUnion
<1>10. BlockedParts(a) = PartsOfAll(a.blockers)
  BY DEF BlockedParts, PartsOfAll
<1> QED
  BY <1>2, <1>7, <1>8, <1>9, <1>10 DEF NotPassing, failing

(* The parts of an admission.                                              *)
Parts == {"prepared", "policy", "ticket", "trust", "runner", "receipt", "guarded", "replay"}

(* Which parts do not pass, one by one. *)
LEMMA NotPassingExactly ==
  ASSUME NEW s, NEW consumable \in BOOLEAN, NEW live \in BOOLEAN
  PROVE  LET parts == NotPassing(s, consumable, live)
         IN  /\ parts \subseteq Parts
             /\ "prepared" \in parts <=> ~Prepared(s.prepared)
             /\ "policy" \in parts <=> PolicyStatus(s.policy) \notin PolicyPassed
             /\ "ticket" \in parts <=> TicketStatus(s.ticket) \notin TicketPassed
             /\ "trust" \in parts <=> TrustStatus(s.trust) \notin TrustPassed
             /\ "runner" \in parts <=> ~RunnerPasses(s.runner, live)
             /\ "receipt" \in parts <=> ~ReceiptRequired(s.receipt)
             /\ "guarded" \in parts <=> ~GuardPasses(s, consumable)
             /\ "replay" \in parts <=> ~GuardPasses(s, consumable)
             /\ Passes(s, consumable, live) <=> parts = {}
BY DEF NotPassing, Failing, Passes, Parts

(* The parts to compare with pass. *)
LEMMA SoundPasses == \A consumable, live \in BOOLEAN : Passes(Sound, consumable, live)
BY SoundAssumption, AllowedExactly

(* Repairing parts leaves those that did not pass and were not repaired.   *)
LEMMA RepairedParts ==
  ASSUME NEW s, DOMAIN s = Parts, NEW consumable \in BOOLEAN, NEW live \in BOOLEAN,
         NEW parts, "guarded" \in parts <=> "replay" \in parts
  PROVE  LET t == [p \in DOMAIN s |-> IF p \in parts THEN Sound[p] ELSE s[p]]
         IN  /\ NotPassing(t, consumable, live) = NotPassing(s, consumable, live) \ parts
             /\ t.runner = IF "runner" \in parts THEN Sound.runner ELSE s.runner
<1> DEFINE t == [p \in DOMAIN s |-> IF p \in parts THEN Sound[p] ELSE s[p]]
           before == NotPassing(s, consumable, live)
           after == NotPassing(t, consumable, live)
<1>1. /\ t.prepared = IF "prepared" \in parts THEN Sound.prepared ELSE s.prepared
      /\ t.policy = IF "policy" \in parts THEN Sound.policy ELSE s.policy
      /\ t.ticket = IF "ticket" \in parts THEN Sound.ticket ELSE s.ticket
      /\ t.trust = IF "trust" \in parts THEN Sound.trust ELSE s.trust
      /\ t.runner = IF "runner" \in parts THEN Sound.runner ELSE s.runner
      /\ t.receipt = IF "receipt" \in parts THEN Sound.receipt ELSE s.receipt
      /\ t.guarded = IF "guarded" \in parts THEN Sound.guarded ELSE s.guarded
      /\ t.replay = IF "replay" \in parts THEN Sound.replay ELSE s.replay
  BY DEF Parts
<1>2. Passes(Sound, consumable, live)
  BY SoundPasses
<1> HIDE DEF t
<1>3. GuardPasses(t, consumable) <=> "guarded" \in parts \/ GuardPasses(s, consumable)
  BY <1>1, <1>2 DEF GuardPasses, Passes
<1>4. /\ after \subseteq Parts /\ before \subseteq Parts
      /\ "prepared" \in after <=> "prepared" \in before \ parts
      /\ "policy" \in after <=> "policy" \in before \ parts
      /\ "ticket" \in after <=> "ticket" \in before \ parts
      /\ "trust" \in after <=> "trust" \in before \ parts
      /\ "runner" \in after <=> "runner" \in before \ parts
      /\ "receipt" \in after <=> "receipt" \in before \ parts
      /\ "guarded" \in after <=> "guarded" \in before \ parts
      /\ "replay" \in after <=> "replay" \in before \ parts
  BY <1>1, <1>2, <1>3, NotPassingExactly DEF Passes
<1> HIDE DEF before, after
<1>5. after = before \ parts
  BY <1>4 DEF Parts
<1> QED
  BY <1>1, <1>5 DEF t, before, after

(* Words that block are of a part that does not pass, the gate's reason    *)
(* included when the parts with words of their own pass.                   *)
LEMMA ReasonIsOfBlocked ==
  ASSUME NEW id, NEW s, NEW consumable \in BOOLEAN, NEW live \in BOOLEAN,
         ~Passes(s, consumable, live)
  PROVE  PartsOf(Compose(id, s, consumable, live).reason_code)
           \cap NotPassing(s, consumable, live) # {}
<1> DEFINE a == Compose(id, s, consumable, live)
           i == GateInput(s, consumable)
           policy == PolicyBlocker(PolicyStatus(s.policy))
           ticket == TicketBlocker(TicketStatus(s.ticket))
           trust == TrustBlocker(TrustStatus(s.trust))
           runner == RunnerBlocker(s.runner, live)
           receipt == ReceiptBlocker(s)
           gate == GateOf(s, consumable, live).reason_code
           parts == NotPassing(s, consumable, live)
<1>1. a.reason_code = FirstBlocker(policy, ticket, trust, runner, receipt, gate)
  <2>1. ~a.allowed
    BY AllowedExactly
  <2> QED
    BY <2>1, BlockedSays
<1>2. /\ policy # "" => PartsOf(policy) = {"policy"} /\ "policy" \in parts
      /\ ticket # "" => PartsOf(ticket) = {"ticket"} /\ "ticket" \in parts
      /\ trust # "" => PartsOf(trust) = {"trust"} /\ "trust" \in parts
      /\ runner # "" => PartsOf(runner) = {"runner"} /\ "runner" \in parts
      /\ receipt # "" => PartsOf(receipt) = {"receipt"} /\ "receipt" \in parts
  <2>1. policy # "" => PartsOf(policy) = {"policy"} /\ "policy" \in parts
    BY PolicyWords, PolicyBlockerExactly, NotPassingExactly
  <2>2. ticket # "" => PartsOf(ticket) = {"ticket"} /\ "ticket" \in parts
    BY TicketWords, TicketBlockerExactly, NotPassingExactly
  <2>3. trust # "" => PartsOf(trust) = {"trust"} /\ "trust" \in parts
    BY TrustWords, TrustBlockerExactly, NotPassingExactly
  <2>4. runner # "" => PartsOf(runner) = {"runner"} /\ "runner" \in parts
    BY RunnerWords, RunnerBlockerExactly, NotPassingExactly
  <2>5. receipt # "" => PartsOf(receipt) = {"receipt"} /\ "receipt" \in parts
    BY GateWords, NotPassingExactly DEF ReceiptBlocker
  <2> QED
    BY <2>1, <2>2, <2>3, <2>4, <2>5
<1>3. ASSUME policy = "", ticket = "", trust = "", runner = "", receipt = ""
      PROVE  \/ PartsOf(gate) = {"prepared"} /\ "prepared" \in parts
             \/ PartsOf(gate) = {"guarded", "replay"} /\ "guarded" \in parts
  <2>1. /\ PolicyStatus(s.policy) \in PolicyPassed /\ TicketStatus(s.ticket) \in TicketPassed
        /\ TrustStatus(s.trust) \in TrustPassed /\ RunnerPasses(s.runner, live)
        /\ ReceiptRequired(s.receipt)
    BY <1>3, PolicyBlockerExactly, TicketBlockerExactly, TrustBlockerExactly,
       RunnerBlockerExactly DEF ReceiptBlocker
  <2>2. /\ i.prepared = Prepared(s.prepared) /\ i.policy = PolicyStatus(s.policy)
        /\ i.ticket = TicketStatus(s.ticket) /\ i.trust = TrustStatus(s.trust)
        /\ i.runner = s.runner /\ i.runtime_consumable = consumable
        /\ i.guarded = GuardedStatus(s.guarded)
        /\ i.replay = ReplayStatus(s.replay, s.guarded, consumable)
    BY DEF GateInput
  <2>3. gate = GateReason(i, live)
    BY DEF GateOf, Gate
  <2> HIDE DEF i
  <2>4. GuardBlockers(i) = {} <=> GuardPasses(s, consumable)
    BY <2>2 DEF GuardBlockers, GuardPasses
  <2>5. CASE GuardPasses(s, consumable)
    <3>1. ~Prepared(s.prepared)
      BY <2>1, <2>5 DEF Passes
    <3>2. /\ "live_backend_disabled" \notin MissingReasons(i, live)
          /\ MissingReasons(i, live) # {}
      BY <2>1, <2>2, <3>1 DEF MissingReasons, RunnerPasses
    <3>3. gate = "raw_intent_rejected"
      BY <2>3, <2>4, <2>5, <3>2 DEF GateReason
    <3> QED
      BY <3>1, <3>3, GateWords, NotPassingExactly
  <2>6. CASE ~GuardPasses(s, consumable)
    <3>1. gate \in {"replay_detected", "kernel_guard_required"}
      BY <2>3, <2>4, <2>6 DEF GateReason
    <3> QED
      BY <2>6, <3>1, GateWords, NotPassingExactly
  <2> QED
    BY <2>5, <2>6
<1> HIDE DEF a, policy, ticket, trust, runner, receipt, gate, parts
<1>4. PartsOf(a.reason_code) \cap parts # {}
  BY <1>1, <1>2, <1>3 DEF FirstBlocker
<1> QED
  BY <1>4 DEF a, parts

(* The blockers of an admission are its whole reason and no more: with the *)
(* parts they name repaired the job is admitted, with any others it is     *)
(* blocked on the same parts, and the reason given is of one of them       *)
(* (ExecutionGate.evaluate, _replace_or_append).                           *)
THEOREM BlockersTellAll == ASpec => []BlockersAreTheWholeReason
<1>1. ASSUME FlowInv, NEW j \in Jobs, Composed(j)
      PROVE  LET a == admission[j]
                 blocked == BlockedParts(a)
                 Repaired(parts) ==
                   [p \in DOMAIN a.signals |-> IF p \in parts THEN Sound[p] ELSE a.signals[p]]
                 Again(parts) ==
                   Compose(j, Repaired(parts), asked[j].runtime_consumable, asked[j].live)
                 others == DOMAIN a.signals \ blocked
             IN  /\ WellFormed(a)
                 /\ Again(blocked).allowed
                 /\ BlockedParts(Again(others)) = blocked
                 /\ ~a.allowed => PartsOf(a.reason_code) \cap blocked # {}
  <2>1. PICK x \in Summaries, y \in GuardedParts, z \in ReplayParts :
          /\ admission[j] = Compose(j, Signals(x, y, z), x.runtime_consumable, x.live)
          /\ asked[j] = [runtime_consumable |-> x.runtime_consumable, live |-> x.live]
    BY <1>1 DEF FlowInv, IsComposed
  <2> DEFINE s == Signals(x, y, z)
             consumable == x.runtime_consumable
             live == x.live
             a == Compose(j, s, consumable, live)
             blocked == NotPassing(s, consumable, live)
             Repaired(parts) == [p \in DOMAIN s |-> IF p \in parts THEN Sound[p] ELSE s[p]]
             others == DOMAIN s \ blocked
  <2>2. consumable \in BOOLEAN /\ live \in BOOLEAN
    BY SummaryAssumption
  <2>3. DOMAIN s = Parts /\ s.runner = x.runner
    BY DEF Signals, Parts
  <2>4. a.signals = s
    BY <2>2, FieldsOfCompose
  <2> HIDE DEF s, consumable, live
  <2>5. IsEmpty(s.runner) => ~RunnerAllowed(s.runner)
    BY <2>3, SummaryAssumption, AbsentIsNothing DEF RunnerAllowed, Says, IsEmpty
  <2>6. BlockedParts(a) = blocked
    BY <2>2, <2>5, BlockedExactly
  <2>7. blocked \subseteq Parts /\ ("guarded" \in blocked <=> "replay" \in blocked)
    BY <2>2, NotPassingExactly
  <2>8. Compose(j, Repaired(blocked), consumable, live).allowed
    <3>1. NotPassing(Repaired(blocked), consumable, live) = blocked \ blocked
      BY <2>2, <2>3, <2>7, RepairedParts
    <3> DEFINE t == Repaired(blocked)
    <3> HIDE DEF t
    <3>2. NotPassing(t, consumable, live) = {}
      BY <3>1 DEF t
    <3>3. Passes(t, consumable, live)
      BY <2>2, <3>2, NotPassingExactly
    <3>4. Compose(j, t, consumable, live).allowed
      BY <2>2, <3>3, AllowedExactly
    <3> QED
      BY <3>4 DEF t
  <2>9. BlockedParts(Compose(j, Repaired(others), consumable, live)) = blocked
    <3>1. "guarded" \in others <=> "replay" \in others
      BY <2>3, <2>7 DEF Parts
    <3>2. /\ NotPassing(Repaired(others), consumable, live) = blocked \ others
          /\ Repaired(others).runner = IF "runner" \in others THEN Sound.runner ELSE s.runner
      <4> HIDE DEF others
      <4> QED
        BY <2>2, <2>3, <3>1, RepairedParts
    <3> DEFINE t == Repaired(others)
    <3> HIDE DEF t
    <3>3. NotPassing(t, consumable, live) = blocked
      BY <2>3, <2>7, <3>2 DEF t
    <3>4. RunnerPasses(Sound.runner, live)
      BY <2>2, SoundPasses DEF Passes
    <3>5. IsEmpty(t.runner) => ~RunnerAllowed(t.runner)
      BY <2>5, <3>2, <3>4 DEF t, RunnerPasses
    <3>6. BlockedParts(Compose(j, t, consumable, live)) = blocked
      BY <2>2, <3>3, <3>5, BlockedExactly
    <3> QED
      BY <3>6 DEF t
  <2>10. ~a.allowed => PartsOf(a.reason_code) \cap blocked # {}
    BY <2>2, AllowedExactly, ReasonIsOfBlocked
  <2>11. WellFormed(a)
    <3>1. a.allowed <=> a.blockers = {}
      BY <2>2, AllowedExactly
    <3>2. ~a.allowed => a.status # "allowed"
      <4>1. ~a.allowed => a.status = PolicyOutcome(PolicyStatus(s.policy))
        BY <2>2, BlockedSays
      <4>2. \A status : PolicyOutcome(status) # "allowed"
        BY DEF PolicyOutcome
      <4> QED
        BY <4>1, <4>2
    <3>3. a.allowed => a.status = "allowed"
      BY DEF Compose
    <3> QED
      BY <3>1, <3>2, <3>3 DEF WellFormed
  <2>12. /\ admission[j] = a /\ asked[j].runtime_consumable = consumable
         /\ asked[j].live = live
    BY <2>1 DEF s, consumable, live
  <2> HIDE DEF a, blocked
  <2> QED
    BY <2>4, <2>6, <2>8, <2>9, <2>10, <2>11, <2>12
<1>2. FlowInv => BlockersAreTheWholeReason
  BY <1>1 DEF BlockersAreTheWholeReason
<1> QED
  BY <1>2, FlowInvariant, PTL
=============================================================================
