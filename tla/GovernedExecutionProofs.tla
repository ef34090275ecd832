----------------------- MODULE GovernedExecutionProofs -----------------------
(***************************************************************************)
(* Proofs about what happens to a decision after it was made: one I/O per  *)
(* grant, withdrawal within one lifetime, and single use, for every number *)
(* of workers, signers, requests and leases.                               *)
(***************************************************************************)
EXTENDS GovernedExecution, GovernanceDecisionProofs

-----------------------------------------------------------------------------
(* Decisions only accumulate. *)

(* A step of one call that was not decided adds its decision, if it comes  *)
(* to one.                                                                 *)
LEMMA OneCallDecisions ==
  ASSUME TypeOK, NEW c \in Calls, NEW ev, call[c].stage # "decided",
         call' = [call EXCEPT ![c] = ev]
  PROVE  Decisions' = IF ev.stage = "decided" THEN Decisions \cup {ev.decision} ELSE Decisions
<1>1. /\ call'[c] = ev
      /\ \A d \in Calls \ {c} : call'[d] = call[d]
  BY DEF TypeOK
<1>2. Decisions = {call[d].decision : d \in {e \in Calls \ {c} : call[e].stage = "decided"}}
  BY DEF Decisions
<1>3. CASE ev.stage = "decided"
  <2>1. {e \in Calls : call'[e].stage = "decided"}
          = {e \in Calls \ {c} : call[e].stage = "decided"} \cup {c}
    BY <1>1, <1>3
  <2> QED
    BY <1>1, <1>2, <1>3, <2>1 DEF Decisions
<1>4. CASE ev.stage # "decided"
  <2>1. {e \in Calls : call'[e].stage = "decided"} = {e \in Calls \ {c} : call[e].stage = "decided"}
    BY <1>1, <1>4
  <2> QED
    BY <1>1, <1>2, <1>4, <2>1 DEF Decisions
<1> QED
  BY <1>3, <1>4

(* What a step of the host or of a call does to the decisions and the clock. *)
LEMMA DecisionsStep ==
  ASSUME TypeOK, [Next]_vars
  PROVE  \/ Decisions' = Decisions /\ now' \in {now, now + 1}
         \/ now' = now /\ \E d : Decisions' = Decisions \cup {d}
<1>1. CASE UNCHANGED vars
  BY <1>1 DEF vars, Decisions
<1>2. CASE Host
  <2>1. call' = call /\ now' \in {now, now + 1}
    BY <1>2 DEF Host, Tick, ChangeBinding, RevokeApproval
  <2> QED
    BY <2>1 DEF Decisions
<1>3. ASSUME NEW c \in Calls, NEW ev, call[c].stage # "decided",
             call' = [call EXCEPT ![c] = ev], UNCHANGED hostVars
      PROVE  now' = now /\ \/ Decisions' = Decisions
                           \/ \E d : Decisions' = Decisions \cup {d}
  BY <1>3, OneCallDecisions DEF hostVars
<1>4. ASSUME NEW c \in Calls,
             \/ \E r \in Requests, n \in Nonces \cup {NoNonce}, t \in Lifetimes : Begin(c, r, n, t)
             \/ Evaluation(c)
      PROVE  /\ call[c].stage # "decided" /\ UNCHANGED hostVars
             /\ \E ev : call' = [call EXCEPT ![c] = ev]
  <2>1. ASSUME NEW r \in Requests, NEW n \in Nonces \cup {NoNonce}, NEW t \in Lifetimes,
               Begin(c, r, n, t)
        PROVE  /\ call[c].stage # "decided" /\ UNCHANGED hostVars
               /\ \E ev : call' = [call EXCEPT ![c] = ev]
    BY <2>1 DEF Begin
  <2>2. CASE ReadActivation(c)
    BY <2>2 DEF ReadActivation
  <2>3. CASE ValidateApproval(c)
    BY <2>3 DEF ValidateApproval
  <2>4. CASE Decide(c)
    BY <2>4 DEF Decide
  <2> QED
    BY <1>4, <2>1, <2>2, <2>3, <2>4 DEF Evaluation
<1> QED
  BY <1>1, <1>2, <1>3, <1>4 DEF Next

(* Every step of the pipeline is a step of the decision or leaves it alone. *)
LEMMA DecisionComposed == [ENext]_evars => [Next]_vars
<1> SUFFICES ASSUME [ENext]_evars PROVE [Next]_vars
  OBVIOUS
<1>1. CASE UNCHANGED evars
  BY <1>1 DEF evars, vars
<1>2. ASSUME NEW w \in Workers, Runtime(w) PROVE UNCHANGED vars
  BY <1>2 DEF Runtime, Verify, Claim, Perform, GiveUp, Report, Crash
<1>3. ASSUME NEW c \in Calls, NEW s \in Signers,
             Sign(c, s) \/ \E type \in RecordTypes \ {DecisionRecordType} : SignElsewhere(c, s, type)
      PROVE  UNCHANGED vars
  BY <1>3 DEF Sign, SignElsewhere
<1>4. CASE MoveLease
  BY <1>4 DEF MoveLease
<1> QED
  BY <1>1, <1>2, <1>3, <1>4 DEF ENext

(* The same of every step of the pipeline. *)
LEMMA DecisionsGrow ==
  ASSUME TypeOK, [ENext]_evars
  PROVE  Decisions \subseteq Decisions'
BY DecisionComposed, DecisionsStep
-----------------------------------------------------------------------------
(* Signatures. *)

(* The envelope of an artifact, and when it is that of a signed decision. *)
LEMMA EnvelopeOfArtifact ==
  ASSUME ArtifactsAreSigned, NEW b \in artifacts
  PROVE  \E d \in Decisions, s \in Signers, type \in RecordTypes,
            purpose \in {AuthorityPurpose, RecordPurpose} :
           /\ b.signature = DemoSign(s, RecordDigest(type, d), purpose)
           /\ type = DecisionRecordType => b = SignedDecision(d, s)
<1>1. PICK d \in Decisions, s \in Signers :
        \/ b = SignedDecision(d, s)
        \/ \E type \in RecordTypes \ {DecisionRecordType} : b = SignedRecord(type, d, s)
  BY DEF ArtifactsAreSigned
<1>2. CASE b = SignedDecision(d, s)
  <2>1. b.signature = DemoSign(s, RecordDigest(DecisionRecordType, d), AuthorityPurpose)
    BY <1>2 DEF SignedDecision, SignedArtifact
  <2> QED
    BY <1>2, <2>1, RecordTypeAssumption
<1>3. ASSUME NEW type \in RecordTypes \ {DecisionRecordType}, b = SignedRecord(type, d, s)
      PROVE  b.signature = DemoSign(s, RecordDigest(type, d), RecordPurpose)
  BY <1>3 DEF SignedRecord, SignedArtifact
<1> QED
  BY <1>1, <1>2, <1>3

(* What verification makes of an envelope. *)
LEMMA TrustedEnvelope ==
  ASSUME NEW d, NEW a, NEW verifier, TrustedGovernanceDecision(d, a, verifier)
  PROVE  LET digest == RecordDigest(DecisionRecordType, d)
         IN  /\ a.record_type = DecisionRecordType /\ a.decision_digest = d
             /\ a.purpose = AuthorityPurpose /\ a.record_digest = digest
             /\ a.signature.mode = DemoMode /\ a.signature.binds_digest = {digest}
             /\ a.signature.signature
                  = {SignatureValue(digest, a.signature.signer_id, a.signature.purpose)}
             /\ RequiredSigners # {} => a.signature.signer_id \in RequiredSigners
             /\ verifier.trusted_status \in AllowedTrustStatuses \cap {"trusted", "passed", "ok"}
<1> DEFINE digest == RecordDigest(DecisionRecordType, d)
           verification == VerifySignedRecord(d, a, verifier)
<1>1. /\ a.record_type = DecisionRecordType /\ a.decision_digest = d
      /\ a.purpose = AuthorityPurpose
      /\ RequiredSigners # {} => a.signature.signer_id \in RequiredSigners
      /\ Trusted(verification) /\ verification.trust_status \in AllowedTrustStatuses
  BY DEF TrustedGovernanceDecision
<1>2. ~Trusted(Denied)
  BY DEF Trusted, Denied
<1>3. a.record_digest = digest /\ verification = DemoVerify(verifier, digest, a.signature)
  BY <1>1, <1>2 DEF VerifySignedRecord
<1>4. /\ a.signature.mode = DemoMode /\ a.signature.binds_digest = {digest}
      /\ a.signature.signature
           = {SignatureValue(digest, a.signature.signer_id, a.signature.purpose)}
      /\ verification.trust_status = verifier.trusted_status
  BY <1>1, <1>2, <1>3 DEF DemoVerify
<1> QED
  BY <1>1, <1>3, <1>4 DEF Trusted

(* A signature over the digest of a decision is that of the decision's     *)
(* signed artifact: no other artifact computes to it.                      *)
LEMMA SignatureIsOfDecision ==
  ASSUME ArtifactsAreSigned, NEW d, NEW b \in artifacts, NEW t, NEW p,
         b.signature.signature = {SignatureValue(RecordDigest(DecisionRecordType, d), t, p)}
  PROVE  b = SignedDecision(d, t) /\ p = AuthorityPurpose
<1> DEFINE digest == RecordDigest(DecisionRecordType, d)
<1>1. PICK e \in Decisions, s \in Signers, type \in RecordTypes,
              q \in {AuthorityPurpose, RecordPurpose} :
        /\ b.signature = DemoSign(s, RecordDigest(type, e), q)
        /\ type = DecisionRecordType => b = SignedDecision(e, s)
  BY EnvelopeOfArtifact
<1>2. b.signature.signature = {SignatureValue(RecordDigest(type, e), s, q)}
  BY <1>1 DEF DemoSign
<1>3. SignatureValue(RecordDigest(type, e), s, q) = SignatureValue(digest, t, p)
  BY <1>2
<1>4. RecordDigest(type, e) = digest /\ s = t /\ q = p
  BY <1>3 DEF SignatureValue
<1>5. type = DecisionRecordType /\ e = d
  BY <1>4 DEF RecordDigest, CanonicalRecord
<1>6. b = SignedDecision(d, t)
  BY <1>1, <1>4, <1>5
<1>7. b.signature.purpose = AuthorityPurpose /\ b.signature.purpose = q
  <2>1. b.signature = DemoSign(t, digest, AuthorityPurpose)
    BY <1>6 DEF SignedDecision, SignedArtifact
  <2> QED
    BY <1>1, <2>1 DEF DemoSign
<1> QED
  BY <1>4, <1>6, <1>7

(* What a runtime trusts is the artifact that its signer made, whole: an   *)
(* envelope put together of parts is that artifact's or does not verify.   *)
LEMMA TrustedIsTheArtifact ==
  ASSUME ArtifactsAreSigned, NEW d, NEW verifier, NEW a \in Presented(d),
         TrustedGovernanceDecision(d, a, verifier)
  PROVE  a \in artifacts /\ a = SignedDecision(d, a.signature.signer_id)
<1> DEFINE digest == RecordDigest(DecisionRecordType, d)
           s == a.signature.signer_id
<1>1. /\ a.signature.mode = DemoMode /\ a.signature.binds_digest = {digest}
      /\ a.signature.signature = {SignatureValue(digest, s, a.signature.purpose)}
  BY TrustedEnvelope
<1>2. CASE a \in artifacts
  BY <1>1, <1>2, SignatureIsOfDecision
<1>3. ASSUME NEW e \in Envelopes(d), a = SignedArtifact(DecisionRecordType, d, e, AuthorityPurpose)
      PROVE  a \in artifacts /\ a = SignedDecision(d, s)
  <2>1. a.signature = e
    BY <1>3 DEF SignedArtifact
  <2>2. PICK b \in artifacts, u \in Signers,
             x \in {{digest}} \cup {k.signature.binds_digest : k \in artifacts} :
          e = Relabelled(b.signature, x, u)
    BY DEF Envelopes
  <2>3. PICK r, t, q : b.signature = DemoSign(t, r, q)
    BY EnvelopeOfArtifact
  <2>4. /\ e.mode = b.signature.mode /\ e.signature = b.signature.signature
        /\ e.purpose = b.signature.purpose /\ e.signer_id = u
        /\ e = [mode |-> e.mode, signer_id |-> e.signer_id, binds_digest |-> e.binds_digest,
                signature |-> e.signature, purpose |-> e.purpose]
    BY <2>2, <2>3 DEF DemoSign, Relabelled
  <2>5. b = SignedDecision(d, s) /\ e.purpose = AuthorityPurpose
    BY <1>1, <2>1, <2>4, SignatureIsOfDecision
  <2>6. e = DemoSign(s, digest, AuthorityPurpose)
    BY <1>1, <2>1, <2>4, <2>5 DEF DemoSign
  <2>7. a = SignedDecision(d, s)
    BY <1>3, <2>6 DEF SignedDecision
  <2> QED
    BY <2>5, <2>7
<1> QED
  BY <1>2, <1>3 DEF Presented

(* What a runtime trusts was signed by a required signer as this very      *)
(* decision.                                                               *)
LEMMA TrustedWasSigned ==
  ASSUME ArtifactsAreSigned, NEW d, NEW verifier, NEW a \in Presented(d),
         TrustedGovernanceDecision(d, a, verifier)
  PROVE  \E s \in Signers : /\ SignedDecision(d, s) \in artifacts
                            /\ RequiredSigners # {} => s \in RequiredSigners
<1> DEFINE s == a.signature.signer_id
<1>1. a \in artifacts /\ a = SignedDecision(d, s)
  BY TrustedIsTheArtifact
<1>2. RequiredSigners # {} => s \in RequiredSigners
  BY TrustedEnvelope
<1>3. PICK t \in Signers : \E digest, purpose : a.signature = DemoSign(t, digest, purpose)
  BY <1>1, EnvelopeOfArtifact
<1>4. s \in Signers
  BY <1>3 DEF DemoSign
<1> QED
  BY <1>1, <1>2, <1>4

(* The artifact of a required signer whom the verifier knows is trusted.   *)
LEMMA SignedIsTrusted ==
  ASSUME DemoMode \in AllowedModes, "trusted" \in AllowedTrustStatuses,
         NEW d, NEW s \in RequiredSigners, NEW verifier,
         verifier.allowed_signer_ids = {} \/ s \in verifier.allowed_signer_ids,
         verifier.trusted_status = "trusted"
  PROVE  TrustedGovernanceDecision(d, SignedDecision(d, s), verifier)
<1> DEFINE digest == RecordDigest(DecisionRecordType, d)
           e == DemoSign(s, digest, AuthorityPurpose)
           a == SignedDecision(d, s)
<1>1. /\ e.mode = DemoMode /\ e.signer_id = s /\ e.binds_digest = {digest}
      /\ e.purpose = AuthorityPurpose
      /\ e.signature = {SignatureValue(digest, s, AuthorityPurpose)}
  BY DEF DemoSign
<1>2. /\ a.record_type = DecisionRecordType /\ a.record_digest = digest /\ a.signature = e
      /\ a.purpose = AuthorityPurpose /\ a.decision_digest = d
  BY DEF SignedDecision, SignedArtifact
<1> HIDE DEF a, e
<1>3. DemoMode \notin IntegrityOnlyModes
  BY DEF DemoMode, IntegrityOnlyModes
<1>4. ValidArtifact(a)
  BY <1>1, <1>2, <1>3, RecordTypeAssumption DEF ValidArtifact, Signed
<1>5. DemoVerify(verifier, digest, e) = [status |-> "passed", trust_status |-> "trusted"]
  BY <1>1 DEF DemoVerify
<1>6. VerifySignedRecord(d, a, verifier) = [status |-> "passed", trust_status |-> "trusted"]
  BY <1>2, <1>5 DEF VerifySignedRecord
<1>7. TrustedGovernanceDecision(d, a, verifier)
  BY <1>1, <1>2, <1>4, <1>6 DEF TrustedGovernanceDecision, Trusted
<1> QED
  BY <1>7 DEF a

(* The artifact transition has nothing against what is trusted. *)
LEMMA TrustedMayTransit ==
  ASSUME NEW d, NEW a, NEW verifier, TrustedGovernanceDecision(d, a, verifier)
  PROVE  TransitionBlockers(a.record_digest, a.signature, {VerifySignedRecord(d, a, verifier)}) = {}
<1> DEFINE v == VerifySignedRecord(d, a, verifier)
<1>1. /\ a.signature.mode \in AllowedModes
      /\ RequiredSigners # {} => a.signature.signer_id \in RequiredSigners
      /\ Signed(a.signature) /\ a.signature.binds_digest = {a.record_digest}
      /\ v.status \in {"passed", "ok"} /\ v.trust_status \in AllowedTrustStatuses
  BY DEF TrustedGovernanceDecision, ValidArtifact, Trusted
<1> HIDE DEF v
<1>2. TransitionBlockers(a.record_digest, a.signature, {v}) = {}
  BY <1>1 DEF TransitionBlockers
<1> QED
  BY <1>2 DEF v
-----------------------------------------------------------------------------
(* The invariant, step by step. *)

(* It holds of the pipeline before anything ran. *)
LEMMA ExecutionInit == EInit => ExecutionInv
<1> SUFFICES ASSUME EInit PROVE ExecutionInv
  OBVIOUS
<1>1. EvidenceInv
  BY EvidenceInit DEF EInit
<1>2. ExecutionTyped
  BY DEF EInit, ExecutionTyped, IdleWorker
<1>3. /\ ArtifactsAreSigned /\ ClaimsDiffer /\ IoIsClaimed
      /\ ClaimsAreGranted
  BY DEF EInit, ArtifactsAreSigned, ClaimsDiffer, IoIsClaimed, ClaimsAreGranted
<1>4. \A w \in Workers : worker[w].stage = "idle"
  BY DEF EInit, IdleWorker
<1> QED
  BY <1>1, <1>2, <1>3, <1>4 DEF ExecutionInv, ClaimIsExclusive, WorkersAreGranted

(* A step that touches neither workers, claims nor I/O. *)
LEMMA OutsideRuntime ==
  ASSUME ExecutionInv, [ENext]_evars, UNCHANGED <<claims, worker, ios>>,
         artifacts \subseteq artifacts', ArtifactsAreSigned'
  PROVE  ExecutionInv'
<1>1. EvidenceInv'
  BY EvidenceNext, DecisionComposed DEF ExecutionInv
<1>2. WorkersAreGranted' /\ ClaimsAreGranted'
  BY DecisionsGrow DEF ExecutionInv, EvidenceInv, WorkersAreGranted, ClaimsAreGranted, Granted
<1>3. ExecutionTyped' /\ ClaimsDiffer' /\ ClaimIsExclusive' /\ IoIsClaimed'
  BY DEF ExecutionInv, ExecutionTyped, ClaimsDiffer, ClaimIsExclusive, IoIsClaimed, IsClaimed
<1> QED
  BY <1>1, <1>2, <1>3 DEF ExecutionInv

(* Signing adds an artifact of a decision. *)
LEMMA SigningKeeps ==
  ASSUME ExecutionInv, [ENext]_evars, NEW c \in Calls, NEW s \in Signers,
         Sign(c, s) \/ \E type \in RecordTypes \ {DecisionRecordType} : SignElsewhere(c, s, type)
  PROVE  ExecutionInv'
<1>1. /\ call[c].decision \in Decisions /\ Decisions' = Decisions
      /\ UNCHANGED <<claims, worker, ios>>
  BY DEF Sign, SignElsewhere, Decisions, vars
<1>2. /\ artifacts \subseteq artifacts'
      /\ \A a \in artifacts' \ artifacts :
           \/ a = SignedDecision(call[c].decision, s)
           \/ \E type \in RecordTypes \ {DecisionRecordType} :
                a = SignedRecord(type, call[c].decision, s)
  BY DEF Sign, SignElsewhere
<1>3. ArtifactsAreSigned'
  BY <1>1, <1>2 DEF ExecutionInv, ArtifactsAreSigned
<1> QED
  BY <1>1, <1>2, <1>3, OutsideRuntime

(* The parts that no step of a runtime changes. *)
LEMMA RuntimeLeaves ==
  ASSUME ExecutionInv, NEW w \in Workers, Runtime(w)
  PROVE  /\ [ENext]_evars /\ UNCHANGED vars /\ artifacts' = artifacts
         /\ Decisions' = Decisions
         /\ EvidenceInv' /\ ArtifactsAreSigned'
<1>1. UNCHANGED vars /\ artifacts' = artifacts
  BY DEF Runtime, Verify, Claim, Perform, GiveUp, Report, Crash
<1>2. [ENext]_evars
  BY DEF ENext
<1>3. Decisions' = Decisions
  BY <1>1 DEF Decisions, vars
<1>4. EvidenceInv'
  BY <1>2, EvidenceNext, DecisionComposed DEF ExecutionInv
<1> QED
  BY <1>1, <1>2, <1>3, <1>4 DEF ExecutionInv, ArtifactsAreSigned

(* A worker that may not act on a claim disturbs nobody's claim. *)
LEMMA WorkerAside ==
  ASSUME ExecutionInv, NEW w \in Workers, Runtime(w), UNCHANGED <<claims, ios>>,
         ExecutionTyped',
         NEW ev, worker' = [worker EXCEPT ![w] = ev], ev.stage # "claimed",
         ev.stage # "idle" => Granted(ev.decision)
  PROVE  ExecutionInv'
<1>1. /\ worker'[w] = ev /\ \A v \in Workers \ {w} : worker'[v] = worker[v]
  BY DEF ExecutionInv, ExecutionTyped
<1>2. WorkersAreGranted' /\ ClaimsAreGranted'
  BY <1>1, RuntimeLeaves DEF ExecutionInv, WorkersAreGranted, ClaimsAreGranted, Granted
<1>3. ClaimIsExclusive'
  BY <1>1 DEF ExecutionInv, ClaimIsExclusive, IsClaimed
<1>4. ClaimsDiffer' /\ IoIsClaimed'
  BY DEF ExecutionInv, ClaimsDiffer, IoIsClaimed, IsClaimed
<1> QED
  BY <1>2, <1>3, <1>4, RuntimeLeaves DEF ExecutionInv

(* A verified decision is granted: that is what verification is for. *)
LEMMA VerifyKeeps ==
  ASSUME ExecutionInv, NEW w \in Workers, NEW d \in Decisions, NEW verifier \in Verifiers,
         NEW a \in Presented(d), Verify(w, d, a, verifier)
  PROVE  ExecutionInv'
<1> DEFINE ev == [IdleWorker EXCEPT !.stage = "verified", !.decision = d]
<1>1. /\ Runtime(w) /\ UNCHANGED <<claims, ios>> /\ worker' = [worker EXCEPT ![w] = ev]
  BY DEF Verify, Runtime
<1>2. d \in DecisionRecords
  BY DEF ExecutionInv, EvidenceInv, TypeOK, Decisions
<1>3. Granted(d)
  BY TrustedWasSigned DEF Verify, ExecutionInv, Granted
<1>4. /\ ev.stage = "verified" /\ ev.decision = d
      /\ ExecutionTyped'
  BY <1>1, <1>2 DEF ExecutionInv, ExecutionTyped, IdleWorker
<1> HIDE DEF ev
<1> QED
  BY <1>1, <1>3, <1>4, WorkerAside

(* A worker that gives up, dies or reports keeps the claims it leaves. *)
LEMMA LeavingKeeps ==
  ASSUME ExecutionInv, NEW w \in Workers,
         \/ GiveUp(w)
         \/ Crash(w)
         \/ \E bytes \in OutputSizes, digests \in BOOLEAN : Report(w, bytes, digests)
  PROVE  ExecutionInv'
<1>1. Runtime(w) /\ UNCHANGED <<claims, ios>>
  BY DEF GiveUp, Crash, Report, Runtime
<1>2. ASSUME GiveUp(w) \/ Crash(w) PROVE ExecutionInv'
  <2>1. worker' = [worker EXCEPT ![w] = IdleWorker]
    BY <1>2 DEF GiveUp, Crash
  <2>2. IdleWorker.stage = "idle" /\ ExecutionTyped'
    BY <1>1, <2>1 DEF ExecutionInv, ExecutionTyped, IdleWorker
  <2> QED
    BY <1>1, <2>1, <2>2, WorkerAside
<1>3. ASSUME NEW bytes \in OutputSizes, NEW digests \in BOOLEAN, Report(w, bytes, digests)
      PROVE  ExecutionInv'
  <2>1. worker[w].stage = "performed" /\ worker[w].decision \in DecisionRecords \cup {NoDecision}
    BY <1>3 DEF Report, ExecutionInv, ExecutionTyped
  <2>2. PICK result \in {"conformant", "nonconformant", "raised"} :
          worker' = [worker EXCEPT ![w] = [stage |-> "reported", decision |-> worker[w].decision,
                                           result |-> result]]
    BY <1>3, <2>1 DEF Report, ExecutionInv, ExecutionTyped
  <2> DEFINE ev == [stage |-> "reported", decision |-> worker[w].decision, result |-> result]
  <2>3. ExecutionTyped'
    BY <1>1, <2>1, <2>2 DEF ExecutionInv, ExecutionTyped
  <2>4. ev.stage = "reported" /\ Granted(ev.decision)
    BY <2>1 DEF ExecutionInv, WorkersAreGranted
  <2> HIDE DEF ev
  <2>5. worker' = [worker EXCEPT ![w] = ev]
    BY <2>2 DEF ev
  <2> QED
    BY <1>1, <2>3, <2>4, <2>5, WorkerAside
<1> QED
  BY <1>2, <1>3

(* A claim is taken by one worker, of a decision nobody claimed before. *)
LEMMA ClaimKeeps ==
  ASSUME ExecutionInv, NEW w \in Workers, Claim(w)
  PROVE  ExecutionInv'
<1> DEFINE d == worker[w].decision
           k0 == [decision |-> d, owner |-> RuntimeOf[w]]
<1>1. Runtime(w) /\ UNCHANGED ios /\ worker[w].stage = "verified" /\ Granted(d)
  BY DEF Claim, Runtime, ExecutionInv, WorkersAreGranted
<1>2. CASE ~Unclaimed(d)
  <2>1. worker' = [worker EXCEPT ![w] = IdleWorker] /\ UNCHANGED claims
    BY <1>2 DEF Claim
  <2>2. IdleWorker.stage = "idle" /\ ExecutionTyped'
    BY <1>1, <2>1 DEF ExecutionInv, ExecutionTyped, IdleWorker
  <2> QED
    BY <1>1, <2>1, <2>2, WorkerAside
<1>3. CASE Unclaimed(d)
  <2>1. /\ claims' = claims \cup {k0}
        /\ worker' = [worker EXCEPT ![w].stage = "claimed"]
    BY <1>3 DEF Claim
  <2>2. ExecutionTyped'
    BY <1>1, <2>1 DEF ExecutionInv, ExecutionTyped
  <2>3. /\ worker'[w].stage = "claimed" /\ worker'[w].decision = d
        /\ \A v \in Workers \ {w} : worker'[v] = worker[v]
    BY <2>1 DEF ExecutionInv, ExecutionTyped
  <2>4. WorkersAreGranted' /\ ClaimsAreGranted'
    BY <1>1, <2>1, <2>3, RuntimeLeaves
       DEF ExecutionInv, WorkersAreGranted, ClaimsAreGranted, Granted
  <2>5. ~IsClaimed(d) /\ \A k \in claims : k.decision.grant.nonce # d.grant.nonce
    BY <1>3 DEF Unclaimed, IsClaimed
  <2>6. ClaimsDiffer'
    BY <2>1, <2>5 DEF ExecutionInv, ClaimsDiffer, IsClaimed
  <2>7. IoIsClaimed'
    BY <1>1, <2>1 DEF ExecutionInv, IoIsClaimed, IsClaimed
  <2>8. /\ \A i \in DOMAIN ios : ios[i].decision # d
        /\ \A v \in Workers \ {w} : worker[v].stage = "claimed" => worker[v].decision # d
    BY <2>5 DEF ExecutionInv, IoIsClaimed, ClaimIsExclusive, IsClaimed
  <2>9. ClaimIsExclusive'
    <3> SUFFICES ASSUME NEW v \in Workers, worker'[v].stage = "claimed"
                 PROVE  /\ \E k \in claims' : k.decision = worker'[v].decision
                        /\ \A i \in DOMAIN ios' : ios'[i].decision # worker'[v].decision
                        /\ \A u \in Workers \ {v} :
                             worker'[u].stage = "claimed" => worker'[u].decision # worker'[v].decision
      BY DEF ClaimIsExclusive, IsClaimed
    <3>1. CASE v = w
      <4>1. k0 \in claims' /\ k0.decision = d
        BY <2>1
      <4>2. \A u \in Workers \ {w} : worker'[u].stage = "claimed" => worker'[u].decision # d
        BY <2>3, <2>8
      <4> QED
        BY <1>1, <2>3, <2>8, <3>1, <4>1, <4>2
    <3>2. CASE v # w
      <4>1. worker'[v] = worker[v] /\ worker[v].stage = "claimed"
        BY <2>3, <3>2
      <4>2. /\ IsClaimed(worker[v].decision)
            /\ \A i \in DOMAIN ios : ios[i].decision # worker[v].decision
            /\ \A u \in Workers \ {v} :
                 worker[u].stage = "claimed" => worker[u].decision # worker[v].decision
        BY <4>1 DEF ExecutionInv, ClaimIsExclusive
      <4>3. \A u \in Workers \ {v} :
              worker'[u].stage = "claimed" => worker'[u].decision # worker[v].decision
        BY <2>3, <2>8, <3>2, <4>1, <4>2
      <4> QED
        BY <1>1, <2>1, <4>1, <4>2, <4>3 DEF IsClaimed
    <3> QED
      BY <3>1, <3>2
  <2> QED
    BY <1>1, <2>2, <2>4, <2>6, <2>7, <2>9, RuntimeLeaves DEF ExecutionInv
<1> QED
  BY <1>2, <1>3

(* The I/O of a claim is the only one of its decision: its worker is alone *)
(* with the claim and acts once.                                           *)
LEMMA PerformKeeps ==
  ASSUME ExecutionInv, NEW w \in Workers, Perform(w)
  PROVE  ExecutionInv'
<1> DEFINE d == worker[w].decision
           io == [decision |-> d, worker |-> w, at |-> now]
           n == Len(ios)
<1>1. /\ Runtime(w) /\ UNCHANGED claims /\ worker[w].stage = "claimed" /\ Granted(d)
      /\ ios' = Append(ios, io) /\ worker' = [worker EXCEPT ![w].stage = "performed"]
  BY DEF Perform, Runtime, ExecutionInv, WorkersAreGranted
<1>2. d \in DecisionRecords /\ now \in Times /\ ios \in Seq(IoRecords)
  BY <1>1 DEF ExecutionInv, EvidenceInv, TypeOK, ExecutionTyped, Granted, Decisions
<1>3. io \in IoRecords
  BY <1>2 DEF IoRecords
<1> HIDE DEF io
<1>4. /\ n \in Nat /\ DOMAIN ios = 1 .. n /\ DOMAIN ios' = 1 .. n + 1
      /\ ios'[n + 1] = io /\ \A i \in 1 .. n : ios'[i] = ios[i]
      /\ ios' \in Seq(IoRecords)
  BY <1>1, <1>2, <1>3
<1>5. ExecutionTyped'
  BY <1>1, <1>4 DEF ExecutionInv, ExecutionTyped
<1>6. /\ worker'[w].stage = "performed" /\ worker'[w].decision = d
      /\ \A v \in Workers \ {w} : worker'[v] = worker[v]
  BY <1>1 DEF ExecutionInv, ExecutionTyped
<1>7. WorkersAreGranted' /\ ClaimsAreGranted'
  BY <1>1, <1>6, RuntimeLeaves DEF ExecutionInv, WorkersAreGranted, ClaimsAreGranted, Granted
<1>8. /\ IsClaimed(d) /\ \A i \in DOMAIN ios : ios[i].decision # d
      /\ \A v \in Workers \ {w} : worker[v].stage = "claimed" => worker[v].decision # d
  BY <1>1 DEF ExecutionInv, ClaimIsExclusive
<1>9. io.decision = d /\ io.at < d.grant.expires_at
  BY DEF io, Perform, RuntimeBound
<1>10. IoIsClaimed'
  <2>1. ASSUME NEW i \in 1 .. n + 1
        PROVE  /\ \E k \in claims' : k.decision = ios'[i].decision
               /\ ios'[i].at < ios'[i].decision.grant.expires_at
    <3>1. CASE i = n + 1
      BY <1>1, <1>4, <1>8, <1>9, <3>1 DEF IsClaimed
    <3>2. CASE i \in 1 .. n
      BY <1>1, <1>4, <3>2 DEF ExecutionInv, IoIsClaimed, IsClaimed
    <3> QED
      BY <1>4, <3>1, <3>2
  <2>2. ASSUME NEW i \in 1 .. n + 1, NEW j \in 1 .. n + 1, i # j
        PROVE  ios'[i].decision # ios'[j].decision
    <3>1. CASE i \in 1 .. n /\ j \in 1 .. n
      BY <1>4, <2>2, <3>1 DEF ExecutionInv, IoIsClaimed
    <3>2. CASE i = n + 1 \/ j = n + 1
      BY <1>4, <1>8, <1>9, <2>2, <3>2
    <3> QED
      BY <1>4, <3>1, <3>2
  <2> QED
    BY <1>4, <2>1, <2>2 DEF IoIsClaimed, IsClaimed
<1>11. ClaimIsExclusive'
  <2> SUFFICES ASSUME NEW v \in Workers, worker'[v].stage = "claimed"
               PROVE  /\ \E k \in claims' : k.decision = worker'[v].decision
                      /\ \A i \in DOMAIN ios' : ios'[i].decision # worker'[v].decision
                      /\ \A u \in Workers \ {v} :
                           worker'[u].stage = "claimed" => worker'[u].decision # worker'[v].decision
    BY DEF ClaimIsExclusive, IsClaimed
  <2>1. v # w /\ worker'[v] = worker[v] /\ worker[v].stage = "claimed"
    BY <1>6
  <2>2. /\ \E k \in claims' : k.decision = worker[v].decision
        /\ \A i \in DOMAIN ios : ios[i].decision # worker[v].decision
        /\ \A u \in Workers \ {v} :
             worker'[u].stage = "claimed" => worker'[u].decision # worker[v].decision
    BY <1>1, <1>6, <2>1 DEF ExecutionInv, ClaimIsExclusive, IsClaimed
  <2>3. \A i \in DOMAIN ios' : ios'[i].decision # worker[v].decision
    BY <1>4, <1>8, <1>9, <2>1, <2>2
  <2> QED
    BY <2>1, <2>2, <2>3
<1>12. ClaimsDiffer'
  BY <1>1 DEF ExecutionInv, ClaimsDiffer
<1> QED
  BY <1>1, <1>5, <1>7, <1>10, <1>11, <1>12, RuntimeLeaves DEF ExecutionInv

(* The inductive step. *)
LEMMA ExecutionNext == ExecutionInv /\ [ENext]_evars => ExecutionInv'
<1> SUFFICES ASSUME ExecutionInv, [ENext]_evars PROVE ExecutionInv'
  OBVIOUS
<1>1. CASE (Next /\ UNCHANGED runtimeVars) \/ MoveLease \/ UNCHANGED evars
  <2>1. UNCHANGED <<artifacts, claims, worker, ios>>
    BY <1>1 DEF runtimeVars, MoveLease, evars
  <2>2. ArtifactsAreSigned'
    BY <2>1, DecisionsGrow DEF ExecutionInv, EvidenceInv, ArtifactsAreSigned
  <2> QED
    BY <2>1, <2>2, OutsideRuntime
<1>2. ASSUME NEW w \in Workers, Runtime(w) PROVE ExecutionInv'
  BY <1>2, VerifyKeeps, ClaimKeeps, PerformKeeps, LeavingKeeps DEF Runtime
<1> QED
  BY <1>1, <1>2, SigningKeeps DEF ENext

(* Every artifact stays the signature of a decision, every claim the claim *)
(* of a verified worker, every I/O claimed, and no two workers of one claim *)
(* may both act on it (claim_governance_decision_once,                     *)
(* execute_authorized_io).                                                 *)
THEOREM ExecutionInvariant == ESpec => []ExecutionInv
BY ExecutionInit, ExecutionNext, PTL DEF ESpec

(* However workers race, crash and retry, every I/O has a signed grant of  *)
(* its own, and no other I/O runs under its decision or its nonce          *)
(* (require_trusted_governance_decision, claim_governance_decision_once).  *)
THEOREM OneGrantPerIo ==
  ASSUME RequiredSigners # {}
  PROVE  ESpec => []OneTrustedGrantPerIo
<1>1. ASSUME ExecutionInv, NEW i \in DOMAIN ios
      PROVE  /\ ios[i].decision.status = "allowed"
             /\ \E s \in RequiredSigners : SignedDecision(ios[i].decision, s) \in artifacts
             /\ \A j \in DOMAIN ios : i # j =>
                  /\ ios[i].decision # ios[j].decision
                  /\ ios[i].decision.grant.nonce # ios[j].decision.grant.nonce
  <2>1. PICK k \in claims : k.decision = ios[i].decision
    BY <1>1 DEF ExecutionInv, IoIsClaimed, IsClaimed
  <2>2. Granted(ios[i].decision)
    BY <1>1, <2>1 DEF ExecutionInv, ClaimsAreGranted
  <2>3. ASSUME NEW j \in DOMAIN ios, i # j
        PROVE  /\ ios[i].decision # ios[j].decision
               /\ ios[i].decision.grant.nonce # ios[j].decision.grant.nonce
    <3>1. ios[i].decision # ios[j].decision
      BY <1>1, <2>3 DEF ExecutionInv, IoIsClaimed
    <3>2. PICK l \in claims : l.decision = ios[j].decision
      BY <1>1 DEF ExecutionInv, IoIsClaimed, IsClaimed
    <3>3. k # l
      BY <2>1, <3>1, <3>2
    <3>4. k.decision.grant.nonce # l.decision.grant.nonce
      BY <1>1, <3>3 DEF ExecutionInv, ClaimsDiffer
    <3> QED
      BY <2>1, <3>1, <3>2, <3>4
  <2> QED
    BY <2>2, <2>3 DEF Granted
<1>2. ExecutionInv => OneTrustedGrantPerIo
  BY <1>1 DEF OneTrustedGrantPerIo
<1> QED
  BY <1>2, ExecutionInvariant, PTL

(* A runtime trusts a decision exactly with the artifact that a required   *)
(* signer made of it, and what it trusts the artifact transition allows    *)
(* (require_trusted_governance_decision, signature_transition_decision).   *)
(* The host requires signers, takes their signatures and "trusted", and    *)
(* its verifiers know them.                                                *)
THEOREM TrustIsExact ==
  ASSUME RequiredSigners # {}, DemoMode \in AllowedModes,
         AllowedTrustStatuses \cap {"trusted", "passed", "ok"} = {"trusted"},
         \A v \in Verifiers :
           v.allowed_signer_ids = {} \/ RequiredSigners \subseteq v.allowed_signer_ids
  PROVE  ESpec => []TrustedExactlyWhenSigned
<1>1. ASSUME ExecutionInv, NEW d \in Decisions, NEW verifier \in Verifiers,
             NEW a \in Presented(d)
      PROVE  LET trusted == TrustedGovernanceDecision(d, a, verifier)
             IN  trusted <=> /\ \E s \in RequiredSigners : a = SignedDecision(d, s)
                             /\ a \in artifacts
                             /\ verifier.trusted_status = "trusted"
  <2>1. ASSUME TrustedGovernanceDecision(d, a, verifier)
        PROVE  /\ \E s \in RequiredSigners : a = SignedDecision(d, s)
               /\ a \in artifacts
               /\ verifier.trusted_status = "trusted"
    <3>1. /\ a.signature.signer_id \in RequiredSigners
          /\ verifier.trusted_status = "trusted"
      BY <2>1, TrustedEnvelope
    <3>2. a \in artifacts /\ a = SignedDecision(d, a.signature.signer_id)
      BY <1>1, <2>1, TrustedIsTheArtifact DEF ExecutionInv
    <3> QED
      BY <3>1, <3>2
  <2>2. ASSUME NEW s \in RequiredSigners, a = SignedDecision(d, s),
               verifier.trusted_status = "trusted"
        PROVE  TrustedGovernanceDecision(d, a, verifier)
    <3>1. "trusted" \in AllowedTrustStatuses
      OBVIOUS
    <3> QED
      BY <2>2, <3>1, SignedIsTrusted
  <2> QED
    BY <2>1, <2>2
<1>2. ExecutionInv => TrustedExactlyWhenSigned
  BY <1>1, TrustedMayTransit DEF TrustedExactlyWhenSigned
<1> QED
  BY <1>2, ExecutionInvariant, PTL
-----------------------------------------------------------------------------
(* Withdrawal. *)

(* Every grant stays one that _authorization checked. *)
LEMMA GrantInvariant == ESpec => []GrantInv
<1>1. EInit => GrantInv
  BY GrantInit DEF EInit
<1>2. ExecutionInv /\ GrantInv /\ [ENext]_evars => GrantInv'
  BY GrantNext, DecisionComposed DEF ExecutionInv
<1> QED
  BY <1>1, <1>2, ExecutionInvariant, PTL DEF ESpec

(* The call that an I/O goes back to, and the grant it was performed under. *)
LEMMA IoHasItsCall ==
  ASSUME ExecutionInv, GrantInv, NEW i \in DOMAIN ios
  PROVE  /\ ios[i].at \in Nat
         /\ \E c \in Calls :
              /\ Allowed(c) /\ call[c].decision = ios[i].decision
              /\ call[c].request = ios[i].decision.request /\ call[c].request \in Requests
              /\ call[c].expires_at \in Nat /\ call[c].evaluated_at \in Nat
              /\ ios[i].at < call[c].expires_at
              /\ AuthorizationOk(call[c]) /\ ActivationWasInForce(call[c])
<1>1. Granted(ios[i].decision)
  BY DEF ExecutionInv, IoIsClaimed, IsClaimed, ClaimsAreGranted
<1>2. PICK c \in Calls : Allowed(c) /\ call[c].decision = ios[i].decision
  BY <1>1 DEF Granted, Decisions, Allowed
<1>3. /\ call[c].decision.grant.expires_at = call[c].expires_at
      /\ AuthorizationOk(call[c]) /\ ActivationWasInForce(call[c])
  BY <1>2 DEF GrantInv, GrantIsAuthorized, Allowed
<1>4. /\ call[c] \in CallRecords /\ call[c].request \in Requests
      /\ call[c].request = call[c].decision.request
  BY <1>2 DEF ExecutionInv, EvidenceInv, TypeOK, Allowed, CallEvidence, DecisionFollowsGates
<1>5. call[c].expires_at \in Nat /\ call[c].evaluated_at \in Nat
  BY <1>4, TimeAssumption DEF CallRecords, Times
<1>6. ios[i] \in IoRecords
  BY DEF ExecutionInv, ExecutionTyped
<1>7. ios[i].at \in Nat
  BY <1>6, TimeAssumption DEF IoRecords, Times
<1>8. ios[i].at < ios[i].decision.grant.expires_at
  BY DEF ExecutionInv, IoIsClaimed
<1>9. ios[i].at < call[c].expires_at
  BY <1>2, <1>3, <1>8
<1> QED
  BY <1>2, <1>3, <1>4, <1>5, <1>7, <1>9

(* A withdrawn policy or a revoked approval is honoured within one         *)
(* authorization lifetime: what was still allowed began before it, and its *)
(* grant is over that soon (_authorization, the ports of                   *)
(* evaluate_governance).                                                   *)
THEOREM WithdrawalHonoured == ESpec => []WithdrawalTakesEffectWithinLifetime
<1>1. ASSUME ExecutionInv, GrantInv, NEW i \in DOMAIN ios
      PROVE  LET q == Request[ios[i].decision.request]
             IN  /\ \A b \in ActiveBindings(q) : ios[i].at < retiredAt[b] + MaxLifetime
                 /\ q.approval # NoApproval =>
                      ios[i].at < revokedAt[q.approval.approval_id] + MaxLifetime
  <2>1. /\ ios[i].at \in Nat
        /\ \E c \in Calls :
             /\ Allowed(c) /\ call[c].decision = ios[i].decision
             /\ call[c].request = ios[i].decision.request /\ call[c].request \in Requests
             /\ call[c].expires_at \in Nat /\ call[c].evaluated_at \in Nat
             /\ ios[i].at < call[c].expires_at
             /\ AuthorizationOk(call[c])
    BY <1>1, IoHasItsCall
  <2>2. PICK c \in Calls :
          /\ Allowed(c)
          /\ call[c].request = ios[i].decision.request /\ call[c].request \in Requests
          /\ call[c].expires_at \in Nat /\ call[c].evaluated_at \in Nat
          /\ ios[i].at < call[c].expires_at
          /\ AuthorizationOk(call[c])
    BY <2>1
  <2>3. call[c].expires_at - call[c].evaluated_at <= MaxLifetime
    BY <2>2 DEF AuthorizationOk
  <2>4. ios[i].at < call[c].evaluated_at + MaxLifetime
    BY <2>1, <2>2, <2>3, TimeAssumption
  <2>5. /\ \A b \in Bindings : retiredAt[b] \in Nat
        /\ \A a \in ApprovalIds : revokedAt[a] \in Nat
        /\ CallEvidence(call[c])
    BY <1>1, TimesBeforeNever DEF ExecutionInv, EvidenceInv
  <2>6. ASSUME NEW b \in ActiveBindings(Request[call[c].request])
        PROVE  ios[i].at < retiredAt[b] + MaxLifetime
    <3>1. b \in Bindings
      BY DEF ActiveBindings
    <3>2. call[c].evaluated_at <= retiredAt[b]
      BY <2>2, <2>5 DEF CallEvidence, ActivationWasCurrent, Allowed
    <3> QED
      BY <2>1, <2>2, <2>4, <2>5, <3>1, <3>2, TimeAssumption
  <2>7. ASSUME Request[call[c].request].approval # NoApproval
        PROVE  ios[i].at < revokedAt[Request[call[c].request].approval.approval_id] + MaxLifetime
    <3>1. Request[call[c].request].approval.approval_id \in ApprovalIds
      BY <2>2, <2>7, ApprovalIdKnown
    <3>2. call[c].evaluated_at <= revokedAt[Request[call[c].request].approval.approval_id]
      BY <2>2, <2>5, <2>7 DEF CallEvidence, ApprovalWasCurrent, Allowed
    <3> QED
      BY <2>1, <2>2, <2>4, <2>5, <3>1, <3>2, TimeAssumption
  <2> QED
    BY <2>2, <2>6, <2>7
<1>2. ExecutionInv /\ GrantInv => WithdrawalTakesEffectWithinLifetime
  BY <1>1 DEF WithdrawalTakesEffectWithinLifetime
<1> QED
  BY <1>2, ExecutionInvariant, GrantInvariant, PTL

(* I/O is over before the approval and the activation it rests on expire:  *)
(* a grant that outlives either is refused, and no other binding was ever  *)
(* active in the epoch of the request (_authorization,                     *)
(* _validate_policy_activation).                                           *)
(* Expiries are whole seconds.                                             *)
THEOREM IoWithinItsEvidence ==
  ASSUME \A b \in Bindings : Binding[b].expires_at \in Int,
         \A r \in Requests :
           Request[r].approval # NoApproval => Request[r].approval.expires_at \in Int
  PROVE  ESpec => []IoBeforeEvidenceExpires
<1>1. ASSUME ExecutionInv, GrantInv, NEW i \in DOMAIN ios
      PROVE  LET q == Request[ios[i].decision.request]
             IN  /\ \A b \in ActiveBindings(q) : InForce(b) => ios[i].at < Binding[b].expires_at
                 /\ q.approval # NoApproval => ios[i].at < q.approval.expires_at
  <2>1. ios[i].at \in Nat
    BY <1>1, IoHasItsCall
  <2>2. PICK c \in Calls :
          /\ Allowed(c)
          /\ call[c].request = ios[i].decision.request /\ call[c].request \in Requests
          /\ call[c].expires_at \in Nat
          /\ ios[i].at < call[c].expires_at
          /\ AuthorizationOk(call[c]) /\ ActivationWasInForce(call[c])
    BY <1>1, IoHasItsCall
  <2> DEFINE q == Request[call[c].request]
  <2>3. /\ call[c].expires_at <= Binding[call[c].activation].expires_at
        /\ q.approval # NoApproval => call[c].expires_at <= q.approval.expires_at
    BY <2>2 DEF AuthorizationOk
  <2>4. call[c].activation \in ActiveBindings(q) /\ InForce(call[c].activation)
    BY <2>2 DEF ActivationWasInForce, Allowed
  <2>5. ASSUME NEW b \in ActiveBindings(q), InForce(b)
        PROVE  ios[i].at < Binding[b].expires_at
    <3>1. b = call[c].activation /\ b \in Bindings
      BY <1>1, <2>4, <2>5 DEF GrantInv, OneActivePerEpoch, ActiveBindings, Epoch
    <3> QED
      BY <2>1, <2>2, <2>3, <3>1
  <2>6. ASSUME q.approval # NoApproval PROVE ios[i].at < q.approval.expires_at
    BY <2>1, <2>2, <2>3, <2>6
  <2> QED
    BY <2>2, <2>5, <2>6
<1>2. ExecutionInv /\ GrantInv => IoBeforeEvidenceExpires
  BY <1>1 DEF IoBeforeEvidenceExpires
<1> QED
  BY <1>2, ExecutionInvariant, GrantInvariant, PTL
-----------------------------------------------------------------------------
(* Receipts. *)

(* No step of a worker makes up an I/O record, or a receipt that rests on  *)
(* none.                                                                   *)
LEMMA ReceiptsNext ==
  ExecutionInv /\ ReceiptsRestOnIo /\ [ENext]_evars => ReceiptsRestOnIo'
<1> SUFFICES ASSUME ExecutionInv, ReceiptsRestOnIo, [ENext]_evars PROVE ReceiptsRestOnIo'
  OBVIOUS
<1>t. ios \in Seq(IoRecords) /\ DOMAIN worker = Workers
  BY DEF ExecutionInv, ExecutionTyped
<1>1. ASSUME UNCHANGED <<worker, ios, receipts>> PROVE ReceiptsRestOnIo'
  BY <1>1 DEF ReceiptsRestOnIo, Performed
<1>2. ASSUME NEW w \in Workers, UNCHANGED <<ios, receipts>>, worker'[w].stage # "performed",
             \A v \in Workers \ {w} : worker'[v] = worker[v]
      PROVE  ReceiptsRestOnIo'
  BY <1>2 DEF ReceiptsRestOnIo, Performed
<1>3. ASSUME NEW w \in Workers,
             GiveUp(w) \/ Crash(w) \/ Claim(w)
               \/ \E d \in Decisions, verifier \in Verifiers :
                    \E artifact \in Presented(d) : Verify(w, d, artifact, verifier)
      PROVE  ReceiptsRestOnIo'
  <2>1. CASE GiveUp(w) \/ Crash(w)
    BY <1>2, <1>t, <2>1 DEF GiveUp, Crash, IdleWorker
  <2>2. CASE Claim(w)
    <3>1. /\ UNCHANGED <<ios, receipts>>
          /\ worker'[w].stage \in {"claimed", "idle"}
          /\ \A v \in Workers \ {w} : worker'[v] = worker[v]
      BY <2>2 DEF Claim, IdleWorker, ExecutionInv, ExecutionTyped
    <3> QED
      BY <1>2, <3>1
  <2>3. ASSUME NEW d \in Decisions, NEW verifier \in Verifiers, NEW artifact \in Presented(d),
               Verify(w, d, artifact, verifier)
        PROVE  ReceiptsRestOnIo'
    <3>1. worker' = [worker EXCEPT ![w] = [IdleWorker EXCEPT !.stage = "verified", !.decision = d]]
      BY <2>3 DEF Verify
    <3> QED
      BY <1>2, <1>t, <2>3, <3>1 DEF Verify, IdleWorker
  <2> QED
    BY <1>3, <2>1, <2>2, <2>3
<1>4. ASSUME NEW w \in Workers, Perform(w) PROVE ReceiptsRestOnIo'
  <2> DEFINE d == worker[w].decision
             io == [decision |-> d, worker |-> w, at |-> now]
             n == Len(ios)
  <2>1. ios' = Append(ios, io) /\ receipts' = receipts
    BY <1>4 DEF Perform
  <2>2. /\ worker'[w].decision = d
        /\ \A v \in Workers \ {w} : worker'[v] = worker[v]
    BY <1>4, <1>t DEF Perform
  <2>3. /\ n \in Nat /\ DOMAIN ios = 1 .. n /\ DOMAIN ios' = 1 .. n + 1
        /\ ios'[n + 1].decision = d /\ ios'[n + 1].worker = w
        /\ \A i \in 1 .. n : ios'[i] = ios[i]
    BY <1>t, <2>1
  <2>4. ASSUME NEW e, NEW v, \E i \in DOMAIN ios : ios[i].decision = e /\ ios[i].worker = v
        PROVE  \E i \in DOMAIN ios' : ios'[i].decision = e /\ ios'[i].worker = v
    BY <2>3, <2>4
  <2>5. \E i \in DOMAIN ios' : ios'[i].decision = d /\ ios'[i].worker = w
    BY <2>3
  <2> QED
    BY <2>1, <2>2, <2>4, <2>5 DEF ReceiptsRestOnIo, Performed
<1>5. ASSUME NEW w \in Workers, NEW bytes \in OutputSizes, NEW digests \in BOOLEAN,
             Report(w, bytes, digests)
      PROVE  ReceiptsRestOnIo'
  <2>1. ios' = ios /\ worker[w].stage = "performed"
    BY <1>5 DEF Report
  <2> DEFINE result(r) == [worker EXCEPT ![w].stage = "reported", ![w].result = r]
  <2>2. \E r : worker' = result(r)
    BY <1>5 DEF Report
  <2>3. \A r : result(r)[w].stage = "reported" /\ \A v \in Workers \ {w} : result(r)[v] = worker[v]
    BY DEF ExecutionInv, ExecutionTyped
  <2> HIDE DEF result
  <2>4. worker'[w].stage = "reported" /\ \A v \in Workers \ {w} : worker'[v] = worker[v]
    BY <2>2, <2>3
  <2>5. \A receipt \in receipts' \ receipts :
          /\ receipt.decision = worker[w].decision /\ receipt.permit = w
          /\ receipt.output_bytes \in OutputSizes
    BY <1>5 DEF Report, Permit
  <2> QED
    BY <2>1, <2>4, <2>5 DEF ReceiptsRestOnIo, Performed
<1>6. CASE \/ Next /\ UNCHANGED runtimeVars
           \/ MoveLease
           \/ UNCHANGED evars
  BY <1>1, <1>6 DEF runtimeVars, MoveLease, evars
<1>7. ASSUME NEW c \in Calls, NEW s \in Signers,
             Sign(c, s) \/ \E type \in RecordTypes \ {DecisionRecordType} : SignElsewhere(c, s, type)
      PROVE  ReceiptsRestOnIo'
  BY <1>1, <1>7 DEF Sign, SignElsewhere
<1> QED
  BY <1>3, <1>4, <1>5, <1>6, <1>7 DEF ENext, Runtime

(* The invariant of the receipts holds in every state. *)
LEMMA ReceiptsInvariant == ESpec => []ReceiptsRestOnIo
<1>1. EInit => ReceiptsRestOnIo
  BY DEF EInit, IdleWorker, ReceiptsRestOnIo
<1> QED
  BY <1>1, ReceiptsNext, ExecutionInvariant, PTL DEF ESpec

(* A receipt conforms to a decision only if its worker performed I/O under *)
(* that very decision (evaluate_receipt_conformance).                      *)
THEOREM ConformantReceiptsProve == ESpec => []ConformantReceiptProvesIo
<1>1. ASSUME ReceiptsRestOnIo, NEW receipt \in receipts, NEW d \in Decisions,
             NEW w \in Workers, Conforms(d, receipt, w)
      PROVE  \E i \in DOMAIN ios : ios[i].decision = d /\ ios[i].worker = w
  <2>1. d.status = "allowed"
    BY <1>1 DEF Conforms, ConformanceFailures
  <2>2. receipt.decision = d
    BY <1>1, <2>1 DEF Conforms, ConformanceFailures
  <2>3. receipt.permit = w
    BY <1>1, <2>1 DEF Conforms, ConformanceFailures, Permit
  <2> QED
    BY <1>1, <2>2, <2>3 DEF ReceiptsRestOnIo, Performed
<1>2. ReceiptsRestOnIo => ConformantReceiptProvesIo
  BY <1>1 DEF ConformantReceiptProvesIo
<1> QED
  BY <1>2, ReceiptsInvariant, PTL

(* The output limit of an allowed decision is at most every output limit   *)
(* of the verdict it rests on, and its digest switch on if one is owed.    *)
LEMMA ControlsKeepVerdict ==
  ASSUME NEW r \in Requests, GatesOf[r].plan.allowed
  PROVE  LET verdict == GatesOf[r].initial
             controls == GatesOf[r].plan.controls
         IN  /\ \A i \in DOMAIN verdict.constraints :
                  verdict.constraints[i].kind = "output_limit" =>
                    LET value == verdict.constraints[i].value
                    IN  /\ controls.max_output_bytes \in Nat \ {0}
                        /\ controls.max_output_bytes <= value.num
                        /\ value.num \in Nat
             /\ HasObligation(verdict, {"output_digest_required"})
                  => controls.output_digest_required
<1> DEFINE facts == Request[r].execution_facts.facts
           rules == Request[r].policy_pack.rules
           verdict == EvaluatePolicy(facts, rules)
           controls == GatesOf[r].plan.controls
           limits == ConstraintValues(verdict, "output_limit")
<1>1. GatesOf[r].initial = verdict
  BY DEF GatesOf, Gates
<1>2. Projectable(verdict) /\ controls = ProjectRuntimeControls(verdict)
  BY <1>1, PlanControls
<1>3. \/ verdict.constraints = <<>>
      \/ \E k \in DOMAIN rules : verdict.constraints = rules[k].constraints
  BY RulesAssumption, VerdictConstraints
<1> HIDE DEF verdict, controls
<1>4. ASSUME NEW i \in DOMAIN verdict.constraints,
             verdict.constraints[i].kind = "output_limit"
      PROVE  verdict.constraints[i].value.num \in Nat \ {0}
  <2>1. ProjectableConstraint(verdict.constraints[i])
    BY <1>2 DEF Projectable
  <2>2. /\ verdict.constraints[i].value.type = "int"
        /\ verdict.constraints[i].value.num > 0
    BY <1>4, <2>1 DEF ProjectableConstraint, LimitKinds, NumberTypes, SwitchKinds, AllowlistKinds
  <2>3. PICK k \in DOMAIN rules : verdict.constraints = rules[k].constraints
    BY <1>3
  <2>4. verdict.constraints[i].value.num \in Int
    BY <2>2, <2>3, RulesAssumption
  <2> QED
    BY <2>2, <2>4
<1>5. \A v \in limits : v.num \in Nat \ {0}
  BY <1>4 DEF ConstraintValues
<1>6. ASSUME NEW i \in DOMAIN verdict.constraints,
             verdict.constraints[i].kind = "output_limit"
      PROVE  /\ controls.max_output_bytes \in Nat \ {0}
             /\ controls.max_output_bytes <= verdict.constraints[i].value.num
  <2>1. verdict.constraints[i].value \in limits
    BY <1>6 DEF ConstraintValues
  <2>2. controls.max_output_bytes = SmallestPositive(limits)
    BY <1>2 DEF ProjectRuntimeControls
  <2> QED
    BY <1>5, <2>1, <2>2, SmallestIsLeast
<1>7. HasObligation(verdict, {"output_digest_required"}) => controls.output_digest_required
  BY <1>2 DEF ProjectRuntimeControls
<1> QED
  BY <1>1, <1>4, <1>6, <1>7 DEF controls

(* A conformant receipt keeps every output limit and digest obligation of  *)
(* the rule that allowed its request: the least limit is projected, the    *)
(* decision carries it, and the receipt is held to it                      *)
(* (project_runtime_controls, evaluate_receipt_conformance).               *)
THEOREM ConformantKeepsLimits == ESpec => []ConformantReceiptKeepsPolicyLimits
<1>1. ASSUME ExecutionInv, ReceiptsRestOnIo, NEW receipt \in receipts, NEW d \in Decisions,
             NEW w \in Workers, Conforms(d, receipt, w)
      PROVE  LET verdict == GatesOf[d.request].initial
             IN  /\ \A i \in DOMAIN verdict.constraints :
                      verdict.constraints[i].kind = "output_limit" =>
                        receipt.output_bytes <= verdict.constraints[i].value.num
                 /\ HasObligation(verdict, {"output_digest_required"})
                      => receipt.has_output_digests
  <2> DEFINE verdict == GatesOf[d.request].initial
  <2>1. /\ d.status = "allowed"
        /\ ~(d.controls.output_digest_required /\ ~receipt.has_output_digests)
        /\ ~(d.controls.max_output_bytes > 0
              /\ receipt.output_bytes > d.controls.max_output_bytes)
    BY <1>1 DEF Conforms, ConformanceFailures
  <2>2. PICK c \in Calls : call[c].stage = "decided" /\ call[c].decision = d
    BY DEF Decisions
  <2>3. /\ d.request = call[c].request /\ call[c].request \in Requests
        /\ d.status = DecisionOutcome(GatesOf[d.request]).status
        /\ d.controls = GatesOf[d.request].plan.controls
    BY <1>1, <2>2 DEF ExecutionInv, EvidenceInv, TypeOK, CallEvidence, DecisionFollowsGates
  <2>4. GatesOf[d.request].plan.allowed
    BY <2>1, <2>3, AllowedPassedGates
  <2>5. receipt.output_bytes \in Nat
    BY <1>1, OutputAssumption DEF ReceiptsRestOnIo
  <2>6. ASSUME NEW i \in DOMAIN verdict.constraints,
               verdict.constraints[i].kind = "output_limit"
        PROVE  receipt.output_bytes <= verdict.constraints[i].value.num
    <3>1. /\ d.controls.max_output_bytes \in Nat \ {0}
          /\ d.controls.max_output_bytes <= verdict.constraints[i].value.num
          /\ verdict.constraints[i].value.num \in Nat
      BY <2>3, <2>4, <2>6, ControlsKeepVerdict
    <3> QED
      BY <2>1, <2>5, <3>1
  <2>7. HasObligation(verdict, {"output_digest_required"}) => d.controls.output_digest_required
    BY <2>3, <2>4, ControlsKeepVerdict
  <2> QED
    BY <2>1, <2>6, <2>7
<1>2. ExecutionInv /\ ReceiptsRestOnIo => ConformantReceiptKeepsPolicyLimits
  BY <1>1 DEF ConformantReceiptKeepsPolicyLimits
<1> QED
  BY <1>2, ReceiptsInvariant, ExecutionInvariant, PTL
-----------------------------------------------------------------------------
(* Single use. *)

(* What the abstract specification is told of the decisions. *)
LEMMA IssuedStep ==
  ASSUME TypeOK, [Next]_vars, UNCHANGED <<claims, ios>>
  PROVE  [Abstract!ANext]_(Abstract!avars)
<1> DEFINE authorizations(D) == {AuthorizationOf(d) : d \in {e \in D : e.status = "allowed"}}
           A == authorizations(Decisions)
           C == {AuthorizationOf(k.decision) : k \in claims}
           P == [i \in DOMAIN ios |-> AuthorizationOf(ios[i].decision)]
<1>1. C' = C /\ P' = P
  OBVIOUS
<1>2. CASE Decisions' = Decisions /\ now' \in {now, now + 1}
  <2>1. A' = A
    BY <1>2
  <2> QED
    BY <1>1, <1>2, <2>1 DEF Abstract!ANext, Abstract!avars, Abstract!Advance
<1>3. ASSUME now' = now, NEW d, Decisions' = Decisions \cup {d}
      PROVE  [Abstract!ANext]_(Abstract!avars)
  <2>1. CASE d.status = "allowed"
    <3>1. A' = A \cup {AuthorizationOf(d)} /\ AuthorizationOf(d) \in A'
      BY <1>3, <2>1
    <3> QED
      BY <1>1, <1>3, <3>1 DEF Abstract!ANext, Abstract!Issue
  <2>2. CASE d.status # "allowed"
    <3>1. A' = A
      BY <1>3, <2>2
    <3> QED
      BY <1>1, <1>3, <3>1 DEF Abstract!avars
  <2> QED
    BY <2>1, <2>2
<1> QED
  BY <1>2, <1>3, DecisionsStep

(* A claim consumes the authorization of its decision. *)
LEMMA ClaimIsConsume ==
  ASSUME ExecutionInv, NEW w \in Workers, Claim(w)
  PROVE  [Abstract!ANext]_(Abstract!avars)
<1> DEFINE d == worker[w].decision
           a == AuthorizationOf(d)
           A == {AuthorizationOf(e) : e \in {f \in Decisions : f.status = "allowed"}}
           C == {AuthorizationOf(k.decision) : k \in claims}
           P == [i \in DOMAIN ios |-> AuthorizationOf(ios[i].decision)]
<1>1. Runtime(w) /\ ios' = ios /\ now' = now /\ Granted(d)
  BY DEF Claim, Runtime, ExecutionInv, WorkersAreGranted, vars
<1>2. Decisions' = Decisions
  BY <1>1, RuntimeLeaves
<1>3. A' = A /\ P' = P /\ a \in A
  BY <1>1, <1>2 DEF Granted
<1>4. CASE claims' = claims
  BY <1>1, <1>3, <1>4 DEF Abstract!avars
<1>5. CASE Unclaimed(d)
  <2>1. claims' = claims \cup {[decision |-> d, owner |-> RuntimeOf[w]]}
    BY <1>5 DEF Claim
  <2>2. C' = C \cup {a}
    <3> DEFINE k0 == [decision |-> d, owner |-> RuntimeOf[w]]
    <3>1. claims' = claims \cup {k0} /\ k0.decision = d
      BY <2>1
    <3> HIDE DEF k0
    <3> QED
      BY <3>1
  <2>3. ASSUME NEW b \in C PROVE b # a /\ b.nonce # a.nonce
    <3>1. PICK k \in claims : b = AuthorizationOf(k.decision)
      OBVIOUS
    <3>2. k.decision # d /\ k.decision.grant.nonce # d.grant.nonce
      BY <1>5 DEF Unclaimed
    <3>3. /\ b.id = k.decision /\ b.nonce = k.decision.grant.nonce
          /\ a.id = d /\ a.nonce = d.grant.nonce
      BY <3>1 DEF AuthorizationOf
    <3> QED
      BY <3>2, <3>3
  <2> QED
    BY <1>1, <1>3, <2>2, <2>3 DEF Abstract!ANext, Abstract!Consume
<1> QED
  BY <1>4, <1>5 DEF Claim

(* What Append yields, as a function. *)
LEMMA AppendedSeq ==
  ASSUME NEW S, NEW s \in Seq(S), NEW e \in S
  PROVE  Append(s, e) = [i \in 1 .. Len(s) + 1 |-> IF i = Len(s) + 1 THEN e ELSE s[i]]
<1> DEFINE t == Append(s, e)
           n == Len(s)
<1>1. /\ t \in Seq(S) /\ Len(t) = n + 1 /\ t[n + 1] = e
      /\ \A i \in 1 .. n : t[i] = s[i]
  OBVIOUS
<1> HIDE DEF t
<1>2. t = [i \in 1 .. n + 1 |-> t[i]]
  BY <1>1
<1>3. \A i \in 1 .. n + 1 : t[i] = IF i = n + 1 THEN e ELSE s[i]
  BY <1>1
<1>4. t = [i \in 1 .. n + 1 |-> IF i = n + 1 THEN e ELSE s[i]]
  BY <1>2, <1>3
<1> QED
  BY <1>4 DEF t

(* I/O is the one effect of a consumed authorization that is still live. *)
LEMMA PerformIsAct ==
  ASSUME ExecutionInv, NEW w \in Workers, Perform(w)
  PROVE  [Abstract!ANext]_(Abstract!avars)
<1> DEFINE d == worker[w].decision
           a == AuthorizationOf(d)
           io == [decision |-> d, worker |-> w, at |-> now]
           n == Len(ios)
           A == {AuthorizationOf(e) : e \in {f \in Decisions : f.status = "allowed"}}
           C == {AuthorizationOf(k.decision) : k \in claims}
           P == [i \in DOMAIN ios |-> AuthorizationOf(ios[i].decision)]
<1>1. /\ Runtime(w) /\ claims' = claims /\ now' = now /\ Granted(d)
      /\ worker[w].stage = "claimed" /\ ios' = Append(ios, io)
      /\ now < d.grant.expires_at
  BY DEF Perform, RuntimeBound, Runtime, ExecutionInv, WorkersAreGranted, vars
<1>2. Decisions' = Decisions
  BY <1>1, RuntimeLeaves
<1>3. A' = A /\ C' = C /\ a \in A
  BY <1>1, <1>2 DEF Granted
<1>4. /\ IsClaimed(d) /\ \A i \in DOMAIN ios : ios[i].decision # d
      /\ ios \in Seq(IoRecords)
  BY <1>1 DEF ExecutionInv, ClaimIsExclusive, ExecutionTyped
<1>5. a \in C
  BY <1>4 DEF IsClaimed
<1>6. \A i \in DOMAIN P : P[i] # a
  BY <1>4 DEF AuthorizationOf
<1>7. now < a.expires_at
  BY <1>1 DEF AuthorizationOf
<1>8. P' = Append(P, a)
  <2>1. n \in Nat /\ DOMAIN ios = 1 .. n
    BY <1>4
  <2>2. /\ DOMAIN ios' = 1 .. n + 1 /\ ios'[n + 1].decision = d
        /\ \A i \in 1 .. n : ios'[i] = ios[i]
    BY <1>1, <1>4, <2>1
  <2>3. P' = [i \in 1 .. n + 1 |-> IF i = n + 1 THEN a ELSE P[i]]
    BY <2>1, <2>2
  <2>4. P \in [1 .. n -> {AuthorizationOf(ios[i].decision) : i \in 1 .. n}]
    BY <2>1
  <2> DEFINE S == {AuthorizationOf(ios[i].decision) : i \in 1 .. n} \cup {a}
  <2>5. DOMAIN P = 1 .. n /\ P \in Seq(S) /\ a \in S
    BY <2>1, <2>4
  <2> HIDE DEF P, a, S
  <2>6. Len(P) = n
    BY <2>1, <2>5
  <2>7. Append(P, a) = [i \in 1 .. n + 1 |-> IF i = n + 1 THEN a ELSE P[i]]
    BY <2>5, <2>6, AppendedSeq
  <2> QED
    BY <2>3, <2>7
<1> QED
  BY <1>1, <1>3, <1>5, <1>6, <1>7, <1>8 DEF Abstract!ANext, Abstract!Act

(* Every step of the pipeline is a step of the authorization or leaves it. *)
LEMMA StepIsAuthorizationStep ==
  ExecutionInv /\ [ENext]_evars => [Abstract!ANext]_(Abstract!avars)
<1> SUFFICES ASSUME ExecutionInv, [ENext]_evars PROVE [Abstract!ANext]_(Abstract!avars)
  OBVIOUS
<1>1. ASSUME UNCHANGED <<claims, ios>> PROVE [Abstract!ANext]_(Abstract!avars)
  BY <1>1, IssuedStep, DecisionComposed DEF ExecutionInv, EvidenceInv
<1>2. ASSUME NEW w \in Workers, Runtime(w)
      PROVE  UNCHANGED <<claims, ios>> \/ Claim(w) \/ Perform(w)
  BY <1>2 DEF Runtime, Verify, GiveUp, Report, Crash
<1>3. CASE (Next /\ UNCHANGED runtimeVars) \/ MoveLease \/ UNCHANGED evars
  BY <1>1, <1>3 DEF runtimeVars, MoveLease, evars
<1>4. ASSUME NEW c \in Calls, NEW s \in Signers,
             Sign(c, s) \/ \E type \in RecordTypes \ {DecisionRecordType} : SignElsewhere(c, s, type)
      PROVE  UNCHANGED <<claims, ios>>
  BY <1>4 DEF Sign, SignElsewhere
<1> QED
  BY <1>1, <1>2, <1>3, <1>4, ClaimIsConsume, PerformIsAct DEF ENext

(* The governed pipeline keeps the promise of single-use authorizations:   *)
(* each is consumed once, with its nonce, and its one effect happens while *)
(* it is live, whatever workers, leases, signers and the host do.          *)
THEOREM PipelineIsSingleUse == ESpec => ImplementsSingleUse
<1>1. EInit => Abstract!AInit
  <2> SUFFICES ASSUME EInit PROVE Abstract!AInit
    OBVIOUS
  <2>1. Decisions = {}
    BY DEF EInit, Init, NewCall, Decisions
  <2> QED
    BY <2>1 DEF EInit, Init, Abstract!AInit
<1> QED
  BY <1>1, StepIsAuthorizationStep, ExecutionInvariant, PTL
     DEF ESpec, ImplementsSingleUse, Abstract!ASpec
=============================================================================
