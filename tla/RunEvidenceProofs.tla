-------------------------- MODULE RunEvidenceProofs --------------------------
(***************************************************************************)
(* Proofs about receipts, their bindings and accepted evidence, for any    *)
(* jobs and specs, any claims and requirements, and receipts that are      *)
(* bound, mixed up and changed without end; and, at the end, about the     *)
(* state machine of a run, for any decisions and any number of events.     *)
(***************************************************************************)
EXTENDS RunEvidence, GovernedRun, FiniteSetTheorems, TLAPS

(* What is absent is told from what is there: no digest and no run is the  *)
(* absent text.                                                            *)
AbsentIsNoRecord ==
  /\ \A kind, content : Digest(kind, content) # Missing
  /\ \A r, live : [receipt |-> r, live |-> live] # Missing

-----------------------------------------------------------------------------
(* Digests of receipts.                                                    *)

(* Two receipts that carry the same digest and compute to the same digest  *)
(* are the same receipt (runner_receipt_digest).                           *)
LEMMA DigestPinsReceipt ==
  ASSUME NEW r, NEW p,
         IsReceipt(r), IsBinding(r.binding), Present(r.binding),
         IsReceipt(p), IsBinding(p.binding), Present(p.binding),
         ReceiptDigest(r) = ReceiptDigest(p),
         r.binding.receipt_digest = p.binding.receipt_digest
  PROVE  r = p
<1>1. [r EXCEPT !.binding.receipt_digest = Missing] = [p EXCEPT !.binding.receipt_digest = Missing]
  BY DEF ReceiptDigest, Digest
<1>2. /\ r.status = p.status /\ r.request_id = p.request_id /\ r.step_results = p.step_results
      /\ [r.binding EXCEPT !.receipt_digest = Missing] = [p.binding EXCEPT !.receipt_digest = Missing]
  BY <1>1 DEF IsReceipt
<1>3. r.binding = p.binding
  BY <1>2 DEF IsBinding
<1> QED
  BY <1>2, <1>3 DEF IsReceipt

(* Receipt b is receipt r, of request q, bound to the references of jobs   *)
(* a, t and k.                                                             *)
BoundTo(b, r, q, a, t, k, id) ==
  /\ IsReceipt(b) /\ IsBinding(b.binding)
  /\ b.status = r.status /\ b.request_id = q.request_id /\ b.step_results = r.step_results
  /\ b.binding.admission_id = a /\ b.binding.admission_digest = a
  /\ b.binding.ticket_id = t /\ b.binding.ticket_digest = t
  /\ b.binding.request_id = q.request_id
  /\ b.binding.request_digest = RequestDigest(request[k])
  /\ b.binding.receipt_id = id
  /\ b.binding.status = r.status

(* What runner_receipt_with_binding returns: the references it was given,  *)
(* and either the digest it was given or that of the result.               *)
LEMMA BoundReceipt ==
  ASSUME NEW r, NEW q0, r = Receipt(q0, r.status, r.step_results),
         NEW a, NEW t, NEW q, NEW id, NEW d
  PROVE  LET b == WithBinding(r, References(a, t, q), id, d)
         IN  /\ BoundTo(b, r, q0, a, t, q, id)
             /\ d # Missing => b.binding.receipt_digest = d
             /\ d = Missing /\ a # Missing => b.binding.receipt_digest = ReceiptDigest(b)
<1> DEFINE refs == References(a, t, q)
           bound == [r EXCEPT !.binding =
             [admission_id |-> refs.admission_id, admission_digest |-> refs.admission_digest,
              ticket_id |-> refs.ticket_id, ticket_digest |-> refs.ticket_digest,
              request_id |-> r.request_id, request_digest |-> refs.request_digest,
              receipt_id |-> id, receipt_digest |-> d, status |-> r.status]]
           b == WithBinding(r, refs, id, d)
<1>1. IsReceipt(r) /\ r.request_id = q0.request_id
  BY DEF Receipt, IsReceipt
<1>2. bound = [status |-> r.status, request_id |-> r.request_id, step_results |-> r.step_results,
               binding |-> [admission_id |-> a, admission_digest |-> a,
                            ticket_id |-> t, ticket_digest |-> t,
                            request_id |-> r.request_id, request_digest |-> RequestDigest(request[q]),
                            receipt_id |-> id, receipt_digest |-> d,
                            status |-> r.status]]
  BY <1>1 DEF IsReceipt, References
<1>3. CASE d # Missing
  <2>1. b = bound
    BY <1>3 DEF WithBinding
  <2> QED
    BY <1>1, <1>2, <1>3, <2>1 DEF BoundTo, IsReceipt, IsBinding
<1>4. CASE d = Missing
  <2> DEFINE v == ReceiptDigest(bound)
  <2>1. b = [bound EXCEPT !.binding.receipt_digest = v]
    BY <1>4 DEF WithBinding
  <2> HIDE DEF v
  <2>2. b = [status |-> r.status, request_id |-> r.request_id, step_results |-> r.step_results,
             binding |-> [admission_id |-> a, admission_digest |-> a,
                          ticket_id |-> t, ticket_digest |-> t,
                          request_id |-> r.request_id, request_digest |-> RequestDigest(request[q]),
                          receipt_id |-> id, receipt_digest |-> v,
                          status |-> r.status]]
    BY <1>2, <2>1
  <2>3. ASSUME a # Missing PROVE b.binding.receipt_digest = ReceiptDigest(b)
    <3>1. Present(b.binding) /\ Present(bound.binding)
      BY <1>2, <2>2, <2>3 DEF Present, NoBinding
    <3>2. [b EXCEPT !.binding.receipt_digest = Missing] = [bound EXCEPT !.binding.receipt_digest = Missing]
      <4> HIDE DEF b, bound
      <4> QED
        BY <1>2, <2>2
    <3>3. ReceiptDigest(b) = ReceiptDigest(bound)
      <4> HIDE DEF b, bound
      <4> QED
        BY <3>1, <3>2 DEF ReceiptDigest
    <3> QED
      BY <2>2, <3>3 DEF v
  <2> QED
    <3> HIDE DEF b, bound
    <3>1. IsReceipt(b) /\ IsBinding(b.binding)
      BY <2>2 DEF IsReceipt, IsBinding
    <3>2. BoundTo(b, r, q0, a, t, q, id)
      BY <1>1, <2>2, <3>1 DEF BoundTo
    <3> QED
      BY <1>4, <2>3, <3>2 DEF b
<1> QED
  BY <1>3, <1>4

-----------------------------------------------------------------------------
(* Verification.                                                           *)

(* Two values that name one reference agree, or the verifier raises.       *)
LEMMA AgreedOfTwo ==
  ASSUME NEW x, NEW y
  PROVE  Agreed({x, y}) = IF x = y THEN x ELSE Raised
<1>1. CASE x = y
  <2>1. {x, y} = {x} /\ {x, y} # {} /\ Cardinality({x}) = 1 /\ (CHOOSE v \in {x} : TRUE) = x
    BY <1>1, FS_Singleton
  <2> QED
    BY <1>1, <2>1 DEF Agreed
<1>2. CASE x # y
  <2>1. IsFiniteSet({x}) /\ Cardinality({x}) = 1
    BY FS_Singleton
  <2>2. Cardinality({x} \cup {y}) = 2
    BY <1>2, <2>1, FS_AddElement
  <2>3. {x} \cup {y} = {x, y} /\ {x, y} # {}
    OBVIOUS
  <2>4. Cardinality({x, y}) = 2
    BY <2>2, <2>3
  <2> QED
    BY <1>2, <2>3, <2>4 DEF Agreed
<1> QED
  BY <1>1, <1>2

(* What matches the anchors of job j is bound to its admission and ticket, *)
(* and no value of another job lay beside them.                            *)
LEMMA AnchoredToJob ==
  ASSUME NEW b, NEW j \in Jobs, NEW a \in Jobs, NEW t \in Jobs, \A f \in Anchored : b[f] \in Jobs
  PROVE  AnchorsMatch(b, Anchors({j, a}, {j, t})) <=>
           a = j /\ t = j /\ \A f \in Anchored : b[f] = j
<1> DEFINE anchors == Anchors({j, a}, {j, t})
<1>1. /\ anchors["admission_id"] = {j, a} /\ anchors["admission_digest"] = {j, a}
      /\ anchors["ticket_id"] = {j, t} /\ anchors["ticket_digest"] = {j, t}
  BY DEF Anchors
<1>2. /\ Agreed({j, a}) = IF j = a THEN j ELSE Raised
      /\ Agreed({j, t}) = IF j = t THEN j ELSE Raised
  BY AgreedOfTwo
<1>3. Missing \notin Jobs /\ Raised \notin Jobs /\ Missing # Raised
  BY TokenAssumption
<1> HIDE DEF anchors
<1>4. AnchorsMatch(b, anchors) <=>
        /\ b["admission_id"] = Agreed({j, a}) /\ b["admission_digest"] = Agreed({j, a})
        /\ b["ticket_id"] = Agreed({j, t}) /\ b["ticket_digest"] = Agreed({j, t})
  BY <1>1, <1>2, <1>3 DEF AnchorsMatch, Anchored
<1> QED
  BY <1>2, <1>3, <1>4 DEF anchors, Anchored

(* A verifier with anchors for every reference finds verified exactly what *)
(* passes both validators.                                                 *)
LEMMA VerifiedIffValid ==
  ASSUME NEW j \in Jobs, NEW k \in Jobs, NEW a \in Jobs, NEW t \in Jobs
  PROVE  Assured(j, k, {j, a}, {j, t}) = "verified" <=>
           /\ ReceiptForRequest(request[j], receipt[k])
           /\ BindingValid(request[j], receipt[k], Anchors({j, a}, {j, t}))
<1> DEFINE anchors == Anchors({j, a}, {j, t})
<1>1. \A f \in Anchored : anchors[f] # {}
  BY DEF Anchors, Anchored
<1>2. Raised # "verified"
  BY TokenAssumption
<1> DEFINE valid == /\ ReceiptForRequest(request[j], receipt[k])
                    /\ BindingValid(request[j], receipt[k], anchors)
<1>3. Assured(j, k, {j, a}, {j, t}) = Assurance(request[j], receipt[k], anchors)
  BY DEF Assured
<1> HIDE DEF anchors
<1>4. valid => Assurance(request[j], receipt[k], anchors) = "verified"
  BY <1>1 DEF Assurance
<1>5. ~valid => Assurance(request[j], receipt[k], anchors) = Raised
  BY DEF Assurance
<1> HIDE DEF valid
<1>6. Assured(j, k, {j, a}, {j, t}) = "verified" <=> valid
  BY <1>2, <1>3, <1>4, <1>5
<1> QED
  BY <1>6 DEF valid, anchors

(* What a runner returned for a request of that id verifies with the       *)
(* anchors of the job it was bound for.                                    *)
LEMMA BoundForVerifies ==
  ASSUME RunInv, AbsentIsNoRecord,
         NEW i \in Jobs, NEW j \in Jobs, NEW k \in Jobs, Work[i].receipt_id # Missing,
         IsMade(request[j]), Answers(i, j), receipt[k] = BoundFor(i, j)
  PROVE  Assured(j, k, {j, j}, {j, j}) = "verified"
<1> DEFINE r == ran[i].receipt
           own == BoundFor(i, j)
           b == own.binding
<1>1. /\ request[j].request_id # Missing
      /\ r = Receipt(request[i], r.status, r.step_results)
      /\ r.status \in Statuses
      /\ r.request_id = request[j].request_id /\ r.step_results \subseteq DOMAIN request[j].steps
  BY DEF RunInv, RunsAnswerTheirRequest, RequestsOfWork, Answers
<1>2. Missing \notin Jobs /\ Missing \notin Statuses
  BY TokenAssumption
<1>3. /\ IsReceipt(own) /\ IsBinding(b)
      /\ own.status = r.status /\ own.request_id = request[j].request_id
      /\ own.step_results = r.step_results
      /\ b.admission_id = j /\ b.admission_digest = j /\ b.ticket_id = j /\ b.ticket_digest = j
      /\ b.request_id = request[j].request_id
      /\ b.request_digest = RequestDigest(request[j])
      /\ b.receipt_id = Work[i].receipt_id
      /\ b.status = r.status
      /\ b.receipt_digest = ReceiptDigest(own)
  <2>1. own = WithBinding(r, References(j, j, j), Work[i].receipt_id, Missing)
    BY DEF BoundFor, Proper
  <2> HIDE DEF r, own
  <2>2. j # Missing
    BY <1>2
  <2>3. /\ BoundTo(own, r, request[i], j, j, j, Work[i].receipt_id)
        /\ own.binding.receipt_digest = ReceiptDigest(own)
    BY <1>1, <2>1, <2>2, BoundReceipt
  <2>4. request[i].request_id = request[j].request_id
    BY <1>1 DEF Receipt
  <2> QED
    BY <2>3, <2>4 DEF BoundTo
<1> HIDE DEF own
<1>4. ReceiptForRequest(request[j], own)
  BY <1>1, <1>3 DEF ReceiptForRequest
<1>5. RequestDigest(request[j]) # Missing /\ ReceiptDigest(own) # Missing
  BY DEF AbsentIsNoRecord, RequestDigest, ReceiptDigest
<1>6. DOMAIN b = {"admission_id", "admission_digest", "ticket_id", "ticket_digest", "request_id",
                  "request_digest", "receipt_id", "receipt_digest", "status"}
  BY <1>3 DEF IsBinding
<1>7. \A f \in DOMAIN b : b[f] # Missing
  <2> HIDE DEF b, r
  <2> QED
    BY <1>1, <1>2, <1>3, <1>5, <1>6
<1>8. \A f \in Anchored : b[f] = j
  BY <1>3 DEF Anchored
<1>9. AnchorsMatch(b, Anchors({j, j}, {j, j}))
  <2> HIDE DEF b
  <2> QED
    BY <1>8, AnchoredToJob
<1>10. BindingValid(request[j], own, Anchors({j, j}, {j, j}))
  BY <1>1, <1>3, <1>7, <1>9 DEF BindingValid
<1> QED
  BY <1>4, <1>10, VerifiedIffValid DEF own

(* What verifies with the anchors of a job is what a runner returned for a *)
(* request of that id, bound for the job.                                  *)
LEMMA VerifiedIsBoundFor ==
  ASSUME RunInv,
         NEW j \in Jobs, NEW k \in Jobs, NEW a \in Jobs, NEW t \in Jobs,
         receipt[k] # Missing,
         Assured(j, k, {j, a}, {j, t}) = "verified"
  PROVE  a = j /\ t = j /\ \E i \in Jobs : Answers(i, j) /\ receipt[k] = BoundFor(i, j)
<1> DEFINE r == receipt[k]
           b == r.binding
<1>1. IsReceipt(r) /\ BindingOfARun(b)
  BY DEF RunInv, ReceiptsComeFromRuns
<1>2. ReceiptForRequest(request[j], r) /\ BindingValid(request[j], r, Anchors({j, a}, {j, t}))
  BY VerifiedIffValid
<1> HIDE DEF r
<1>3. IsBinding(b)
  BY <1>1 DEF BindingOfARun
<1>4. DOMAIN b = {"admission_id", "admission_digest", "ticket_id", "ticket_digest", "request_id",
                  "request_digest", "receipt_id", "receipt_digest", "status"}
  BY <1>3 DEF IsBinding
<1>5. /\ b.admission_id # Missing
      /\ b.request_digest = RequestDigest(request[j])
      /\ b.receipt_digest = ReceiptDigest(r)
      /\ AnchorsMatch(b, Anchors({j, a}, {j, t}))
  BY <1>2, <1>4 DEF BindingValid
<1>6. Present(b)
  BY <1>5 DEF Present, NoBinding
<1>7. (\A f \in Anchored : b[f] \in Jobs) /\ DigestOfARun(b.receipt_digest)
  BY <1>1, <1>6 DEF BindingOfARun
<1>8. a = j /\ t = j /\ \A f \in Anchored : b[f] = j
  BY <1>5, <1>7, AnchoredToJob
<1>9. PICK i \in Jobs :
        /\ ran[i] # Missing
        /\ \/ b.receipt_digest = ReceiptDigest(ran[i].receipt)
           \/ \E x, y, q \in Prepared : b.receipt_digest = ReceiptDigest(Proper(i, x, y, q))
  BY <1>7 DEF DigestOfARun
<1> DEFINE raw == ran[i].receipt
<1>10. raw = Receipt(request[i], raw.status, raw.step_results)
  BY <1>9 DEF RunInv, RunsAnswerTheirRequest
<1>11. b.receipt_digest # ReceiptDigest(raw)
  <2>1. IsReceipt(raw) /\ raw.binding = NoBinding
    BY <1>10 DEF Receipt, IsReceipt
  <2> HIDE DEF raw
  <2>2. ReceiptDigest(raw) = Digest("receipt", raw)
    BY <2>1 DEF ReceiptDigest, Present
  <2>3. ReceiptDigest(r) = Digest("receipt", [r EXCEPT !.binding.receipt_digest = Missing])
    BY <1>6 DEF ReceiptDigest
  <2> DEFINE cleared == [r EXCEPT !.binding.receipt_digest = Missing]
  <2>4. cleared.binding.admission_id = b.admission_id
    BY <1>1, <1>3 DEF IsReceipt, IsBinding
  <2>5. cleared # raw
    <3> HIDE DEF cleared
    <3> QED
      BY <1>5, <2>1, <2>4 DEF NoBinding
  <2> QED
    BY <1>5, <2>2, <2>3, <2>5 DEF Digest
<1>12. PICK x \in Prepared, y \in Prepared, q \in Prepared :
         b.receipt_digest = ReceiptDigest(Proper(i, x, y, q))
  BY <1>9, <1>11
<1> DEFINE p == Proper(i, x, y, q)
<1>13. x # Missing
  BY TokenAssumption DEF Prepared
<1>14. /\ IsReceipt(p) /\ IsBinding(p.binding)
       /\ p.request_id = raw.request_id /\ p.step_results = raw.step_results
       /\ p.binding.admission_id = x /\ p.binding.ticket_id = y
       /\ p.binding.request_digest = RequestDigest(request[q])
       /\ p.binding.receipt_digest = ReceiptDigest(p)
  <2>1. p = WithBinding(raw, References(x, y, q), Work[i].receipt_id, Missing)
    BY DEF Proper
  <2>2. raw.request_id = request[i].request_id
    BY <1>10 DEF Receipt
  <2> HIDE DEF raw, p
  <2>3. /\ BoundTo(p, raw, request[i], x, y, q, Work[i].receipt_id)
        /\ p.binding.receipt_digest = ReceiptDigest(p)
    BY <1>10, <1>13, <2>1, BoundReceipt
  <2> QED
    BY <2>2, <2>3 DEF BoundTo
<1> HIDE DEF p
<1>15. Present(p.binding)
  BY <1>13, <1>14 DEF Present, NoBinding
<1>16. r = p
  BY <1>1, <1>3, <1>5, <1>6, <1>12, <1>14, <1>15, DigestPinsReceipt DEF p
<1>17. x = j /\ y = j /\ RequestDigest(request[q]) = RequestDigest(request[j])
  BY <1>5, <1>8, <1>14, <1>16 DEF Anchored
<1>18. References(j, j, q) = References(j, j, j)
  BY <1>17 DEF References
<1>19. r = BoundFor(i, j)
  BY <1>16, <1>17, <1>18 DEF p, Proper, BoundFor
<1>20. Answers(i, j)
  BY <1>2, <1>9, <1>14, <1>16 DEF ReceiptForRequest, Answers
<1> QED
  BY <1>8, <1>19, <1>20 DEF r
-----------------------------------------------------------------------------
(* The steps.                                                              *)

(* What a job was asked for, the plan it got and what its runner did stay. *)
Kept ==
  \A i \in Jobs :
    /\ IsMade(request[i]) => request'[i] = request[i]
    /\ plan[i] # Missing => plan'[i] = plan[i]
    /\ ran[i] # Missing => ran'[i] = ran[i]

(* No step takes back a request, a plan or a run.                          *)
LEMMA StepKeeps ==
  ASSUME HeldByJobs, [Next]_vars
  PROVE  HeldByJobs' /\ Kept
<1> USE DEF HeldByJobs, Kept
<1>1. ASSUME NEW j \in Jobs, Prepare(j) PROVE HeldByJobs' /\ Kept
  BY <1>1 DEF Prepare, IsMade
<1>2. ASSUME NEW j \in Jobs, NEW k \in Jobs, Supervise(j, k) PROVE HeldByJobs' /\ Kept
  BY <1>2 DEF Supervise
<1>3. ASSUME NEW j \in Jobs, NEW r, NEW live, Ran(j, r, live) PROVE HeldByJobs' /\ Kept
  BY <1>3 DEF Ran
<1>4. ASSUME NEW j \in Jobs, RunDry(j) \/ RunLive(j) PROVE HeldByJobs' /\ Kept
  BY <1>3, <1>4 DEF RunDry, RunLive
<1>5. ASSUME NEW j \in Jobs, Bind(j) PROVE HeldByJobs' /\ Kept
  BY <1>5 DEF Bind
<1>6. ASSUME NEW j \in Jobs, NEW k \in Jobs, Garble(j, k) PROVE HeldByJobs' /\ Kept
  BY <1>6 DEF Garble
<1>7. ASSUME UNCHANGED execution PROVE HeldByJobs' /\ Kept
  BY <1>7 DEF execution
<1>8. ASSUME NEW j \in Jobs, NEW k \in Jobs, Verify(j, k) PROVE UNCHANGED execution
  BY <1>8 DEF Verify
<1>9. ASSUME NEW c \in Claims, MakeClaim(c) PROVE UNCHANGED execution
  BY <1>9 DEF MakeClaim
<1>10. ASSUME NEW r \in Requirements, SetRequirement(r) PROVE UNCHANGED execution
  BY <1>10 DEF SetRequirement
<1>11. ASSUME QualifyClaim \/ AcceptEvidence \/ UNCHANGED vars PROVE UNCHANGED execution
  BY <1>11 DEF QualifyClaim, AcceptEvidence, vars
<1> QED
  BY <1>1, <1>2, <1>4, <1>5, <1>6, <1>7, <1>8, <1>9, <1>10, <1>11 DEF Next

(* A digest that was computed of a run stays one, and what a run is bound  *)
(* to for a job stays what it is.                                          *)
LEMMA RunsStay ==
  ASSUME Kept, RunsAnswerTheirRequest
  PROVE  /\ \A d : DigestOfARun(d) => DigestOfARun(d)'
         /\ \A i, j \in Jobs : ran[i] # Missing /\ IsMade(request[j]) => BoundFor(i, j)' = BoundFor(i, j)
<1>1. Prepared \subseteq Prepared'
  BY DEF Kept, Prepared, IsMade
<1>2. ASSUME NEW i \in Jobs, ran[i] # Missing, NEW a, NEW t, NEW q \in Prepared
      PROVE  Proper(i, a, t, q)' = Proper(i, a, t, q)
  <2>1. request'[q] = request[q] /\ ran'[i] = ran[i]
    BY <1>2 DEF Kept, Prepared
  <2>2. References(a, t, q)' = References(a, t, q)
    BY <2>1 DEF References
  <2> QED
    BY <2>1, <2>2 DEF Proper
<1>3. ASSUME NEW d, DigestOfARun(d) PROVE DigestOfARun(d)'
  <2>1. PICK i \in Jobs :
          /\ ran[i] # Missing
          /\ \/ d = ReceiptDigest(ran[i].receipt)
             \/ \E a, t, q \in Prepared : d = ReceiptDigest(Proper(i, a, t, q))
    BY <1>3 DEF DigestOfARun
  <2>2. ran'[i] = ran[i]
    BY <2>1 DEF Kept
  <2>3. CASE d = ReceiptDigest(ran[i].receipt)
    BY <2>1, <2>2, <2>3 DEF DigestOfARun
  <2>4. CASE \E a, t, q \in Prepared : d = ReceiptDigest(Proper(i, a, t, q))
    <3>1. PICK a \in Prepared, t \in Prepared, q \in Prepared :
            d = ReceiptDigest(Proper(i, a, t, q))
      BY <2>4
    <3>2. d = ReceiptDigest(Proper(i, a, t, q)')
      BY <1>2, <2>1, <3>1
    <3>3. a \in Prepared' /\ t \in Prepared' /\ q \in Prepared' /\ ran'[i] # Missing
      BY <1>1, <2>1, <2>2
    <3> QED
      BY <3>1, <3>2, <3>3 DEF DigestOfARun
  <2> QED
    BY <2>1, <2>3, <2>4
<1>4. ASSUME NEW i \in Jobs, NEW j \in Jobs, ran[i] # Missing, IsMade(request[j])
      PROVE  BoundFor(i, j)' = BoundFor(i, j)
  <2>1. j \in Prepared
    BY <1>4 DEF Prepared
  <2> QED
    BY <1>2, <1>4, <2>1 DEF BoundFor
<1> QED
  BY <1>3, <1>4

(* What a binding carries stays computed of a run.                         *)
LEMMA BindingsStay ==
  ASSUME Kept, RunsAnswerTheirRequest, NEW b, BindingOfARun(b)
  PROVE  BindingOfARun(b)'
<1>1. Present(b) => DigestOfARun(b.receipt_digest)'
  BY RunsStay DEF BindingOfARun
<1> QED
  BY <1>1 DEF BindingOfARun

(* A request that is made has an id and the steps of its spec              *)
(* (runner_request_from_approved_spec).                                    *)
LEMMA RequestMade ==
  ASSUME NEW w, RunnerRequest(w.spec, w.request_id, w.gate, w.dry_run) # Raised
  PROVE  LET q == RunnerRequest(w.spec, w.request_id, w.gate, w.dry_run)
         IN  q.request_id # Missing /\ q.steps = w.spec.execution_plan
<1>1. Missing # "approved-spec-request"
  BY TokenAssumption
<1> DEFINE raw == ApprovedSteps(w.spec)
           steps == IF raw = Raised THEN Raised ELSE NormalizeSteps(raw)
<1>2. steps # Raised
  BY DEF RunnerRequest
<1>3. raw # Raised /\ steps = raw
  BY <1>2 DEF NormalizeSteps
<1>4. raw = w.spec.execution_plan
  BY <1>3 DEF ApprovedSteps
<1> QED
  BY <1>1, <1>2, <1>3, <1>4 DEF RunnerRequest

(* A receipt that is bound, mixed up with another or changed still carries *)
(* a digest that was computed of a run.                                    *)
LEMMA BoundComesFromRun ==
  ASSUME RunInv, NEW j \in Jobs, Bind(j)
  PROVE  ReceiptsComeFromRuns'
<1>1. PICK a \in Prepared, t \in Prepared, q \in Prepared, digest \in {Missing, ReceiptDigest(ran[j].receipt)} :
        receipt' = [receipt EXCEPT ![j] =
          WithBinding(ran[j].receipt, References(a, t, q), Work[j].receipt_id, digest)]
  BY DEF Bind
<1> DEFINE raw == ran[j].receipt
           b == WithBinding(raw, References(a, t, q), Work[j].receipt_id, digest)
<1>2. ran[j] # Missing /\ UNCHANGED <<request, ran>>
  BY DEF Bind
<1>3. raw = Receipt(request[j], raw.status, raw.step_results)
  BY <1>2 DEF RunInv, RunsAnswerTheirRequest
<1>4. a \in Jobs /\ t \in Jobs /\ a # Missing
  BY TokenAssumption DEF Prepared
<1> HIDE DEF raw
<1>5. /\ BoundTo(b, raw, request[j], a, t, q, Work[j].receipt_id)
      /\ digest # Missing => b.binding.receipt_digest = digest
      /\ digest = Missing => b.binding.receipt_digest = ReceiptDigest(b)
  <2>1. b = WithBinding(raw, References(a, t, q), Work[j].receipt_id, digest)
    OBVIOUS
  <2> HIDE DEF b
  <2>2. /\ BoundTo(b, raw, request[j], a, t, q, Work[j].receipt_id)
        /\ digest # Missing => b.binding.receipt_digest = digest
        /\ digest = Missing /\ a # Missing => b.binding.receipt_digest = ReceiptDigest(b)
    BY <1>3, <2>1, BoundReceipt
  <2> QED
    BY <1>4, <2>2
<1>6. DigestOfARun(b.binding.receipt_digest)
  <2>1. CASE digest # Missing
    BY <1>1, <1>2, <1>5, <2>1 DEF DigestOfARun, raw
  <2>2. CASE digest = Missing
    <3>1. b = Proper(j, a, t, q)
      BY <2>2 DEF Proper, raw
    <3> HIDE DEF b
    <3> QED
      BY <1>1, <1>2, <1>5, <2>2, <3>1 DEF DigestOfARun
  <2> QED
    BY <2>1, <2>2
<1>7. IsReceipt(b) /\ BindingOfARun(b.binding)
  <2> HIDE DEF b
  <2> QED
    BY <1>4, <1>5, <1>6 DEF BoundTo, BindingOfARun, Anchored
<1>8. receipt' = [receipt EXCEPT ![j] = b]
  BY <1>1 DEF raw
<1> HIDE DEF b
<1>9. Kept
  BY StepKeeps DEF RunInv, Next
<1>10. \A x : BindingOfARun(x) => BindingOfARun(x)'
  BY <1>9, BindingsStay DEF RunInv
<1> QED
  BY <1>7, <1>8, <1>10 DEF RunInv, ReceiptsComeFromRuns, HeldByJobs

(* The same for a receipt that is changed after it was bound.              *)
LEMMA GarbledComesFromRun ==
  ASSUME RunInv, NEW j \in Jobs, NEW k \in Jobs, Garble(j, k)
  PROVE  ReceiptsComeFromRuns'
<1>1. PICK r : /\ r \in {[receipt[j] EXCEPT !.binding = receipt[k].binding],
                          [receipt[j] EXCEPT !.step_results = receipt[k].step_results],
                          [receipt[j] EXCEPT !.status = receipt[k].status],
                          [receipt[j] EXCEPT !.status = "succeeded", !.binding.status = "succeeded"]}
               /\ receipt' = [receipt EXCEPT ![j] = r]
  BY DEF Garble
<1> DEFINE old == receipt[j]
<1>2. /\ IsReceipt(old) /\ BindingOfARun(old.binding) /\ Present(old.binding)
      /\ BindingOfARun(receipt[k].binding)
  BY DEF Garble, Bound, RunInv, ReceiptsComeFromRuns
<1> HIDE DEF old
<1>3. BindingOfARun([old.binding EXCEPT !.status = "succeeded"])
  <2> DEFINE was == old.binding
             is == [was EXCEPT !.status = "succeeded"]
  <2>1. IsBinding(was) /\ (\A f \in Anchored : was[f] \in Jobs) /\ DigestOfARun(was.receipt_digest)
    BY <1>2 DEF BindingOfARun
  <2> HIDE DEF was
  <2>2. /\ IsBinding(is) /\ is.receipt_digest = was.receipt_digest
        /\ \A f \in Anchored : is[f] = was[f]
    BY <2>1 DEF IsBinding, Anchored
  <2> HIDE DEF is
  <2>3. BindingOfARun(is)
    BY <2>1, <2>2 DEF BindingOfARun
  <2> QED
    BY <2>3 DEF is, was
<1>4. /\ IsReceipt(r)
      /\ r.binding \in {old.binding, receipt[k].binding, [old.binding EXCEPT !.status = "succeeded"]}
  <2>1. CASE r = [old EXCEPT !.binding = receipt[k].binding]
    BY <1>2, <2>1 DEF IsReceipt
  <2>2. CASE r = [old EXCEPT !.step_results = receipt[k].step_results]
    BY <1>2, <2>2 DEF IsReceipt
  <2>3. CASE r = [old EXCEPT !.status = receipt[k].status]
    BY <1>2, <2>3 DEF IsReceipt
  <2>4. CASE r = [old EXCEPT !.status = "succeeded", !.binding.status = "succeeded"]
    BY <1>2, <2>4 DEF IsReceipt
  <2> QED
    BY <1>1, <2>1, <2>2, <2>3, <2>4 DEF old
<1>5. BindingOfARun(r.binding)
  BY <1>2, <1>3, <1>4
<1>6. Kept
  BY StepKeeps DEF RunInv, Next
<1>7. \A x : BindingOfARun(x) => BindingOfARun(x)'
  BY <1>6, BindingsStay DEF RunInv
<1> QED
  BY <1>1, <1>4, <1>5, <1>7 DEF RunInv, ReceiptsComeFromRuns, HeldByJobs

(* A runner returns a receipt without a binding, and the receipt answers   *)
(* the request it ran.                                                     *)
LEMMA RunReturns ==
  ASSUME RunInv, AbsentIsNoRecord, NEW j \in Jobs, RunDry(j) \/ RunLive(j)
  PROVE  RunsAnswerTheirRequest' /\ RunsAsAsked' /\ ReceiptsComeFromRuns'
<1> DEFINE q == request[j]
<1>1. PICK r, live :
        /\ Ran(j, r, live)
        /\ r = Receipt(q, r.status, r.step_results)
        /\ r.status \in Statuses /\ r.step_results \subseteq DOMAIN q.steps
        /\ live \in BOOLEAN
        /\ live = TRUE => plan[j] # Missing /\ ~q.dry_run
        /\ live = FALSE => r.status \in {"dry-run", "blocked"}
  <2>1. CASE RunDry(j)
    <3>1. DryRun(q) = Receipt(q, DryRun(q).status, DryRun(q).step_results)
      BY DEF DryRun, Receipt
    <3>2. DryRun(q).status \in {"dry-run", "blocked"} /\ DryRun(q).step_results = DOMAIN q.steps
      BY DEF DryRun, Receipt
    <3> QED
      BY <2>1, <3>1, <3>2 DEF RunDry, Statuses
  <2>2. CASE RunLive(j)
    <3>1. PICK n \in 0..Len(q.steps), status \in {"succeeded", "failed", "interrupted"} :
            Ran(j, Receipt(q, status, 1..n), TRUE)
      BY <2>2 DEF RunLive
    <3>2. IsMade(q)
      BY <3>1 DEF Ran
    <3>3. 1..n \subseteq DOMAIN q.steps
      BY <3>1, <3>2, WorkAssumption DEF RunInv, RequestsOfWork
    <3> DEFINE r == Receipt(q, status, 1..n)
    <3>4. r.status = status /\ r.step_results = 1..n
      BY DEF Receipt
    <3>5. r = Receipt(q, r.status, r.step_results)
      BY <3>4
    <3> HIDE DEF r
    <3>6. plan[j] # Missing /\ ~q.dry_run /\ status \in Statuses
      BY <2>2 DEF RunLive, Statuses
    <3> QED
      BY <3>1, <3>3, <3>4, <3>5, <3>6 DEF r
  <2> QED
    BY <2>1, <2>2
<1>2. /\ IsMade(q) /\ ran[j] = Missing
      /\ ran' = [ran EXCEPT ![j] = [receipt |-> r, live |-> live]]
      /\ receipt' = [receipt EXCEPT ![j] = r]
      /\ UNCHANGED <<request, plan>>
  BY <1>1 DEF Ran
<1>3. Kept
  BY StepKeeps DEF RunInv, Next
<1>4. ran'[j] = [receipt |-> r, live |-> live] /\ \A i \in Jobs \ {j} : ran'[i] = ran[i]
  BY <1>2 DEF RunInv, HeldByJobs
<1> HIDE DEF q
<1>5. ran'[j].receipt = r /\ ran'[j].live = live
  BY <1>4
<1>6. RunsAnswerTheirRequest'
  BY <1>1, <1>2, <1>4, <1>5 DEF RunInv, RunsAnswerTheirRequest, q
<1>7. RunsAsAsked'
  BY <1>1, <1>2, <1>4, <1>5 DEF RunInv, RunsAsAsked, q
<1>8. IsReceipt(r) /\ r.binding = NoBinding
  BY <1>1 DEF Receipt, IsReceipt
<1>9. BindingOfARun(NoBinding)'
  BY DEF BindingOfARun, IsBinding, Present, NoBinding
<1>10. \A x : BindingOfARun(x) => BindingOfARun(x)'
  BY <1>3, BindingsStay DEF RunInv
<1>11. ReceiptsComeFromRuns'
  BY <1>2, <1>8, <1>9, <1>10 DEF RunInv, ReceiptsComeFromRuns, HeldByJobs
<1> QED
  BY <1>6, <1>7, <1>11

(* A plan lets its job run in the mode the job was asked for, whoever it   *)
(* was made for (validate_supervised_runner_request).                      *)
LEMMA PlansStayFit ==
  ASSUME RunInv, [Next]_vars
  PROVE  PlansLetThemRun'
<1>1. Kept
  BY StepKeeps DEF RunInv
<1>2. \A j \in Jobs : plan'[j] = plan[j] => (plan'[j] # Missing => IsMade(request[j])' /\ Supervised(request'[j], plan'[j]))
  BY <1>1 DEF RunInv, PlansLetThemRun, Kept, IsMade
<1>3. ASSUME NEW j \in Jobs, NEW k \in Jobs, Supervise(j, k) PROVE PlansLetThemRun'
  <2>1. /\ IsMade(request[j]) /\ request' = request
        /\ \A i \in Jobs \ {j} : plan'[i] = plan[i]
        /\ Supervised(request[j], plan'[j])
    BY <1>3 DEF Supervise, RunInv, HeldByJobs
  <2> QED
    BY <1>2, <2>1 DEF PlansLetThemRun
<1>4. ASSUME plan' = plan PROVE PlansLetThemRun'
  BY <1>2, <1>4 DEF PlansLetThemRun
<1>5. ASSUME NEW j \in Jobs, Prepare(j) \/ RunDry(j) \/ RunLive(j) \/ Bind(j) PROVE plan' = plan
  BY <1>5 DEF Prepare, RunDry, RunLive, Ran, Bind
<1>6. ASSUME NEW j \in Jobs, NEW k \in Jobs, Garble(j, k) \/ Verify(j, k) PROVE plan' = plan
  BY <1>6 DEF Garble, Verify, execution
<1>7. ASSUME NEW c \in Claims, MakeClaim(c) PROVE plan' = plan
  BY <1>7 DEF MakeClaim, execution
<1>8. ASSUME NEW r \in Requirements, SetRequirement(r) PROVE plan' = plan
  BY <1>8 DEF SetRequirement, execution
<1>9. ASSUME QualifyClaim \/ AcceptEvidence \/ UNCHANGED vars PROVE plan' = plan
  BY <1>9 DEF QualifyClaim, AcceptEvidence, vars, execution
<1> QED
  BY <1>3, <1>4, <1>5, <1>6, <1>7, <1>8, <1>9 DEF Next

(* Every step keeps what the requests, the runs and the receipts are.      *)
LEMMA RunsStayTheirs ==
  ASSUME RunInv, AbsentIsNoRecord, [Next]_vars
  PROVE  RequestsOfWork' /\ RunsAnswerTheirRequest' /\ RunsAsAsked' /\ ReceiptsComeFromRuns'
<1>1. Kept
  BY StepKeeps DEF RunInv
<1>2. \A x : BindingOfARun(x) => BindingOfARun(x)'
  BY <1>1, BindingsStay DEF RunInv
<1>3. ASSUME UNCHANGED ran PROVE RunsAnswerTheirRequest' /\ RunsAsAsked'
  BY <1>1, <1>3 DEF RunInv, RunsAnswerTheirRequest, RunsAsAsked, Kept
<1>4. ASSUME UNCHANGED receipt PROVE ReceiptsComeFromRuns'
  BY <1>2, <1>4 DEF RunInv, ReceiptsComeFromRuns
<1>5. ASSUME UNCHANGED request PROVE RequestsOfWork'
  BY <1>5 DEF RunInv, RequestsOfWork, IsMade
<1>6. ASSUME NEW j \in Jobs, Prepare(j) PROVE RequestsOfWork' /\ UNCHANGED <<ran, receipt>>
  <2> DEFINE q == RunnerRequest(Work[j].spec, Work[j].request_id, Work[j].gate, Work[j].dry_run)
  <2>1. q # Raised /\ request' = [request EXCEPT ![j] = q] /\ UNCHANGED <<ran, receipt>>
    BY <1>6 DEF Prepare
  <2>2. q.request_id # Missing /\ q.steps = Work[j].spec.execution_plan
    BY <2>1, RequestMade
  <2> HIDE DEF q
  <2> QED
    BY <2>1, <2>2 DEF RunInv, HeldByJobs, RequestsOfWork, IsMade
<1>7. ASSUME NEW j \in Jobs, RunDry(j) \/ RunLive(j) PROVE UNCHANGED request
  BY <1>7 DEF RunDry, RunLive, Ran
<1>8. ASSUME NEW j \in Jobs, Bind(j) PROVE UNCHANGED <<request, ran>>
  BY <1>8 DEF Bind
<1>9. ASSUME NEW j \in Jobs, NEW k \in Jobs, Garble(j, k) PROVE UNCHANGED <<request, ran>>
  BY <1>9 DEF Garble
<1>10. ASSUME NEW j \in Jobs, NEW k \in Jobs, Supervise(j, k) \/ Verify(j, k)
       PROVE  UNCHANGED <<request, ran, receipt>>
  BY <1>10 DEF Supervise, Verify, execution
<1>11. ASSUME NEW c \in Claims, MakeClaim(c) PROVE UNCHANGED <<request, ran, receipt>>
  BY <1>11 DEF MakeClaim, execution
<1>12. ASSUME NEW r \in Requirements, SetRequirement(r) PROVE UNCHANGED <<request, ran, receipt>>
  BY <1>12 DEF SetRequirement, execution
<1>13. ASSUME QualifyClaim \/ AcceptEvidence \/ UNCHANGED vars PROVE UNCHANGED <<request, ran, receipt>>
  BY <1>13 DEF QualifyClaim, AcceptEvidence, vars, execution
<1>14. ASSUME NEW j \in Jobs, RunDry(j) \/ RunLive(j)
       PROVE  RunsAnswerTheirRequest' /\ RunsAsAsked' /\ ReceiptsComeFromRuns'
  BY <1>14, RunReturns
<1>15. ASSUME NEW j \in Jobs, Bind(j) PROVE ReceiptsComeFromRuns'
  BY <1>15, BoundComesFromRun
<1>16. ASSUME NEW j \in Jobs, NEW k \in Jobs, Garble(j, k) PROVE ReceiptsComeFromRuns'
  BY <1>16, GarbledComesFromRun
<1>17. CASE \E j \in Jobs : Prepare(j) \/ RunDry(j) \/ RunLive(j) \/ Bind(j)
  BY <1>3, <1>4, <1>5, <1>6, <1>7, <1>8, <1>14, <1>15, <1>17
<1>18. CASE \E j, k \in Jobs : Supervise(j, k) \/ Garble(j, k) \/ Verify(j, k)
  BY <1>3, <1>4, <1>5, <1>9, <1>10, <1>16, <1>18
<1> QED
  BY <1>3, <1>4, <1>5, <1>11, <1>12, <1>13, <1>17, <1>18 DEF Next

(* What was found verified for a job stays what a run was bound to for it. *)
LEMMA VerifiedStays ==
  ASSUME RunInv, [Next]_vars
  PROVE  VerifiedIsOfARun' /\ (verified # Missing => verified' = verified)
<1>1. Kept
  BY StepKeeps DEF RunInv
<1>2. ASSUME verified' = verified PROVE VerifiedIsOfARun'
  <2> SUFFICES ASSUME verified # Missing PROVE VerifiedIsOfARun'
    BY <1>2 DEF VerifiedIsOfARun
  <2>1. /\ verified.job \in Jobs /\ IsMade(request[verified.job])
        /\ \E i \in Jobs : ran[i] # Missing /\ verified.receipt = BoundFor(i, verified.job)
    BY DEF RunInv, VerifiedIsOfARun, RunsBehind
  <2> DEFINE j == verified.job
  <2>2. PICK i \in Jobs : ran[i] # Missing /\ verified.receipt = BoundFor(i, j)
    BY <2>1
  <2>3. BoundFor(i, j)' = BoundFor(i, j)
    BY <1>1, <1>2, <2>1, <2>2, RunsStay DEF RunInv
  <2>4. ran'[i] # Missing /\ IsMade(request'[j])
    BY <1>1, <2>1, <2>2 DEF Kept, IsMade
  <2>5. i \in RunsBehind'
    BY <1>2, <2>2, <2>3, <2>4 DEF RunsBehind
  <2> QED
    BY <1>2, <2>1, <2>4, <2>5 DEF VerifiedIsOfARun
<1>3. ASSUME NEW j \in Jobs, NEW k \in Jobs, Verify(j, k) PROVE VerifiedIsOfARun' /\ verified = Missing
  <2>1. /\ IsMade(request[j]) /\ receipt[k] # Missing /\ verified = Missing
        /\ Assured(j, k, {j}, {j}) = "verified"
        /\ verified' = [job |-> j, receipt |-> receipt[k]]
        /\ UNCHANGED <<request, ran>>
    BY <1>3 DEF Verify, execution
  <2>2. Assured(j, k, {j, j}, {j, j}) = "verified"
    <3>1. {j, j} = {j}
      OBVIOUS
    <3> QED
      BY <2>1, <3>1
  <2>3. PICK i \in Jobs : Answers(i, j) /\ receipt[k] = BoundFor(i, j)
    BY <2>1, <2>2, VerifiedIsBoundFor
  <2>4. ran[i] # Missing /\ BoundFor(i, j)' = BoundFor(i, j)
    BY <1>1, <2>1, <2>3, RunsStay DEF RunInv, Answers
  <2>5. verified'.job = j /\ verified'.receipt = BoundFor(i, j)' /\ ran'[i] # Missing
    BY <2>1, <2>3, <2>4
  <2>6. i \in RunsBehind'
    BY <2>5 DEF RunsBehind
  <2> QED
    BY <2>1, <2>5, <2>6 DEF VerifiedIsOfARun
<1>4. ASSUME NEW j \in Jobs, Prepare(j) \/ RunDry(j) \/ RunLive(j) \/ Bind(j) PROVE verified' = verified
  BY <1>4 DEF Prepare, RunDry, RunLive, Ran, Bind, evidence
<1>5. ASSUME NEW j \in Jobs, NEW k \in Jobs, Supervise(j, k) \/ Garble(j, k) PROVE verified' = verified
  BY <1>5 DEF Supervise, Garble, evidence
<1>6. ASSUME NEW c \in Claims, MakeClaim(c) PROVE verified' = verified
  BY <1>6 DEF MakeClaim
<1>7. ASSUME NEW r \in Requirements, SetRequirement(r) PROVE verified' = verified
  BY <1>7 DEF SetRequirement
<1>8. ASSUME QualifyClaim \/ AcceptEvidence \/ UNCHANGED vars PROVE verified' = verified
  BY <1>8 DEF QualifyClaim, AcceptEvidence, vars, evidence
<1> QED
  BY <1>2, <1>3, <1>4, <1>5, <1>6, <1>7, <1>8 DEF Next
-----------------------------------------------------------------------------
(* Evidence.                                                               *)

(* A status that is none counts as a dry run, so whatever a claim is       *)
(* qualified with is a status (qualify_evidence_claim).                    *)
LEMMA QualifiedOnStatus ==
  /\ DOMAIN Rank = Statuses
  /\ \A s : ReceiptStatus(s) \in Statuses
  /\ \A c, r, s : MadeOf(Qualify(c, r, s), c, r)
<1>1. DOMAIN Rank = Statuses
  BY DEF Rank, Statuses
<1>2. \A s : ReceiptStatus(s) \in Statuses /\ ReceiptStatus(ReceiptStatus(s)) = ReceiptStatus(s)
  BY <1>1 DEF ReceiptStatus, Statuses
<1>3. ASSUME NEW c, NEW r, NEW s PROVE MadeOf(Qualify(c, r, s), c, r)
  <2>1. Qualify(c, r, s) = Qualify(c, r, ReceiptStatus(s))
    BY <1>2 DEF Qualify
  <2> QED
    BY <1>2, <2>1 DEF MadeOf
<1> QED
  BY <1>1, <1>2, <1>3

(* What a qualification that supports a claim says of the status it was    *)
(* made for.                                                               *)
LEMMA SupportedMeans ==
  ASSUME NEW c, NEW r, r.min_receipt_status \in Statuses, NEW made \in Statuses, NEW status \in Statuses,
         ValidClaim(c),
         Qualify(c, r, made).result = "supported",
         Qualify(c, r, made).receipt_status = ReceiptStatus(status)
  PROVE  /\ status \in AtLeast(r.min_receipt_status)
         /\ c.claim_type = "live_vulnerability" => status = "succeeded"
<1>1. ReceiptStatus(made) = made /\ ReceiptStatus(status) = status
  BY QualifiedOnStatus DEF ReceiptStatus
<1>2. /\ Qualify(c, r, made).receipt_status = made
      /\ ~(Rank[made] < Rank[r.min_receipt_status])
      /\ c.claim_type = "live_vulnerability" => made = "succeeded"
  BY <1>1 DEF Qualify, Qualification
<1>3. made = status
  BY <1>1, <1>2
<1>4. /\ Rank["blocked"] = 0 /\ Rank["failed"] = 1 /\ Rank["interrupted"] = 1
      /\ Rank["dry-run"] = 2 /\ Rank["succeeded"] = 3
  BY DEF Rank
<1>5. status \in AtLeast(r.min_receipt_status)
  BY <1>2, <1>3, <1>4 DEF Statuses, AtLeast
<1> QED
  BY <1>2, <1>3, <1>5

(* What the review chain accepts (validate_evidence_review_chain).         *)
LEMMA AcceptedWasReviewed ==
  ASSUME EvidenceReviewed, verified # Missing, AcceptEvidence
  PROVE  AcceptedOnReview'
<1>1. PICK given \in {Missing, qualified} :
        /\ \E cites : ReviewChain(claim, requirement, Facts,
             IF given = Missing THEN Missing ELSE given.qualification, cites) # Raised
        /\ accepted' = [claim |-> claim, requirement |-> requirement, given |-> given]
  BY DEF AcceptEvidence
<1> DEFINE q == IF given = Missing \/ given.qualification = Missing
                THEN Qualify(claim, requirement, Facts.receipt_status) ELSE given.qualification
<1>2. RefersTo(claim, requirement, Facts) /\ QualificationMatches(q, claim, requirement, Facts)
  BY <1>1 DEF ReviewChain
<1>3. UNCHANGED verified /\ Facts' = Facts
  BY DEF AcceptEvidence, Facts
<1>4. requirement.min_receipt_status \in Statuses
  BY DEF AcceptEvidence, EvidenceReviewed, RequirementTyped
<1>5. ASSUME given = Missing \/ (given.claim = claim /\ given.requirement = requirement)
      PROVE  MadeOf(q, claim, requirement)
  <2>1. CASE given = Missing \/ given.qualification = Missing
    BY <2>1, QualifiedOnStatus
  <2>2. CASE given # Missing /\ given.qualification # Missing
    BY <1>5, <2>2 DEF EvidenceReviewed, QualifiedAsMade
  <2> QED
    BY <2>1, <2>2
<1>6. accepted'.claim = claim /\ accepted'.requirement = requirement /\ accepted'.given = given
  BY <1>1
<1> HIDE DEF q
<1>7. Unrevised' => MadeOf(q, claim, requirement)
  BY <1>5, <1>6 DEF Unrevised
<1> QED
  BY <1>2, <1>3, <1>4, <1>6, <1>7 DEF AcceptedOnReview, MadeOf

(* What was qualified and what was accepted stays as it was made.          *)
LEMMA EvidenceStaysReviewed ==
  ASSUME RunInv, EvidenceReviewed, [Next]_vars
  PROVE  EvidenceReviewed'
<1>1. verified # Missing => verified' = verified
  BY VerifiedStays
<1>2. ASSUME accepted' = accepted PROVE AcceptedOnReview' /\ (claim' = claim => ClaimedOnceVerified')
  <2>1. verified # Missing => Facts' = Facts
    BY <1>1 DEF Facts
  <2> QED
    BY <1>1, <1>2, <2>1 DEF EvidenceReviewed, AcceptedOnReview, Unrevised, ClaimedOnceVerified
<1>3. ASSUME UNCHANGED evidence PROVE EvidenceReviewed'
  <2>1. accepted' = accepted /\ claim' = claim /\ requirement' = requirement /\ qualified' = qualified
    BY <1>3 DEF evidence
  <2> QED
    BY <1>2, <2>1 DEF EvidenceReviewed, RequirementTyped, QualifiedAsMade
<1>4. ASSUME NEW j \in Jobs, Prepare(j) \/ RunDry(j) \/ RunLive(j) \/ Bind(j) PROVE UNCHANGED evidence
  BY <1>4 DEF Prepare, RunDry, RunLive, Ran, Bind
<1>5. ASSUME NEW j \in Jobs, NEW k \in Jobs, Supervise(j, k) \/ Garble(j, k) PROVE UNCHANGED evidence
  BY <1>5 DEF Supervise, Garble
<1>6. ASSUME NEW j \in Jobs, NEW k \in Jobs, Verify(j, k) PROVE EvidenceReviewed'
  <2>1. accepted' = accepted /\ claim' = claim /\ requirement' = requirement /\ qualified' = qualified
    BY <1>6 DEF Verify
  <2> QED
    BY <1>2, <2>1 DEF EvidenceReviewed, RequirementTyped, QualifiedAsMade
<1>7. ASSUME NEW c \in Claims, MakeClaim(c) PROVE EvidenceReviewed'
  <2>1. /\ accepted' = accepted /\ requirement' = requirement /\ qualified' = qualified
        /\ verified # Missing /\ verified' = verified
    BY <1>7 DEF MakeClaim
  <2> QED
    BY <1>2, <2>1 DEF ClaimedOnceVerified, EvidenceReviewed, RequirementTyped, QualifiedAsMade
<1>8. ASSUME NEW r \in Requirements, SetRequirement(r) PROVE EvidenceReviewed'
  <2>1. /\ accepted' = accepted /\ claim' = claim /\ qualified' = qualified
        /\ requirement' = Requirement("requirement", r.subject_ref, r.evidence_kind, r.min_receipt_status)
    BY <1>8 DEF SetRequirement
  <2>2. requirement'.min_receipt_status \in Statuses
    BY <2>1, QualifiedOnStatus DEF Requirement
  <2> QED
    BY <1>2, <2>1, <2>2 DEF EvidenceReviewed, RequirementTyped, QualifiedAsMade
<1>9. ASSUME QualifyClaim PROVE EvidenceReviewed'
  <2>1. /\ accepted' = accepted /\ claim' = claim /\ requirement' = requirement
        /\ \E s : LET q == Qualify(claim, requirement, s)
                 IN  qualified' = [claim |-> claim, requirement |-> requirement, qualification |-> q]
    BY <1>9 DEF QualifyClaim
  <2>2. MadeOf(qualified'.qualification, qualified'.claim, qualified'.requirement)
    BY <2>1, QualifiedOnStatus
  <2> QED
    BY <1>2, <2>1, <2>2 DEF EvidenceReviewed, RequirementTyped, QualifiedAsMade
<1>10. ASSUME AcceptEvidence PROVE EvidenceReviewed'
  <2>1. requirement' = requirement /\ qualified' = qualified /\ claim' = claim
    BY <1>10 DEF AcceptEvidence
  <2>2. verified # Missing /\ verified' = verified
    BY <1>10 DEF AcceptEvidence, EvidenceReviewed, ClaimedOnceVerified
  <2> QED
    BY <1>10, <2>1, <2>2, AcceptedWasReviewed DEF ClaimedOnceVerified, EvidenceReviewed, RequirementTyped, QualifiedAsMade
<1>11. ASSUME UNCHANGED vars PROVE UNCHANGED evidence
  BY <1>11 DEF vars
<1> QED
  BY <1>3, <1>4, <1>5, <1>6, <1>7, <1>8, <1>9, <1>10, <1>11 DEF Next
-----------------------------------------------------------------------------
(* Where everybody starts.                                                 *)
LEMMA EvidenceInit == Init => RunInv /\ EvidenceReviewed
<1> SUFFICES ASSUME Init PROVE RunInv /\ EvidenceReviewed
  OBVIOUS
<1>1. \A j \in Jobs : ~IsMade(request[j]) /\ plan[j] = Missing /\ ran[j] = Missing /\ receipt[j] = Missing
  BY DEF Init, IsMade
<1>2. HeldByJobs
  BY DEF Init, HeldByJobs
<1>3. EvidenceReviewed
  BY DEF Init, EvidenceReviewed, ClaimedOnceVerified, RequirementTyped, QualifiedAsMade, AcceptedOnReview
<1> QED
  BY <1>1, <1>2, <1>3 DEF RunInv, RequestsOfWork, PlansLetThemRun, RunsAnswerTheirRequest, RunsAsAsked,
     ReceiptsComeFromRuns, VerifiedIsOfARun, Init

(* The invariant the results below rest on: what a binding carries was     *)
(* computed of a run, what was found verified is what a run was bound to   *)
(* for its job, and what was accepted was qualified for its status.        *)
THEOREM EvidenceInvariant ==
  ASSUME AbsentIsNoRecord
  PROVE  Spec => [](RunInv /\ EvidenceReviewed)
<1>1. Init => RunInv /\ EvidenceReviewed
  BY EvidenceInit
<1>2. RunInv /\ EvidenceReviewed /\ [Next]_vars => (RunInv /\ EvidenceReviewed)'
  <2> SUFFICES ASSUME RunInv, EvidenceReviewed, [Next]_vars PROVE (RunInv /\ EvidenceReviewed)'
    OBVIOUS
  <2>1. HeldByJobs'
    BY StepKeeps DEF RunInv
  <2> QED
    BY <2>1, PlansStayFit, RunsStayTheirs, VerifiedStays, EvidenceStaysReviewed DEF RunInv
<1> QED
  BY <1>1, <1>2, PTL DEF Spec

(* A receipt verifies for a job, by that job's anchors, exactly when it is *)
(* what a runner returned for a request of that id, bound to the           *)
(* admission, the ticket and the request of that job, all of them, and     *)
(* untouched since (validate_runner_receipt_binding,                       *)
(* runner_receipt_binding_verification_summary).                           *)
THEOREM OnlyWhatIsBoundForItVerifies ==
  ASSUME AbsentIsNoRecord, \A j \in Jobs : Work[j].receipt_id # Missing
  PROVE  Spec => []VerifiedExactlyWhenBoundForIt
<1>1. ASSUME RunInv PROVE VerifiedExactlyWhenBoundForIt
  <2> SUFFICES ASSUME NEW j \in Jobs, NEW k \in Jobs, IsMade(request[j]), receipt[k] # Missing,
                      NEW a \in Jobs, NEW t \in Jobs
               PROVE  Assured(j, k, {j, a}, {j, t}) = "verified" <=>
                        /\ a = j /\ t = j
                        /\ \E i \in Jobs : Answers(i, j) /\ receipt[k] = BoundFor(i, j)
    BY DEF VerifiedExactlyWhenBoundForIt
  <2>1. Assured(j, k, {j, a}, {j, t}) = "verified" =>
          a = j /\ t = j /\ \E i \in Jobs : Answers(i, j) /\ receipt[k] = BoundFor(i, j)
    BY <1>1, VerifiedIsBoundFor
  <2>2. ASSUME a = j, t = j, NEW i \in Jobs, Answers(i, j), receipt[k] = BoundFor(i, j)
        PROVE  Assured(j, k, {j, a}, {j, t}) = "verified"
    BY <1>1, <2>2, BoundForVerifies
  <2> QED
    BY <2>1, <2>2
<1>2. RunInv /\ EvidenceReviewed => VerifiedExactlyWhenBoundForIt
  BY <1>1
<1> QED
  BY <1>2, EvidenceInvariant, PTL

(* What an accepted claim rests on: whatever run the receipt under review  *)
(* is of.                                                                  *)
LEMMA AcceptedRestsOnRun ==
  ASSUME RunInv, EvidenceReviewed, AbsentIsNoRecord, accepted # Missing, Unrevised,
         NEW i \in RunsBehind
  PROVE  LET c == accepted.claim
             r == accepted.requirement
             status == ran[i].receipt.status
         IN  /\ status \in AtLeast(r.min_receipt_status)
             /\ c.claim_type = "live_vulnerability" => status = "succeeded"
             /\ c.receipt_digest = ReceiptDigest(verified.receipt)
<1> DEFINE c == accepted.claim
           r == accepted.requirement
           j == verified.job
           raw == ran[i].receipt
           own == BoundFor(i, j)
<1>1. /\ verified # Missing /\ r.min_receipt_status \in Statuses /\ RefersTo(c, r, Facts)
      /\ \E made \in Statuses : QualificationMatches(Qualify(c, r, made), c, r, Facts)
  BY DEF EvidenceReviewed, AcceptedOnReview
<1>2. /\ j \in Jobs /\ i \in Jobs /\ ran[i] # Missing /\ verified.receipt = own
  BY <1>1 DEF RunInv, VerifiedIsOfARun, RunsBehind
<1>3. raw = Receipt(request[i], raw.status, raw.step_results) /\ raw.status \in Statuses
  BY <1>2 DEF RunInv, RunsAnswerTheirRequest
<1>4. own = WithBinding(raw, References(j, j, j), Work[i].receipt_id, Missing)
  BY DEF BoundFor, Proper
<1>5. j # Missing
  BY <1>2, TokenAssumption
<1> HIDE DEF raw, own, j, c, r
<1>6. /\ BoundTo(own, raw, request[i], j, j, j, Work[i].receipt_id)
      /\ own.binding.receipt_digest = ReceiptDigest(own)
  BY <1>3, <1>4, <1>5, BoundReceipt
<1>7. Facts.receipt_status = raw.status /\ Facts.receipt_digest = ReceiptDigest(own)
  BY <1>2, <1>6 DEF Facts, BoundTo
<1>8. ReceiptDigest(own) # Missing
  BY DEF AbsentIsNoRecord, ReceiptDigest
<1>9. ValidClaim(c) /\ c.receipt_digest = ReceiptDigest(own)
  BY <1>1, <1>7, <1>8 DEF RefersTo
<1>10. PICK made \in Statuses :
         /\ Qualify(c, r, made).result = "supported"
         /\ Qualify(c, r, made).receipt_status = ReceiptStatus(raw.status)
  BY <1>1, <1>7 DEF QualificationMatches
<1>11. /\ raw.status \in AtLeast(r.min_receipt_status)
       /\ c.claim_type = "live_vulnerability" => raw.status = "succeeded"
  BY <1>1, <1>3, <1>9, <1>10, SupportedMeans
<1> QED
  BY <1>2, <1>9, <1>11 DEF raw, own, j, c, r

(* There is such a run. *)
LEMMA AcceptedIsOfARun ==
  ASSUME RunInv, EvidenceReviewed, accepted # Missing
  PROVE  RunsBehind # {}
BY DEF RunInv, VerifiedIsOfARun, EvidenceReviewed, AcceptedOnReview

(* Accepted evidence goes no further than what a runner reported, unless   *)
(* the claim or the requirement was revised after it was qualified         *)
(* (validate_evidence_review_chain, qualify_evidence_claim).               *)
THEOREM AcceptedStaysWithinReceipt ==
  ASSUME AbsentIsNoRecord
  PROVE  Spec => []AcceptedWithinReceiptBounds
<1>1. RunInv /\ EvidenceReviewed => AcceptedWithinReceiptBounds
  BY AcceptedRestsOnRun, AcceptedIsOfARun DEF AcceptedWithinReceiptBounds
<1> QED
  BY <1>1, EvidenceInvariant, PTL

(* A live claim that is accepted rests on a live run that succeeded, under *)
(* a plan that let it be live (validate_supervised_runner_request,         *)
(* DryRunRunner).                                                          *)
THEOREM LiveClaimsWereLive ==
  ASSUME AbsentIsNoRecord
  PROVE  Spec => []LiveClaimRestsOnLiveRun
<1>1. ASSUME RunInv, EvidenceReviewed, accepted # Missing, Unrevised,
             accepted.claim.claim_type = "live_vulnerability",
             NEW i \in RunsBehind
      PROVE  ran[i].live /\ ran[i].receipt.status = "succeeded" /\ plan[i].live_backend_enabled
  <2>1. i \in Jobs /\ ran[i] # Missing /\ ran[i].receipt.status = "succeeded"
    BY <1>1, AcceptedRestsOnRun DEF RunsBehind
  <2>2. ran[i].live = TRUE /\ plan[i] # Missing /\ ~request[i].dry_run
    BY <1>1, <2>1 DEF RunInv, RunsAsAsked
  <2>3. plan[i].live_backend_enabled
    BY <1>1, <2>1, <2>2 DEF RunInv, PlansLetThemRun, Supervised
  <2> QED
    BY <2>1, <2>2, <2>3
<1>2. RunInv /\ EvidenceReviewed => LiveClaimRestsOnLiveRun
  BY <1>1, AcceptedIsOfARun DEF LiveClaimRestsOnLiveRun
<1> QED
  BY <1>2, EvidenceInvariant, PTL
-----------------------------------------------------------------------------
(* The state of a run and its event log (GovernedRun).                     *)

(* The transition table, read backwards.                                   *)
LEMMA ComesFrom ==
  ASSUME NEW from \in RunStates, NEW to \in AllowedTransitions(from)
  PROVE  /\ to # "new"
         /\ to \in RunStates
         /\ to = "admitted" => from \in {"new", "blocked"}
         /\ to = "policy_checked" => from = "admitted"
         /\ to = "trust_checked" => from = "policy_checked"
         /\ to = "gated" => from \in {"trust_checked", "paused"}
         /\ to = "running_dry_run" => from = "gated"
         /\ to = "receipt_recorded" => from = "running_dry_run"
         /\ to = "paused" => from \in {"gated", "running_dry_run"}
         /\ to = "completed" => from = "receipt_recorded"
BY DEF RunStates, AllowedTransitions

(* A transition that does not block needs at most what its origin needed,  *)
(* and itself.                                                             *)
LEMMA NeedsGrow ==
  ASSUME NEW from \in RunStates, NEW to \in AllowedTransitions(from),
         to # "blocked", NEW s \in NeededBy(to), s # to
  PROVE  s \in NeededBy(from)
BY ComesFrom DEF NeededBy, RunStates

(* A step of the specification appends one event that leaves the present   *)
(* state, or leaves the run alone.                                         *)
LEMMA StepIsTransition ==
  ASSUME TypeOK, NEW d \in ControlDecisions, ApplyControlDecision(d), run' # run
  PROVE  /\ d.from_state = run.state
         /\ d.to_state \in AllowedTransitions(run.state)
         /\ run'.state = d.to_state
         /\ run'.event_refs = Append(run.event_refs, [from |-> d.from_state, to |-> d.to_state])
         /\ run'.blockers = run.blockers \cup NewBlockers(d)
         /\ answer' = "applied"
BY DEF ApplyControlDecision, Applies, ValidControlDecision, ValidTransition, Event, TypeOK

(* Appending an event that is not a block keeps what was passed, and       *)
(* passes the state it enters.                                             *)
LEMMA PassedStaysPassed ==
  ASSUME NEW log \in Seq(Events), NEW e \in Events, e.to # "blocked",
         NEW s, s = e.to \/ PassedSinceBlock(log, s)
  PROVE  PassedSinceBlock(Append(log, e), s)
<1> DEFINE longer == Append(log, e)
           n == Len(log) + 1
<1>1. /\ DOMAIN longer = 1 .. n /\ DOMAIN log = 1 .. n - 1
      /\ n \in Nat /\ longer[n] = e
      /\ \A i \in 1 .. n - 1 : longer[i] = log[i]
  OBVIOUS
<1>2. CASE s = e.to
  <2>1. \A j \in DOMAIN longer : j >= n => longer[j].to # "blocked"
    BY <1>1
  <2> QED BY <1>1, <1>2, <2>1 DEF PassedSinceBlock
<1>3. CASE PassedSinceBlock(log, s)
  <2>1. PICK k \in DOMAIN log :
          log[k].to = s /\ \A j \in DOMAIN log : j >= k => log[j].to # "blocked"
    BY <1>3 DEF PassedSinceBlock
  <2>2. longer[k].to = s /\ k \in DOMAIN longer
    BY <1>1, <2>1
  <2>3. ASSUME NEW j \in DOMAIN longer, j >= k  PROVE longer[j].to # "blocked"
    <3>1. CASE j = n BY <1>1, <3>1
    <3>2. CASE j # n BY <1>1, <2>1, <2>3, <3>2
    <3> QED BY <3>1, <3>2
  <2> QED BY <2>2, <2>3 DEF PassedSinceBlock
<1> QED BY <1>2, <1>3

(* A new run satisfies the inductive invariant. *)
LEMMA InitControlInv == ControlInit => ControlInv
<1> SUFFICES ASSUME ControlInit PROVE ControlInv
  OBVIOUS
<1>1. TypeOK
  BY DEF ControlInit, TypeOK, RunStates, Events
<1>2. EventLogExplainsState /\ RunsOnlyWhenGated
  BY DEF ControlInit, EventLogExplainsState, RunsOnlyWhenGated
<1>3. NeededBy("new") = {}
  BY DEF NeededBy
<1>4. GatesPassed
  BY <1>3 DEF ControlInit, GatesPassed
<1> QED BY <1>1, <1>2, <1>4 DEF ControlInv

(* Each conjunct of ControlInv survives a transition of the run.           *)
LEMMA TransitionKeepsControlInv ==
  ASSUME ControlInv, NEW d \in ControlDecisions, ApplyControlDecision(d), run' # run
  PROVE  ControlInv'
<1> DEFINE log == run.event_refs
           from == d.from_state
           to == d.to_state
           e == [from |-> from, to |-> to]
           n == Len(log) + 1
<1>1. TypeOK /\ EventLogExplainsState /\ RunsOnlyWhenGated /\ GatesPassed
  BY DEF ControlInv
<1>2. /\ from = run.state /\ to \in AllowedTransitions(from)
      /\ run'.state = to
      /\ run'.event_refs = Append(log, e)
      /\ run'.blockers = run.blockers \cup NewBlockers(d)
      /\ answer' = "applied"
  BY <1>1, StepIsTransition
<1>3. from \in RunStates /\ to \in RunStates /\ log \in Seq(Events) /\ e \in Events
  BY <1>1, <1>2, ComesFrom DEF TypeOK, Events
<1> DEFINE longer == Append(log, e)
<1>4. /\ longer \in Seq(Events) /\ n \in Nat /\ n - 1 = Len(log)
      /\ DOMAIN longer = 1 .. n /\ Len(longer) = n /\ DOMAIN log = 1 .. n - 1
      /\ longer[n] = e /\ \A i \in 1 .. n - 1 : longer[i] = log[i]
  BY <1>3
<1>5. TypeOK'
  <2>1. NewBlockers(d) \subseteq Reasons
    BY DEF NewBlockers, ControlDecisions
  <2> QED BY <1>1, <1>2, <1>3, <1>4, <2>1 DEF TypeOK
<1>6. EventLogExplainsState'
  <2>1. longer # <<>> /\ longer[Len(longer)].to = to
    <3>1. longer[n].to = to BY <1>4
    <3>2. longer # <<>>
      <4>1. Len(log) \in Nat BY <1>3
      <4> HIDE DEF longer
      <4> QED BY <1>4, <4>1
    <3> QED BY <1>4, <3>1, <3>2
  <2>2. longer[1].from = "new"
    <3>1. CASE log = <<>> BY <1>1, <1>2, <1>4, <3>1 DEF EventLogExplainsState
    <3>2. CASE log # <<>>
      <4>1. 1 \in 1 .. n - 1 BY <1>3, <1>4, <3>2
      <4> QED BY <1>1, <1>4, <3>2, <4>1 DEF EventLogExplainsState
    <3> QED BY <3>1, <3>2
  <2>3. ASSUME NEW i \in 1 .. n - 1  PROVE longer[i + 1].from = longer[i].to
    <3>1. CASE i = n - 1
      <4>1. log # <<>> /\ i = Len(log) BY <1>4, <3>1, <2>3
      <4>2. log[i].to = run.state BY <1>1, <4>1 DEF EventLogExplainsState
      <4> QED BY <1>2, <1>4, <2>3, <3>1, <4>2
    <3>2. CASE i # n - 1
      <4>1. i \in 1 .. Len(log) - 1 /\ i + 1 \in 1 .. n - 1 BY <1>4, <2>3, <3>2
      <4>2. log[i + 1].from = log[i].to BY <1>1, <4>1 DEF EventLogExplainsState
      <4> QED BY <1>4, <2>3, <4>1, <4>2
    <3> QED BY <3>1, <3>2
  <2> QED BY <1>2, <1>4, <2>1, <2>2, <2>3 DEF EventLogExplainsState
<1>7. RunsOnlyWhenGated'
  <2>1. ASSUME NEW i \in 1 .. n, longer[i].to = "running_dry_run",
               NEW s \in {"admitted", "policy_checked", "trust_checked", "gated"}
        PROVE  longer[i].from = "gated" /\ \E k \in SinceBlocked(longer, i) : longer[k].to = s
    <3>1. CASE i = n
      <4>1. from = "gated" /\ longer[i].from = "gated"
        BY <1>2, <1>3, <1>4, <2>1, <3>1, ComesFrom
      <4>2. s \in NeededBy("gated") BY <2>1 DEF NeededBy
      <4>3. PassedSinceBlock(log, s) BY <1>1, <1>2, <4>1, <4>2 DEF GatesPassed
      <4>4. PICK k \in DOMAIN log :
              log[k].to = s /\ \A j \in DOMAIN log : j >= k => log[j].to # "blocked"
        BY <4>3 DEF PassedSinceBlock
      <4>5. k \in SinceBlocked(longer, n) /\ longer[k].to = s
        BY <1>4, <4>4 DEF SinceBlocked
      <4> QED BY <3>1, <4>1, <4>5
    <3>2. CASE i # n
      <4>1. i \in DOMAIN log /\ log[i] = longer[i] BY <1>4, <2>1, <3>2
      <4>2. log[i].from = "gated" /\ \E k \in SinceBlocked(log, i) : log[k].to = s
        BY <1>1, <2>1, <4>1 DEF RunsOnlyWhenGated
      <4>3. PICK k \in SinceBlocked(log, i) : log[k].to = s BY <4>2
      <4>4. k \in SinceBlocked(longer, i) /\ longer[k].to = s BY <1>4, <4>1, <4>3 DEF SinceBlocked
      <4> QED BY <4>1, <4>2, <4>4
    <3> QED BY <3>1, <3>2
  <2>2. run'.event_refs = longer /\ DOMAIN longer = 1 .. n
    BY <1>2, <1>4
  <2> HIDE DEF longer, n
  <2>3. \A i \in DOMAIN longer : longer[i].to = "running_dry_run" => longer[i].from = "gated"
    BY <2>1, <2>2
  <2>4. \A i \in DOMAIN longer : longer[i].to = "running_dry_run" =>
          \A s \in {"admitted", "policy_checked", "trust_checked", "gated"} :
            \E k \in SinceBlocked(longer, i) : longer[k].to = s
    BY <2>1, <2>2
  <2> QED BY <2>2, <2>3, <2>4 DEF RunsOnlyWhenGated, SinceBlocked
<1>8. GatesPassed'
  <2>1. CASE to = "blocked"
    <3>1. NeededBy(to) = {} BY <2>1 DEF NeededBy
    <3> QED BY <1>2, <3>1 DEF GatesPassed
  <2>2. CASE to # "blocked"
    <3>1. ASSUME NEW s \in NeededBy(to)  PROVE PassedSinceBlock(longer, s)
      <4>1. CASE s = to BY <1>3, <2>2, <4>1, PassedStaysPassed
      <4>2. CASE s # to
        <5>1. s \in NeededBy(from) BY <1>2, <1>3, <2>2, <3>1, <4>2, NeedsGrow
        <5>2. PassedSinceBlock(log, s) BY <1>1, <1>2, <5>1 DEF GatesPassed
        <5> QED BY <1>3, <2>2, <5>2, PassedStaysPassed
      <4> QED BY <4>1, <4>2
    <3> QED BY <1>2, <3>1 DEF GatesPassed
  <2> QED BY <2>1, <2>2
<1> QED BY <1>5, <1>6, <1>7, <1>8 DEF ControlInv

(* Every decision keeps it. *)
LEMMA StepKeepsControlInv == ControlInv /\ [ControlNext]_controlVars => ControlInv'
<1> SUFFICES ASSUME ControlInv, [ControlNext]_controlVars PROVE ControlInv'
  OBVIOUS
<1>1. CASE UNCHANGED controlVars
  <2>1. run' = run /\ answer' = answer
    BY <1>1 DEF controlVars
  <2> QED BY <2>1 DEF ControlInv, TypeOK, EventLogExplainsState, RunsOnlyWhenGated, GatesPassed
<1>2. ASSUME NEW d \in ControlDecisions, ApplyControlDecision(d)  PROVE ControlInv'
  <2>1. CASE run' # run BY <1>2, <2>1, TransitionKeepsControlInv
  <2>2. CASE run' = run
    <3>1. answer' \in {"applied", "unchanged", "raised"}
      BY <1>2 DEF ApplyControlDecision
    <3> QED BY <2>2, <3>1
      DEF ControlInv, TypeOK, EventLogExplainsState, RunsOnlyWhenGated, GatesPassed
  <2> QED BY <2>1, <2>2
<1> QED BY <1>1, <1>2 DEF ControlNext

(* What a run needed to pass to be where it is, it passed. *)
THEOREM ControlInvariant == ControlSpec => []ControlInv
BY InitControlInv, StepKeepsControlInv, PTL DEF ControlSpec

(* The state of a run follows from its event log, whatever decisions       *)
(* arrive, late, twice or misdirected.                                     *)
THEOREM EventLogAlwaysExplainsState == ControlSpec => []EventLogExplainsState
<1>1. ControlInv => EventLogExplainsState
  BY DEF ControlInv
<1> QED BY <1>1, ControlInvariant, PTL

(* No run reaches a dry run without passing every gate since it was last   *)
(* blocked, however long it has been blocked, paused and resumed before.   *)
THEOREM DryRunsAreGated == ControlSpec => []RunsOnlyWhenGated
<1>1. ControlInv => RunsOnlyWhenGated
  BY DEF ControlInv
<1> QED BY <1>1, ControlInvariant, PTL
=============================================================================
