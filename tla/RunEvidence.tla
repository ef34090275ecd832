---------------------------- MODULE RunEvidence ----------------------------
(***************************************************************************)
(* From approved specs to accepted evidence: a host prepares runner        *)
(* requests for several jobs (by default all with one request id), has     *)
(* them supervised and run, binds the receipts, verifies one with its own  *)
(* anchors, and has claims about it qualified and reviewed.  Records lie   *)
(* in the host's hands between the calls and get mixed up: a receipt is    *)
(* bound with references of other jobs, one or all of them, or changed     *)
(* after it was bound; a claim and a requirement are revised after they    *)
(* were qualified.                                                         *)
(***************************************************************************)
EXTENDS RunnerProtocol

CONSTANTS
  Jobs,
  Work,          \* of each job: its spec, mode and ids
  Claims,        \* the versions of the claim, but for the digests it carries
  Requirements   \* the versions of the requirement

INSTANCE EvidenceReview

(* The two tokens are neither jobs nor words.                              *)
ASSUME TokenAssumption ==
  /\ Missing # Raised
  /\ Missing \notin Jobs /\ Raised \notin Jobs /\ Raised # "verified"
  /\ Missing \notin Statuses /\ Missing # "approved-spec-request"

(* The plan of a spec is a tuple of steps.                                 *)
ASSUME WorkAssumption ==
  \A j \in Jobs :
    LET steps == Work[j].spec.execution_plan
    IN  Len(steps) \in Nat /\ DOMAIN steps = 1..Len(steps)

VARIABLES
  request,        \* the request of each job, once prepared
  plan,           \* the plan it was supervised under
  ran,            \* what its runner did, [receipt, live] (history)
  receipt,        \* its receipt, as the host holds it
  garbled,        \* the jobs whose receipt changed since it was bound (history)
  verified,       \* [job, receipt]: what the host found verified
  claim,          \* the claim as it is now
  requirement,    \* the requirement as it is now
  qualified,      \* [claim, requirement, qualification] when it was made
  accepted        \* what the review chain accepted (history)

execution == <<request, plan, ran, receipt, garbled>>
evidence == <<verified, claim, requirement, qualified, accepted>>
vars == <<execution, evidence>>

Init ==
  /\ request = [j \in Jobs |-> Missing]
  /\ plan = [j \in Jobs |-> Missing]
  /\ ran = [j \in Jobs |-> Missing]
  /\ receipt = [j \in Jobs |-> Missing]
  /\ garbled = {}
  /\ verified = Missing
  /\ claim = Missing
  /\ requirement = Missing
  /\ qualified = Missing
  /\ accepted = Missing

(* A call that raises leaves nothing behind. *)
IsMade(v) == v \notin {Missing, Raised}
-----------------------------------------------------------------------------
(* runner_request_from_approved_spec *)
Prepare(j) ==
  LET w == Work[j]
      q == RunnerRequest(w.spec, w.request_id, w.gate, w.dry_run)
  IN  /\ request[j] = Missing /\ q # Raised
      /\ request' = [request EXCEPT ![j] = q]
      /\ UNCHANGED <<plan, ran, receipt, garbled, evidence>>

(* supervision_plan_from_runner_request for one job, and                   *)
(* validate_supervised_runner_request for another.                         *)
Supervise(j, k) ==
  \E live_backend_enabled \in BOOLEAN, timeout_seconds \in {0, 30} :
    /\ IsMade(request[j]) /\ IsMade(request[k]) /\ plan[j] = Missing
    /\ LET p == SupervisionPlan(request[k], live_backend_enabled, timeout_seconds)
       IN  /\ p # Raised
           /\ Supervised(request[j], p) = TRUE
           /\ plan' = [plan EXCEPT ![j] = p]
    /\ UNCHANGED <<request, ran, receipt, garbled, evidence>>

Ran(j, r, live) ==
  /\ IsMade(request[j]) /\ ran[j] = Missing
  /\ ran' = [ran EXCEPT ![j] = [receipt |-> r, live |-> live]]
  /\ receipt' = [receipt EXCEPT ![j] = r]
  /\ UNCHANGED <<request, plan, garbled, evidence>>

(* DryRunRunner.run asks for no supervision. *)
RunDry(j) == IsMade(request[j]) /\ Ran(j, DryRun(request[j]), FALSE)

(* The runner of a host: it runs what was supervised, step by step, and    *)
(* may stop.                                                               *)
RunLive(j) ==
  /\ plan[j] # Missing /\ ~request[j].dry_run
  /\ \E n \in 0..Len(request[j].steps), status \in {"succeeded", "failed", "interrupted"} :
       /\ status = "succeeded" <=> n = Len(request[j].steps)
       /\ Ran(j, Receipt(request[j], status, 1..n), TRUE)
-----------------------------------------------------------------------------
(* The references of a binding: whose admission, ticket and request.  The  *)
(* id and the digest of an admission, of a ticket are its job.             *)
References(a, t, q) ==
  [admission_id |-> a, admission_digest |-> a, ticket_id |-> t, ticket_digest |-> t,
   request_digest |-> RequestDigest(request[q])]

Prepared == {j \in Jobs : IsMade(request[j])}
Bound(j) == receipt[j] # Missing /\ Present(receipt[j].binding)

(* runner_receipt_with_binding, as often as the host likes, of what the    *)
(* runner returned; it may give a digest it took of that.                  *)
Bind(j) ==
  /\ ran[j] # Missing
  /\ \E a, t, q \in Prepared, digest \in {Missing, ReceiptDigest(ran[j].receipt)} :
       receipt' = [receipt EXCEPT ![j] =
         WithBinding(ran[j].receipt, References(a, t, q), Work[j].receipt_id, digest)]
  /\ garbled' = garbled \ {j}
  /\ UNCHANGED <<request, plan, ran, evidence>>

(* A bound receipt changes on the way: it comes with the binding or the    *)
(* results of another, or with another status.  Bound: one receipt at once.*)
Garble(j, k) ==
  /\ Bound(j) /\ Bound(k) /\ garbled = {}
  /\ \E r \in {[receipt[j] EXCEPT !.binding = receipt[k].binding],
               [receipt[j] EXCEPT !.step_results = receipt[k].step_results],
               [receipt[j] EXCEPT !.status = receipt[k].status],
               [receipt[j] EXCEPT !.status = "succeeded", !.binding.status = "succeeded"]} :
       r # receipt[j] /\ receipt' = [receipt EXCEPT ![j] = r]
  /\ garbled' = garbled \cup {j}
  /\ UNCHANGED <<request, plan, ran, evidence>>
-----------------------------------------------------------------------------
(* What a verifier of job j brings: the values of its own job, or a record *)
(* and a value beside it that come from two jobs.                          *)
Anchors(admissions, tickets) ==
  [admission_id |-> admissions, admission_digest |-> admissions,
   ticket_id |-> tickets, ticket_digest |-> tickets]

Assured(j, k, admissions, tickets) ==
  Assurance(request[j], receipt[k], Anchors(admissions, tickets))

(* The verifier is run for job j on the receipt that job k holds.          *)
Verify(j, k) ==
  /\ IsMade(request[j]) /\ receipt[k] # Missing /\ verified = Missing
  /\ Assured(j, k, {j}, {j}) = "verified"
  /\ verified' = [job |-> j, receipt |-> receipt[k]]
  /\ UNCHANGED <<execution, claim, requirement, qualified, accepted>>

AtHand == {verified.receipt} \cup {receipt[j] : j \in {i \in Jobs : Bound(i)}}

(* A claim is made or revised, about the receipt under review or about one *)
(* that a job holds.                                                       *)
MakeClaim(c) ==
  /\ verified # Missing
  /\ \E r \in AtHand :
       claim' = [claim_id |-> "claim", subject_ref |-> c.subject_ref,
                 claim_type |-> c.claim_type, evidence_kinds |-> c.evidence_kinds,
                 receipt_refs |-> {r.binding.receipt_id},
                 receipt_digest |-> r.binding.receipt_digest,
                 admission_id |-> r.binding.admission_id,
                 admission_digest |-> r.binding.admission_digest]
  /\ UNCHANGED <<execution, verified, requirement, qualified, accepted>>

SetRequirement(r) ==
  /\ verified # Missing
  /\ requirement' = Requirement("requirement", r.subject_ref, r.evidence_kind, r.min_receipt_status)
  /\ UNCHANGED <<execution, verified, claim, qualified, accepted>>

(* qualify_evidence_claim, with the status of any receipt at hand. *)
QualifyClaim ==
  /\ claim # Missing /\ requirement # Missing
  /\ \E r \in AtHand :
       LET q == Qualify(claim, requirement, r.status)
       IN  /\ q # Raised
           /\ qualified' = [claim |-> claim, requirement |-> requirement, qualification |-> q]
  /\ UNCHANGED <<execution, verified, claim, requirement, accepted>>

Facts ==
  LET b == verified.receipt.binding
  IN  [receipt_id |-> b.receipt_id, receipt_digest |-> b.receipt_digest,
       receipt_status |-> verified.receipt.status,
       admission_id |-> b.admission_id, admission_digest |-> b.admission_digest]

(* validate_evidence_review_chain of the verified receipt, with the        *)
(* qualification made before or without.                                   *)
AcceptEvidence ==
  /\ claim # Missing /\ requirement # Missing /\ accepted = Missing
  /\ \E given \in {Missing, qualified},
        cites \in {Missing} \cup [subject_ref : {requirement.subject_ref},
                                 qualification_refs : {{}, {<<"claim", "qualification">>}}] :
       LET q == ReviewChain(claim, requirement, Facts,
                  IF given = Missing THEN Missing ELSE given.qualification, cites)
       IN  /\ q # Raised
           /\ accepted' = [claim |-> claim, requirement |-> requirement, given |-> given]
  /\ UNCHANGED <<execution, verified, claim, requirement, qualified>>
-----------------------------------------------------------------------------
Next ==
  \/ \E j \in Jobs : Prepare(j) \/ RunDry(j) \/ RunLive(j) \/ Bind(j)
  \/ \E j, k \in Jobs : Supervise(j, k) \/ Garble(j, k) \/ Verify(j, k)
  \/ \E c \in Claims : MakeClaim(c)
  \/ \E r \in Requirements : SetRequirement(r)
  \/ QualifyClaim
  \/ AcceptEvidence

Spec == Init /\ [][Next]_vars
-----------------------------------------------------------------------------
(* What the runner of job i returned, bound to the references of a, t and  *)
(* q, and untouched since.                                                 *)
Proper(i, a, t, q) ==
  WithBinding(ran[i].receipt, References(a, t, q), Work[i].receipt_id, Missing)

(* All of them those of job j. *)
BoundFor(i, j) == Proper(i, j, j, j)

(* What the runner of job i did is what the request of job j asked for, as *)
(* far as its id and its steps tell.                                       *)
Answers(i, j) ==
  /\ ran[i] # Missing
  /\ ran[i].receipt.request_id = request[j].request_id
  /\ ran[i].receipt.step_results \subseteq DOMAIN request[j].steps

(* A receipt is found verified for a job by its own anchors exactly when   *)
(* it is what a runner returned for a request of that id, bound to the     *)
(* admission, the ticket and the request of that job, all of them, and     *)
(* untouched since, although the jobs share their request id, bindings     *)
(* name the admission, the ticket or the request of other jobs, and        *)
(* receipts change on the way; and a record with a value of another job    *)
(* beside it never verifies (validate_runner_receipt_binding,              *)
(* runner_receipt_binding_verification_summary).  The run is the job's own *)
(* unless the host bound the run of another job wholly for this one:       *)
(* runner_receipt_with_binding takes the references it is given.           *)
VerifiedExactlyWhenBoundForIt ==
  \A j, k \in Jobs : IsMade(request[j]) /\ receipt[k] # Missing =>
    \A a, t \in Jobs :
      Assured(j, k, {j, a}, {j, t}) = "verified" <=>
        /\ a = j /\ t = j
        /\ \E i \in Jobs : Answers(i, j) /\ receipt[k] = BoundFor(i, j)

(* The runs that the receipt under review can be of: those it was bound    *)
(* from for the reviewed job.                                              *)
RunsBehind ==
  {i \in Jobs : ran[i] # Missing /\ verified.receipt = BoundFor(i, verified.job)}

(* What was accepted was qualified as it now stands. *)
Unrevised ==
  accepted.given # Missing =>
    accepted.given.claim = accepted.claim /\ accepted.given.requirement = accepted.requirement

AtLeast(min) ==
  CASE min = "succeeded" -> {"succeeded"}
    [] min = "dry-run" -> {"dry-run", "succeeded"}
    [] min \in {"failed", "interrupted"} -> Statuses \ {"blocked"}
    [] min = "blocked" -> Statuses

(* Accepted evidence goes no further than what a runner reported, also     *)
(* when it was qualified with the receipt of another job: unless the claim *)
(* or the requirement was revised after it was qualified, the reviewed     *)
(* receipt is of a run, and the runner's own status reaches what the       *)
(* requirement asks (validate_evidence_review_chain,                       *)
(* qualify_evidence_claim).                                                *)
AcceptedWithinReceiptBounds ==
  accepted # Missing /\ Unrevised =>
    LET c == accepted.claim
        r == accepted.requirement
    IN  /\ RunsBehind # {}
        /\ \A i \in RunsBehind :
             /\ ran[i].receipt.status \in AtLeast(r.min_receipt_status)
             /\ c.claim_type = "live_vulnerability" => ran[i].receipt.status = "succeeded"
        /\ c.receipt_digest = ReceiptDigest(verified.receipt)

(* A live claim that is accepted rests on a live run that succeeded, under *)
(* a plan that let it be live, whatever plans and dry runs share the       *)
(* request id (validate_supervised_runner_request, DryRunRunner).          *)
LiveClaimRestsOnLiveRun ==
  accepted # Missing /\ Unrevised /\ accepted.claim.claim_type = "live_vulnerability" =>
    /\ RunsBehind # {}
    /\ \A i \in RunsBehind :
         /\ ran[i].live /\ ran[i].receipt.status = "succeeded"
         /\ plan[i].live_backend_enabled
-----------------------------------------------------------------------------
(* What the properties rest on.                                            *)

HeldByJobs ==
  DOMAIN request = Jobs /\ DOMAIN plan = Jobs /\ DOMAIN ran = Jobs /\ DOMAIN receipt = Jobs

RequestsOfWork ==
  \A j \in Jobs : IsMade(request[j]) =>
    request[j].request_id # Missing /\ request[j].steps = Work[j].spec.execution_plan

(* A plan let its job run the way the job was asked for. *)
PlansLetThemRun ==
  \A j \in Jobs : plan[j] # Missing => IsMade(request[j]) /\ Supervised(request[j], plan[j])

(* What a runner returned answers the request of its job. *)
RunsAnswerTheirRequest ==
  \A j \in Jobs : ran[j] # Missing =>
    LET r == ran[j].receipt
    IN  /\ IsMade(request[j])
        /\ r = Receipt(request[j], r.status, r.step_results)
        /\ r.status \in Statuses
        /\ r.step_results \subseteq DOMAIN request[j].steps

(* A live run had its plan; a dry run does not say that it succeeded. *)
RunsAsAsked ==
  \A j \in Jobs : ran[j] # Missing =>
    /\ ran[j].live \in BOOLEAN
    /\ ran[j].live = TRUE => plan[j] # Missing /\ ~request[j].dry_run
    /\ ran[j].live = FALSE => ran[j].receipt.status \in {"dry-run", "blocked"}

(* Where the digest in a binding comes from. *)
DigestOfARun(d) ==
  \E i \in Jobs :
    /\ ran[i] # Missing
    /\ \/ d = ReceiptDigest(ran[i].receipt)
       \/ \E a, t, q \in Prepared : d = ReceiptDigest(Proper(i, a, t, q))

IsReceipt(r) ==
  r = [status |-> r.status, request_id |-> r.request_id,
       step_results |-> r.step_results, binding |-> r.binding]

IsBinding(b) ==
  b = [admission_id |-> b.admission_id, admission_digest |-> b.admission_digest,
       ticket_id |-> b.ticket_id, ticket_digest |-> b.ticket_digest,
       request_id |-> b.request_id, request_digest |-> b.request_digest,
       receipt_id |-> b.receipt_id, receipt_digest |-> b.receipt_digest, status |-> b.status]

BindingOfARun(b) ==
  /\ IsBinding(b)
  /\ Present(b) =>
       /\ \A f \in Anchored : b[f] \in Jobs
       /\ DigestOfARun(b.receipt_digest)

(* However often receipts are bound, mixed up and changed: what a binding  *)
(* carries was computed of what a runner returned.                         *)
ReceiptsComeFromRuns ==
  \A j \in Jobs : receipt[j] # Missing => IsReceipt(receipt[j]) /\ BindingOfARun(receipt[j].binding)

VerifiedIsOfARun ==
  verified # Missing =>
    /\ verified.job \in Jobs /\ IsMade(request[verified.job])
    /\ RunsBehind # {}

MadeOf(q, c, r) == \E status \in Statuses : q = Qualify(c, r, status)

ClaimedOnceVerified == claim # Missing => verified # Missing

RequirementTyped == requirement # Missing => requirement.min_receipt_status \in Statuses

QualifiedAsMade ==
  qualified # Missing => MadeOf(qualified.qualification, qualified.claim, qualified.requirement)

(* What was accepted names the verified receipt, and whatever qualified it *)
(* was made for a receipt of the same status.                              *)
AcceptedOnReview ==
  accepted # Missing =>
    /\ verified # Missing
    /\ accepted.requirement.min_receipt_status \in Statuses
    /\ RefersTo(accepted.claim, accepted.requirement, Facts)
    /\ Unrevised =>
         \E status \in Statuses :
           QualificationMatches(Qualify(accepted.claim, accepted.requirement, status),
                                accepted.claim, accepted.requirement, Facts)

RunInv ==
  /\ HeldByJobs /\ RequestsOfWork /\ PlansLetThemRun /\ RunsAnswerTheirRequest /\ RunsAsAsked
  /\ ReceiptsComeFromRuns /\ VerifiedIsOfARun
EvidenceReviewed ==
  /\ ClaimedOnceVerified /\ RequirementTyped /\ QualifiedAsMade /\ AcceptedOnReview
=============================================================================
