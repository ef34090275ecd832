--------------------------- MODULE MCRunEvidence ---------------------------
(* An instance of RunEvidence for TLC: one plan as a dry run, *)
(* as a live run and, not approved, as a draft; nobody chose an id.        *)
EXTENDS RunEvidence

ApprovedSpec(decision) ==
  [spec_version |-> "2026-03-18.approved.v1", decision |-> decision,
   artifact_type |-> "approved_execution_spec",
   execution_plan |-> <<[tool |-> "probe", args |-> "texts"]>>]

Job(decision, dry_run) ==
  [spec |-> ApprovedSpec(decision), request_id |-> Missing, gate |-> "not_required",
   dry_run |-> dry_run, receipt_id |-> "receipt"]

MCWork ==
  [dry |-> Job("approve", TRUE), live |-> Job("approve", FALSE), draft |-> Job("reject", FALSE)]

Subject == "one"

Says(claim_type, kinds) ==
  [subject_ref |-> Subject, claim_type |-> claim_type, evidence_kinds |-> kinds]

MCClaims ==
  { Says("execution_truth", {}), Says("live_vulnerability", {"review_bundle"}) }

Asks(kind, min) ==
  [subject_ref |-> Subject, evidence_kind |-> kind, min_receipt_status |-> min]

\* "done" is no status.
MCRequirements ==
  { Asks("execution_receipt", "failed"), Asks("execution_receipt", "succeeded"),
    Asks("review_bundle", "done") }

\* Evidence is reviewed when the receipts do not change any more and what is
\* not under review is its job's own; a claim and a requirement are qualified once,
\* revised after that, and left alone when they were accepted; a dry run asks
\* for no plan; a binding that is given the digest the receipt had before names
\* the job's own records.
StaleDigest(j) ==
  Bound(j) /\ receipt[j].binding.receipt_digest = ReceiptDigest(ran[j].receipt)

Bounded ==
  /\ plan'["dry"] = Missing
  /\ verified # Missing => UNCHANGED execution
  /\ verified' # verified =>
       \A j \in Jobs :
         receipt[j] = Missing \/ receipt[j] \in {BoundFor(j, j), verified'.receipt}
  /\ qualified # Missing => UNCHANGED qualified
  /\ qualified = Missing => claim \in {Missing, claim'} /\ requirement \in {Missing, requirement'}
  /\ accepted # Missing => UNCHANGED vars
  /\ \A j \in Jobs : receipt'[j] # receipt[j] /\ StaleDigest(j)' =>
       receipt'[j].binding.admission_id = j /\ receipt'[j].binding.ticket_id = j /\
       receipt'[j].binding.request_digest = RequestDigest(request[j])
=============================================================================
