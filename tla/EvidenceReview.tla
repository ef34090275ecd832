--------------------------- MODULE EvidenceReview ---------------------------
(***************************************************************************)
(* Evidence claims about a receipt, their qualification against a          *)
(* requirement, and the review chain (govengine/review.py).  Pure.         *)
(* Metadata is the fields that the code reads.                             *)
(***************************************************************************)
EXTENDS Naturals

CONSTANTS
  Missing,  \* an empty text, an absent field
  Raised    \* the call raised

(* The codes of _receipt_rank, for the statuses of RECEIPT_STATUSES. *)
Rank ==
  [status \in {"blocked", "failed", "interrupted", "dry-run", "succeeded"} |->
     CASE status = "blocked" -> 0
       [] status \in {"failed", "interrupted"} -> 1
       [] status = "dry-run" -> 2
       [] status = "succeeded" -> 3]

(* _enum: a status that is none counts as a dry run. *)
ReceiptStatus(s) == IF s \in DOMAIN Rank THEN s ELSE "dry-run"

(* GovEvidenceRequirement.from_mapping *)
Requirement(id, subject_ref, kind, min_receipt_status) ==
  [requirement_id |-> id, subject_ref |-> subject_ref, evidence_kind |-> kind,
   min_receipt_status |-> ReceiptStatus(min_receipt_status)]

(* validate_evidence_claim *)
ValidClaim(c) == c.receipt_refs # {}

SupportsKind(c, kind) ==
  IF kind = "execution_receipt" THEN c.receipt_refs # {}
  ELSE kind \in {c.claim_type} \cup c.evidence_kinds

Qualification(c, r, status, result) ==
  [qualification_id |-> <<c.claim_id, "qualification">>, claim_id |-> c.claim_id,
   requirement_id |-> r.requirement_id, result |-> result, receipt_status |-> status]

(* qualify_evidence_claim *)
Qualify(c, r, receipt_status) ==
  LET status == ReceiptStatus(receipt_status)
      result ==
        IF ~SupportsKind(c, r.evidence_kind) \/ Rank[status] < Rank[r.min_receipt_status]
          THEN "unsupported"
        ELSE IF c.claim_type = "live_vulnerability" /\ status # "succeeded" THEN "rejected"
        ELSE "supported"
  IN  IF ~ValidClaim(c) THEN Raised ELSE Qualification(c, r, status, result)

(* One of the given references in the claim is enough. *)
MatchesAdmission(c, admission_id, admission_digest) ==
  LET expected == {admission_id, admission_digest} \ {Missing}
  IN  expected = {} \/ expected \cap {c.subject_ref, c.admission_id, c.admission_digest} # {}

(* facts: what the caller says of the receipt and its admission.           *)
RefersTo(c, r, facts) ==
  /\ ValidClaim(c)
  /\ facts.receipt_id # Missing
  /\ facts.receipt_id \in c.receipt_refs
  /\ c.subject_ref = r.subject_ref
  /\ MatchesAdmission(c, facts.admission_id, facts.admission_digest)
  /\ facts.receipt_digest \in {Missing, c.receipt_digest}

(* A plausible regression: a qualification is for a claim and a            *)
(* requirement, whatever receipt it was made for.                          *)
QualificationMatches_AnyReceipt(q, c, r, facts) ==
  /\ q.claim_id = c.claim_id
  /\ q.requirement_id = r.requirement_id
  /\ q.result = "supported"

QualificationMatches(q, c, r, facts) ==
  /\ q.claim_id = c.claim_id
  /\ q.requirement_id = r.requirement_id
  /\ q.receipt_status = ReceiptStatus(facts.receipt_status)
  /\ q.result = "supported"

(* What a review says of the qualification, if there is one: its verdict   *)
(* is not looked at.                                                       *)
ReviewCites(review, q, r) ==
  review = Missing \/ (/\ review.subject_ref = r.subject_ref
                       /\ q.qualification_id \in review.qualification_refs)

(* validate_evidence_review_chain.  A qualification that is given is not   *)
(* made again.                                                             *)
ReviewChain(c, r, facts, given, review) ==
  LET q == IF given # Missing THEN given ELSE Qualify(c, r, facts.receipt_status)
  IN  IF RefersTo(c, r, facts) /\ QualificationMatches(q, c, r, facts) /\ ReviewCites(review, q, r)
      THEN q ELSE Raised
=============================================================================
