------------------------- MODULE MCGovernedExecution -------------------------
(* Instances of GovernedExecution for TLC. *)
EXTENDS GovernedExecution, MCGovernance, TLC

MCRequest ==
  [read |-> Read, write_approved |-> Approved(Write, "ap1", 2)]

MCBindingLate == [MCBinding EXCEPT !.b1.expires_at = 3]

MCDigestShaped == {Digest("lease", "l")}
MCRuntimeOf == [w \in Workers |-> "rt"]

(* One verifier knows the trusted signer, one knows everybody, and one     *)
(* knows everybody but trusts them only for the time being.                *)
MCVerifiers ==
  {[allowed_signer_ids |-> {"gov"}, trusted_status |-> "trusted"],
   [allowed_signer_ids |-> {}, trusted_status |-> "trusted"],
   [allowed_signer_ids |-> {}, trusted_status |-> "provisional"]}

Interchangeable == Permutations(Calls) \cup Permutations(Workers)
=============================================================================
