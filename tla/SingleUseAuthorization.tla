----------------------- MODULE SingleUseAuthorization -----------------------
(***************************************************************************)
(* What the governed pipeline promises about authorizations, with policy,  *)
(* approvals, signatures, leases and receipts left out: an authorization   *)
(* has a nonce and an expiry; it is consumed at most once, together with   *)
(* its nonce; and the one effect it covers happens while it is live.       *)
(***************************************************************************)
EXTENDS Naturals, Sequences

VARIABLES
  clock,
  issued,     \* authorizations [id, nonce, expires_at] that exist
  consumed,   \* the ones that were claimed
  performed   \* the effects, in the order they happened

avars == <<clock, issued, consumed, performed>>

AInit == clock = 0 /\ issued = {} /\ consumed = {} /\ performed = <<>>

Advance == clock' = clock + 1 /\ UNCHANGED <<issued, consumed, performed>>

Issue(a) == issued' = issued \cup {a} /\ UNCHANGED <<clock, consumed, performed>>

Consume(a) ==
  /\ \A b \in consumed : b # a /\ b.nonce # a.nonce
  /\ consumed' = consumed \cup {a}
  /\ UNCHANGED <<clock, issued, performed>>

Act(a) ==
  /\ a \in consumed
  /\ \A i \in DOMAIN performed : performed[i] # a
  /\ clock < a.expires_at
  /\ performed' = Append(performed, a)
  /\ UNCHANGED <<clock, issued, consumed>>

ANext ==
  \/ Advance
  \/ \E a \in issued' : Issue(a)
  \/ \E a \in issued : Consume(a) \/ Act(a)

ASpec == AInit /\ [][ANext]_avars
=============================================================================
