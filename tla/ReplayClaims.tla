---------------------------- MODULE ReplayClaims ----------------------------
(***************************************************************************)
(* What a ReplayClaimStore (govengine/replay.py) promises, abstractly: a   *)
(* payload is claimed once, the claim is answered fresh at most once, and  *)
(* everyone else hears of it.  An answer may be late or may never come.    *)
(* GuardReplay implements this over a file.                                *)
(***************************************************************************)
EXTENDS Naturals, Sequences, ReplayRecords

CONSTANTS
  Records,     \* GuardReplayRecord values
  MaxReturned  \* bound: answers returned

VARIABLES
  claimed,   \* the records that were claimed, in order
  returned   \* the answers, in order (history)

vars == <<claimed, returned>>

Init == claimed = <<>> /\ returned = <<>>

IsClaimed(r) == \E k \in DOMAIN claimed : claimed[k] = r
IsKnown(r) == \E k \in DOMAIN claimed : Replays(r, claimed[k])
AnsweredFresh(r) == \E i \in DOMAIN returned : returned[i].record = r /\ returned[i].status = "fresh"

(* A plausible regression: a claim that looks fresh is recorded unseen. *)
Claim_Unseen(r) ==
  /\ ~IsClaimed(r)
  /\ claimed' = Append(claimed, r)
  /\ UNCHANGED returned

(* claim_once takes effect. *)
Claim(r) ==
  /\ ~IsKnown(r)
  /\ claimed' = Append(claimed, r)
  /\ UNCHANGED returned

(* claim_once answers. *)
Answer(r, require_fresh) ==
  /\ Len(returned) < MaxReturned
  /\ \E status \in {"fresh", "seen", "replayed", "blocked"} :
       /\ status = "fresh" => IsClaimed(r) /\ ~AnsweredFresh(r)
       /\ status = "seen" => ~require_fresh /\ IsKnown(r)
       /\ status = "replayed" => require_fresh /\ IsKnown(r)
       /\ returned' = Append(returned,
            [record |-> r, status |-> status, require_fresh |-> require_fresh])
  /\ UNCHANGED claimed

Next ==
  \/ \E r \in Records : Claim(r)
  \/ \E r \in Records, require_fresh \in BOOLEAN : Answer(r, require_fresh)

Spec == Init /\ [][Next]_vars
=============================================================================
