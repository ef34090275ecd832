--------------------------- MODULE ReplayRecords ---------------------------
(***************************************************************************)
(* GuardReplayRecord values and evaluate_guard_replay (govengine/          *)
(* replay.py): which records replay which.                                 *)
(***************************************************************************)
CONSTANT NoText  \* the empty text of an optional field

Scope(r) == IF r.ticket_id # NoText THEN r.ticket_id ELSE r.chain_id

(* semantic_replay: the same payload, possibly under a new guard. *)
SamePayload(r, p) ==
  /\ r.root_chain_digest # NoText
  /\ r.root_chain_digest = p.root_chain_digest
  /\ Scope(r) = Scope(p) /\ r.key_id = p.key_id

(* root_tag_replay: the same guard, for records without a payload digest. *)
SameGuard(r, p) ==
  r.root_tag = p.root_tag /\ r.chain_id = p.chain_id /\ r.key_id = p.key_id

Replays(r, p) == SamePayload(r, p) \/ SameGuard(r, p)

(* A plausible regression: only the root tag of the guard is compared. *)
EvaluateGuardReplay_RootTagOnly(r, records, require_fresh) ==
  IF \A i \in DOMAIN records : ~SameGuard(r, records[i]) THEN "fresh"
  ELSE IF require_fresh THEN "replayed" ELSE "seen"

(* A plausible regression: the ticket of a payload is not compared. *)
EvaluateGuardReplay_AnyTicket(r, records, require_fresh) ==
  IF \A i \in DOMAIN records : records[i].root_chain_digest # r.root_chain_digest THEN "fresh"
  ELSE IF require_fresh THEN "replayed" ELSE "seen"

(* evaluate_guard_replay: the replay status. *)
EvaluateGuardReplay(r, records, require_fresh) ==
  IF \A i \in DOMAIN records : ~Replays(r, records[i]) THEN "fresh"
  ELSE IF require_fresh THEN "replayed" ELSE "seen"

(* GuardReplayDecision.allowed, and GuardedBundleRuntimeDecision.allowed   *)
(* of verify_guard_and_record_replay once the bundle is verified.          *)
Allowed(status) == status \in {"fresh", "seen"}
RuntimeAllowed(status) == Allowed(status) /\ status = "fresh"
=============================================================================
