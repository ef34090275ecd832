---------------------------- MODULE GuardReplay ----------------------------
(***************************************************************************)
(* Replay freshness of guarded SCLite bundles (govengine/replay.py) over a *)
(* local JSON store (govengine/state_store.py): a bundle is judged against *)
(* the records read from the store and, when it is fresh, the store is     *)
(* replaced by one that holds its record as well.                          *)
(*                                                                         *)
(* Reading, writing and returning are separate steps.  A host may crash    *)
(* between any two of them, the write may fail, and the bytes of the store *)
(* may be damaged.  GovEngine leaves locking to the host: calls are        *)
(* serialised, as ReplayClaimStore asks of its adapters.                   *)
(***************************************************************************)
EXTENDS Naturals, Sequences, ReplayRecords

CONSTANTS
  Hosts,     \* processes that share the store
  Records,   \* GuardReplayRecord values
  MaxReturned \* bound: decisions returned

ASSUME BoundAssumption == MaxReturned \in Nat

VARIABLES
  store,     \* [damaged, records]: the file; a missing file is an empty one
  caller,    \* what each host is doing
  returned   \* the decisions handed to callers, in order (history)

vars == <<store, caller, returned>>

Idle == [stage |-> "idle"]

Init ==
  /\ store = [damaged |-> FALSE, records |-> <<>>]
  /\ caller = [h \in Hosts |-> Idle]
  /\ returned = <<>>

Serialised == \A h \in Hosts : caller[h] = Idle

Loaded(r, require_fresh, records) ==
  [stage |-> "loaded", record |-> r, require_fresh |-> require_fresh, records |-> records]

Judged(r, require_fresh, status) ==
  [stage |-> "judged", record |-> r, require_fresh |-> require_fresh, status |-> status]

(* safe_load_json_object with _normalize_file_store: a store that cannot   *)
(* be read blocks the call.                                                *)
Load(h, r, require_fresh) ==
  /\ Serialised
  /\ caller' = [caller EXCEPT ![h] =
       IF store.damaged THEN Judged(r, require_fresh, "blocked")
       ELSE Loaded(r, require_fresh, store.records)]
  /\ UNCHANGED <<store, returned>>

(* evaluate_guard_replay, and atomic_write_json when the record is fresh. *)
Judge(h) ==
  LET c == caller[h]
      status == EvaluateGuardReplay(c.record, c.records, c.require_fresh)
  IN  /\ c.stage = "loaded"
      /\ store' = IF status = "fresh"
                  THEN [damaged |-> FALSE, records |-> Append(c.records, c.record)]
                  ELSE store
      /\ caller' = [caller EXCEPT ![h] = Judged(c.record, c.require_fresh, status)]
      /\ UNCHANGED returned

(* The decision reaches the caller. *)
Return(h) ==
  LET c == caller[h]
  IN  /\ c.stage = "judged"
      /\ Len(returned) < MaxReturned
      /\ returned' = Append(returned, [record |-> c.record, status |-> c.status,
                                       require_fresh |-> c.require_fresh])
      /\ caller' = [caller EXCEPT ![h] = Idle]
      /\ UNCHANGED store

(* A host dies, or the write raises before os.replace: nothing is returned *)
(* and the store is as it was; a temporary file left behind is never read. *)
Crash(h) ==
  /\ caller[h] # Idle
  /\ caller' = [caller EXCEPT ![h] = Idle]
  /\ UNCHANGED <<store, returned>>

Damage ==
  /\ ~store.damaged
  /\ store' = [store EXCEPT !.damaged = TRUE]
  /\ UNCHANGED <<caller, returned>>

(* An operator restores the bytes of the store. *)
Repair ==
  /\ store.damaged
  /\ store' = [store EXCEPT !.damaged = FALSE]
  /\ UNCHANGED <<caller, returned>>

Next ==
  \/ \E h \in Hosts :
       \/ \E r \in Records, require_fresh \in BOOLEAN : Load(h, r, require_fresh)
       \/ Judge(h) \/ Return(h) \/ Crash(h)
  \/ Damage \/ Repair

Spec == Init /\ [][Next]_vars
-----------------------------------------------------------------------------
Statuses == {"fresh", "seen", "replayed", "blocked"}

Callers ==
  {Idle}
  \cup [stage : {"loaded"}, record : Records, require_fresh : BOOLEAN, records : Seq(Records)]
  \cup [stage : {"judged"}, record : Records, require_fresh : BOOLEAN, status : Statuses]

Answers == [record : Records, status : Statuses, require_fresh : BOOLEAN]

AnsweredAsAsked(status, require_fresh) ==
  (status = "seen" => ~require_fresh) /\ (status = "replayed" => require_fresh)

(* Every variable has its type, and a replay is reported as the caller     *)
(* asked for it.                                                           *)
TypeOK ==
  /\ store \in [damaged : BOOLEAN, records : Seq(Records)]
  /\ caller \in [Hosts -> Callers]
  /\ returned \in Seq(Answers) /\ Len(returned) <= MaxReturned
  /\ \A h \in Hosts : caller[h].stage = "judged" =>
       AnsweredAsAsked(caller[h].status, caller[h].require_fresh)
  /\ \A i \in DOMAIN returned :
       AnsweredAsAsked(returned[i].status, returned[i].require_fresh)

(* One payload is allowed to run once: no two bundles that carry the same  *)
(* payload, or the same guard, are both reported fresh, whatever crashes,  *)
(* failed writes and damage happen between them (evaluate_guard_replay,    *)
(* record_guard_replay_file).                                              *)
FreshAtMostOnce ==
  \A i, j \in DOMAIN returned :
    i # j /\ RuntimeAllowed(returned[i].status) /\ RuntimeAllowed(returned[j].status) =>
      ~Replays(returned[i].record, returned[j].record)

(* The store never forgets: no step removes or reorders a record, and a    *)
(* store that could not be read is not started afresh.                     *)
NothingForgotten ==
  [][/\ Len(store.records) <= Len(store'.records)
     /\ SubSeq(store'.records, 1, Len(store.records)) = store.records]_vars

(* A caller that hears of a replay can rely on it: some bundle was claimed *)
(* before, so a crash loses at most the answer and never blocks a payload  *)
(* that no call ever claimed.                                              *)
RefusedOnlyIfClaimed ==
  \A i \in DOMAIN returned :
    returned[i].status \in {"replayed", "seen"} =>
      \E k \in DOMAIN store.records : Replays(returned[i].record, store.records[k])

(* Over its file, the store keeps the promise of a claim store: a payload  *)
(* is claimed once and answered fresh at most once (ReplayClaimStore,      *)
(* record_guard_replay_file).                                              *)
ClaimStore == INSTANCE ReplayClaims WITH claimed <- store.records
ImplementsClaimStore == ClaimStore!Spec
-----------------------------------------------------------------------------
(* The inductive invariant behind FreshAtMostOnce and RefusedOnlyIfClaimed. *)

Claimed(r) == \E k \in DOMAIN store.records : store.records[k] = r
Known(r) == \E k \in DOMAIN store.records : Replays(r, store.records[k])

OneCallAtATime ==
  \A g, h \in Hosts : caller[g] # Idle /\ caller[h] # Idle => g = h

(* What a call read is still what the store holds. *)
LoadedIsCurrent ==
  \A h \in Hosts : caller[h].stage = "loaded" => caller[h].records = store.records

(* A judgement rests on the store, whether it was returned or not. *)
JudgementsAreBacked ==
  \A h \in Hosts : caller[h].stage = "judged" =>
    /\ caller[h].status = "fresh" =>
         /\ Claimed(caller[h].record)
         /\ \A i \in DOMAIN returned :
              returned[i].status = "fresh" => ~Replays(caller[h].record, returned[i].record)
    /\ caller[h].status \in {"replayed", "seen"} => Known(caller[h].record)

FreshIsClaimed ==
  \A i \in DOMAIN returned : returned[i].status = "fresh" => Claimed(returned[i].record)

ReplayInv ==
  /\ TypeOK
  /\ OneCallAtATime
  /\ LoadedIsCurrent
  /\ JudgementsAreBacked
  /\ FreshIsClaimed
  /\ FreshAtMostOnce
  /\ RefusedOnlyIfClaimed
=============================================================================
