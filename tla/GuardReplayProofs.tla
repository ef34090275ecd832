-------------------------- MODULE GuardReplayProofs --------------------------
(***************************************************************************)
(* What GuardReplay keeps for any number of hosts, any records and any     *)
(* number of answers: the type, one fresh answer for one payload, refusals *)
(* that rest on a claim, and a store that only grows.  Then what           *)
(* AuditLedger keeps for any number of writers and lines of any number:    *)
(* a ledger that verifies holds what was acknowledged.                     *)
(***************************************************************************)
EXTENDS GuardReplay, AuditLedger, FiniteSetTheorems, SequenceTheorems, TLAPS

(* Replaying is mutual: the comparison of records has no direction.        *)
LEMMA ReplaysSymmetric == \A r, p : Replays(r, p) <=> Replays(p, r)
BY DEF Replays, SamePayload, SameGuard

(* A caller that is idle is in no other stage, and the other way round.    *)
LEMMA StageOfCaller ==
  ASSUME NEW c \in Callers
  PROVE  /\ c.stage \in {"idle", "loaded", "judged"}
         /\ c.stage = "idle" <=> c = Idle
         /\ c.stage = "loaded" =>
              c.record \in Records /\ c.require_fresh \in BOOLEAN /\ c.records \in Seq(Records)
         /\ c.stage = "judged" =>
              c.record \in Records /\ c.require_fresh \in BOOLEAN /\ c.status \in Statuses
BY DEF Callers, Idle

(* A caller with a judgement is one.                                       *)
LEMMA JudgedIsACaller ==
  ASSUME NEW r \in Records, NEW f \in BOOLEAN, NEW s \in Statuses
  PROVE  /\ Judged(r, f, s) \in Callers /\ Judged(r, f, s).stage = "judged"
         /\ Judged(r, f, s).record = r /\ Judged(r, f, s).require_fresh = f
         /\ Judged(r, f, s).status = s
BY DEF Judged, Callers

(* A caller that loaded the store is one.                                  *)
LEMMA LoadedIsACaller ==
  ASSUME NEW r \in Records, NEW f \in BOOLEAN, NEW q \in Seq(Records)
  PROVE  /\ Loaded(r, f, q) \in Callers /\ Loaded(r, f, q).stage = "loaded"
         /\ Loaded(r, f, q).record = r /\ Loaded(r, f, q).require_fresh = f
         /\ Loaded(r, f, q).records = q
BY DEF Loaded, Callers

(* A caller that does nothing is one.                                      *)
LEMMA IdleIsACaller == Idle \in Callers /\ Idle.stage = "idle"
BY DEF Idle, Callers

(* evaluate_guard_replay answers in three ways.                            *)
LEMMA Verdicts ==
  ASSUME NEW r, NEW q, NEW f \in BOOLEAN
  PROVE  /\ EvaluateGuardReplay(r, q, f) \in {"fresh", "replayed", "seen"}
         /\ EvaluateGuardReplay(r, q, f) = "fresh" <=> \A i \in DOMAIN q : ~Replays(r, q[i])
         /\ AnsweredAsAsked(EvaluateGuardReplay(r, q, f), f)
BY DEF EvaluateGuardReplay, AnsweredAsAsked

(* An empty store and idle callers satisfy the invariant.                  *)
LEMMA InitReplayInv == Init => ReplayInv
<1> SUFFICES ASSUME Init PROVE ReplayInv
  OBVIOUS
<1>1. \A h \in Hosts : caller[h] = Idle /\ caller[h].stage = "idle"
  BY IdleIsACaller DEF Init
<1>2. TypeOK
  <2>1. caller \in [Hosts -> Callers] BY IdleIsACaller DEF Init
  <2>2. store \in [damaged : BOOLEAN, records : Seq(Records)] BY DEF Init
  <2>3. returned = <<>> /\ returned \in Seq(Answers) /\ Len(returned) <= MaxReturned
    BY BoundAssumption DEF Init
  <2> QED BY <1>1, <2>1, <2>2, <2>3 DEF TypeOK
<1>3. OneCallAtATime /\ LoadedIsCurrent /\ JudgementsAreBacked
  BY <1>1 DEF OneCallAtATime, LoadedIsCurrent, JudgementsAreBacked
<1>4. FreshIsClaimed /\ FreshAtMostOnce /\ RefusedOnlyIfClaimed
  BY DEF Init, FreshIsClaimed, FreshAtMostOnce, RefusedOnlyIfClaimed
<1> QED BY <1>2, <1>3, <1>4 DEF ReplayInv
-----------------------------------------------------------------------------
(* Loading takes the turn and sees the store as it is.                     *)
LEMMA LoadKeepsReplayInv ==
  ASSUME ReplayInv, NEW h \in Hosts, NEW r \in Records, NEW f \in BOOLEAN, Load(h, r, f)
  PROVE  ReplayInv'
<1> DEFINE new == IF store.damaged THEN Judged(r, f, "blocked") ELSE Loaded(r, f, store.records)
<1>1. /\ caller' = [caller EXCEPT ![h] = new] /\ store' = store /\ returned' = returned
      /\ \A g \in Hosts : caller[g] = Idle
  BY DEF Load, Serialised
<1>2. caller \in [Hosts -> Callers] /\ store.records \in Seq(Records)
  BY DEF ReplayInv, TypeOK
<1>3. /\ new \in Callers
      /\ new.stage \in {"loaded", "judged"}
      /\ new.stage = "loaded" => new.records = store.records
      /\ new.stage = "judged" => AnsweredAsAsked(new.status, new.require_fresh)
                                 /\ new.status = "blocked"
  <2>1. "blocked" \in Statuses BY DEF Statuses
  <2> QED BY <1>2, <2>1, JudgedIsACaller, LoadedIsACaller DEF AnsweredAsAsked
<1> HIDE DEF new
<1>4. \A g \in Hosts : caller'[g] = IF g = h THEN new ELSE Idle
  BY <1>1, <1>2
<1>5. TypeOK'
  BY <1>1, <1>2, <1>3, <1>4, IdleIsACaller DEF ReplayInv, TypeOK
<1>6. OneCallAtATime' /\ LoadedIsCurrent' /\ JudgementsAreBacked'
  BY <1>1, <1>3, <1>4, IdleIsACaller DEF OneCallAtATime, LoadedIsCurrent, JudgementsAreBacked
<1>7. FreshIsClaimed' /\ FreshAtMostOnce' /\ RefusedOnlyIfClaimed'
  BY <1>1 DEF ReplayInv, FreshIsClaimed, FreshAtMostOnce, RefusedOnlyIfClaimed, Claimed
<1> QED BY <1>5, <1>6, <1>7 DEF ReplayInv

(* The step that claims.  It sees every record that was ever claimed,      *)
(* because what it loaded is still current.                                *)
LEMMA JudgeKeepsReplayInv ==
  ASSUME ReplayInv, NEW h \in Hosts, Judge(h)
  PROVE  ReplayInv'
<1> DEFINE c == caller[h]
           q == store.records
           status == EvaluateGuardReplay(c.record, c.records, c.require_fresh)
           new == Judged(c.record, c.require_fresh, status)
           next == IF status = "fresh" THEN Append(q, c.record) ELSE q
<1>1. c.stage = "loaded" /\ c.records = q
  BY DEF Judge, ReplayInv, LoadedIsCurrent
<1>2. /\ caller \in [Hosts -> Callers] /\ q \in Seq(Records) /\ store.damaged \in BOOLEAN
      /\ c.record \in Records /\ c.require_fresh \in BOOLEAN
  <2>1. caller \in [Hosts -> Callers] /\ store \in [damaged : BOOLEAN, records : Seq(Records)]
    BY DEF ReplayInv, TypeOK
  <2> QED BY <1>1, <2>1, StageOfCaller
<1>3. /\ status \in {"fresh", "replayed", "seen"} /\ status \in Statuses
      /\ status = "fresh" <=> \A i \in DOMAIN q : ~Replays(c.record, q[i])
      /\ AnsweredAsAsked(status, c.require_fresh)
  BY <1>1, <1>2, Verdicts DEF Statuses
<1>4. /\ new \in Callers /\ new.stage = "judged" /\ new.record = c.record
      /\ new.require_fresh = c.require_fresh /\ new.status = status
  BY <1>2, <1>3, JudgedIsACaller
<1>5. /\ caller' = [caller EXCEPT ![h] = new] /\ returned' = returned
      /\ store'.records = next /\ store' \in [damaged : BOOLEAN, records : Seq(Records)]
  <2>1. store' = IF status = "fresh"
                 THEN [damaged |-> FALSE, records |-> Append(c.records, c.record)] ELSE store
    BY DEF Judge
  <2>2. caller' = [caller EXCEPT ![h] = new] /\ returned' = returned
    BY DEF Judge
  <2>3. store \in [damaged : BOOLEAN, records : Seq(Records)]
    BY DEF ReplayInv, TypeOK
  <2> QED BY <1>1, <1>2, <2>1, <2>2, <2>3
<1>6. \A g \in Hosts : g # h => caller[g] = Idle
  BY <1>1, IdleIsACaller DEF ReplayInv, OneCallAtATime
<1>7. /\ \A k \in DOMAIN q : k \in DOMAIN next /\ next[k] = q[k]
      /\ status = "fresh" => \E k \in DOMAIN next : next[k] = c.record
  <2>1. CASE status = "fresh"
    <3>1. /\ DOMAIN q = 1 .. Len(q) /\ Len(q) \in Nat
          /\ DOMAIN Append(q, c.record) = 1 .. Len(q) + 1
          /\ Append(q, c.record)[Len(q) + 1] = c.record
          /\ \A k \in 1 .. Len(q) : Append(q, c.record)[k] = q[k]
      BY <1>2
    <3>2. Len(q) + 1 \in 1 .. Len(q) + 1 BY <3>1
    <3> QED BY <2>1, <3>1, <3>2
  <2>2. CASE status # "fresh" BY <2>2
  <2> QED BY <2>1, <2>2
<1> HIDE DEF c, q, status, new, next
<1>8. \A g \in Hosts : caller'[g] = IF g = h THEN new ELSE Idle
  BY <1>2, <1>5, <1>6
<1>9. TypeOK'
  BY <1>2, <1>3, <1>4, <1>5, <1>8, IdleIsACaller DEF ReplayInv, TypeOK
<1>10. OneCallAtATime' /\ LoadedIsCurrent'
  BY <1>4, <1>8, IdleIsACaller DEF OneCallAtATime, LoadedIsCurrent
<1>11. /\ \A r : Claimed(r) => Claimed(r)'
       /\ \A r : Known(r) => Known(r)'
  BY <1>5, <1>7 DEF Claimed, Known, q
<1>12. JudgementsAreBacked'
  <2>1. PICK r \in Records : r = c.record
    BY <1>2
  <2>2. ASSUME status = "fresh"
        PROVE  /\ Claimed(r)'
               /\ \A i \in DOMAIN returned :
                    returned[i].status = "fresh" => ~Replays(r, returned[i].record)
    <3>1. Claimed(r)' BY <1>5, <1>7, <2>1, <2>2 DEF Claimed
    <3>2. ASSUME NEW i \in DOMAIN returned, returned[i].status = "fresh"
          PROVE  ~Replays(r, returned[i].record)
      BY <1>3, <2>1, <2>2, <3>2 DEF ReplayInv, FreshIsClaimed, Claimed, q
    <3> QED BY <3>1, <3>2
  <2>3. ASSUME status \in {"replayed", "seen"}  PROVE Known(r)'
    <3>1. \E k \in DOMAIN q : Replays(r, q[k]) BY <1>3, <2>1, <2>3
    <3>2. Known(r) BY <3>1 DEF Known, q
    <3> QED BY <1>11, <3>2
  <2>4. new.stage = "judged" /\ new.record = r /\ new.status = status
    BY <1>4, <2>1
  <2> QED BY <1>5, <1>8, <2>2, <2>3, <2>4, IdleIsACaller DEF JudgementsAreBacked, Claimed, Known
<1>13. FreshIsClaimed' /\ RefusedOnlyIfClaimed'
  BY <1>5, <1>11 DEF ReplayInv, FreshIsClaimed, RefusedOnlyIfClaimed, Known
<1>14. FreshAtMostOnce'
  BY <1>5 DEF ReplayInv, FreshAtMostOnce
<1> QED BY <1>9, <1>10, <1>12, <1>13, <1>14 DEF ReplayInv
-----------------------------------------------------------------------------
(* The step that answers: the answer is as well backed as the judgement.   *)
LEMMA ReturnKeepsReplayInv ==
  ASSUME ReplayInv, NEW h \in Hosts, Return(h)
  PROVE  ReplayInv'
<1> DEFINE c == caller[h]
           a == [record |-> c.record, status |-> c.status, require_fresh |-> c.require_fresh]
           n == Len(returned) + 1
<1>1. /\ c.stage = "judged" /\ n <= MaxReturned
      /\ returned' = Append(returned, a) /\ caller' = [caller EXCEPT ![h] = Idle]
      /\ store' = store
  <2>1. Len(returned) \in Nat BY DEF ReplayInv, TypeOK
  <2> QED BY <2>1, BoundAssumption DEF Return
<1>2. /\ caller \in [Hosts -> Callers] /\ returned \in Seq(Answers) /\ a \in Answers
      /\ AnsweredAsAsked(c.status, c.require_fresh)
  <2>1. caller \in [Hosts -> Callers] /\ returned \in Seq(Answers)
    BY DEF ReplayInv, TypeOK
  <2> QED BY <1>1, <2>1, StageOfCaller DEF Answers, ReplayInv, TypeOK
<1>3. /\ n \in Nat /\ n - 1 = Len(returned) /\ DOMAIN returned = 1 .. n - 1
      /\ returned' \in Seq(Answers) /\ DOMAIN returned' = 1 .. n /\ Len(returned') = n
      /\ returned'[n] = a /\ \A i \in 1 .. n - 1 : returned'[i] = returned[i]
  BY <1>1, <1>2
<1>4. /\ a.record = c.record /\ a.status = c.status /\ a.require_fresh = c.require_fresh
  OBVIOUS
<1>5. \A g \in Hosts : caller'[g] = IF g = h THEN Idle ELSE caller[g]
  BY <1>1, <1>2
<1>6. /\ c.status = "fresh" =>
           /\ Claimed(c.record)
           /\ \A i \in DOMAIN returned :
                returned[i].status = "fresh" => ~Replays(c.record, returned[i].record)
      /\ c.status \in {"replayed", "seen"} => Known(c.record)
  BY <1>1 DEF ReplayInv, JudgementsAreBacked
<1>7. \A g \in Hosts : caller'[g] = Idle
  BY <1>1, <1>5, IdleIsACaller DEF ReplayInv, OneCallAtATime
<1> HIDE DEF c, a, n
<1>8. TypeOK'
  <2>1. caller' \in [Hosts -> Callers] BY <1>1, <1>2, IdleIsACaller
  <2>2. store' \in [damaged : BOOLEAN, records : Seq(Records)]
    BY <1>1 DEF ReplayInv, TypeOK
  <2>3. \A i \in DOMAIN returned' :
          AnsweredAsAsked(returned'[i].status, returned'[i].require_fresh)
    <3>1. ASSUME NEW i \in 1 .. n
          PROVE  AnsweredAsAsked(returned'[i].status, returned'[i].require_fresh)
      <4>1. CASE i = n BY <1>2, <1>3, <1>4, <3>1, <4>1
      <4>2. CASE i # n
        <5>1. i \in 1 .. n - 1 BY <1>3, <3>1, <4>2
        <5> QED BY <1>3, <3>1, <5>1 DEF ReplayInv, TypeOK
      <4> QED BY <4>1, <4>2
    <3> QED BY <1>3, <3>1
  <2> QED BY <1>1, <1>3, <1>7, <2>1, <2>2, <2>3, IdleIsACaller DEF TypeOK
<1>9. OneCallAtATime' /\ LoadedIsCurrent' /\ JudgementsAreBacked'
  BY <1>7, IdleIsACaller DEF OneCallAtATime, LoadedIsCurrent, JudgementsAreBacked
<1>10. FreshIsClaimed'
  <2>1. ASSUME NEW i \in 1 .. n, returned'[i].status = "fresh"
        PROVE  Claimed(returned'[i].record)
    <3>1. CASE i = n BY <1>3, <1>4, <1>6, <2>1, <3>1
    <3>2. CASE i # n
      <4>1. i \in 1 .. n - 1 BY <1>3, <2>1, <3>2
      <4> QED BY <1>3, <2>1, <4>1 DEF ReplayInv, FreshIsClaimed
    <3> QED BY <3>1, <3>2
  <2> QED BY <1>1, <1>3, <2>1 DEF FreshIsClaimed, Claimed
<1>11. RefusedOnlyIfClaimed'
  <2>1. ASSUME NEW i \in 1 .. n, returned'[i].status \in {"replayed", "seen"}
        PROVE  Known(returned'[i].record)
    <3>1. CASE i = n BY <1>3, <1>4, <1>6, <2>1, <3>1
    <3>2. CASE i # n
      <4>1. i \in 1 .. n - 1 BY <1>3, <2>1, <3>2
      <4> QED BY <1>3, <2>1, <4>1 DEF ReplayInv, RefusedOnlyIfClaimed, Known
    <3> QED BY <3>1, <3>2
  <2> QED BY <1>1, <1>3, <2>1 DEF RefusedOnlyIfClaimed, Known
<1>12. FreshAtMostOnce'
  <2>1. ASSUME NEW i \in 1 .. n, NEW j \in 1 .. n, i # j,
               returned'[i].status = "fresh", returned'[j].status = "fresh"
        PROVE  ~Replays(returned'[i].record, returned'[j].record)
    <3>1. CASE i = n
      <4>1. j \in 1 .. n - 1 BY <1>3, <2>1, <3>1
      <4> QED BY <1>3, <1>4, <1>6, <2>1, <3>1, <4>1
    <3>2. CASE j = n
      <4>1. i \in 1 .. n - 1 BY <1>3, <2>1, <3>2
      <4>2. ~Replays(c.record, returned[i].record) BY <1>3, <1>4, <1>6, <2>1, <3>2, <4>1
      <4> QED BY <1>3, <1>4, <3>2, <4>1, <4>2, ReplaysSymmetric
    <3>3. CASE i # n /\ j # n
      <4>1. i \in 1 .. n - 1 /\ j \in 1 .. n - 1 BY <1>3, <2>1, <3>3
      <4> QED BY <1>3, <2>1, <4>1 DEF ReplayInv, FreshAtMostOnce, RuntimeAllowed, Allowed
    <3> QED BY <3>1, <3>2, <3>3
  <2> QED BY <1>3, <2>1 DEF FreshAtMostOnce, RuntimeAllowed
<1> QED BY <1>8, <1>9, <1>10, <1>11, <1>12 DEF ReplayInv

(* After a crash nobody gets the answer, and the claim stays.              *)
LEMMA CrashKeepsReplayInv ==
  ASSUME ReplayInv, NEW h \in Hosts, Crash(h)
  PROVE  ReplayInv'
<1>1. caller' = [caller EXCEPT ![h] = Idle] /\ store' = store /\ returned' = returned
  BY DEF Crash
<1>2. caller \in [Hosts -> Callers]
  BY DEF ReplayInv, TypeOK
<1>3. \A g \in Hosts : caller'[g] = IF g = h THEN Idle ELSE caller[g]
  BY <1>1, <1>2
<1>4. TypeOK'
  BY <1>1, <1>2, <1>3, IdleIsACaller DEF ReplayInv, TypeOK
<1>5. OneCallAtATime' /\ LoadedIsCurrent'
  BY <1>1, <1>3, IdleIsACaller DEF ReplayInv, OneCallAtATime, LoadedIsCurrent
<1>6. JudgementsAreBacked'
  BY <1>1, <1>3, IdleIsACaller DEF ReplayInv, JudgementsAreBacked, Claimed, Known
<1>7. FreshIsClaimed' /\ FreshAtMostOnce' /\ RefusedOnlyIfClaimed'
  BY <1>1 DEF ReplayInv, FreshIsClaimed, FreshAtMostOnce, RefusedOnlyIfClaimed, Claimed
<1> QED BY <1>4, <1>5, <1>6, <1>7 DEF ReplayInv

(* Damage and repair change nothing but whether the bytes can be read.     *)
LEMMA BytesKeepReplayInv ==
  ASSUME ReplayInv, Damage \/ Repair
  PROVE  ReplayInv'
<1>1. /\ caller' = caller /\ returned' = returned /\ store'.records = store.records
      /\ store' \in [damaged : BOOLEAN, records : Seq(Records)]
  BY DEF Damage, Repair, ReplayInv, TypeOK
<1>2. TypeOK'
  BY <1>1 DEF ReplayInv, TypeOK
<1>3. OneCallAtATime' /\ LoadedIsCurrent' /\ JudgementsAreBacked'
  BY <1>1 DEF ReplayInv, OneCallAtATime, LoadedIsCurrent, JudgementsAreBacked, Claimed, Known
<1>4. FreshIsClaimed' /\ FreshAtMostOnce' /\ RefusedOnlyIfClaimed'
  BY <1>1 DEF ReplayInv, FreshIsClaimed, FreshAtMostOnce, RefusedOnlyIfClaimed, Claimed
<1> QED BY <1>2, <1>3, <1>4 DEF ReplayInv
-----------------------------------------------------------------------------
(* Every step keeps the invariant.                                         *)
LEMMA StepKeepsReplayInv == ReplayInv /\ [Next]_vars => ReplayInv'
<1> SUFFICES ASSUME ReplayInv, [Next]_vars PROVE ReplayInv'
  OBVIOUS
<1>1. CASE UNCHANGED vars
  BY <1>1 DEF vars, ReplayInv, TypeOK, OneCallAtATime, LoadedIsCurrent, JudgementsAreBacked,
              FreshIsClaimed, FreshAtMostOnce, RefusedOnlyIfClaimed, Claimed, Known
<1>2. CASE Next
  BY <1>2, LoadKeepsReplayInv, JudgeKeepsReplayInv, ReturnKeepsReplayInv,
     CrashKeepsReplayInv, BytesKeepReplayInv DEF Next
<1> QED BY <1>1, <1>2

(* Every fresh answer, given or still to be given, rests on its record in  *)
(* the store (record_guard_replay_file).                                   *)
THEOREM ReplayInvariant == Spec => []ReplayInv
BY InitReplayInv, StepKeepsReplayInv, PTL DEF Spec

(* The store, the callers and the answers keep their types                 *)
(* (record_guard_replay_file).                                             *)
THEOREM StoreTypeCorrect == Spec => []TypeOK
<1>1. ReplayInv => TypeOK
  BY DEF ReplayInv
<1> QED BY <1>1, ReplayInvariant, PTL

(* One payload is fresh at most once, whatever crashes and damage happen.  *)
THEOREM PayloadFreshAtMostOnce == Spec => []FreshAtMostOnce
<1>1. ReplayInv => FreshAtMostOnce
  BY DEF ReplayInv
<1> QED BY <1>1, ReplayInvariant, PTL

(* A refusal always rests on a bundle that was claimed.                    *)
THEOREM RefusalsAreBacked == Spec => []RefusedOnlyIfClaimed
<1>1. ReplayInv => RefusedOnlyIfClaimed
  BY DEF ReplayInv
<1> QED BY <1>1, ReplayInvariant, PTL

(* No step shortens the store or rewrites a record of it.                  *)
THEOREM StoreNeverForgets == Spec => NothingForgotten
<1> DEFINE Grows == /\ Len(store.records) <= Len(store'.records)
                    /\ SubSeq(store'.records, 1, Len(store.records)) = store.records
<1>1. ASSUME ReplayInv, [Next]_vars  PROVE [Grows]_vars
  <2>1. store.records \in Seq(Records)
    BY <1>1 DEF ReplayInv, TypeOK
  <2>2. ASSUME store'.records = store.records  PROVE Grows
    BY <2>1, <2>2
  <2>3. ASSUME NEW r \in Records, store'.records = Append(store.records, r)  PROVE Grows
    BY <2>1, <2>3
  <2>4. ASSUME NEW h \in Hosts, Judge(h)  PROVE Grows
    <3>1. caller[h].stage = "loaded" /\ caller[h].records = store.records
          /\ caller[h].record \in Records
      BY <1>1, <2>4, StageOfCaller DEF Judge, ReplayInv, LoadedIsCurrent, TypeOK
    <3>2. store' = store \/ store'.records = Append(store.records, caller[h].record)
      BY <2>4, <3>1 DEF Judge
    <3> QED BY <2>2, <2>3, <3>1, <3>2
  <2>5. ASSUME NEW h \in Hosts, NEW r \in Records, NEW f \in BOOLEAN, Load(h, r, f)  PROVE Grows
    BY <2>2, <2>5 DEF Load
  <2>6. ASSUME NEW h \in Hosts, Return(h) \/ Crash(h)  PROVE Grows
    BY <2>2, <2>6 DEF Return, Crash
  <2>7. ASSUME Damage \/ Repair  PROVE Grows
    <3>1. store'.records = store.records
      BY <1>1, <2>7 DEF Damage, Repair, ReplayInv, TypeOK
    <3> QED BY <2>2, <3>1
  <2> QED BY <1>1, <2>4, <2>5, <2>6, <2>7 DEF Next
<1> QED BY <1>1, ReplayInvariant, PTL DEF Spec, NothingForgotten
-----------------------------------------------------------------------------
(* Both stores compare records in the same way.                            *)
LEMMA SameReplays == \A r, p : ClaimStore!Replays(r, p) <=> Replays(r, p)
BY DEF Replays, SamePayload, SameGuard, Scope, ClaimStore!Replays, ClaimStore!SamePayload,
       ClaimStore!SameGuard, ClaimStore!Scope

(* Judging a fresh record is the claim of the abstract store: what the     *)
(* call loaded is everything that was claimed.                             *)
LEMMA JudgeIsClaim ==
  ASSUME ReplayInv, NEW h \in Hosts, Judge(h)
  PROVE  ClaimStore!Next \/ UNCHANGED <<store.records, returned>>
<1> DEFINE c == caller[h]
<1>1. /\ c.stage = "loaded" /\ c.records = store.records
      /\ c.record \in Records /\ c.require_fresh \in BOOLEAN
  BY StageOfCaller DEF Judge, ReplayInv, LoadedIsCurrent, TypeOK
<1>2. CASE EvaluateGuardReplay(c.record, c.records, c.require_fresh) = "fresh"
  <2>1. store'.records = Append(store.records, c.record) /\ returned' = returned
    BY <1>1, <1>2 DEF Judge
  <2>2. \A i \in DOMAIN store.records : ~Replays(c.record, store.records[i])
    BY <1>1, <1>2, Verdicts
  <2>3. ClaimStore!Claim(c.record)
    BY <2>1, <2>2, SameReplays DEF ClaimStore!Claim, ClaimStore!IsKnown
  <2> QED BY <1>1, <2>3 DEF ClaimStore!Next
<1>3. CASE EvaluateGuardReplay(c.record, c.records, c.require_fresh) # "fresh"
  BY <1>1, <1>3 DEF Judge
<1> QED BY <1>2, <1>3

(* Returning a judgement is an answer of the abstract store.               *)
LEMMA ReturnIsAnswer ==
  ASSUME ReplayInv, NEW h \in Hosts, Return(h)
  PROVE  ClaimStore!Next
<1> DEFINE c == caller[h]
<1>1. /\ c.stage = "judged" /\ c.record \in Records /\ c.require_fresh \in BOOLEAN
      /\ c.status \in {"fresh", "seen", "replayed", "blocked"}
      /\ AnsweredAsAsked(c.status, c.require_fresh)
  BY StageOfCaller DEF Return, ReplayInv, TypeOK, Statuses
<1>2. /\ Len(returned) < MaxReturned /\ store' = store
      /\ returned' = Append(returned, [record |-> c.record, status |-> c.status,
                                       require_fresh |-> c.require_fresh])
  BY DEF Return
<1>3. c.status = "fresh" => ClaimStore!IsClaimed(c.record) /\ ~ClaimStore!AnsweredFresh(c.record)
  <2>1. ASSUME c.status = "fresh"
        PROVE  /\ Claimed(c.record)
               /\ \A i \in DOMAIN returned :
                    returned[i].status = "fresh" => ~Replays(c.record, returned[i].record)
    BY <1>1, <2>1 DEF ReplayInv, JudgementsAreBacked
  <2>2. Replays(c.record, c.record)
    BY DEF Replays, SameGuard
  <2> QED BY <2>1, <2>2 DEF Claimed, ClaimStore!IsClaimed, ClaimStore!AnsweredFresh
<1>4. c.status \in {"replayed", "seen"} => ClaimStore!IsKnown(c.record)
  BY <1>1, SameReplays DEF ReplayInv, JudgementsAreBacked, Known, ClaimStore!IsKnown
<1>5. (c.status = "seen" => ~c.require_fresh) /\ (c.status = "replayed" => c.require_fresh)
  BY <1>1 DEF AnsweredAsAsked
<1>6. ClaimStore!Answer(c.record, c.require_fresh)
  BY <1>1, <1>2, <1>3, <1>4, <1>5 DEF ClaimStore!Answer
<1> QED BY <1>1, <1>6 DEF ClaimStore!Next

(* Every step of the file-backed store is a step of the claim store or     *)
(* leaves it alone, from any state the invariant allows.                   *)
LEMMA StepIsClaimStep == ReplayInv /\ [Next]_vars => [ClaimStore!Next]_ClaimStore!vars
<1> SUFFICES ASSUME ReplayInv, [Next]_vars
             PROVE  ClaimStore!Next \/ UNCHANGED <<store.records, returned>>
  BY DEF ClaimStore!vars
<1>1. CASE UNCHANGED vars
  BY <1>1 DEF vars
<1>2. ASSUME NEW h \in Hosts, NEW r \in Records, NEW f \in BOOLEAN, Load(h, r, f)
      PROVE  UNCHANGED <<store.records, returned>>
  BY <1>2 DEF Load
<1>3. ASSUME NEW h \in Hosts, Crash(h)  PROVE UNCHANGED <<store.records, returned>>
  BY <1>3 DEF Crash
<1>4. CASE Damage \/ Repair
  BY <1>4 DEF Damage, Repair, ReplayInv, TypeOK
<1> QED BY <1>1, <1>2, <1>3, <1>4, JudgeIsClaim, ReturnIsAnswer DEF Next

(* The store over a file keeps the promise of a claim store: a payload is  *)
(* claimed once and answered fresh at most once, for any number of hosts,  *)
(* any records, crashes and damage (ReplayClaimStore,                      *)
(* record_guard_replay_file).                                              *)
THEOREM FileStoreImplementsClaimStore == Spec => ImplementsClaimStore
<1>1. Init => ClaimStore!Init
  BY DEF Init, ClaimStore!Init
<1> QED
  BY <1>1, StepIsClaimStep, ReplayInvariant, PTL DEF Spec, ImplementsClaimStore, ClaimStore!Spec

-----------------------------------------------------------------------------
(* The audit ledger. *)

(* A ledger entry is linked by a chain that is one longer.                 *)
LEMMA DigestIsChain ==
  ASSUME NEW entry \in LedgerEntries
  PROVE  /\ EntryDigest(entry) \in Chains
         /\ Len(EntryDigest(entry)) = Len(entry.previous) + 1
BY DEF EntryDigest, LedgerEntries, Chains

(* What a line added at the end of the file makes of it.                   *)
LEMMA Written ==
  ASSUME LedgerTyped, NEW line \in LedgerLines
  PROVE  /\ WithLine(line) \in Seq(LedgerLines) /\ WithLine(line) # <<>>
         /\ Len(WithLine(line)) = IF terminated THEN Len(lines) + 1 ELSE Len(lines)
         /\ terminated => /\ \A i \in 1 .. Len(lines) : WithLine(line)[i] = lines[i]
                          /\ WithLine(line)[Len(lines) + 1] = line
         /\ ~terminated =>
              /\ Len(lines) \in 1 .. Len(lines) /\ ~WithLine(line)[Len(lines)].readable
              /\ \A i \in 1 .. Len(lines) :
                   /\ WithLine(line)[i].entry = lines[i].entry
                   /\ i < Len(lines) => WithLine(line)[i] = lines[i]
<1>1. lines \in Seq(LedgerLines) /\ terminated \in BOOLEAN /\ (~terminated => lines # <<>>)
  BY DEF LedgerTyped
<1>2. CASE terminated
  BY <1>1, <1>2, AppendProperties DEF WithLine
<1>3. CASE ~terminated
  <2> DEFINE torn == [lines[Len(lines)] EXCEPT !.readable = FALSE]
  <2>1. Len(lines) \in 1 .. Len(lines) /\ lines[Len(lines)] \in LedgerLines
    BY <1>1, <1>3
  <2>2. torn \in LedgerLines /\ torn.entry = lines[Len(lines)].entry /\ ~torn.readable
    BY <2>1 DEF LedgerLines
  <2>3. WithLine(line) = [lines EXCEPT ![Len(lines)] = torn]
    BY <1>3 DEF WithLine
  <2> HIDE DEF torn
  <2>4. /\ WithLine(line) \in Seq(LedgerLines) /\ Len(WithLine(line)) = Len(lines)
        /\ \A i \in 1 .. Len(lines) :
             WithLine(line)[i] = IF i = Len(lines) THEN torn ELSE lines[i]
    BY <1>1, <2>1, <2>2, <2>3, ExceptSeq
  <2> QED
    BY <1>1, <1>3, <2>1, <2>2, <2>4
<1> QED
  BY <1>2, <1>3

(* What a lost line leaves.                                                *)
LEMMA Lost ==
  ASSUME LedgerTyped, NEW i \in DOMAIN lines
  PROVE  LET s == SubSeq(lines, 1, i - 1) \o SubSeq(lines, i + 1, Len(lines))
         IN  /\ s \in Seq(LedgerLines) /\ Len(s) = Len(lines) - 1
             /\ \A k \in 1 .. Len(s) : s[k] = IF k < i THEN lines[k] ELSE lines[k + 1]
<1> DEFINE a == SubSeq(lines, 1, i - 1)
           b == SubSeq(lines, i + 1, Len(lines))
<1>1. lines \in Seq(LedgerLines) /\ Len(lines) \in Nat /\ i \in 1 .. Len(lines)
      /\ \A k \in 1 .. Len(lines) : lines[k] \in LedgerLines
  BY DEF LedgerTyped
<1>2. a \in Seq(LedgerLines) /\ Len(a) = i - 1 /\ \A k \in 1 .. i - 1 : a[k] = lines[k]
  BY <1>1, SubSeqProperties
<1>3. /\ b \in Seq(LedgerLines) /\ Len(b) = Len(lines) - i
      /\ \A k \in 1 .. Len(lines) - i : b[k] = lines[k + i]
  <2>1. /\ b \in Seq(LedgerLines)
        /\ Len(b) = IF i + 1 <= Len(lines) THEN Len(lines) - (i + 1) + 1 ELSE 0
        /\ \A k \in 1 .. Len(lines) - (i + 1) + 1 : b[k] = lines[(i + 1) + k - 1]
    BY <1>1, SubSeqProperties
  <2> QED
    BY <1>1, <2>1
<1> HIDE DEF a, b
<1>4. /\ a \o b \in Seq(LedgerLines) /\ Len(a \o b) = Len(a) + Len(b)
      /\ \A k \in 1 .. Len(a) + Len(b) :
           (a \o b)[k] = IF k <= Len(a) THEN a[k] ELSE b[k - Len(a)]
  BY <1>2, <1>3, ConcatProperties
<1>5. Len(a \o b) = Len(lines) - 1
  BY <1>1, <1>2, <1>3, <1>4
<1>6. ASSUME NEW k \in 1 .. Len(a \o b)
      PROVE  (a \o b)[k] = IF k < i THEN lines[k] ELSE lines[k + 1]
  <2>1. CASE k < i
    BY <1>1, <1>2, <1>3, <1>4, <1>5, <2>1
  <2>2. CASE ~(k < i)
    <3> DEFINE m == k - Len(a)
    <3>1. m \in 1 .. Len(lines) - i /\ m + i = k + 1 /\ ~(k <= Len(a))
      BY <1>1, <1>2, <1>5, <2>2
    <3>2. (a \o b)[k] = b[m]
      BY <1>4, <1>5, <3>1
    <3> HIDE DEF m
    <3>3. b[m] = lines[k + 1]
      BY <1>3, <3>1
    <3> QED
      BY <2>2, <3>2, <3>3
  <2> QED
    BY <2>1, <2>2
<1> QED
  BY <1>4, <1>5, <1>6 DEF a, b

(* What is read from the beginning, up to a limit.                         *)
LEMMA ReadFromStart ==
  ASSUME LedgerTyped, NEW limit \in Nat
  PROVE  LET n == IF limit < Len(lines) THEN limit ELSE Len(lines)
         IN  /\ n \in 0 .. Len(lines)
             /\ Entries(limit) = [i \in 1 .. n |-> lines[i].entry]
             /\ Entries(limit) \in Seq(LedgerEntries) /\ Len(Entries(limit)) = n
             /\ Readable(limit) <=> \A i \in 1 .. n : lines[i].readable
<1> DEFINE n == IF limit < Len(lines) THEN limit ELSE Len(lines)
<1>1. /\ Len(lines) \in Nat /\ DOMAIN lines = 1 .. Len(lines)
      /\ \A i \in 1 .. Len(lines) : lines[i].entry \in LedgerEntries
  <2>1. lines \in Seq(LedgerLines)
    BY DEF LedgerTyped
  <2>2. \A line \in LedgerLines : line.entry \in LedgerEntries
    BY DEF LedgerLines
  <2> QED
    BY <2>1, <2>2
<1>2. After(NoId) = 0 /\ Until(NoId, limit) = n
  <2>1. After(NoId) = 0
    BY DEF After
  <2> QED
    BY <1>1, <2>1 DEF Until
<1>3. n \in 0 .. Len(lines)
  BY <1>1
<1>4. Entries(limit) = [i \in 1 .. n |-> lines[i].entry]
  <2>1. n - 0 = n /\ \A i \in 1 .. n : 0 + i = i
    BY <1>1
  <2> HIDE DEF n
  <2> QED
    BY <1>2, <2>1 DEF Entries, EntriesAfter
<1>5. Readable(limit) <=> \A i \in 1 .. n : lines[i].readable
  BY <1>2 DEF Readable, ReadableAfter
<1> HIDE DEF n
<1>6. Entries(limit) \in Seq(LedgerEntries) /\ Len(Entries(limit)) = n
  BY <1>1, <1>3, <1>4
<1> QED
  BY <1>3, <1>4, <1>5, <1>6 DEF n

(* An entry built on all that is there follows it.                         *)
LEMMA NextEntryTyped ==
  ASSUME NEW existing \in Seq(LedgerEntries), NEW r \in AuditRecords
  PROVE  /\ NextEntry(existing, r) \in LedgerEntries
         /\ NextEntry(existing, r).sequence = Len(existing)
         /\ NextEntry(existing, r).previous = LastDigest(existing)
<1>1. LastDigest(existing) \in Chains
  <2>1. CASE existing = <<>>
    BY <2>1 DEF LastDigest, NoDigest, Chains
  <2>2. CASE existing # <<>>
    <3>1. existing[Len(existing)] \in LedgerEntries
      BY <2>2
    <3> QED
      BY <2>2, <3>1, DigestIsChain DEF LastDigest
  <2> QED
    BY <2>1, <2>2
<1> QED
  BY <1>1 DEF NextEntry, LedgerEntries

(* Reading the ledger changes nothing but the writer. *)
LEMMA ReadStep ==
  ASSUME LedgerInv, NEW w \in Writers, NEW r \in AuditRecords, NEW d, ReadLedger(w, r, d)
  PROVE  LedgerInv'
<1> DEFINE existing == Entries(ReadLimit)
           entry == NextEntry(existing, r)
           n == IF ReadLimit < Len(lines) THEN ReadLimit ELSE Len(lines)
<1>1. /\ lines' = lines /\ terminated' = terminated /\ pages' = pages
      /\ acknowledged' = acknowledged
      /\ incidents' = incidents \cup Overtaking \cup PastLimit
      /\ writer[w] = NotAppending
      /\ \/ writer' = [writer EXCEPT ![w] = [stage |-> "built", entry |-> entry]]
            /\ Readable(ReadLimit)
         \/ writer' = [writer EXCEPT ![w] = NotAppending]
  BY DEF ReadLedger
<1>2. LedgerTyped /\ UndisturbedInTurn /\ UntornAllReadable /\ ThereOrTorn /\ LossShows
      /\ PagesAreRead
  BY DEF LedgerInv
<1>3. /\ existing = [i \in 1 .. n |-> lines[i].entry] /\ existing \in Seq(LedgerEntries)
      /\ Len(existing) = n /\ n \in 0 .. Len(lines)
      /\ Readable(ReadLimit) => \A i \in 1 .. n : lines[i].readable
  <2>1. ReadLimit \in Nat
    BY LedgerAssumption
  <2> QED
    BY <1>2, <2>1, ReadFromStart
<1>4. /\ entry \in LedgerEntries /\ entry.sequence = n
      /\ entry.previous = LastDigest(existing)
  BY <1>3, NextEntryTyped
<1> HIDE DEF entry
<1>5. LedgerTyped'
  <2>1. writer' \in [Writers -> {NotAppending} \cup Builders]
    BY <1>1, <1>2, <1>4 DEF LedgerTyped, Builders
  <2>2. incidents' \subseteq {"race", "past_limit", "crash", "line_lost", "tail_lost"}
    BY <1>1, <1>2 DEF LedgerTyped, Overtaking, PastLimit
  <2> QED
    BY <1>1, <1>2, <2>1, <2>2 DEF LedgerTyped
<1>6. UndisturbedInTurn'
  <2> SUFFICES ASSUME (incidents \subseteq {"crash"})' PROVE InTurn'
    BY DEF UndisturbedInTurn
  <2>1. InTurn
    BY <1>1, <1>2 DEF UndisturbedInTurn
  <2>2. \A v \in Writers : writer[v] = NotAppending
    BY <1>1 DEF Overtaking
  <2>3. n = Len(lines) /\ Len(lines) \in Nat /\ DOMAIN lines = 1 .. Len(lines)
    <3>1. ~(Len(lines) > ReadLimit)
      BY <1>1 DEF PastLimit
    <3>2. Len(lines) \in Nat /\ DOMAIN lines = 1 .. Len(lines)
      BY <1>2 DEF LedgerTyped
    <3> QED
      BY <3>1, <3>2, LedgerAssumption
  <2>4. Follows(lines, entry, Len(lines))
    <3>1. entry.sequence = Len(lines)
      BY <1>4, <2>3
    <3>2. LastDigest(existing) =
            IF Len(lines) = 0 THEN NoDigest ELSE EntryDigest(lines[Len(lines)].entry)
      <4>1. CASE Len(lines) = 0
        <5>1. existing = <<>>
          BY <1>3, <2>3, <4>1
        <5> QED
          BY <4>1, <5>1 DEF LastDigest
      <4>2. CASE Len(lines) # 0
        <5>1. existing # <<>> /\ existing[Len(existing)] = lines[Len(lines)].entry
          BY <1>3, <2>3, <4>2
        <5> QED
          BY <4>2, <5>1 DEF LastDigest
      <4> QED
        BY <4>1, <4>2
    <3> QED
      BY <1>4, <3>1, <3>2 DEF Follows
  <2>5. \A v \in Writers : writer'[v] # NotAppending =>
          /\ v = w /\ writer'[v].entry = entry /\ Readable(ReadLimit)
    BY <1>1, <1>2, <2>2 DEF LedgerTyped
  <2> QED
    BY <1>1, <1>3, <2>1, <2>3, <2>4, <2>5 DEF InTurn, Follows
<1>7. UntornAllReadable' /\ ThereOrTorn' /\ LossShows' /\ PagesAreRead'
  BY <1>1, <1>2 DEF UntornAllReadable, ThereOrTorn, LossShows, PagesAreRead, Overtaking, PastLimit
<1> QED
  BY <1>5, <1>6, <1>7 DEF LedgerInv

(* What adding a line does to what is kept of the lines.                   *)
LEMMA WrittenKeeps ==
  ASSUME LedgerInv, NEW entry \in LedgerEntries, NEW whole \in BOOLEAN,
         lines' = WithLine([entry |-> entry, readable |-> whole]),
         pages' = pages
  PROVE  /\ incidents \cap {"line_lost", "tail_lost"} = {} =>
              \A a \in acknowledged :
                \/ \E i \in DOMAIN lines' : EntryDigest(lines'[i].entry) = a.entry_digest
                \/ \E i \in DOMAIN lines' : ~lines'[i].readable
         /\ ("line_lost" \in incidents /\ incidents \cap {"race", "past_limit"} = {}) =>
              \E i \in DOMAIN lines' : lines'[i].entry.sequence # i - 1
         /\ incidents = {} => /\ Len(pages') <= Len(lines')
                              /\ \A i \in DOMAIN pages' : pages'[i] = lines'[i].entry
<1> DEFINE line == [entry |-> entry, readable |-> whole]
           s == WithLine(line)
<1>1. LedgerTyped /\ UntornAllReadable /\ ThereOrTorn /\ LossShows /\ PagesAreRead
  BY DEF LedgerInv
<1>2. line \in LedgerLines
  BY DEF LedgerLines
<1>3. /\ s \in Seq(LedgerLines)
      /\ Len(s) = IF terminated THEN Len(lines) + 1 ELSE Len(lines)
      /\ terminated => \A i \in 1 .. Len(lines) : s[i] = lines[i]
      /\ ~terminated =>
           /\ Len(lines) \in 1 .. Len(lines) /\ ~s[Len(lines)].readable
           /\ \A i \in 1 .. Len(lines) : s[i].entry = lines[i].entry
  BY <1>1, <1>2, Written
<1>4. Len(lines) \in Nat /\ DOMAIN lines = 1 .. Len(lines) /\ lines' = s
      /\ pages \in Seq(LedgerEntries)
  BY <1>1 DEF LedgerTyped
<1> HIDE DEF s
<1>5. /\ DOMAIN lines \subseteq DOMAIN s /\ Len(lines) <= Len(s) /\ Len(s) \in Nat
      /\ \A i \in DOMAIN lines : s[i].entry = lines[i].entry
      /\ (\E i \in DOMAIN lines : ~lines[i].readable) => (\E i \in DOMAIN s : ~s[i].readable)
  <2>1. CASE terminated
    BY <1>3, <1>4, <2>1
  <2>2. CASE ~terminated
    BY <1>3, <1>4, <2>2
  <2> QED
    BY <2>1, <2>2
<1>6. incidents \cap {"line_lost", "tail_lost"} = {} =>
        \A a \in acknowledged :
          \/ \E i \in DOMAIN s : EntryDigest(s[i].entry) = a.entry_digest
          \/ \E i \in DOMAIN s : ~s[i].readable
  BY <1>1, <1>5 DEF ThereOrTorn
<1>7. ("line_lost" \in incidents /\ incidents \cap {"race", "past_limit"} = {}) =>
        \E i \in DOMAIN s : s[i].entry.sequence # i - 1
  BY <1>1, <1>5 DEF LossShows
<1>8. incidents = {} => /\ Len(pages) <= Len(s)
                        /\ \A i \in DOMAIN pages : pages[i] = s[i].entry
  <2> SUFFICES ASSUME incidents = {}
               PROVE  /\ Len(pages) <= Len(s)
                      /\ \A i \in DOMAIN pages : pages[i] = s[i].entry
    OBVIOUS
  <2>1. Len(pages) <= Len(lines) /\ \A i \in DOMAIN pages : pages[i] = lines[i].entry
    BY <1>1 DEF PagesAreRead
  <2>2. Len(pages) \in Nat /\ DOMAIN pages = 1 .. Len(pages)
    BY <1>4
  <2>3. \A i \in DOMAIN pages : i \in DOMAIN lines
    BY <1>4, <2>1, <2>2
  <2> QED
    BY <1>4, <1>5, <2>1, <2>2, <2>3
<1> QED
  BY <1>4, <1>6, <1>7, <1>8

(* An append under way, and no other, writes the entry that follows.       *)
LEMMA WrittenInTurn ==
  ASSUME LedgerTyped, InTurn, NEW w \in Writers, writer[w] # NotAppending, NEW whole \in BOOLEAN,
         lines' = WithLine([entry |-> writer[w].entry, readable |-> whole]),
         writer' = [writer EXCEPT ![w] = NotAppending]
  PROVE  InTurn'
<1> DEFINE entry == writer[w].entry
           line == [entry |-> entry, readable |-> whole]
           n == Len(lines)
<1>1. line \in LedgerLines
  BY DEF LedgerTyped, LedgerLines, Builders
<1>2. /\ lines \in Seq(LedgerLines) /\ n \in Nat /\ DOMAIN lines = 1 .. n
      /\ \A v \in Writers : writer'[v] = NotAppending
  BY DEF LedgerTyped, InTurn
<1>3. /\ \A i \in 1 .. n : Follows(lines, lines[i].entry, i - 1) /\ lines[i].readable
      /\ Follows(lines, entry, n)
  BY <1>2 DEF InTurn
<1>4. /\ lines' \in Seq(LedgerLines)
      /\ Len(lines') = IF terminated THEN n + 1 ELSE n
      /\ terminated => lines'[n + 1] = line /\ \A i \in 1 .. n : lines'[i] = lines[i]
      /\ ~terminated => \A i \in 1 .. n : /\ lines'[i].entry = lines[i].entry
                                          /\ i < n => lines'[i] = lines[i]
  BY <1>1, Written
<1>5. line.entry = entry
  OBVIOUS
<1> HIDE DEF line, n, entry
<1>6. \A i \in 1 .. n : lines'[i].entry = lines[i].entry
  BY <1>4
<1>8. ASSUME NEW i \in 1 .. n
      PROVE  Follows(lines', lines'[i].entry, i - 1)
  <2>1. i - 1 \in 0 .. n /\ Follows(lines, lines[i].entry, i - 1)
    BY <1>2, <1>3
  <2> QED
    BY <1>2, <1>6, <2>1 DEF Follows
<1>9. CASE terminated
  <2>1. lines'[n + 1].entry = entry
    BY <1>4, <1>5, <1>9
  <2>2. /\ lines'[n + 1].entry.sequence = n
        /\ lines'[n + 1].entry.previous = IF n = 0 THEN NoDigest ELSE EntryDigest(lines'[n].entry)
    BY <1>2, <1>3, <1>6, <2>1 DEF Follows
  <2>3. Follows(lines', lines'[n + 1].entry, n)
    BY <2>2 DEF Follows
  <2>4. \A i \in DOMAIN lines' : i \in 1 .. n \/ (i = n + 1 /\ i - 1 = n)
    BY <1>2, <1>4, <1>9
  <2>5. \A i \in DOMAIN lines' : Follows(lines', lines'[i].entry, i - 1)
    BY <1>8, <2>3, <2>4
  <2>6. \A i \in DOMAIN lines' : i < Len(lines') => lines'[i].readable
    <3>1. Len(lines') = n + 1 /\ ~(n + 1 < n + 1)
      BY <1>2, <1>4, <1>9
    <3> QED
      BY <1>3, <1>4, <1>9, <2>4, <3>1
  <2> QED
    BY <1>2, <2>5, <2>6 DEF InTurn
<1>10. CASE ~terminated
  <2>1. DOMAIN lines' = 1 .. n /\ Len(lines') = n
    BY <1>2, <1>4, <1>10
  <2>2. \A i \in DOMAIN lines' : Follows(lines', lines'[i].entry, i - 1)
    BY <1>8, <2>1
  <2>3. \A i \in DOMAIN lines' : i < Len(lines') => lines'[i].readable
    BY <1>3, <1>4, <1>10, <2>1
  <2> QED
    BY <1>2, <2>2, <2>3 DEF InTurn
<1> QED
  BY <1>9, <1>10

(* Writing the line acknowledges what is then there, or torn.              *)
LEMMA WriteStep ==
  ASSUME LedgerInv, NEW w \in Writers, WriteLine(w)
  PROVE  LedgerInv'
<1> DEFINE entry == writer[w].entry
           line == [entry |-> entry, readable |-> TRUE]
<1>1. /\ lines' = WithLine(line) /\ terminated' = TRUE /\ pages' = pages
      /\ acknowledged' = acknowledged \cup {AppendResult(entry)}
      /\ writer' = [writer EXCEPT ![w] = NotAppending] /\ incidents' = incidents
      /\ writer[w].stage = "built"
  BY DEF WriteLine
<1>2. LedgerTyped /\ UndisturbedInTurn /\ UntornAllReadable
  BY DEF LedgerInv
<1>3. writer[w] # NotAppending /\ entry \in LedgerEntries /\ line \in LedgerLines
  BY <1>1, <1>2 DEF LedgerTyped, Builders, NotAppending, LedgerLines
<1>4. /\ lines' \in Seq(LedgerLines) /\ lines' # <<>>
      /\ Len(lines') = IF terminated THEN Len(lines) + 1 ELSE Len(lines)
      /\ terminated => /\ \A i \in 1 .. Len(lines) : lines'[i] = lines[i]
                       /\ lines'[Len(lines) + 1] = line
      /\ ~terminated => Len(lines) \in 1 .. Len(lines) /\ ~lines'[Len(lines)].readable
  BY <1>1, <1>2, <1>3, Written
<1>5. LedgerTyped'
  BY <1>1, <1>2, <1>4 DEF LedgerTyped
<1>6. UndisturbedInTurn'
  <2> SUFFICES ASSUME incidents \subseteq {"crash"} PROVE InTurn'
    BY <1>1 DEF UndisturbedInTurn
  <2>1. InTurn
    BY <1>2 DEF UndisturbedInTurn
  <2> QED
    BY <1>1, <1>2, <1>3, <2>1, WrittenInTurn
<1>7. Len(lines) \in Nat /\ DOMAIN lines = 1 .. Len(lines)
  BY <1>2 DEF LedgerTyped
<1>8. UntornAllReadable'
  <2> SUFFICES ASSUME incidents = {} PROVE \A i \in DOMAIN lines' : lines'[i].readable
    BY <1>1 DEF UntornAllReadable
  <2>1. terminated /\ \A i \in 1 .. Len(lines) : lines[i].readable
    BY <1>2, <1>7 DEF UntornAllReadable
  <2>2. \A i \in DOMAIN lines' : i \in 1 .. Len(lines) \/ i = Len(lines) + 1
    BY <1>4, <1>7, <2>1
  <2>3. line.readable
    OBVIOUS
  <2> QED
    BY <1>4, <2>1, <2>2, <2>3
<1>9. /\ incidents \cap {"line_lost", "tail_lost"} = {} =>
           \A a \in acknowledged :
             \/ \E i \in DOMAIN lines' : EntryDigest(lines'[i].entry) = a.entry_digest
             \/ \E i \in DOMAIN lines' : ~lines'[i].readable
      /\ ("line_lost" \in incidents /\ incidents \cap {"race", "past_limit"} = {}) =>
           \E i \in DOMAIN lines' : lines'[i].entry.sequence # i - 1
      /\ incidents = {} => /\ Len(pages') <= Len(lines')
                           /\ \A i \in DOMAIN pages' : pages'[i] = lines'[i].entry
  BY <1>1, <1>3, WrittenKeeps
<1>10. \/ \E i \in DOMAIN lines' : EntryDigest(lines'[i].entry) = AppendResult(entry).entry_digest
       \/ \E i \in DOMAIN lines' : ~lines'[i].readable
  <2>1. CASE terminated
    <3>1. Len(lines) + 1 \in DOMAIN lines' /\ lines'[Len(lines) + 1].entry = entry
      BY <1>4, <1>7, <2>1
    <3> QED
      BY <3>1 DEF AppendResult
  <2>2. CASE ~terminated
    BY <1>4, <1>7, <2>2
  <2> QED
    BY <2>1, <2>2
<1>11. ThereOrTorn' /\ LossShows' /\ PagesAreRead'
  BY <1>1, <1>9, <1>10 DEF ThereOrTorn, LossShows, PagesAreRead
<1> QED
  BY <1>5, <1>6, <1>8, <1>11 DEF LedgerInv

(* A crash leaves nothing of the line, a part of it, or all but its end.   *)
LEMMA CrashStep ==
  ASSUME LedgerInv, NEW w \in Writers, CrashAppending(w)
  PROVE  LedgerInv'
<1> DEFINE entry == writer[w].entry
<1>1. /\ writer[w].stage = "built" /\ pages' = pages /\ acknowledged' = acknowledged
      /\ writer' = [writer EXCEPT ![w] = NotAppending] /\ incidents' = incidents \cup {"crash"}
      /\ \/ lines' = lines /\ terminated' = terminated
         \/ /\ terminated' = FALSE
            /\ \E whole \in BOOLEAN :
                 lines' = WithLine([entry |-> entry, readable |-> whole])
  BY DEF CrashAppending
<1>2. LedgerTyped /\ UndisturbedInTurn /\ ThereOrTorn /\ LossShows
  BY DEF LedgerInv
<1>3. writer[w] # NotAppending /\ entry \in LedgerEntries
  BY <1>1, <1>2 DEF LedgerTyped, Builders, NotAppending
<1>4. /\ writer' \in [Writers -> {NotAppending} \cup Builders]
      /\ incidents' \subseteq {"race", "past_limit", "crash", "line_lost", "tail_lost"}
      /\ incidents' # {}
  BY <1>1, <1>2 DEF LedgerTyped
<1>5. UntornAllReadable' /\ PagesAreRead'
  BY <1>4 DEF UntornAllReadable, PagesAreRead
<1>6. CASE lines' = lines /\ terminated' = terminated
  <2>1. LedgerTyped'
    BY <1>1, <1>2, <1>4, <1>6 DEF LedgerTyped
  <2>2. UndisturbedInTurn'
    <3> SUFFICES ASSUME (incidents \subseteq {"crash"})' PROVE InTurn'
      BY DEF UndisturbedInTurn
    <3>1. InTurn
      BY <1>1, <1>2 DEF UndisturbedInTurn
    <3>2. \A v \in Writers : writer'[v] # NotAppending => v # w /\ writer[v] = writer'[v]
      BY <1>1, <1>2 DEF LedgerTyped
    <3> QED
      BY <1>6, <3>1, <3>2 DEF InTurn, Follows
  <2>3. ThereOrTorn' /\ LossShows'
    BY <1>1, <1>2, <1>6 DEF ThereOrTorn, LossShows
  <2> QED
    BY <1>5, <2>1, <2>2, <2>3 DEF LedgerInv
<1>7. ASSUME NEW whole \in BOOLEAN, terminated' = FALSE,
             lines' = WithLine([entry |-> entry, readable |-> whole])
      PROVE  LedgerInv'
  <2>1. [entry |-> entry, readable |-> whole] \in LedgerLines
    BY <1>3 DEF LedgerLines
  <2>2. lines' \in Seq(LedgerLines) /\ lines' # <<>>
    BY <1>2, <1>7, <2>1, Written
  <2>3. LedgerTyped'
    BY <1>1, <1>2, <1>4, <1>7, <2>2 DEF LedgerTyped
  <2>4. UndisturbedInTurn'
    <3> SUFFICES ASSUME (incidents \subseteq {"crash"})' PROVE InTurn'
      BY DEF UndisturbedInTurn
    <3>1. InTurn
      BY <1>1, <1>2 DEF UndisturbedInTurn
    <3> QED
      BY <1>1, <1>2, <1>3, <1>7, <3>1, WrittenInTurn
  <2>5. /\ incidents \cap {"line_lost", "tail_lost"} = {} =>
             \A a \in acknowledged :
               \/ \E i \in DOMAIN lines' : EntryDigest(lines'[i].entry) = a.entry_digest
               \/ \E i \in DOMAIN lines' : ~lines'[i].readable
        /\ ("line_lost" \in incidents /\ incidents \cap {"race", "past_limit"} = {}) =>
             \E i \in DOMAIN lines' : lines'[i].entry.sequence # i - 1
    BY <1>1, <1>3, <1>7, WrittenKeeps
  <2>6. ThereOrTorn' /\ LossShows'
    BY <1>1, <2>5 DEF ThereOrTorn, LossShows
  <2> QED
    BY <1>5, <2>3, <2>4, <2>6 DEF LedgerInv
<1> QED
  BY <1>1, <1>6, <1>7

(* A line lost from the middle shows in the one that takes its place.      *)
LEMMA LoseStep ==
  ASSUME LedgerInv, NEW i \in DOMAIN lines, LoseLine(i)
  PROVE  LedgerInv'
<1>1. /\ incidents \cap {"line_lost", "tail_lost"} = {}
      /\ lines' = SubSeq(lines, 1, i - 1) \o SubSeq(lines, i + 1, Len(lines))
      /\ terminated' = (terminated \/ i = Len(lines))
      /\ incidents' = incidents \cup Overtaking
                      \cup {IF i = Len(lines) THEN "tail_lost" ELSE "line_lost"}
      /\ writer' = writer /\ pages' = pages /\ acknowledged' = acknowledged
  BY DEF LoseLine
<1>2. LedgerTyped /\ UndisturbedInTurn
  BY DEF LedgerInv
<1>3. /\ lines' \in Seq(LedgerLines) /\ Len(lines') = Len(lines) - 1
      /\ \A k \in 1 .. Len(lines') : lines'[k] = IF k < i THEN lines[k] ELSE lines[k + 1]
  BY <1>1, <1>2, Lost
<1>4. Len(lines) \in Nat /\ i \in 1 .. Len(lines) /\ DOMAIN lines = 1 .. Len(lines)
      /\ DOMAIN lines' = 1 .. Len(lines')
  BY <1>2, <1>3 DEF LedgerTyped
<1>5. LedgerTyped'
  <2>1. incidents' \subseteq {"race", "past_limit", "crash", "line_lost", "tail_lost"}
    BY <1>1, <1>2 DEF LedgerTyped, Overtaking
  <2>2. terminated' \in BOOLEAN /\ (~terminated' => i # Len(lines))
    BY <1>1, <1>2 DEF LedgerTyped
  <2>3. ~terminated' => lines' # <<>>
    BY <1>3, <1>4, <2>2
  <2> QED
    BY <1>1, <1>2, <1>3, <2>1, <2>2, <2>3 DEF LedgerTyped
<1>6. "line_lost" \in incidents' \/ "tail_lost" \in incidents'
  BY <1>1
<1>7. UndisturbedInTurn' /\ UntornAllReadable' /\ ThereOrTorn' /\ PagesAreRead'
  BY <1>6 DEF UndisturbedInTurn, UntornAllReadable, ThereOrTorn, PagesAreRead
<1>8. LossShows'
  <2> SUFFICES ASSUME "line_lost" \in incidents', incidents' \cap {"race", "past_limit"} = {}
               PROVE  \E k \in DOMAIN lines' : lines'[k].entry.sequence # k - 1
    BY DEF LossShows
  <2>1. i # Len(lines)
    BY <1>1 DEF Overtaking
  <2>2. incidents \subseteq {"crash"}
    BY <1>1, <1>2 DEF LedgerTyped
  <2>3. Follows(lines, lines[i + 1].entry, i)
    <3>1. i + 1 \in DOMAIN lines /\ (i + 1) - 1 = i
      BY <1>4, <2>1
    <3> QED
      BY <1>2, <2>2, <3>1 DEF UndisturbedInTurn, InTurn
  <2>4. i \in DOMAIN lines' /\ lines'[i] = lines[i + 1]
    BY <1>3, <1>4, <2>1
  <2>5. lines'[i].entry.sequence = i /\ i # i - 1
    BY <1>4, <2>3, <2>4 DEF Follows
  <2> QED
    BY <2>4, <2>5
<1> QED
  BY <1>5, <1>7, <1>8 DEF LedgerInv

(* A page goes on where the pages before it ended.                         *)
LEMMA PageStep ==
  ASSUME LedgerInv, NEW limit \in PageLimits, ReadPage(limit)
  PROVE  LedgerInv'
<1> DEFINE after == IF pages = <<>> THEN NoId ELSE EntryId(pages[Len(pages)])
           page == EntriesAfter(after, limit)
           m == Len(pages)
           u == Until(after, limit)
<1>1. /\ incidents = {} /\ incidents' = incidents /\ pages' = pages \o page
      /\ lines' = lines /\ terminated' = terminated /\ writer' = writer
      /\ acknowledged' = acknowledged
  BY DEF ReadPage
<1>2. LedgerTyped /\ UndisturbedInTurn /\ UntornAllReadable /\ ThereOrTorn /\ LossShows
      /\ PagesAreRead
  BY DEF LedgerInv
<1>3. /\ Len(lines) \in Nat /\ DOMAIN lines = 1 .. Len(lines)
      /\ \A k \in 1 .. Len(lines) :
           /\ lines[k] \in LedgerLines
           /\ lines[k].entry.sequence = k - 1 /\ lines[k].readable
  <2>1. lines \in Seq(LedgerLines) /\ InTurn
    BY <1>1, <1>2 DEF LedgerTyped, UndisturbedInTurn
  <2>2. \A k \in DOMAIN lines : lines[k].readable
    BY <1>1, <1>2 DEF UntornAllReadable
  <2> QED
    BY <2>1, <2>2 DEF InTurn, Follows
<1>4. /\ m \in Nat /\ m <= Len(lines) /\ pages \in Seq(LedgerEntries)
      /\ DOMAIN pages = 1 .. m /\ \A k \in 1 .. m : pages[k] = lines[k].entry
  <2>1. pages \in Seq(LedgerEntries)
    BY <1>2 DEF LedgerTyped
  <2> QED
    BY <1>1, <1>2, <2>1 DEF PagesAreRead
<1>5. after = m
  <2>1. CASE pages = <<>>
    BY <2>1 DEF NoId
  <2>2. CASE pages # <<>>
    <3>1. m \in 1 .. m /\ pages[m].sequence = m - 1
      BY <1>3, <1>4, <2>2
    <3> QED
      BY <1>4, <2>2, <3>1 DEF EntryId
  <2> QED
    BY <2>1, <2>2
<1> HIDE DEF m
<1>6. After(m) = m
  <2>1. CASE m = 0
    BY <2>1 DEF After, NoId
  <2>2. CASE m # 0
    <3> DEFINE at == {k \in DOMAIN lines : lines[k].readable /\ EntryId(lines[k].entry) = m}
    <3>1. m \in DOMAIN lines /\ \A k \in DOMAIN lines : EntryId(lines[k].entry) = k
      BY <1>3, <1>4, <2>2 DEF EntryId
    <3>2. at = {m}
      BY <1>3, <3>1
    <3>3. After(m) = IF at = {} THEN Len(lines) ELSE CHOOSE k \in at : \A j \in at : k <= j
      BY <2>2 DEF After, NoId
    <3> HIDE DEF at
    <3>4. \A k \in at : k = m /\ m <= m
      BY <1>4, <3>2
    <3> QED
      BY <1>4, <3>2, <3>3, <3>4
  <2> QED
    BY <2>1, <2>2
<1>7. limit \in Nat
  BY LedgerAssumption
<1>8. u \in m .. Len(lines) /\ page = [k \in 1 .. u - m |-> lines[m + k].entry]
  <2>1. After(after) = m /\ u = IF m + limit < Len(lines) THEN m + limit ELSE Len(lines)
    BY <1>5, <1>6 DEF Until
  <2>2. u \in m .. Len(lines)
    BY <1>3, <1>4, <1>7, <2>1
  <2> QED
    BY <2>1, <2>2 DEF EntriesAfter
<1> HIDE DEF u, page, after
<1>9. /\ page \in Seq(LedgerEntries) /\ Len(page) = u - m
      /\ \A k \in 1 .. u - m : page[k] = lines[m + k].entry
  <2>1. \A k \in 1 .. u - m : m + k \in 1 .. Len(lines)
    BY <1>3, <1>4, <1>8
  <2>2. \A k \in 1 .. u - m : lines[m + k].entry \in LedgerEntries
    BY <1>3, <2>1 DEF LedgerLines
  <2>3. u - m \in Nat
    BY <1>4, <1>8
  <2> QED
    BY <1>8, <2>2, <2>3
<1>10. /\ pages' \in Seq(LedgerEntries) /\ Len(pages') = m + (u - m)
       /\ \A k \in 1 .. m + (u - m) : pages'[k] = IF k <= m THEN pages[k] ELSE page[k - m]
  <2>1. /\ pages \o page \in Seq(LedgerEntries)
        /\ Len(pages \o page) = Len(pages) + Len(page)
        /\ \A k \in 1 .. Len(pages) + Len(page) :
             (pages \o page)[k] = IF k <= Len(pages) THEN pages[k] ELSE page[k - Len(pages)]
    BY <1>4, <1>9, ConcatProperties
  <2>2. Len(pages) = m /\ Len(page) = u - m
    BY <1>9 DEF m
  <2> QED
    BY <1>1, <2>1, <2>2
<1>11. m + (u - m) = u
  BY <1>4, <1>8
<1>12. ASSUME NEW k \in 1 .. u
       PROVE  pages'[k] = lines[k].entry
  <2>1. CASE k <= m
    BY <1>4, <1>10, <1>11, <2>1
  <2>2. CASE ~(k <= m)
    <3> DEFINE j == k - m
    <3>1. j \in 1 .. u - m /\ m + j = k
      BY <1>4, <1>8, <2>2
    <3>2. pages'[k] = page[j]
      BY <1>10, <1>11, <2>2
    <3> HIDE DEF j
    <3> QED
      BY <1>9, <3>1, <3>2
  <2> QED
    BY <2>1, <2>2
<1>13. DOMAIN pages' = 1 .. u /\ Len(pages') = u /\ u <= Len(lines)
  BY <1>3, <1>4, <1>8, <1>10, <1>11
<1>14. PagesAreRead'
  BY <1>1, <1>12, <1>13 DEF PagesAreRead
<1>15. LedgerTyped'
  BY <1>1, <1>2, <1>10 DEF LedgerTyped
<1>16. UndisturbedInTurn' /\ UntornAllReadable' /\ ThereOrTorn' /\ LossShows'
  BY <1>1, <1>2 DEF UndisturbedInTurn, InTurn, UntornAllReadable, ThereOrTorn, LossShows
<1> QED
  BY <1>14, <1>15, <1>16 DEF LedgerInv

(* An empty ledger is in turn. *)
LEMMA LedgerStart == LedgerInit => LedgerInv
<1> SUFFICES ASSUME LedgerInit PROVE LedgerInv
  OBVIOUS
<1>1. /\ lines = <<>> /\ terminated = TRUE /\ writer = [w \in Writers |-> NotAppending]
      /\ pages = <<>> /\ acknowledged = {} /\ incidents = {}
  BY DEF LedgerInit
<1>2. LedgerTyped
  BY <1>1 DEF LedgerTyped
<1>3. UndisturbedInTurn /\ UntornAllReadable /\ ThereOrTorn /\ LossShows /\ PagesAreRead
  BY <1>1 DEF UndisturbedInTurn, InTurn, UntornAllReadable, ThereOrTorn, LossShows, PagesAreRead
<1> QED
  BY <1>2, <1>3 DEF LedgerInv

(* What the ledger keeps, whatever writers race and whatever is torn or    *)
(* lost: a chain in turn while nothing disturbed it, and afterwards a      *)
(* trace of what did (append, read).                                       *)
THEOREM LedgerInvariant == LedgerSpec => []LedgerInv
<1>1. LedgerInv /\ [LedgerNext]_ledgerVars => LedgerInv'
  <2> SUFFICES ASSUME LedgerInv, [LedgerNext]_ledgerVars PROVE LedgerInv'
    OBVIOUS
  <2>1. CASE UNCHANGED ledgerVars
    BY <2>1 DEF ledgerVars, LedgerInv, LedgerTyped, UndisturbedInTurn, InTurn, UntornAllReadable,
                ThereOrTorn, LossShows, PagesAreRead
  <2>2. CASE LedgerNext
    BY <2>2, ReadStep, WriteStep, CrashStep, LoseStep, PageStep DEF LedgerNext
  <2> QED
    BY <2>1, <2>2
<1> QED
  BY <1>1, LedgerStart, PTL DEF LedgerSpec
-----------------------------------------------------------------------------
(* The least of a nonempty set of indices: the intervals below them,       *)
(* ordered by inclusion, have a smallest one.                              *)
LEMMA LeastIndex ==
  ASSUME NEW n \in Nat, NEW S, S \subseteq 1 .. n, S # {}
  PROVE  \E k \in S : \A j \in S : k <= j
<1> DEFINE below == {1 .. i : i \in S}
<1>1. ASSUME NEW i \in S PROVE IsFiniteSet(1 .. i) /\ 1 .. i \in SUBSET (1 .. n)
  <2>1. i \in 1 .. n
    OBVIOUS
  <2> QED
    BY <2>1, FS_Interval
<1>2. below \subseteq FiniteSubsetsOf(1 .. n) /\ below # {}
  BY <1>1 DEF FiniteSubsetsOf
<1> HIDE DEF below
<1>3. PICK x \in below : \A y \in below : ~(<<y, x>> \in StrictSubsetOrdering(1 .. n))
  BY <1>2, FS_StrictSubsetOrderingWellFounded, WFMin
<1> USE DEF below
<1>4. PICK k \in S : x = 1 .. k
  OBVIOUS
<1>5. ASSUME NEW j \in S, j < k PROVE FALSE
  <2>1. j \in 1 .. n /\ k \in 1 .. n
    OBVIOUS
  <2>2. 1 .. j \subseteq 1 .. k /\ k \in 1 .. k /\ k \notin 1 .. j
    BY <1>5, <2>1
  <2>3. ~(<<1 .. j, 1 .. k>> \in StrictSubsetOrdering(1 .. n))
    BY <1>3, <1>4
  <2> QED
    BY <1>1, <2>2, <2>3 DEF StrictSubsetOrdering
<1>6. \A j \in S : k <= j
  BY <1>5
<1> QED
  BY <1>6

(* In a chain the digest of the i-th entry is a chain of i.                *)
LEMMA DigestsGrow ==
  ASSUME LedgerTyped, \A i \in DOMAIN lines : Follows(lines, lines[i].entry, i - 1)
  PROVE  \A i \in DOMAIN lines : Len(EntryDigest(lines[i].entry)) = i
<1> DEFINE S == {i \in DOMAIN lines : Len(EntryDigest(lines[i].entry)) # i}
<1> SUFFICES ASSUME S # {} PROVE FALSE
  OBVIOUS
<1>1. Len(lines) \in Nat /\ DOMAIN lines = 1 .. Len(lines) /\ lines \in Seq(LedgerLines)
  BY DEF LedgerTyped
<1>2. PICK k \in S : \A j \in S : k <= j
  <2>1. S \subseteq 1 .. Len(lines)
    BY <1>1
  <2> HIDE DEF S
  <2> QED
    BY <1>1, <2>1, LeastIndex
<1>3. k \in 1 .. Len(lines) /\ k - 1 \notin S /\ Len(EntryDigest(lines[k].entry)) # k
  BY <1>1, <1>2
<1>4. lines[k].entry \in LedgerEntries /\ Follows(lines, lines[k].entry, k - 1)
  <2>1. lines[k] \in LedgerLines
    BY <1>1, <1>3
  <2> QED
    BY <1>1, <1>3, <2>1 DEF LedgerLines
<1>5. Len(lines[k].entry.previous) = k - 1
  <2>1. CASE k = 1
    BY <1>4, <2>1 DEF Follows, NoDigest
  <2>2. CASE k # 1
    <3>1. k - 1 \in DOMAIN lines /\ k - 1 # 0
      BY <1>1, <1>3, <2>2
    <3>2. Len(EntryDigest(lines[k - 1].entry)) = k - 1
      BY <1>3, <3>1
    <3> QED
      BY <1>4, <3>1, <3>2 DEF Follows
  <2> QED
    BY <2>1, <2>2
<1>6. Len(EntryDigest(lines[k].entry)) = (k - 1) + 1
  BY <1>4, <1>5, DigestIsChain
<1> QED
  BY <1>1, <1>3, <1>6

(* A file verifies when it is read in full and is a chain.                 *)
LEMMA VerifiedExactly ==
  ASSUME LedgerTyped
  PROVE  Verified <=> /\ lines # <<>> /\ \A i \in DOMAIN lines : lines[i].readable
                      /\ \A i \in DOMAIN lines : Follows(lines, lines[i].entry, i - 1)
<1> DEFINE n == Len(lines)
           entries == Entries(n)
           broken == {i \in DOMAIN entries : OutOfSequence(entries, i) \/ Unlinked(entries, i)}
<1>1. n \in Nat /\ DOMAIN lines = 1 .. n /\ (lines # <<>> <=> n # 0)
  BY DEF LedgerTyped
<1>2. /\ entries = [i \in 1 .. n |-> lines[i].entry] /\ entries \in Seq(LedgerEntries)
      /\ Len(entries) = n
      /\ Readable(n) <=> \A i \in 1 .. n : lines[i].readable
  <2>1. (IF n < Len(lines) THEN n ELSE Len(lines)) = n
    BY <1>1
  <2> QED
    BY <1>1, <2>1, ReadFromStart
<1> HIDE DEF n, entries
<1>3. ASSUME NEW i \in 1 .. n
      PROVE  (OutOfSequence(entries, i) \/ Unlinked(entries, i))
               <=> ~Follows(lines, lines[i].entry, i - 1)
  <2> DEFINE s == SubSeq(entries, 1, i - 1)
  <2>1. entries[i] = lines[i].entry /\ i - 1 \in Nat /\ i - 1 <= n
    BY <1>1, <1>2
  <2>2. s \in Seq(LedgerEntries) /\ Len(s) = i - 1 /\ \A k \in 1 .. i - 1 : s[k] = entries[k]
    <3>1. \A k \in 1 .. i - 1 : entries[k] \in LedgerEntries
      BY <1>1, <1>2
    <3>2. /\ s \in Seq(LedgerEntries)
          /\ Len(s) = IF 1 <= i - 1 THEN i - 1 - 1 + 1 ELSE 0
          /\ \A k \in 1 .. i - 1 - 1 + 1 : s[k] = entries[1 + k - 1]
      BY <2>1, <3>1, SubSeqProperties
    <3> HIDE DEF s
    <3> QED
      BY <2>1, <3>2
  <2> HIDE DEF s
  <2>3. LastDigest(s) = IF i - 1 = 0 THEN NoDigest ELSE EntryDigest(lines[i - 1].entry)
    <3>1. CASE i - 1 = 0
      BY <2>2, <3>1 DEF LastDigest
    <3>2. CASE i - 1 # 0
      <4>1. i - 1 \in 1 .. i - 1 /\ i - 1 \in 1 .. n /\ s # <<>>
        BY <1>1, <2>1, <2>2, <3>2
      <4>2. s[Len(s)] = entries[i - 1] /\ entries[i - 1] = lines[i - 1].entry
        BY <1>2, <2>2, <4>1
      <4> QED
        BY <3>2, <4>1, <4>2 DEF LastDigest
    <3> QED
      BY <3>1, <3>2
  <2> QED
    BY <2>1, <2>3 DEF OutOfSequence, Unlinked, Follows, s
<1>4. broken = {} <=> \A i \in 1 .. n : Follows(lines, lines[i].entry, i - 1)
  BY <1>2, <1>3
<1>5. \A status, reason, e :
        VerificationResult(status, reason, e).verified <=> (status = "verified")
  BY DEF VerificationResult
<1>6. n # 0 => (Verify(entries).verified <=> broken = {})
  <2> SUFFICES ASSUME n # 0 PROVE Verify(entries).verified <=> broken = {}
    OBVIOUS
  <2>1. entries # <<>>
    BY <1>2
  <2>3. CASE broken = {}
    <3>1. Verify(entries) = VerificationResult("verified", "verified", entries)
      BY <2>1, <2>3 DEF Verify
    <3> QED
      BY <1>5, <2>3, <3>1
  <2>4. CASE broken # {}
    <3>1. \E reason : Verify(entries) = Failed(reason, entries)
      BY <2>1, <2>4 DEF Verify
    <3> QED
      BY <1>5, <2>4, <3>1 DEF Failed
  <2> QED
    BY <2>3, <2>4
<1>7. Verified <=> n # 0 /\ Readable(n) /\ Verify(entries).verified
  <2>1. \A reason, e : ~Failed(reason, e).verified
    BY <1>5 DEF Failed
  <2>2. (n < 1 <=> n = 0) /\ (Verified <=> VerifyFile(n).verified)
    BY <1>1 DEF Verified, n
  <2> QED
    BY <2>1, <2>2 DEF VerifyFile, entries
<1> QED
  BY <1>1, <1>2, <1>4, <1>6, <1>7

(* A ledger appended to in turn, within the read limit, verifies, and what *)
(* a host paged through is its beginning (append, read).                   *)
THEOREM ShortLedgersReadBack == LedgerSpec => []ShortLedgerReadsBack
<1>1. ASSUME LedgerInv, incidents = {}
      PROVE  (lines # <<>> => Verified) /\ pages = Entries(Len(pages))
  <2>1. LedgerTyped /\ InTurn /\ \A i \in DOMAIN lines : lines[i].readable
    BY <1>1 DEF LedgerInv, UndisturbedInTurn, UntornAllReadable
  <2>2. lines # <<>> => Verified
    BY <2>1, VerifiedExactly DEF InTurn
  <2>3. /\ Len(pages) \in Nat /\ Len(lines) \in Nat /\ Len(pages) <= Len(lines)
        /\ pages = [i \in 1 .. Len(pages) |-> pages[i]]
        /\ \A i \in 1 .. Len(pages) : pages[i] = lines[i].entry
    BY <1>1, <2>1 DEF LedgerInv, PagesAreRead, LedgerTyped
  <2>4. Entries(Len(pages)) = [i \in 1 .. Len(pages) |-> lines[i].entry]
    <3>1. (IF Len(pages) < Len(lines) THEN Len(pages) ELSE Len(lines)) = Len(pages)
      BY <2>3
    <3> QED
      BY <2>1, <2>3, <3>1, ReadFromStart
  <2> QED
    BY <2>2, <2>3, <2>4
<1>2. LedgerInv => ShortLedgerReadsBack
  BY <1>1 DEF ShortLedgerReadsBack
<1> QED
  BY <1>2, LedgerInvariant, PTL

(* A ledger that verifies in full holds every acknowledged record, once    *)
(* (append, verify).                                                       *)
THEOREM VerifiedHoldsAll == LedgerSpec => []VerifiedLedgerHoldsEveryRecord
<1>1. ASSUME LedgerInv, Verified, "tail_lost" \notin incidents,
             "line_lost" \in incidents => incidents \cap {"race", "past_limit"} = {},
             NEW a \in acknowledged
      PROVE  Cardinality({i \in DOMAIN lines : EntryDigest(lines[i].entry) = a.entry_digest}) = 1
  <2> DEFINE its == {i \in DOMAIN lines : EntryDigest(lines[i].entry) = a.entry_digest}
  <2>1. /\ LedgerTyped /\ \A i \in DOMAIN lines : lines[i].readable
        /\ \A i \in DOMAIN lines : Follows(lines, lines[i].entry, i - 1)
    BY <1>1, VerifiedExactly DEF LedgerInv
  <2>2. "line_lost" \notin incidents
    BY <1>1, <2>1 DEF LedgerInv, LossShows, Follows
  <2>3. PICK i \in DOMAIN lines : EntryDigest(lines[i].entry) = a.entry_digest
    BY <1>1, <2>1, <2>2 DEF LedgerInv, ThereOrTorn
  <2>4. ASSUME NEW k \in its PROVE k = i
    <3>1. /\ k \in DOMAIN lines
          /\ Len(EntryDigest(lines[k].entry)) = Len(EntryDigest(lines[i].entry))
      BY <2>3
    <3> QED
      BY <2>1, <3>1, DigestsGrow
  <2>5. its = {i}
    BY <2>3, <2>4
  <2> QED
    BY <2>5, FS_Singleton
<1>2. LedgerInv => VerifiedLedgerHoldsEveryRecord
  BY <1>1 DEF VerifiedLedgerHoldsEveryRecord
<1> QED
  BY <1>2, LedgerInvariant, PTL
=============================================================================
