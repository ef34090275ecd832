---------------------------- MODULE GovernedRun ----------------------------
(***************************************************************************)
(* The progression of one governed run (govengine/state_machine.py) under  *)
(* the control decisions of its controllers (govengine/control.py).        *)
(*                                                                         *)
(* Controllers are not modelled: any control decision may arrive at any    *)
(* time, late, twice or meant for another run.  A decision that claims a   *)
(* transition names it in the event it refers to.                          *)
(***************************************************************************)
EXTENDS Naturals, Sequences, FiniteSets

CONSTANTS
  RunId,      \* this run
  OtherRunId, \* the run of a misdirected decision
  Reasons,    \* reason codes beside "ok"
  MaxEvents   \* bound: transitions of the run

ASSUME ReasonAssumption == "ok" \notin Reasons
ASSUME EventBoundAssumption == MaxEvents \in Nat

RunStates ==
  {"new", "admitted", "policy_checked", "trust_checked", "gated", "running_dry_run",
   "receipt_recorded", "paused", "blocked", "completed"}

(* A plausible regression: a blocked run may go back to where it was. *)
AllowedTransitions_ResumeGated(from) ==
  CASE from = "new" -> {"admitted", "blocked"}
    [] from = "admitted" -> {"policy_checked", "blocked"}
    [] from = "policy_checked" -> {"trust_checked", "blocked"}
    [] from = "trust_checked" -> {"gated", "blocked"}
    [] from = "gated" -> {"running_dry_run", "paused", "blocked"}
    [] from = "running_dry_run" -> {"receipt_recorded", "paused", "blocked"}
    [] from = "receipt_recorded" -> {"completed", "blocked"}
    [] from = "paused" -> {"gated", "blocked"}
    [] from = "blocked" -> {"admitted", "gated"}
    [] OTHER -> {}

AllowedTransitions(from) ==
  CASE from = "new" -> {"admitted", "blocked"}
    [] from = "admitted" -> {"policy_checked", "blocked"}
    [] from = "policy_checked" -> {"trust_checked", "blocked"}
    [] from = "trust_checked" -> {"gated", "blocked"}
    [] from = "gated" -> {"running_dry_run", "paused", "blocked"}
    [] from = "running_dry_run" -> {"receipt_recorded", "paused", "blocked"}
    [] from = "receipt_recorded" -> {"completed", "blocked"}
    [] from = "paused" -> {"gated", "blocked"}
    [] from = "blocked" -> {"admitted"}
    [] OTHER -> {}

NoState == "unset"
MovingActions == {"advance_state", "pause", "block"}
RecordingActions == {"record_only", "request_profile_handoff"}

ControlDecisions ==
  [run_id : {RunId, OtherRunId}, action : MovingActions \cup RecordingActions,
   from_state : RunStates \cup {NoState}, to_state : RunStates \cup {NoState},
   reason_code : Reasons \cup {"ok"}, gate_decision : BOOLEAN]

VARIABLES
  run,    \* the GovRunState the host holds
  answer  \* what the last call did: applied, unchanged or raised

controlVars == <<run, answer>>

ControlInit ==
  /\ run = [state |-> "new", event_refs |-> <<>>, blockers |-> {}]
  /\ answer = "unchanged"

(* validate_state_transition. *)
ValidTransition(d) ==
  /\ d.from_state \in RunStates /\ d.to_state \in RunStates
  /\ d.to_state \in AllowedTransitions(d.from_state)
  /\ d.to_state = "running_dry_run" => d.gate_decision

(* validate_control_decision. *)
ValidControlDecision(d) ==
  IF d.action \in MovingActions
  THEN /\ d.action = "pause" => d.to_state = "paused"
       /\ d.action = "block" => d.to_state = "blocked"
       /\ ValidTransition(d)
  ELSE d.from_state = NoState /\ d.to_state = NoState

Event(d) == [from |-> d.from_state, to |-> d.to_state]

NewBlockers(d) ==
  IF d.to_state = "blocked" /\ d.reason_code # "ok" THEN {d.reason_code} ELSE {}

(* A plausible regression: the state a decision was made for is not        *)
(* compared with the state the run is in.                                  *)
Applies_FromAnyState(d) == ValidControlDecision(d) /\ d.run_id = RunId

Applies(d) ==
  /\ ValidControlDecision(d)
  /\ d.run_id = RunId
  /\ d.action \in MovingActions => d.from_state = run.state

(* apply_control_decision, with apply_state_transition. *)
ApplyControlDecision(d) ==
  /\ Len(run.event_refs) < MaxEvents
  /\ IF Applies(d) /\ d.action \in MovingActions
     THEN /\ run' = [state |-> d.to_state, event_refs |-> Append(run.event_refs, Event(d)),
                     blockers |-> run.blockers \cup NewBlockers(d)]
          /\ answer' = "applied"
     ELSE /\ run' = run
          /\ answer' = IF Applies(d) THEN "unchanged" ELSE "raised"

ControlNext == \E d \in ControlDecisions : ApplyControlDecision(d)

ControlSpec == ControlInit /\ [][ControlNext]_controlVars
-----------------------------------------------------------------------------
Events == [from : RunStates, to : RunStates]

(* Every variable has its type, and "ok" is never a blocker. *)
TypeOK ==
  /\ run.state \in RunStates
  /\ run.event_refs \in Seq(Events)
  /\ run.blockers \subseteq Reasons
  /\ answer \in {"applied", "unchanged", "raised"}

(* The events of a run explain its state: they start at "new", each leaves *)
(* the state the one before it entered, and the last entered the present   *)
(* state, however late or often decisions arrive (apply_state_transition). *)
EventLogExplainsState ==
  LET log == run.event_refs
  IN  /\ log = <<>> => run.state = "new"
      /\ log # <<>> => log[1].from = "new" /\ log[Len(log)].to = run.state
      /\ \A i \in 1 .. Len(log) - 1 : log[i + 1].from = log[i].to

(* The events before the i-th that no block separates from it. *)
SinceBlocked(log, i) ==
  {k \in 1 .. i - 1 : \A j \in k .. i - 1 : log[j].to # "blocked"}

(* Every dry run is entered from the gate, and since the run was last      *)
(* blocked it went through admission, policy, trust and gate: nothing      *)
(* checked before a block counts after it (ALLOWED_TRANSITIONS).           *)
RunsOnlyWhenGated ==
  \A i \in DOMAIN run.event_refs :
    run.event_refs[i].to = "running_dry_run" =>
      /\ run.event_refs[i].from = "gated"
      /\ \A s \in {"admitted", "policy_checked", "trust_checked", "gated"} :
           \E k \in SinceBlocked(run.event_refs, i) : run.event_refs[k].to = s

-----------------------------------------------------------------------------
(* The inductive invariant behind EventLogExplainsState and                *)
(* RunsOnlyWhenGated: what a run must have passed since it was last        *)
(* blocked to be where it is.                                              *)

NeededBy(state) ==
  CASE state \in {"new", "blocked"} -> {}
    [] state = "admitted" -> {"admitted"}
    [] state = "policy_checked" -> {"admitted", "policy_checked"}
    [] state = "trust_checked" -> {"admitted", "policy_checked", "trust_checked"}
    [] OTHER -> {"admitted", "policy_checked", "trust_checked", "gated"}

PassedSinceBlock(log, state) ==
  \E k \in DOMAIN log :
    log[k].to = state /\ \A j \in DOMAIN log : j >= k => log[j].to # "blocked"

GatesPassed == \A s \in NeededBy(run.state) : PassedSinceBlock(run.event_refs, s)

ControlInv == TypeOK /\ EventLogExplainsState /\ RunsOnlyWhenGated /\ GatesPassed
=============================================================================
