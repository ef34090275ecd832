----------------------------- MODULE ChildPlanning -----------------------------
(***************************************************************************)
(* A host that starts child operations from one that closed.  Proposers -  *)
(* reactions and a language model - have a child admitted as the chain     *)
(* stands; the host starts it later, when other children were started, the *)
(* limits were lowered or the parent moved on.  The chain is the host's    *)
(* (external); the gate is PlanningAdmission's.                            *)
(***************************************************************************)
EXTENDS Naturals, PlanningAdmission

CONSTANTS
  Proposers,
  Limits,      \* [max_depth, max_children] of a chain
  IntentClasses, AllowedClasses

ASSUME LimitsAssumption == Limits \in [max_depth : Nat, max_children : Nat]

VARIABLES
  parent,     \* [status, depth, children] of the operation children are started from
  limits,     \* the limits in force
  proposal,   \* each proposer's child, with its admission, not yet started
  signed,     \* the children an operator approved
  started     \* history: the children started
chainVars == <<parent, limits, proposal, signed, started>>

ClosedStatuses == {"completed", "needs_followup"}
NoProposal == [child |-> Missing, admission |-> Missing]

ChildInit ==
  /\ parent = [status |-> "running", depth |-> 0, children |-> 0]
  /\ limits = Limits
  /\ proposal = [p \in Proposers |-> NoProposal]
  /\ signed = {} /\ started = {}

(* The operation children are started from closes; until then nothing is   *)
(* started (the step is composed with the operation's own in OperationChain). *)
CloseParent ==
  /\ parent.status = "running"
  /\ parent' = [parent EXCEPT !.status = "completed"]
  /\ UNCHANGED <<limits, proposal, signed, started>>

(* What is asked for a child as the chain stands. *)
RequestNow(p, child) ==
  AutomationRequest(
    [request_id |-> p, chain_id |-> "chain", parent_operation_id |-> parent.depth,
     parent_operation_ref |-> parent.depth, parent_intent |-> "inspect",
     parent_status |-> parent.status, child_operation_id |-> p, child_intent |-> child.class,
     child_intent_class |-> child.class, transition_reason |-> "followup",
     automation_chain_ref |-> "chain", source |-> child.source, llm_proposed |-> child.flagged,
     depth |-> parent.depth + 1, max_depth |-> limits.max_depth,
     child_sequence |-> parent.children + 1, max_children |-> limits.max_children,
     allowed_child_intent_classes |-> AllowedClasses,
     approval_ref |-> IF child \in signed THEN "approval" ELSE Missing])

Propose(p, child) ==
  /\ proposal[p] = NoProposal
  /\ RequestNow(p, child) # Raised
  /\ proposal' = [proposal EXCEPT ![p] =
                    [child |-> child, admission |-> AdmitAutomation(RequestNow(p, child))]]
  /\ UNCHANGED <<parent, limits, signed, started>>

(* An operator approves a child whose explanation names approval as the    *)
(* gate in its way; the child is then proposed again.                      *)
ApproveChild(p) ==
  /\ proposal[p] # NoProposal
  /\ proposal[p].child \notin signed
  /\ RequestNow(p, proposal[p].child) # Raised
  /\ ExplainAutomation(RequestNow(p, proposal[p].child)).evaluation_path = "approval"
  /\ signed' = signed \cup {proposal[p].child}
  /\ UNCHANGED <<parent, limits, proposal, started>>

Admitted(p) ==
  LET now == RequestNow(p, proposal[p].child)
  IN  /\ now # Raised
      /\ AutomationAdmission(proposal[p].admission, now) # Raised
      /\ proposal[p].admission.outcome = "allowed"

Start(p) ==
  /\ proposal[p] # NoProposal /\ Admitted(p)
  /\ parent' = [parent EXCEPT !.children = @ + 1]
  /\ started' = started \cup {proposal[p].child}
  /\ proposal' = [proposal EXCEPT ![p] = NoProposal]
  /\ UNCHANGED <<limits, signed>>

Drop(p) ==
  /\ proposal[p] # NoProposal /\ ~Admitted(p)
  /\ proposal' = [proposal EXCEPT ![p] = NoProposal]
  /\ UNCHANGED <<parent, limits, signed, started>>

(* The limits are lowered. *)
Tighten ==
  /\ limits.max_children > 1
  /\ limits' = [limits EXCEPT !.max_children = @ - 1]
  /\ UNCHANGED <<parent, proposal, signed, started>>

(* The parent turns out to need more, or one of its children closes and is *)
(* the parent from then on (bound: one level below the deepest allowed).   *)
Follow(status) ==
  /\ parent.status \in ClosedStatuses
  /\ \/ status # parent.status /\ parent' = [parent EXCEPT !.status = status]
     \/ /\ parent.children > 0 /\ parent.depth <= limits.max_depth
        /\ parent' = [status |-> status, depth |-> parent.depth + 1, children |-> 0]
  /\ UNCHANGED <<limits, proposal, signed, started>>

Children(p) ==
  [source : IF p = "model" THEN {"llm_proposal"} ELSE {"reaction"},
   flagged : IF p = "model" THEN {FALSE} ELSE BOOLEAN, class : IntentClasses]

ChildNext ==
  \/ \E p \in Proposers :
       \/ \E child \in Children(p) : Propose(p, child)
       \/ ApproveChild(p) \/ Start(p) \/ Drop(p)
  \/ Tighten
  \/ \E status \in ClosedStatuses : Follow(status)
-----------------------------------------------------------------------------
(* Whatever was admitted earlier, no child is started beyond the limits in *)
(* force, of a class they do not allow, or from an operation that is still *)
(* running (admit_automation_transition,                                   *)
(* validate_automation_transition_admission).                              *)
ChainStaysWithinLimits ==
  [][parent'.children > parent.children =>
       /\ parent'.children <= limits.max_children
       /\ parent.depth + 1 <= limits.max_depth
       /\ parent.status \in ClosedStatuses
       /\ \A child \in started' \ started : child.class \in AllowedClasses]_chainVars

(* A child a language model proposed, or had a part in, is started only    *)
(* after an operator approved that child (admit_automation_transition).    *)
NoChildOnTheModelsWordAlone ==
  \A child \in started :
    (child.flagged \/ child.source = "llm_proposal") => child \in signed
=============================================================================
