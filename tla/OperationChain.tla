---------------------------- MODULE OperationChain ----------------------------
(***************************************************************************)
(* One operation from the event that asks for it to the children it is     *)
(* followed by: the event is planned from the inbox (EventInbox), the      *)
(* operation is carried through the artifact lifecycle                     *)
(* (ArtifactPipeline), and once it is closed children are started from it  *)
(* (ChildPlanning).                                                        *)
(***************************************************************************)
EXTENDS ArtifactPipeline, EventInbox, ChildPlanning

vars == <<pipelineVars, inboxVars, chainVars>>

Init == PipelineInit /\ InboxInit /\ ChildInit

Planned == event.state = "planned"
Running == Planned /\ parent.status = "running"
Closed == parent.status # "running"

(* A verified operation closes, and its artifacts leave the host's hands. *)
Close ==
  /\ Running /\ Canonical(stage) = "verified_lifecycle"
  /\ CloseParent
  /\ held' = <<>> /\ expected' = [role \in Roles |-> Missing] /\ ticket' = NoTicket
  /\ order' = ChangeOrder(<<>>) /\ changes' = 0 /\ approved' = {} /\ ran' = {}
  /\ UNCHANGED <<stage, inboxVars>>

Next ==
  \/ ~Planned /\ InboxNext /\ UNCHANGED <<pipelineVars, chainVars>>
  \/ Running /\ PipelineNext /\ UNCHANGED <<inboxVars, chainVars>>
  \/ Close
  \/ Closed /\ ChildNext /\ UNCHANGED <<pipelineVars, inboxVars>>

(* The host, the approver and whoever carries out change orders keep       *)
(* working on an operation that was planned; nothing is asked of the       *)
(* inbox, of the children, or of what changes and fails.  The host's part  *)
(* is weak fairness of HostStep, spelled with its guard.                   *)
Fairness ==
  /\ []<>~(Running /\ HostCanStep) \/ []<><<Running /\ HostStep>>_vars
  /\ WF_vars(Running /\ CarryOut /\ UNCHANGED <<inboxVars, chainVars>>)
  /\ WF_vars(Running /\ Approve /\ UNCHANGED <<inboxVars, chainVars>>)

Spec == Init /\ [][Next]_vars /\ Fairness
-----------------------------------------------------------------------------
(* A host that does what the gate and the index advise gets a planned      *)
(* operation verified, whatever changed on the way (                       *)
(* ArtifactLifecycleController.next_actions, ArtifactStateIndex.           *)
(* next_actions, change_order_for_conflicts).                              *)
AdviceLeadsToVerified == Planned ~> (Canonical(stage) = "verified_lifecycle")
=============================================================================
