--------------------------- MODULE ArtifactPipeline ---------------------------
(***************************************************************************)
(* A host that carries one operation through the artifact lifecycle with   *)
(* the gates, the detector and the index of ArtifactLifecycle, while the   *)
(* artifacts it already holds are changed or found faulty.  The host does  *)
(* what it is advised to do and nothing else.                              *)
(*                                                                         *)
(* Each artifact binds the one before it.  A digest is the sequence of the *)
(* editions it was made of: its own is appended to the digest of its       *)
(* predecessor.  The plan of a contract is told by the contract's edition. *)
(***************************************************************************)
EXTENDS ArtifactLifecycle

CONSTANTS
  StageNames,     \* the names the host has for the stages, legacy ones among them
  TicketVersions, \* the ticket schema versions in use
  Changing, Failing, \* bound: the roles whose artifacts change, and are found faulty
  MaxEdition,  \* bound: how often one artifact is changed, plus one
  MaxChanges   \* bound: changes and faults of one operation

(* What is missing is no digest, and neither a role nor the version of its *)
(* artifact.                                                               *)
ASSUME MissingAssumption == Missing \notin Seq(Nat) \cup Roles \cup {"v0.2"}

VARIABLES
  stage,     \* where the lifecycle stands, as the host spells it
  held,      \* the artifact states of the host, by role
  expected,  \* the digest the host bound each role to
  ticket,    \* what the held execution ticket says
  order,     \* the change order being carried out; of its actions, what is left
  changes,   \* changes and faults so far
  approved,  \* history: the contracts, with their plans, an approver approved
  ran        \* history: the contracts and steps that were run
pipelineVars == <<stage, held, expected, ticket, order, changes, approved, ran>>

NoTicket == [schema_version |-> Missing, approval |-> Missing, max_runs |-> 0]

Plan(edition) == <<[tool |-> "probe", args |-> <<ToString(edition)>>]>>

Held(role) == role \in DOMAIN held
DigestOf(role) == held[role].descriptor.digest

TheContract ==
  [digest |-> DigestOf("execution_contract"), plan |-> Plan(Last(DigestOf("execution_contract")))]

TheTicket ==
  [digest |-> DigestOf("execution_ticket"), binds |-> Front(DigestOf("execution_ticket")),
   schema_version |-> ticket.schema_version, approval |-> ticket.approval,
   max_runs |-> ticket.max_runs]

Listed ==
  FlattenSeq([i \in DOMAIN ChainRoles |-> IF Held(ChainRoles[i]) THEN <<ChainRoles[i]>> ELSE <<>>])
IndexOver(listed) == StateIndex(listed, held, expected)
TheIndex == IndexOver(Listed)

(* What the host asks the index for: everything it bound before. *)
BoundRoles == {role \in Roles : expected[role] # Missing}

Pending == order.required_actions # <<>>

Advised == NextActions(stage, held) \cup IndexNextActions(TheIndex, BoundRoles)

(* What an artifact of this role and edition would be bound to now. *)
Rebound(role, edition) ==
  Append(IF Place(role) = 1 THEN <<>> ELSE DigestOf(ChainRoles[Place(role) - 1]), edition)

PredecessorHeld(role) == IF Place(role) = 1 THEN TRUE ELSE Held(ChainRoles[Place(role) - 1])

PipelineInit ==
  /\ stage = "missing" /\ held = <<>> /\ expected = [role \in Roles |-> Missing]
  /\ ticket = NoTicket /\ order = ChangeOrder(<<>>) /\ changes = 0 /\ approved = {} /\ ran = {}
-----------------------------------------------------------------------------
(* Making artifacts.                                                       *)

Placed(role, state) ==
  held' = [r \in DOMAIN held \cup {role} |-> IF r = role THEN state ELSE held[r]]

Enter(role, digest) ==
  /\ Placed(role, ArtifactStateForRole(role, digest, {}))
  /\ expected' = [expected EXCEPT ![role] = digest]

Wanted(role) ==
  /\ ~Held(role) /\ PredecessorHeld(role)
  /\ <<"provide_artifact", role>> \in Advised

(* An artifact is made from the one before it.  Evidence is recorded of a  *)
(* receipt that passes the ticket use gate.                                *)
CanProvide(role) ==
  /\ role \notin {"execution_ticket", "execution_receipt"}
  /\ Wanted(role)
  /\ role = "evidence_contract" =>
       /\ Held("execution_contract") /\ Held("execution_ticket")
       /\ TicketUseGate(TheTicket, TheContract, [digest |-> DigestOf("execution_receipt")]) # Raised

Provide(role) ==
  /\ CanProvide(role)
  /\ Enter(role, Rebound(role, 1))
  /\ UNCHANGED <<stage, ticket, order, changes, approved, ran>>

IssueTicket(version) ==
  /\ Wanted("execution_ticket")
  /\ Enter("execution_ticket", Rebound("execution_ticket", 1))
  /\ ticket' = [schema_version |-> version, approval |-> "pending", max_runs |-> 1]
  /\ UNCHANGED <<stage, order, changes, approved, ran>>

(* An approver approves the contract the ticket binds, as it stands. *)
Approve ==
  /\ Held("execution_ticket") /\ ticket.approval = "pending"
  /\ Held("execution_contract") /\ TheTicket.binds = DigestOf("execution_contract")
  /\ ticket' = [ticket EXCEPT !.approval = "approved"]
  /\ approved' = approved \cup {[digest |-> TheContract.digest, steps |-> TheContract.plan]}
  /\ UNCHANGED <<stage, held, expected, order, changes, ran>>

Prerequisites ==
  [has_prepared_execution_contract |-> Held("execution_contract"),
   policy_decision_status |-> IF Held("policy_decision") THEN "allow" ELSE "missing",
   execution_ticket_status |-> IF Held("execution_ticket") THEN ticket.approval ELSE "missing",
   trust_decision_status |-> "trusted", runner_profile_allowed |-> TRUE,
   live_backend_enabled |-> FALSE]

(* The steps in the host's hands may be those of another edition.  The     *)
(* receipt is taken of the ticket as it stands.                            *)
CanRun(steps) ==
  /\ Wanted("execution_receipt")
  /\ Allowed(PrerequisiteDecision(Prerequisites, FALSE))
  /\ TicketGate(TheTicket, TheContract, steps)

Run(steps) ==
  /\ CanRun(steps)
  /\ Enter("execution_receipt", Rebound("execution_receipt", 1))
  /\ ran' = ran \cup {[digest |-> DigestOf("execution_contract"), steps |-> steps]}
  /\ UNCHANGED <<stage, ticket, order, changes, approved>>
-----------------------------------------------------------------------------
(* Moving on.                                                              *)

VerifiedStages == {"verified_chain", "verified_lifecycle"}

(* The lifecycle gate looks at no digest; before a chain is called         *)
(* verified the host asks the index too, and finishes its change order.    *)
CanAdvance(to) ==
  /\ Allowed(EvaluateTransition(stage, to, held))
  /\ Canonical(to) \in VerifiedStages => ~Pending /\ IndexStatus(TheIndex, BoundRoles) = "ready"

Advance(to) ==
  /\ CanAdvance(to)
  /\ stage' = to
  /\ UNCHANGED <<held, expected, ticket, order, changes, approved, ran>>

(* Blocked artifacts stop the lifecycle where it is. *)
CanHold ==
  BlockedRoles(held) # {} /\ Canonical(stage) \notin {"missing", "blocked", "verified_lifecycle"}

Hold ==
  /\ CanHold
  /\ stage' = "blocked"
  /\ UNCHANGED <<held, expected, ticket, order, changes, approved, ran>>
-----------------------------------------------------------------------------
(* What happens to artifacts, and change orders.                           *)

Reticketed(role) ==
  IF role = "execution_ticket" THEN [ticket EXCEPT !.approval = "pending"] ELSE ticket

(* The content of an artifact changes where it stands. *)
Change(role) ==
  /\ Held(role) /\ Last(DigestOf(role)) < MaxEdition /\ changes < MaxChanges
  /\ held' = [held EXCEPT ![role].descriptor.digest = Append(Front(@), Last(@) + 1)]
  /\ ticket' = Reticketed(role)
  /\ changes' = changes + 1
  /\ UNCHANGED <<stage, expected, order, approved, ran>>

(* A check finds fault with an artifact. *)
Fault(role) ==
  /\ Held(role) /\ ~Blocked(held[role]) /\ changes < MaxChanges
  /\ Placed(role, ArtifactState(held[role].descriptor, {"fault"}))
  /\ changes' = changes + 1
  /\ UNCHANGED <<stage, expected, ticket, order, approved, ran>>

TakeOrder(listed) ==
  /\ ~Pending /\ Required(IndexOver(listed).change_order)
  /\ order' = IndexOver(listed).change_order
  /\ UNCHANGED <<stage, held, expected, ticket, changes, approved, ran>>

UpToDate(role) == DigestOf(role) = Rebound(role, Last(DigestOf(role)))

Without(roles) == [r \in DOMAIN held \ roles |-> held[r]]

(* An artifact is made again of its predecessor.  A run is not made again  *)
(* by a change order: its receipt is withdrawn, with all that rests on it. *)
Revalidate(role) ==
  CASE UpToDate(role) -> UNCHANGED <<held, ticket>>
    [] ~UpToDate(role) /\ role = "execution_receipt" ->
         held' = Without({role} \cup ToSet(DownstreamRoles(role))) /\ UNCHANGED ticket
    [] OTHER ->
         /\ held' = [held EXCEPT ![role].descriptor.digest = Rebound(role, Last(@))]
         /\ ticket' = Reticketed(role)

(* The binding is made to what the order found and not to what is there by *)
(* now: its conflict names the digest.                                     *)
Rebind(role) ==
  \E i \in DOMAIN order.conflicts :
    /\ order.conflicts[i].role = role
    /\ order.conflicts[i].reason_code = "artifact_digest_mismatch"
    /\ expected' = [expected EXCEPT ![role] = order.conflicts[i].actual_digest]

CarryOutAction(verb, role) ==
  \/ /\ ~Held(role)
     /\ UNCHANGED <<held, expected, ticket>>
  \/ /\ Held(role) /\ verb = "repair_artifact"
     /\ Placed(role, ArtifactState(held[role].descriptor, {}))
     /\ UNCHANGED <<expected, ticket>>
  \/ /\ Held(role) /\ verb = "rebuild_bindings_for"
     /\ Rebind(role)
     /\ UNCHANGED <<held, ticket>>
  \/ /\ Held(role) /\ verb = "revalidate_artifact"
     /\ Revalidate(role)
     /\ UNCHANGED expected

(* One action of the order at a time; what is not held needs no repair. *)
CarryOut ==
  /\ Pending
  /\ LET next == Head(order.required_actions) IN CarryOutAction(next[1], next[2])
  /\ order' = IF Len(order.required_actions) = 1 THEN ChangeOrder(<<>>)
              ELSE [order EXCEPT !.required_actions = Tail(@)]
  /\ UNCHANGED <<stage, changes, approved, ran>>

HostStep ==
  \/ \E role \in Roles : Provide(role)
  \/ \E version \in TicketVersions : IssueTicket(version)
  \/ \E edition \in 1..MaxEdition : Run(Plan(edition))
  \/ \E to \in StageNames : Advance(to)
  \/ Hold
  \/ \E listed \in {Listed, Reverse(Listed)} : TakeOrder(listed)

HostCanStep ==
  \/ \E role \in Roles : CanProvide(role)
  \/ Wanted("execution_ticket")
  \/ \E edition \in 1..MaxEdition : CanRun(Plan(edition))
  \/ \E to \in StageNames : CanAdvance(to)
  \/ CanHold
  \/ ~Pending /\ Required(TheIndex.change_order)

PipelineNext ==
  \/ HostStep \/ Approve \/ CarryOut
  \/ \E role \in Changing : Change(role)
  \/ \E role \in Failing : Fault(role)
-----------------------------------------------------------------------------
(* An artifact is stale when one it was made of is no longer what it was. *)
Stale(role) ==
  \E i \in 1..(Place(role) - 1) : DigestOf(ChainRoles[i]) # SubSeq(DigestOf(role), 1, i)

(* An artifact that is not of its predecessor as that is now is always     *)
(* named: by the change order the index shows, or by what is left of the   *)
(* order the host is carrying out (ConflictDetector.downstream_roles,      *)
(* change_order_for_conflicts).                                            *)
OutOfDateIsAlwaysNamed ==
  \A role \in DOMAIN held :
    ~UpToDate(role) => \/ role \in TheIndex.change_order.invalidated_roles
                       \/ <<"revalidate_artifact", role>> \in ToSet(order.required_actions)

(* A chain is called verified, under whichever name, only when every       *)
(* artifact in it is of the artifacts before it as they are now            *)
(* (TransitionGate.evaluate with ArtifactStateIndex.summary).              *)
VerifiedOnlyWhenCurrent ==
  [][(stage' # stage /\ Canonical(stage') \in VerifiedStages) =>
       \A role \in DOMAIN held : ~Stale(role) /\ ~Blocked(held[role])]_pipelineVars

(* Only what an approver approved is run: that contract with those steps   *)
(* (validate_execution_ticket_gate, transition_decision).                  *)
NothingRunsUnapproved == ran \subseteq approved
=============================================================================
