# A TLA+ verification of GovEngine

GovEngine (`src/govengine`) decides whether an operation may run. It compiles
policy packs, evaluates typed facts against them, checks scope, capabilities,
activation and approvals, and issues a decision that an external runtime
(RExecOp) verifies, claims once and reports back on. Around that core it keeps
the records that make a run accountable: guard replay, an audit ledger, the
state machine of a run. Before it stand the gates of what may be planned at
all (events, supervisors, child operations) and the lifecycle of the artifacts
an operation is carried through.

It is a library. It owns no threads and no clock: time, stores, locks and
signatures come from the host through ports. What can go wrong is therefore
mostly about *when* a port is read, about *which* record an answer belongs to,
and about what is on disk when a process dies. The specifications here model
the library together with the hosts and runtimes its contracts talk about.

## 1. Inventory

| Component (source) | State it keeps | Operations | What is hard | What makes it correct |
|---|---|---|---|---|
| Policy compiler (`policy/compiler`) | none; a pack and its digest | `compile_policy_pack`, snapshot validation | limits at three places, order of authoring, clashing controls | one pack means one thing, whoever orders it |
| Policy runtime (`policy/runtime`, `policy/model`) | none | `evaluate_policy` | several matching rules, type errors, built-in invariants before rules | the strictest match wins; a fact of the wrong type stops the call |
| Policy enforcement (`policy/enforcement.py`) | none | `project_runtime_controls`, `admit_policy_execution`, `validate_policy_enforcement_plan` | repeated limits, unknown controls, verdicts and plans of an earlier pack | a ready plan loses no control and is of the pack in force |
| Scope and capabilities (`scope_policy.py`, `capabilities.py`) | none | two gates and their bindings | an axis not compared | what is allowed lies inside both |
| Request and approval binding (`governance.py`, `approvals.py`) | digests | validators | an approval of another subject | an approval is for exactly one subject |
| Policy activation (`policy/activation.py`) | the host's current binding | `PolicyActivationPort.current_binding` | supersession during an evaluation | no allow under a withdrawn policy |
| Governance decision (`governance_decision.py`) | one call | `evaluate_governance` | two port reads at different times, an evaluation time fixed earlier | see section 4 |
| Signing and trust (`signing.py`, `governance_decision_signing.py`) | signed artifacts, held by the host | sign a record, verify it, require a trusted decision | artifacts of another record or type, envelopes and headers of two artifacts mixed | trusted exactly when a required signer signed this decision |
| Claim and runtime (`DecisionClaimPort`; the runtime is external) | claims, leases | claim once, recheck, I/O | races, crashes, expiry | one I/O per grant |
| Receipt conformance (`receipt_conformance.py`) | none | build, judge | receipts of other decisions | a conformant receipt proves the I/O |
| Guard replay (`replay.py`, `state_store.py`) | a JSON file of claimed bundles | judge and record | crash between read, write and answer; damaged bytes | fresh at most once, nothing forgotten |
| Audit ledger (`admission.py`) | a JSONL hash chain | append, read, verify, page | torn lines, racing writers, the read limit, paging while it grows | what verifies is complete, and pages hold each entry once |
| Run state machine (`state_machine.py`, `control.py`) | one run | apply a transition, apply a control decision | late, repeated and misdirected decisions | the event log explains the state |
| Runtime admission (`admission.py`) | none | compose one result from gate, ticket, trust, replay; check it as proof | parts of different times, several failing together | an admission needs every part, on one fresh claim |
| Artifact lifecycle (`lifecycle.py`, `deconfliction.py`, `state_index.py`, `core.py`) | artifacts, their states and bound digests, held by the host | transition gate, conflict detection and change orders, index, advice | artifacts that change under those made of them, orders half carried out, stages under two names | nothing out of date goes unnamed, and following the advice leads to the end |
| Runner protocol and supervision (`execution/`) | requests, plans, receipts, held by the host | request from an approved spec, supervise, dry run, bind, verify | one request id for many requests, receipts of other jobs or changed on the way | what verifies for a job is what a runner returned, bound wholly to the job's records |
| Ticket gate (`execution/ticket_gate.py`) | none | check a ticket, a contract and the steps before a run; check a receipt after it | a contract or steps changed after the ticket was approved | only what was approved is run |
| Evidence review (`review.py`) | claims, requirements, qualifications, held by the host | qualify, validate the chain | a qualification made with another receipt | accepted evidence stays within its receipt |
| Typed execution governance (`typed_execution_*.py`) | none | adapt and admit | bindings across two record families | nothing is admitted that is not bound |
| Automation, triggers, supervisors (`automation.py`, `triggers.py`, `supervisor_actions.py`, `*_explain.py`) | requests and admissions, held by the host | admit, validate an admission, explain | admissions used when rules, attempts, age, limits or the parent are others | what is done is warranted when it is done |
| Profiles, planning, OODA, orchestration records | value records | validators | none | |
| Contract and boundary tables, CLI, docs tooling | none | none | none | |

How they interact: a host authors a pack, compiles it, activates it, and asks
`evaluate_governance` for one request. That call runs request validation, the
activation port, the policy runtime, approval validation (which asks the
revocation port), enforcement, the scope and capability gates, and builds the
decision. The decision is signed. A runtime checks the signature and its own
bindings, claims the decision through the claim port, rechecks its permit,
performs the I/O and builds a receipt, which receipt conformance compares with
the decision (docs `SECURITY_INTEGRATION.md`, `ARCHITECTURE.md`). Beside this
path stands the older one: a host claims a guarded bundle with guard replay,
composes a runtime admission from the answer and from summaries of its ticket,
trust and policy decisions, and passes it to a runner. The runner is asked with
a request made from an approved spec, its receipt is bound to the admission, the
ticket and the request, and claims about the receipt are qualified and reviewed;
all these records lie with the host between the calls. An operation begins
before either path: an event is admitted for planning, perhaps after a supervisor
had it retried; the operation is carried from stage to stage by the lifecycle
gate, with the detector naming what a change put out of date and the ticket gate
before the run; and once it is closed children may be started from it. The audit
ledger and the run state machine share no state with any of these.

`PROJECT.json` lists the hazards, each at the line where it bites, with the
properties that would catch it.

## 2. Modules

| Module | Models | State and actions in the code |
|---|---|---|
| `PolicyEngine` | `PolicyRuntime.evaluate` and the model's typed values | pure operators: operators of conditions, invariants, `SelectRule`, `EvaluatePolicy` |
| `PolicyEnforcement` | controls projected from a verdict | `ProjectRuntimeControls`; `AdmitPolicyExecution` with the verdict of the same pack, `AdmitUnder` with that of any version |
| `PolicyCompiler` | `compile_policy_pack` and snapshot validation | `Compile`, `ValidSnapshot` |
| `PolicyPipeline` | a host that authors, numbers and compiles packs, evaluates and admits, and keeps its verdict and plan while it recompiles | `Author`, `CompilePack`, `Evaluate`, `Admit`; `PlanAccepted` is the runner's validation |
| `ScopeCapability` | the two gates | `EvaluateScopePolicy`, `EvaluateCapability` |
| `GovernanceRequest` | the request, its digests, the approval bound to it | `ValidRequest`, `ApprovalBoundTo` |
| `GovernanceDecision` | `evaluate_governance` against a moving host | `Begin` (validation), `ReadActivation`, `ValidateApproval`, `Decide`; the host ticks, replaces bindings, revokes approvals |
| `RecordTrust` | `signing.py`, `governance_decision_signing.py`: what a signature binds and when a record is trusted | `DemoSign`, `DemoVerify`, `SignedDecision`, `SignedRecord`, `TrustedGovernanceDecision`, `TransitionBlockers`, pure |
| `GovernedExecution` | decisions after they were made | `Sign`, `SignElsewhere` (the same record under another type), `Verify` with any artifact of `Presented`, `Claim`, `Perform`, `GiveUp`, `Crash`, `Report`, `MoveLease` |
| `TypedExecution` | the checks of one typed step on its own | `TypedBlockers` and what it is made of, pure |
| `TypedAdmission` | the governed admission of a typed mutation, v0.1 and v0.2 | `BeginAdmission`, `RefuseInput`, `EvaluateAdmission` (the evaluation, then the projection); `Validate` by a runtime with the records it holds |
| `SingleUseAuthorization` | what the claim contract promises, abstractly | issue, consume, perform |
| `ReplayRecords` | which guard replay records replay which | `EvaluateGuardReplay`, pure |
| `ReplayClaims` | what `ReplayClaimStore` promises, abstractly | `Claim`, `Answer` (late, or never) |
| `GuardReplay` | `record_guard_replay_file` | `Load`, `Judge` (with the replace), `Return`, `Crash`, `Damage`, `Repair` |
| `RuntimeAdmission` | `compose_runtime_admission_result`, `ExecutionGate`, `validate_runtime_admission_proof_inputs` | `Compose`, `Gate`, `EvaluateRuntimeConsumable`, `ProofInputs`, pure |
| `AdmissionFlow` | a host that claims bundles and composes admissions from whichever answer it holds | the steps of `ReplayClaims`, `ComposeAdmission` |
| `AuditLedger` | `JsonlAuditLedgerAdapter` | `ReadLedger`, `WriteLine` (with the `AppendResult`), `ReadPage`, `CrashAppending`, `LoseLine`; `Verify` with its results |
| `GovernedRun` | `apply_control_decision`, `apply_state_transition` | `ApplyControlDecision` |
| `RunnerProtocol` | requests, supervision plans, receipts, bindings and their verification (`execution/`, `scripts/verify_runner_receipt_binding.py`) | `RunnerRequest`, `Supervised`, `WithBinding`, `BindingValid`, `Assurance`, pure |
| `EvidenceReview` | `review.py` | `Qualify`, `ReviewChain`, pure |
| `RunEvidence` | a host that prepares, runs, binds, verifies and has evidence reviewed, and mixes its records up | `Prepare`, `Supervise`, `RunDry`, `RunLive` (the host's runner), `Bind`, `Garble` (the way of a receipt), `Verify`, `MakeClaim`, `SetRequirement`, `QualifyClaim`, `AcceptEvidence` |
| `Absence` | an absent text or record, a call that raised | the two values the next modules share |
| `ArtifactLifecycle` | `lifecycle.py`, `deconfliction.py`, `state_index.py`, the pre-execution gate of `core.py`, `ticket_gate.py` | `EvaluateTransition`, `NextActions`, `DetectConflicts`, `ChangeOrder`, `StateIndex`, `IndexStatus`, `PrerequisiteDecision`, `TicketGate`, `TicketUseGate`, pure |
| `ArtifactPipeline` | a host that carries one operation through the lifecycle by doing what it is advised, while artifacts change and fail | `Provide`, `IssueTicket`, `Approve`, `Run`, `Advance`, `Hold`, `TakeOrder`, `CarryOut` (one action of a change order), `Change`, `Fault` |
| `PlanningAdmission` | `triggers.py`, `supervisor_actions.py`, `automation.py`, their explanations and the admission record they share | `TriggerRequest`, `AdmitTrigger`, `SupervisorRequest`, `AdmitSupervisor`, `AutomationRequest`, `AdmitAutomation`, `Rechecked` (the validators), `ExplainSupervisor`, `ExplainAutomation`, pure |
| `EventInbox` | a host's inbox: an event is decided on, stalls and is supervised | `Decide`, `PlanOperation`, `RecordEvent`, `Observe`, `SignOff`, `Supervise`; the host's `Stall`, `ChangeRules`, `Age` |
| `ChildPlanning` | a host that has children admitted and starts them later | `Propose`, `ApproveChild`, `Start`, `Drop`; the host's `Tighten`, `Follow` |
| `OperationChain` | an operation from its event to its children | the steps of `EventInbox`, then of `ArtifactPipeline`, `Close`, then of `ChildPlanning` |
| `PolicyPipelineProofs`, `GovernanceDecisionProofs`, `GovernedExecutionProofs`, `GuardReplayProofs`, `AdmissionFlowProofs`, `RunEvidenceProofs`, `OperationChainProofs` | proofs about the module each is named after (section 5); `GovernanceDecisionProofs` goes on to `TypedAdmission`, `GuardReplayProofs` to `AuditLedger`, `RunEvidenceProofs` to `GovernedRun`, and `OperationChainProofs` begins with `EventInbox` and `ChildPlanning` on their own | |
| `PolicyProofs` | what evaluation and projection of a policy do, the lemmas the first three of these share | |
| `MC*` | instances for TLC | |

`GovernedExecution` and `TypedAdmission` extend `GovernanceDecision`, which extends
`GovernanceRequest` and, through it, the policy and gate modules; `GovernedExecution` takes in `RecordTrust` as well: a run of the
execution model goes from policy rules to receipts. `AdmissionFlow` extends the
abstract `ReplayClaims` and not `GuardReplay`, which implements it
(`ImplementsClaimStore`): what an admission rests on does not depend on how the
store keeps its promise. `OperationChain` extends `ArtifactPipeline`,
`EventInbox` and `ChildPlanning`; their phases follow each other and share the
operation's status only, so what the inbox and the children keep on their own
they keep in the composition (lemma `StepComposed`).

Abstractions used throughout:

- A digest is what it was taken of (`Digest(kind, content)`), so two digests
  are equal exactly when the contents are. Collisions are out of scope.
- A call is split where it reads something that others can change: a port, a
  file. Between such reads it only computes, so one action does it.
- Raising is a result (`"raised"`), and a raised call changes nothing, as in
  the code, where every raise happens before the first write.
- A signature is what was signed, by whom and for what purpose; only signers
  make one, and anyone may join its parts with those of another. Text, wording, schema names and time
  formatting are left out.
- Operators named `X_Something` beside an operator `X` are deliberate
  regressions of it. `PROJECT.json` says which property each must break.

## 3. Runs

Every run finishes within four minutes on two workers. `pass` runs check all the
listed properties over every reachable state of the instance; the one
`violation` run shows a disagreement between the code and its documents
(section 6).

| Run | Question | Instance and why it is enough |
|---|---|---|
| `policy_pipeline` | does a pack mean one thing, does its strictest match win, do ill-typed facts stop a request, and is an accepted plan one of the pack in force? | packs of at most `MaxSource = 3` rules from eight chosen to clash (same conditions in another order, same control id with another payload, duplicate conditions, no conditions, unknown control; the same rule twice has its id twice), six requests (two built-in invariants, missing facts, types that one rule trips over and another would have decided on, a mismatch behind a condition that is not met, a team whose name only begins like a namespace), recompiled at any time under the same or the next of two versions (`MaxVersion`) while the host keeps one verdict and one plan. `MaxTotal`, `MaxConditions` and `MaxControls` are small enough that each of these limits rejects some pack. `MaxRules` equals `MaxSource`, so that limit never rejects, and no request has an unsafe execution shape, the third invariant. Selection compares pairs of rules; three rules give every pair a bystander. |
| `governance_decision` | does any interleaving of an evaluation with its host let a withdrawn, unapproved, denied or out-of-scope request through? | one call (calls share nothing but what the host changes), seventeen requests that differ in one thing each (among them a destructive critical mutation that was approved, an inventory without the backend class, a destination without origin binding), three bindings (in force, superseding, revoked), clock 0..2, `MaxLifetime` 2 with lifetimes up to 3, so too long a grant is asked for as well |
| `typed_admission` | is a typed mutation admitted only by its own approved transaction? | two calls, eight governance requests and ten typed requests that differ in one thing each (secret, network policy, receipt, descriptor, mode, backend), an operation mode that is no mode, both versions, lifetimes 1 and 2 with delays 0 and 1, so a grant may expire before it is admitted, and validations of one call's admission against the other's records. One binding: withdrawals are the business of `governance_decision` |
| `execution_race` | one I/O per grant, and receipts that prove it? | two evaluations of one request with one nonce, two workers of one runtime, two signers of which one is required, at most two artifacts (`MaxArtifacts`), of the decision or of the same record under another type, and every envelope that their parts make; verifiers that trust the signers or do not; one lease move, crashes at any point |
| `execution_withdrawal` | does I/O outlive its evidence? | one call, one worker, a read and an approved mutation, three bindings, revocation, clock 0..3: a grant may be issued, its evidence withdrawn and the grant expire |
| `guard_replay` | fresh at most once? | two hosts, five records that match each other by root tag, by digest, by neither or without a digest, two answers (a second is what it takes to violate), crash, damage and repair at any point |
| `governed_run` | does the event log explain the state? | every control decision record, nine transitions: enough to go to the dry run, be blocked, and come back to it |
| `audit_ledger` | does a broken ledger still verify, and is a sound one verified and read back? | two writers that may overtake each other, `ReadLimit` 2 and four lines, so that appends go past the limit, one crash and one lost line anywhere; a record of a type that is none; a reader that pages with limits 1 and 2 (`PageLimits`) between appends, for as long as nothing went wrong with the file. The 100 of the code is only compared with the length, so 2 stands for it. What went wrong is remembered, and each property names what it withstands |
| `runtime_admission` | does an admission rest on what its parts say, all of it and no more? | one job, two bundles, two answers, and parts that differ from a sound set in one place each or fail together; any answer, verification or nothing as the guard, any answer or nothing beside it; for a runtime or for review, live or not. Admissions that are blocked or for review do not move any more (`OthersAreFinal`), and after the last answer only those admitted for a runtime are explored further (`LateCompositionsThatMatter`) |
| `run_evidence` | is what verifies a run's receipt, bound for that job, and does accepted evidence stay within the run? | a dry run and a live run of one plan, prepared without an id and so with one id, and a draft that was not approved; bindings that name one, two or all records of other jobs, so that the run of one job is also bound wholly for another, or carry a digest taken before they were made; one changed receipt at a time; two claims and three requirements, revised after they were qualified. `Bounded` lets the review begin when the receipts rest and those not under review are bound for their own jobs |
| `operation_chain` | is what is done about an event warranted, does the advice of gate and index lead to a verified operation on current, approved artifacts, and do the children stay within their limits? | one event, two supervisors, `MaxAttempts` 1 and `MaxAge` 1 (each boundary is reached from both sides), two rule sets of which one plans and one ignores; seven roles, of which the intent contract and the ticket change (the head of the chain, and the artifact an approval hangs on) and the policy decision fails, two changes or faults per operation (`MaxChanges`: a second is what it takes to change something while an order is carried out), one stage under its legacy name, scoped (v0.3) tickets; two proposers, reaction and model, of whom each can hold an admission for the same next child, `max_depth` 1 and `max_children` 2, lowered once |
| `audit_ledger_limit` | section 6 | |

Deadlock is not checked where the system may really stop: a finished set of
evaluations, a stopped clock (`MaxTime`), a full event log or ledger are ends
and not failures. `policy_pipeline` checks it.

Named bounds: `MaxSource` (rules an author writes), `MaxVersion` (versions of a pack), `MaxArtifacts` (signed records: two, so that parts of one can be joined with parts of another), `MaxTime` (the clock),
`MaxLeaseEpoch`, `Delays` (from evaluation to admission), `MaxReturned` (answers kept),
`MaxEvents`, `MaxLines`,
`MaxEdition` and `MaxChanges` (changes of artifacts), `Changing` and `Failing` (the roles they
happen to), `MaxRules` (rule sets that come into force), and one
crash and one lost line per behaviour of the ledger. `Revocable` bounds which
approvals the host revokes. Everything else that is a constant (limits on
packs, `MaxLifetime`, `ReadLimit`, `MaxAttempts`, `MaxAge`, `Limits`) is a parameter of the code.

Symmetry (of calls, workers, hosts, writers) is used in runs that check safety
only; the run with the liveness property uses none.

Fairness. One property needs it. `AdviceLeadsToVerified` is about what the library advises, so it has to assume
that somebody acts on it: weak fairness of the host's steps, each of which does
something the gate or the index advised at that moment, of the approver, and of
whoever carries out a change order. Nothing is assumed of the inbox, of what
changes and fails, or of the children. That an operation is changed at most
`MaxChanges` times is part of the instance; nothing the library does could end
a chain whose artifacts keep changing. The host's fairness is spelled out
(`[]<>~` guard `\/ []<><<`step`>>`) with the guard `HostCanStep`, which is what
ENABLED would compute.

## 4. What the properties say

- **Policy.** The verdict is at least as strict as every rule that matches
  (`VerdictAtLeastAsStrictAsEveryMatch`); permuting a source changes neither
  the compiled rules nor whether it compiles (`AuthoringOrderIsIrrelevant`);
  a ready plan carries every limit, switch, allowlist
  and obligation (`ReadyPlanEnforcesEveryControl`); and a plan that a runner
  accepts grants what the pack in force grants, though host and runner keep
  verdicts and plans across recompilations (`AcceptedPlanIsOfPackInForce`).
  `IllTypedFactsStopTheRequest` is about the one way out of a call that no rule
  names: any rule that comes to a fact of a type its condition cannot be asked
  of stops the request, whichever rule would have decided, unless a built-in
  invariant decided first; nothing else stops it, and no accepted plan was
  granted over such facts.
- **Decision.** `NoAllowAfterWithdrawal`: an evaluation that begins after its
  policy or approval was withdrawn never allows. What the code does *not*
  promise, and the model does not claim, is that a decision is recalled: a
  withdrawal that comes while a call runs, or after it, may be missed
  (`docs/GOVERNANCE_DECISION.md`). `WithdrawalTakesEffectWithinLifetime` bounds
  what that costs: no I/O later than one authorization lifetime after the
  withdrawal. `MutationNeedsExactApproval`, `AllowedWithinScopeAndCapabilities`
  and `ApprovalNeverLiftsDeny` are about what may be allowed at all.
- **Execution.** `OneTrustedGrantPerIo`, `TrustedExactlyWhenSigned` (an
  equivalence: no mixture of artifacts passes, and no honest one is refused),
  `IoBeforeEvidenceExpires`, and for receipts `ConformantReceiptProvesIo` and
  `ConformantReceiptKeepsPolicyLimits`, which spans the whole pipeline: the
  limit is read off the verdict of the rule, the receipt off the worker.
  `ImplementsSingleUse` is the refinement: calls, workers, leases and receipts
  implement `SingleUseAuthorization` under the mapping `Abstract` of
  `GovernedExecution`.
- **Typed admission.** `AcceptedAdmissionIsExact` and `ApprovedAsTyped` follow
  the digest chain over two record families: an admission is accepted only with
  its own decision, and whoever approved it approved the typed request itself.
  `OnlyApprovalIsLifted` bounds what the adapter may discount, plugin backends
  included; `ValidUntilGrantExpires` is about the two places that judge expiry,
  which must agree.
- **Guard replay.** `FreshAtMostOnce` and the refinement
  `ImplementsClaimStore`: claims are made once, answered fresh at most once, and
  a replay is reported only of what was claimed.
- **Runtime admission.** `AdmittedOnOneFreshClaim` follows an admission back to
  the store: whatever its host combined, its bundle was answered fresh once.
  `ProvenIsConsumable` is about admissions composed for review and presented as
  proof; `BothRoutesAgree` about the gate asked with a guarded decision and
  through an admission; `BlockersAreTheWholeReason` says that repairing what the
  blockers name admits the job and repairing anything else changes nothing.
- **Run evidence.** `VerifiedExactlyWhenBoundForIt` is an equivalence: what
  verifies for a job is what a runner returned for a request of that id, bound to
  the admission, the ticket and the request of this job, all three, and untouched
  since. That run is the job's own unless the host bound the run of another job
  wholly for this one, which the library cannot tell (section 6).
  `AcceptedWithinReceiptBounds` and `LiveClaimRestsOnLiveRun` follow accepted
  evidence back through the qualification and the binding to the runs the receipt
  can be of and what was done in them. Both except evidence
  whose claim or requirement was revised after it was qualified (section 6).
- **Ledger.** `VerifiedLedgerHoldsEveryRecord`: what verifies holds every
  acknowledged record once, unless the tail itself was lost, or a line was lost
  from a chain that had already forked. `ShortLedgerReadsBack`: a ledger
  that was only appended to, in turn and within the limit, verifies, and pages
  taken while it grew hold each of its entries once and in order.
- **Run.** `EventLogExplainsState`, `RunsOnlyWhenGated`.
- **Artifacts.** `OutOfDateIsAlwaysNamed`: an artifact that is not of its
  predecessor as that is now is named by the index or by what is left of the
  order being carried out, at every moment of every sequence of changes, faults
  and repairs. `VerifiedOnlyWhenCurrent` is what that is for: a chain that is
  called verified is current from end to end. `NothingRunsUnapproved` ties every
  run to an approval of that contract with those steps. `AdviceLeadsToVerified`
  says that the two sources of advice, followed in any order, do not contradict
  each other or dry up.
- **Planning.** `DoneOnlyAsWarranted`, `ChainStaysWithinLimits` and
  `NoChildOnTheModelsWordAlone` are about admissions that are used later than
  they were given: what counts is what would be admitted when it is done.

## 5. Proofs

TLAPS checks the following for every value of the constants: any sets of calls,
requests, hosts, records and bindings, any clock bound, any rules, any editions
of artifacts, any budgets and limits.

| Module | Theorems | Argument |
|---|---|---|
| `PolicyPipelineProofs` | `PipelineInvariant`, `AnyOrderCompilesAlike`, `VerdictIsStrictest`, `IllTypedFactsStop`, `ReadyPlanEnforcesIt`, `AcceptedIsInForce` | `PipelineInv` |
| `GovernanceDecisionProofs` | `TypeCorrect`, `WithdrawnNeverAllows`, `MutationsAreApproved`, `AllowedStaysInScope`, `DenialsStand` | `EvidenceInv` |
| `GovernedExecutionProofs` | `ExecutionInvariant`, `OneGrantPerIo`, `WithdrawalHonoured`, `IoWithinItsEvidence`, `TrustIsExact`, `ConformantReceiptsProve`, `ConformantKeepsLimits`, `PipelineIsSingleUse` | `ExecutionInv`, `GrantInv`, `ReceiptsRestOnIo` |
| `GovernanceDecisionProofs`, on `TypedAdmission` | `AcceptedExactly`, `ApprovalNamesTheTypedRequest`, `ValidExactlyUntilExpiry`, `LiftsOnlyApproval` | `TypedInv` |
| `GuardReplayProofs` | `ReplayInvariant`, `StoreTypeCorrect`, `PayloadFreshAtMostOnce`, `RefusalsAreBacked`, `StoreNeverForgets`, `FileStoreImplementsClaimStore` | `ReplayInv` |
| `GuardReplayProofs`, on `AuditLedger` | `LedgerInvariant`, `VerifiedHoldsAll`, `ShortLedgersReadBack` | `LedgerInv` |
| `AdmissionFlowProofs` | `FlowInvariant`, `AdmissionsRestOnOneClaim`, `ProofMissesNothing`, `RoutesAgree`, `BlockersTellAll` | `FlowInv` |
| `RunEvidenceProofs` | `EvidenceInvariant`, `OnlyWhatIsBoundForItVerifies`, `AcceptedStaysWithinReceipt`, `LiveClaimsWereLive` | `RunInv`, `EvidenceReviewed` |
| `RunEvidenceProofs`, on `GovernedRun` | `ControlInvariant`, `EventLogAlwaysExplainsState`, `DryRunsAreGated` | `ControlInv` |
| `OperationChainProofs` | `ModelsNeedApproval`, `LimitsHoldWhenStarted`, `WarrantedWhenDone` of the parts; `OnlyApprovedRuns`, `OperationNeedsApproval`, `OperationWithinLimits`, `OperationWarranted`; `OutOfDateNamed`, `VerifiedWhenCurrent` | `AdmittedAsItStands`, `ActionWarranted`; `TicketSaysApproved`, `StepComposed`; `ChainKept` |

**Policy.** The steps keep little: `PipelineInv` says that the rules in force are
canonical rules, that a verdict is that of the pack it was judged under
(`VerdictOfPack`), and that an allowed plan is the projection of its verdict, whose
constraint values are of the type they name (`PlanOfVerdict`). What the theorems
say is about the functions. The compiler's order is defined without recursion:
the place of a rule is the number of those up to it. Of rules with different ids
no two have one place (`PlacesDiffer`), so every place is taken by exactly one
(`PlacesAreTaken`, by the pigeonhole principle), and rearranged rules take the
same places (`SortedAlike`): the sorted tuple is the same, and so is every check
made of it (`CompiledAlike`). A pack that compiles has different ids
(`CompiledIdsDiffer`), for what does not is rejected. Of the matching rules the
one selected is the first of the strictest effect there is (`StrictestIsSelected`).
A condition raises exactly over the types its operator cannot take
(`RaisesExactly`), and a rule exactly when the first of its conditions that is not
met does (`RuleRaisesExactly`).
A repeated limit is projected to the least of its values (`SmallestIsLeast`), and a
constraint of any other kind that is projectable leaves its mark on the controls
(`ProjectionEnforces`). `RuleAssumption` says what `PolicyRule` and
`PolicyConstraint` let through: ids and priorities are ordered like integers, an
effect is one of the four, conditions are a tuple, a value is what its type says.

**Decision.** `NoAllowAfterWithdrawal` speaks of a finished call, and is not
inductive: whether a call may still allow depends on what its ports answered
earlier. `EvidenceInv` adds, for each call, what its stage has established so
far (`CallEvidence`: an activation read after a withdrawal is the inactive one,
a validated approval was not revoked before the call began, a mutation that was
not denied carries an approval of its exact subject) and that withdrawals are
never undone (`RetiredStaysRetired`). The assumptions are `TimeAssumption`,
`BindingAssumption`, `RequestAssumption` and `RulesAssumption` of the module: time
and lifetimes are naturals, requests and bindings have their types, the rules
of a pack are a tuple, and its constraint values of type `int` are integers.
Nothing is assumed of what the policy says.

`CallEvidence` also keeps that a decision is the outcome of the gates of its
request, and a request that reached one is valid; `AllowedStaysInScope` reads the
scope and capability gates backwards from there (`ScopeAllowed`). `DenialsStand`
needs that the first matching deny rule is a deny rule (`DenyRuleWins`), that is,
that the first of a set of indices exists: `FirstIndexIn` takes it from the
well-foundedness of inclusion among finite sets (both are in `PolicyProofs`). The other way out, a verdict
that raised, has no plan (`RaisedHasNoPlan`).

**Execution.** That no two I/Os share a grant depends on workers that have not
acted yet. `ExecutionInv` says what each may still do: a worker past
verification holds a decision that was allowed and signed (`WorkersAreGranted`),
claims differ in decision and nonce (`ClaimsDiffer`), and a worker between claim
and I/O is alone with its decision, on which nobody acted (`ClaimIsExclusive`).
Verification enters by one lemma, `TrustedWasSigned`: of all mixtures of records,
envelopes and names, only what was signed as this very decision computes to the
value in the envelope. Only what makes it past verification needs the signer, so
`OneGrantPerIo` has the hypothesis that the signing policy names required
signers; with an empty list `require_trusted_governance_decision` accepts any.
`GrantInv` adds that a grant is what `_authorization` made of the call: no longer
than a lifetime, over before the approval and the activation are, and under the
only activation that was ever in force in the epoch of the request. With what
`EvidenceInv` says of when the evaluation began this gives `WithdrawalHonoured`
and `IoWithinItsEvidence`, the latter for expiries that are integers (a request
without an approval needs none).

`ConformantReceiptsProve` rests on every receipt having its I/O
(`ReceiptsRestOnIo`). `ConformantKeepsLimits` goes back from there to the rule:
the decision carries the projected controls, the projection of a repeated limit
is the least of its values (`SmallestIsLeast`, by the well-foundedness of the
naturals), and what a verdict asks the plan has (`ProjectionOfControls`).
`TrustIsExact` is `TrustedWasSigned` in both directions. Its hypotheses say what
the host's configuration has to be for honest artifacts to pass: required signers
are named, `trusted` is the one status taken, demonstration signatures are
admitted, and the verifiers know the required signers.
With the same invariant every step is one of `SingleUseAuthorization` or a
stutter: a decision that comes out allowed issues (`IssuedStep`), a claim
consumes (`ClaimIsConsume`), an I/O acts (`PerformIsAct`).

**Typed admission.** `TypedInv` keeps the two halves of a call in step: where the
admission is, its evaluation is (`InStep`), of the request of its inputs
(`OfItsInput`), and what was returned is the projection of the decision and
validated when it was made (`IsProjection`). Every result is then read off
`Validates` and what `EvidenceInv` says of an allowed decision.
`AcceptedExactly` needs that two sets of inputs with the same digests are the
same; `ValidExactlyUntilExpiry` that of the checks of a validation nothing but
the two about time can change afterwards; `LiftsOnlyApproval` takes the checks of
a typed step apart into their blockers and finds none but the approval
requirement among those discounted, and, for a plugin backend, reads the
allowlist of the rule off the decision's controls.

**Run evidence.** A receipt on its way may carry any digest that any binding ever
had. `ReceiptsComeFromRuns` says that this is never one made up: it was computed
of what a runner returned, bare or with references of any jobs (`DigestOfARun`). A
receipt that verifies computes to the digest it carries, so it is one of those
(`DigestPinsReceipt`), and its anchors say that the references are all of the job
(`VerifiedIsBoundFor`). That what is bound for a job verifies needs in addition
that every job has a receipt id; `AbsentIsNoRecord` says that no digest is the
absent value. Nothing is assumed of how the host binds: a receipt under review
may have been bound from several runs that returned the same, and the results
hold of each of them (`RunsBehind`, `VerifiedIsOfARun`). `EvidenceReviewed`
then follows the claim: what was qualified was made of a status
(`QualifiedAsMade`), and what was accepted names the verified receipt
(`AcceptedOnReview`). `TokenAssumption` and `WorkAssumption` of the module say that
the absent value is none of the others and that a plan is a tuple.

**Guard replay.** `FreshAtMostOnce` counts answers, while the code compares
records with a store that a crash may already have changed. `ReplayInv` says
what connects them: every fresh answer, and every call judged fresh whose
answer is not out yet, has its record in the store (`FreshIsClaimed`,
`Claimed`); what a call loaded is still what the store holds, because calls are
serialised (`OneCallAtATime`, `LoadedIsCurrent`); and a judgement follows from
what was loaded (`JudgementsAreBacked`). It also needs that matching is
symmetric (lemma `ReplaysSymmetric`), which is a fact about the code's
comparison and not an assumption.

The same invariant makes every step of the file-backed store a step of
`ReplayClaims` or a stutter (`JudgeIsClaim`, `ReturnIsAnswer`): the write is the
claim, because what was loaded is current, and an answer is one the abstract
store may give, because its judgement is backed.

**Audit ledger.** What goes wrong with a ledger leaves a trace, and `LedgerInv` says
which. As long as appends come in turn and within the read limit every entry is
in its place and only the last line may be torn (`UndisturbedInTurn`); a line that
is lost from the middle of such a chain puts the next one out of sequence, for
good (`LossShows`); without a loss, whatever was acknowledged is there or some line
is unreadable (`ThereOrTorn`), however writers overtake each other. A file that
verifies is read in full and is a chain (`VerifiedExactly`), so neither trace is
there and the record is. It is there once because in a chain the digest of the
i-th entry stands for i entries (`DigestsGrow`): a first entry for which it does
not would contradict the one before it, and `LeastIndex` gives the first by the
well-foundedness of inclusion among finite sets. `LedgerAssumption` says that
limits are positive, as `read` demands.

**Runtime admission.** An admission is composed once and kept, while claims and
answers go on. `FlowInv` says that it stays composed of parts the host has
(`IsComposed`; an answer once given is never taken back, lemma `ComposedStays`),
and, of the store, that no claim replays another (`ClaimsAreApart`) and that
fresh is said of a claim only (`FreshIsClaimed`) and once (`FreshIsSaidOnce`):
so whatever replays a fresh answer is that answer (`OneFreshAnswer`). The rest
is about the composition. `AllowedExactly` says that it allows exactly when all
parts pass: that blockers of the gate are replaced by more exact words neither
loses nor invents one. `BlockedExactly` says the same of the parts the words
speak of, `RepairedParts` what repairing some of them does, and
`ReasonIsOfBlocked` that the first word of the precedence list is of a part that
blocks. The assumptions of the module are `SoundAssumption` (there are parts to
repair with), `AbsentAssumption` (an absent field is none of the texts) and
`SummaryAssumption` (the summary of a runner profile has the field `allowed`;
without it `BlockersTellAll` could not tell an absent profile from one that
was let run).

**Run.** `RunsOnlyWhenGated` relates a state to everything since the last
block. `GatesPassed` in `ControlInv` says, for every state, what the run must have
passed since then to be in it; that this is inductive is a property of the
transition table read backwards (lemmas `ComesFrom` and `NeedsGrow`).

**Planning.** Nothing about an old admission is invariant: the chain moves on
and the admission stays. What is proved instead is that an admission that still
holds *is* the one that would be given now (`HoldsAsGivenNow`), and from the
gate read backwards what must then be so now (`Unblocked`,
`DecisionByRulesInForce`, `ActionWarranted`). The invariants are only the types
of the event and of the parent (`EventTyped`, `ChainTyped`). Assumed are
`BudgetAssumption` (a budget or an age limit of zero is no limit, so the host
declares some), `LimitsAssumption` (limits are naturals) and
`BlockersAssumption` (no blocker is the absent text).

**Operation.** Every step of `OperationChain` is a step of the inbox, of the
lifecycle or of the children, or leaves each alone (`StepComposed`); with that
the theorems about the parts hold of the whole. `NothingRunsUnapproved` is not
inductive: it says what was run, and a run rests on an approval given earlier.
`TicketSaysApproved` connects them: a held ticket that is not pending binds a
contract that an approver approved with its plan. It survives because whatever
replaces the digest of the ticket makes it pending again (`ReplacedDigest`) and
because nothing done to another role touches what the ticket binds
(`OtherRolePlaced`); the ticket gate compares the rest (`RunIsApproved`).

**Change orders.** `OutOfDateIsAlwaysNamed` is not inductive either: an artifact
is named because of a binding that no longer fits, and a binding may be rebuilt,
to what an order found earlier, while artifacts go on changing. A binding that is
rebuilt too late must not come to fit by accident. `ChainKept` says why it does
not, of three values by place: the digests of what is held (`DigestChain`), the
digests recorded of each role, bound or told by a conflict of the order in hand
(`Recorded`), and the places still to be revalidated (`LeftToRevalidate`).
Digests are compared by their first different edition (`Same`, `Before`), in which
order a digest only ever rises. Then (`WellChained`): what is held is unbroken;
an artifact is of each one before it as that is now or was earlier (`MadeInOrder`);
what is recorded is not newer than what is held, and where a receipt was withdrawn
with what rested on it, older than what would be made now (`RecordedInOrder`); and
where an artifact is not of its predecessor, the predecessor differs from all that
was recorded of it, or the artifact is still to be revalidated (`Accounted`).
Four lemmas about sequences of digests carry the actions: an artifact enters
(`ChainGrows`), a digest rises by a change or a revalidation (`DigestRises`), a
receipt is withdrawn (`ChainIsCut`), an order is taken (`OrderRecords`);
`ChainKeptStep` goes through the actions. A digest that rises leaves what was
recorded of it behind, and what comes after it is thereby in `Accounted`; this is
where it matters that no digest ever comes back.

From `ChainKept` an artifact that is out of date is named: its predecessor is not
bound as it is, so the detector reports it (`DetectedConflicts`) and the order
invalidates everything downstream of it (`OrderForConflicts`). A chain becomes
verified only with an index that is ready and no order in hand, so everything is
bound as it is (`BoundWhenReady`) and each artifact is of its predecessor; of all
before it, by the least place at which that would fail (`AllOfThoseBefore`).
What flattening a sequence of sequences yields is a recursion in the community
modules. No induction over it is needed: were the elements of the flattened
sequence not those of its parts, there would be a least length at which they are
not (`FlattenedElements`, with `LeastIndex` and the step from one length to the
next, `FlattenedStepwise`). `Listed`, `Distinct` and `DetectConflicts` are written
with that operator for this reason. The one assumption, `MissingAssumption`, is
that `None` is no digest, role or schema version. Editions, changes and faults, and
which roles change and fail, are not bounded by it. TLC found `ChainKept` to be
invariant on two instances before it was proved: changes of the intent contract
and the ticket with a failing policy decision, and changes of the policy decision,
the ticket, the receipt and the evidence with a failing receipt.

Only model-checked: the liveness property `AdviceLeadsToVerified`, since TLAPS
does not reach ENABLED. `TypeOK` of the decision and of guard replay, and
`NothingForgotten` (no step shortens or rewrites the store), are proved and no
longer checked by a run.

## 6. Findings and remarks

The `violation` run checks one sentence of the repository against the code.

- `audit_ledger_limit`: an append reads the first 100 entries, so from the 102nd
  append on, the chain forks and no longer verifies
  (`docs/ADMISSION_POLICY.md:87`).

Remarks, which no run turns into a finding:

- A decision may carry any text as its lease id
  (`tests/test_governance_decision.py:420`), a receipt must carry a digest
  (`receipt_conformance.py:546`): I/O performed under a textual lease cannot be
  reported conformant (`docs/RECEIPT_CONFORMANCE.md:3`). The instances use
  digests.
- `docs/STATE_MACHINE.md:17` calls blockers "reasons that currently block
  progress". `apply_state_transition` only adds them, so a run that was blocked,
  admitted again and completed keeps them, and `GovRunState.blocked` stays true.
- `validate_evidence_review_chain` does not make a given qualification again: it
  names its claim and its requirement by id only, so one that was revised under
  its id after the qualification is accepted. It does not look at the verdict of
  the review either, and one of admission id and digest in the claim is enough.
- A status that is none counts as a dry run when evidence is qualified, so a
  requirement with a misspelt minimum asks for a dry run.
- A receipt's digest is not keyed: whoever changes a receipt and binds it again
  gets one that verifies. The binding shows which request and admission it is
  for, and not who made it.
- `runner_receipt_with_binding` takes the references it is given. A receipt bound
  wholly with the admission, ticket and request of another job verifies for that
  job, if the two share a request id (requests made without one do) and its
  results fit that job's steps. No check of the code can tell, so
  `VerifiedExactlyWhenBoundForIt` says just this, and the two properties of
  accepted evidence speak of the run behind the receipt and not of the job's.
- `docs/RECEIPT_BINDING.md:85` lists "a dry-run receipt claims live execution
  evidence" as failing closed. `validate_runner_receipt_binding` does not look
  at evidence; only `qualify_evidence_claim` refuses such a claim.
- A plan's `dry_run` and its lease are not compared with the request it
  supervises: a plan made for a dry run lets a live request run if the backend
  was enabled in it.
- A receipt that says it succeeded may cover fewer steps than its request.
- `docs/POLICY_ENGINE.md:332` names criticality `critical`; `_is_critical` also
  takes `high` and the risk class. The invariant for critical mutations comes
  before any rule, so it also comes before a rule that denies.
- A verdict names its pack by id and version only, and is admitted under any
  pack of that id and version. A host that publishes other rules under an old
  version can have a verdict of the old rules admitted; the plan then carries
  the digest of the new pack. `AcceptedPlanIsOfPackInForce` excepts exactly this.
- The words an admission takes from a verdict leave its obligations and
  constraints to the host: `policy_verdict_to_gov_policy_decision` gives plain
  `allow` for `allow_with_obligations`, and `Compose` does not look at controls.
- Two evaluations of one request with different nonces give two grants that can
  both be claimed. That an attempt is unique is the runtime's promise.
- The issue time of an approval is never compared with the current time.
- `record_guard_replay` over a host's store takes records that are no list for
  no records. Only the file helper fails closed.
- `apply_state_transition` compares states and not versions: a decision made
  before a pause applies again when the run is back in the same state.
- Past the read limit of a ledger entry ids repeat, so paging by
  `after_entry_id` returns to the first of them and never ends.
- Allowlists of a constraint that several rules carry are united, not
  intersected.
- Guard replay is serialised by its host (`docs/API_STABILITY_MATRIX.md:60`);
  `Serialised` states that. Without it `FreshAtMostOnce` fails.
- `docs/ADMISSION_POLICY.md:95` lists "missing lines" among what verification
  detects. A ledger that lost its tail verifies; only an append that names the
  lost entry is refused.
- A policy payload with `allowed: true` passes whatever its decision word says.
- An admission blocked by policy is reported as `dry_run_only` or
  `needs_review` also when its ticket or trust fails as well; the blockers name
  both.
- A trust decision is not compared with the subject of an admission, and nothing
  in the parts of an admission says when they were obtained.
- `docs/RUNTIME_ADMISSION.md` gives `replay_detected` as the reason for failures
  of replay freshness; a missing or blocked replay status gives
  `kernel_guard_required`.
- A v0.1 admission compares neither the typed backend nor the typed
  capabilities with the governance requirements, nor the decision's controls
  with the typed request. What binds them is that the approved facts carry the
  digest of the typed request.
- v0.2 discounts `unsupported_backend_class`, also when the caller's own
  `allowed_backend_classes` is what left the backend out.
- A v0.2 admission that is blocked by a control mismatch alone stops validating
  when its decision expires: the expiry is one more blocker than it lists.
- The lifecycle gate looks at no digest: a chain can be called verified with
  every role present and none of them current. A host has to ask the index as
  well, as the modelled one does.
- From `blocked` a lifecycle may go straight to `verified_chain`, for which only
  the manifest is required.
- A change order that was carried out half way leaves bindings that agree again,
  and the index then says `ready`: what is still to be revalidated is written
  only in the order, which the host must keep until it is finished. The same
  holds after a crash of the host.
- A binding must be rebuilt to the digest the order found (`actual_digest`). With
  the digest that is there by then, an artifact changed in between would never be
  named.
- An order lists the conflicts in the order the caller lists the artifacts, and
  its actions without repetitions: listed against the chain, an artifact can be
  revalidated before the one it is made of, and it takes another round. That is
  why `OutOfDateIsAlwaysNamed` compares with the direct predecessor.
- For a blocked artifact without advice of its own the gate advises nothing; the
  index says `repair_artifact`.
- The ticket gate does not count runs: any `max_runs` of one or more passes
  every time. Its documentation calls it a compatibility check.
- `attempt_count <= max_attempts` admits one retry more than the budget, and
  `move_to_dead_letter` is put to the same check: it is refused exactly when the
  budget is exceeded, and only a signed escalation is left. A maximum age of
  zero lets `block_autostart` pass always.
- A record-only admission has `allowed` true; only its outcome tells it from one
  that lets something be planned.
- An admission of a supervisor action does not outlive the age it was asked
  with: a request made anew with the present age is another request.
- The signal of a supervisor admission leaves out `human_signoff`; that it is
  compared at all is because the subject is the digest of the request.
- `runtime_shell.py` compares the run of a queue snapshot with its own only in
  `from_mapping`; `profile_declared_capabilities` defaults to the required ones,
  so a request that declares nothing lacks nothing.


## 7. Not modelled, and what is left

Left out for good: the command line, schema emission, contract, conformance and
boundary tables, release and corpus scripts. They are formatting or constant
data; there is no behaviour to check. Also left out, inside modelled parts:
digest collisions, field-name and text validation, canonical JSON, public
summaries.

Profiles, profile governance, planning, OODA and orchestration records are
values whose validators compare fields one by one; they keep nothing and are
read by nothing that is modelled here, so a model would restate the comparisons.
Of typed execution, stack compatibility and the policy overlay are left out for
the same reason: nothing in the package reads what they return. Reading models
built for display (`read_model`, summaries) repeat fields.

What would come next, in this order:

1. Stack compatibility and the policy overlay of typed execution, once
   something acts on their result.
2. Audit records built from admissions, and their way into the ledger.
