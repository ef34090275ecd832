--------------------------- MODULE PolicyPipeline ---------------------------
(***************************************************************************)
(* A host that authors a policy pack rule by rule, compiles it, and asks   *)
(* the compiled pack for verdicts and enforcement plans: the composition   *)
(* of PolicyCompiler, PolicyEngine and PolicyEnforcement.                  *)
(***************************************************************************)
EXTENDS PolicyCompiler, Functions

CONSTANTS
  Rules,       \* the rules an author may add
  Requests,    \* the facts of the requests
  MaxSource,   \* bound: rules in the source
  MaxVersion   \* bound: versions of the pack

(* A constraint holds a JSON value of the type it says it has.             *)
TypedValue(v) ==
  /\ v.type = "bool" => v \in {Bool(TRUE), Bool(FALSE)}
  /\ v.type \in {"int", "float"} => v.num \in Int
  /\ v.type = "list" => v.items \in Seq({v.items[i] : i \in DOMAIN v.items})

(* PolicyRule: what from_mapping lets through.                             *)
ASSUME RuleAssumption ==
  \A r \in Rules :
    /\ {"rule_id", "effect", "priority", "conditions", "obligations", "constraints"}
         \subseteq DOMAIN r
    /\ r.conditions \in Seq({r.conditions[i] : i \in DOMAIN r.conditions})
    /\ r.rule_id \in Int /\ r.priority \in Int /\ r.effect \in Effects
    /\ \A i \in DOMAIN r.constraints : TypedValue(r.constraints[i].value)

VARIABLES
  source,    \* the rules of the declarative pack, in authoring order
  version,   \* and its version
  pack,      \* the CompiledPolicyPack in force
  facts,     \* the request of the last evaluation
  judged,    \* the pack it was evaluated under; the verdict itself tells its version only
  verdict,   \* its PolicyVerdict
  plan       \* the PolicyEnforcementPlan made of it last

vars == <<source, version, pack, facts, judged, verdict, plan>>

(* A pack of the one policy id of the model.  Its digest is the record.    *)
Pack(v, rules) == [version |-> v, rules |-> rules]
NoPack == Pack(0, <<>>)

NoVerdict == BareVerdict("none", "none", "none")
NoFacts == <<>>

(* PolicyEnforcementPlan: what was decided, and of which pack and verdict. *)
PlanOf(p, f, v, j) ==
  [pack |-> p, facts |-> f, verdict |-> v, outcome |-> AdmitUnder(p.version, v, j.version)]
NoPlan == PlanOf(NoPack, NoFacts, NoVerdict, NoPack)

Init ==
  /\ source = <<>> /\ version = 1 /\ pack = NoPack
  /\ facts = NoFacts /\ judged = NoPack /\ verdict = NoVerdict /\ plan = NoPlan

(* An author adds a rule to the declarative pack, with or without a new    *)
(* version number.                                                         *)
Author(rule) ==
  /\ Len(source) < MaxSource
  /\ source' = Append(source, rule)
  /\ version' \in {version, version + 1} \cap 1 .. MaxVersion
  /\ UNCHANGED <<pack, facts, judged, verdict, plan>>

(* compile_policy_pack: a rejected pack leaves the one in force alone.     *)
(* Verdicts and plans of the pack before stay in the hands of the host.    *)
CompilePack ==
  /\ LET result == Compile(source)
     IN  pack' = IF result.ok THEN Pack(version, result.rules) ELSE pack
  /\ UNCHANGED <<source, version, facts, judged, verdict, plan>>

(* evaluate_policy. *)
Evaluate ==
  /\ pack # NoPack /\ ValidSnapshot(pack.rules)
  /\ \E f \in Requests :
       /\ facts' = f /\ judged' = pack
       /\ verdict' = EvaluatePolicy(f, pack.rules)
  /\ UNCHANGED <<source, version, pack, plan>>

(* admit_policy_execution, with a verdict of this pack or an earlier one.  *)
Admit ==
  /\ verdict.decision \in Effects /\ ValidSnapshot(pack.rules)
  /\ plan' = PlanOf(pack, facts, verdict, judged)
  /\ UNCHANGED <<source, version, pack, facts, judged, verdict>>

(* validate_policy_enforcement_plan(require_allowed=True), as a runner     *)
(* calls it with the plan, the pack in force and the verdict.              *)
PlanAccepted ==
  /\ plan # NoPlan
  /\ plan = PlanOf(pack, facts, verdict, judged)
  /\ plan.outcome.allowed

Next ==
  \/ \E r \in Rules : Author(r)
  \/ CompilePack
  \/ Evaluate
  \/ Admit

Spec == Init /\ [][Next]_vars
-----------------------------------------------------------------------------
(* How much a decision restricts: a call that raises permits nothing. *)
Strictness(decision) ==
  CASE decision = "allow" -> 0
    [] decision = "allow_with_obligations" -> 1
    [] decision = "approval_required" -> 2
    [] OTHER -> 3

(* No rule that matches the request is stricter than the verdict: neither  *)
(* priorities, rule ids nor the order of the source let a permissive rule  *)
(* hide a restrictive one (the selection at the end of evaluate).          *)
VerdictAtLeastAsStrictAsEveryMatch ==
  (verdict # NoVerdict /\ EvaluateInvariants(facts) = NoInvariant) =>
    \A i \in MatchedRules(facts, judged.rules) :
      Strictness(verdict.decision) >= Strictness(judged.rules[i].effect)

(* What the operator of a condition can be asked of, by the types alone.   *)
Fits(c, v) ==
  \/ c.operator \in {"exists", "eq", "neq", "in", "not_in"}
  \/ c.operator = "contains" /\ (v.type = "list" \/ (v.type = "str" /\ c.value.type = "str"))
  \/ c.operator \in {"lt", "lte", "gt", "gte"} /\ v.type \in {"int", "float"} /\ v.type = c.value.type
  \/ c.operator = "subset_of" /\ v.type = "list"
  \/ c.operator = "matches_namespace" /\ v.type = "str"

IllTyped(c, f) ==
  LET v == Lookup(c.path, f)
  IN  v.type # "missing" /\ ~Fits(c, v)

(* A rule trips over a request: matching it, past conditions that are all  *)
(* met, comes to a fact of a type the next condition cannot be asked of.   *)
Trips(rule, f) ==
  \E i \in DOMAIN rule.conditions :
    /\ IllTyped(rule.conditions[i], f)
    /\ \A j \in 1 .. i - 1 : ConditionMatches(rule.conditions[j], f) = "yes"

(* One rule that trips stops the request, also when another rule of the    *)
(* pack would have denied or decided it, and nothing else stops one: a     *)
(* mismatch behind an unmet condition is never looked at.  So no plan that *)
(* a runner accepts was granted over facts a rule in force trips over, but *)
(* for a pack published again under its version (_condition_matches        *)
(* raising out of the matching of all rules in evaluate).                  *)
IllTypedFactsStopTheRequest ==
  /\ (verdict # NoVerdict /\ EvaluateInvariants(facts) = NoInvariant) =>
       (verdict.decision = "raised" <=> \E i \in DOMAIN judged.rules : Trips(judged.rules[i], facts))
  /\ PlanAccepted =>
       \/ \A i \in DOMAIN pack.rules : ~Trips(pack.rules[i], facts)
       \/ judged.version = pack.version /\ judged.rules # pack.rules

(* A pack means the same however its source is ordered: every permutation  *)
(* of the authored rules compiles to what is put into force.               *)
AuthoringOrderIsIrrelevant ==
  [][pack' # pack =>
       \A p \in Bijection(DOMAIN source, DOMAIN source) :
         LET result == Compile([i \in DOMAIN source |-> source[p[i]]])
         IN  result.ok /\ result.rules = pack'.rules]_vars

(* What a ready plan enforces is at least what the rule asked for: every   *)
(* limit of the verdict bounds the projected limit, every switch and       *)
(* obligation is on, an allowlist is never lost (empty means no limit) and *)
(* lets nothing through that no constraint names (project_runtime_controls). *)
Bounded(limit, c) == limit > 0 /\ limit <= c.value.num

Enforced(controls, c) ==
  /\ c.kind \in LimitKinds \cup SwitchKinds \cup {"output_digest_required"} \cup AllowlistKinds
  /\ c.kind = "timeout" => Bounded(controls.timeout_seconds, c)
  /\ c.kind = "max_steps" => Bounded(controls.max_steps, c)
  /\ c.kind = "output_limit" => Bounded(controls.max_output_bytes, c)
  /\ c.kind \in SwitchKinds => controls[c.kind]
  /\ (c.kind = "output_digest_required" /\ c.value.truth) => controls.output_digest_required
  /\ c.kind \in AllowlistKinds => controls[c.kind] # {}

Named(v, kind, item) ==
  \E i \in DOMAIN v.constraints :
    v.constraints[i].kind = kind /\ Includes(v.constraints[i].value.items, item)

ReadyPlanEnforcesEveryControl ==
  plan.outcome.allowed =>
    LET v == plan.verdict
        controls == plan.outcome.controls
    IN  /\ v.decision \in {"allow", "allow_with_obligations"}
        /\ \A i \in DOMAIN v.constraints : Enforced(controls, v.constraints[i])
        /\ \A kind \in AllowlistKinds : \A item \in controls[kind] : Named(v, kind, item)
        /\ \A i \in DOMAIN v.obligations :
             LET kind == v.obligations[i].kind
             IN  kind \in SupportedObligations
                 /\ (kind = "output_digest_required" => controls.output_digest_required)

(* A plan that a runner accepts grants what the pack in force would grant: *)
(* neither a plan nor a verdict of an earlier pack is taken for it.  The   *)
(* one exception is a pack published again under its version with other    *)
(* rules, since a verdict names its pack by id and version only            *)
(* (admit_policy_execution, validate_policy_enforcement_plan).             *)
AcceptedPlanIsOfPackInForce ==
  PlanAccepted =>
    \/ verdict = EvaluatePolicy(facts, pack.rules)
    \/ judged.version = pack.version /\ judged.rules # pack.rules
-----------------------------------------------------------------------------
(* The inductive invariant behind these.                                   *)

(* Compiled rules are rules in their canonical form. *)
CanonicalRules == {CanonicalConditions(r) : r \in Rules}

(* A verdict is that of the pack it was judged under. *)
VerdictOfPack == verdict # NoVerdict => verdict = EvaluatePolicy(facts, judged.rules)

(* An allowed plan is the projection of its verdict, whose constraints are *)
(* those of a rule.                                                        *)
PlanOfVerdict ==
  /\ plan.outcome.allowed => plan.outcome = AdmitPolicyExecution(plan.verdict)
  /\ \A i \in DOMAIN plan.verdict.constraints : TypedValue(plan.verdict.constraints[i].value)

PipelineInv ==
  /\ source \in Seq(Rules)
  /\ pack.rules \in Seq(CanonicalRules) /\ judged.rules \in Seq(CanonicalRules)
  /\ VerdictOfPack /\ PlanOfVerdict
=============================================================================
