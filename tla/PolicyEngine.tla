---------------------------- MODULE PolicyEngine ----------------------------
(***************************************************************************)
(* The fail-closed policy runtime (govengine/policy/runtime): typed        *)
(* conditions over bounded facts, the built-in invariants that run before  *)
(* any rule, and the selection of one rule of a compiled pack.             *)
(*                                                                         *)
(* A JSON value is a record of its type and its payload, since the code    *)
(* compares types before payloads (_strict_equal: True is not 1, 1 is not  *)
(* 1.0).  A text payload is a sequence of pieces, "." always a piece of    *)
(* its own: an instance cuts its texts as finely as it takes for one text  *)
(* to be a substring of another exactly when its pieces are a run of the   *)
(* other's.  The facts of a request are a function from the condition      *)
(* paths it defines to values.                                             *)
(***************************************************************************)
EXTENDS Integers, Sequences, FiniteSets

Effects == {"allow", "allow_with_obligations", "approval_required", "deny"}

Bool(b) == [type |-> "bool", truth |-> b]
Num(n) == [type |-> "int", num |-> n]
Float(n) == [type |-> "float", num |-> n]
Text(pieces) == [type |-> "str", pieces |-> pieces]
List(items) == [type |-> "list", items |-> items]

(* _MISSING: the path is not defined by the request. *)
Missing == [type |-> "missing"]

Lookup(path, facts) == IF path \in DOMAIN facts THEN facts[path] ELSE Missing

StrictEqual(a, b) == a = b

(* bool(value) of Python. *)
Truthy(v) ==
  \/ v.type = "bool" /\ v.truth
  \/ v.type \in {"int", "float"} /\ v.num # 0
  \/ v.type = "str" /\ v.pieces # <<>>
  \/ v.type = "list" /\ v.items # <<>>

FirstIndex(S) == CHOOSE i \in S : \A j \in S : i <= j

-----------------------------------------------------------------------------
(* Conditions.  An outcome is "yes", "no", or "raise" where the code raises *)
(* policy_condition_operand_type_mismatch.                                  *)

YesNo(b) == IF b THEN "yes" ELSE "no"

Includes(list, v) == \E i \in DOMAIN list : StrictEqual(v, list[i])

PrefixOf(s, t) == Len(s) <= Len(t) /\ SubSeq(t, 1, Len(s)) = s

InNamespace(s, t) == s = t \/ PrefixOf(s \o <<".">>, t)

RunOf(s, t) ==
  \E i \in 0 .. Len(t) - Len(s) : SubSeq(t, i + 1, i + Len(s)) = s

Compare(op, a, b) ==
  \/ op = "lt"  /\ a < b
  \/ op = "lte" /\ a <= b
  \/ op = "gt"  /\ a > b
  \/ op = "gte" /\ a >= b

ConditionMatches(c, facts) ==
  LET actual == Lookup(c.path, facts)
      expected == c.value
  IN  CASE c.operator = "exists" -> YesNo((actual.type # "missing") = expected.truth)
        [] c.operator # "exists" /\ actual.type = "missing" -> "no"
        [] OTHER ->
           CASE c.operator = "eq" -> YesNo(StrictEqual(actual, expected))
             [] c.operator = "neq" -> YesNo(~StrictEqual(actual, expected))
             [] c.operator = "in" -> YesNo(Includes(expected.items, actual))
             [] c.operator = "not_in" -> YesNo(~Includes(expected.items, actual))
             [] c.operator = "contains" ->
                  CASE actual.type = "list" -> YesNo(Includes(actual.items, expected))
                    [] actual.type = "str" /\ expected.type = "str" ->
                         YesNo(RunOf(expected.pieces, actual.pieces))
                    [] OTHER -> "raise"
             [] c.operator \in {"lt", "lte", "gt", "gte"} ->
                  IF actual.type = expected.type /\ actual.type \in {"int", "float"}
                  THEN YesNo(Compare(c.operator, actual.num, expected.num))
                  ELSE "raise"
             [] c.operator = "subset_of" ->
                  IF actual.type = "list"
                  THEN YesNo(\A i \in DOMAIN actual.items :
                                Includes(expected.items, actual.items[i]))
                  ELSE "raise"
             [] c.operator = "matches_namespace" ->
                  IF actual.type = "str"
                  THEN YesNo(InNamespace(expected.pieces, actual.pieces))
                  ELSE "raise"
             [] OTHER -> "raise"

(* _matches: the conditions of a rule are tried in their canonical order *)
(* and the first one that is not met, or that raises, settles the rule.  *)
RuleMatches(rule, facts) ==
  LET outcome(i) == ConditionMatches(rule.conditions[i], facts)
      unmet == {i \in DOMAIN rule.conditions : outcome(i) # "yes"}
  IN  IF unmet = {} THEN "yes" ELSE outcome(FirstIndex(unmet))

-----------------------------------------------------------------------------
(* Verdicts.  "raised" stands for the GovApiError that leaves the call.    *)

Verdict(decision, reason, blockers, obligations, constraints) ==
  [decision |-> decision, reason |-> reason, blockers |-> blockers,
   obligations |-> obligations, constraints |-> constraints]

BareVerdict(decision, reason, blocker) ==
  Verdict(decision, reason, {blocker}, <<>>, <<>>)

VerdictFromRule(rule) ==
  Verdict(rule.effect, rule.reason,
          IF rule.effect \in {"deny", "approval_required"} THEN {rule.reason} ELSE {},
          rule.obligations, rule.constraints)

Raised == Verdict("raised", "policy_condition_operand_type_mismatch", {}, <<>>, <<>>)

MutatingModes == {"write", "mutating", "mutation", "delete", "destructive", "apply"}

(* a or b or c of Python over the named facts. *)
FirstTruthy(paths, facts) ==
  LET set == {i \in DOMAIN paths : Truthy(Lookup(paths[i], facts))}
  IN  IF set = {} THEN Missing ELSE Lookup(paths[FirstIndex(set)], facts)

OneWordIn(v, words) == v.type = "str" /\ \E w \in words : v.pieces = <<w>>

IsMutating(facts) ==
  OneWordIn(FirstTruthy(<<"action.mode", "action.type", "action.category">>, facts),
            MutatingModes)

IsCritical(facts) ==
  OneWordIn(FirstTruthy(<<"resource.criticality", "resource.risk_class">>, facts),
            {"high", "critical"})

UnsafeShape(facts) ==
  \/ Truthy(Lookup("action.unsafe_execution_shape", facts))
  \/ Truthy(Lookup("request_context.execution.unsafe_execution_shape", facts))

Destructive(facts) == Truthy(Lookup("action.destructive", facts))

(* The built-in invariants that apply to a request: _has_approval_evidence *)
(* is constantly False, so an approval never switches one of them off.     *)
NoInvariant == BareVerdict("none", "none", "none")

(* A plausible regression: what an approval can satisfy is looked at first. *)
EvaluateInvariants_ApprovalFirst(facts) ==
  CASE UnsafeShape(facts) ->
         BareVerdict("deny", "unsafe_execution_shape", "unsafe_execution_shape")
    [] ~UnsafeShape(facts) /\ IsMutating(facts) /\ IsCritical(facts) ->
         BareVerdict("approval_required", "critical_mutating_action_requires_approval",
                     "operator_approval_required")
    [] ~UnsafeShape(facts) /\ ~(IsMutating(facts) /\ IsCritical(facts)) /\ Destructive(facts) ->
         BareVerdict("deny", "destructive_action_without_approval_evidence",
                     "destructive_action_without_approval_evidence")
    [] OTHER -> NoInvariant

(* _evaluate_invariants: the first that applies. *)
EvaluateInvariants(facts) ==
  CASE UnsafeShape(facts) ->
         BareVerdict("deny", "unsafe_execution_shape", "unsafe_execution_shape")
    [] ~UnsafeShape(facts) /\ Destructive(facts) ->
         BareVerdict("deny", "destructive_action_without_approval_evidence",
                     "destructive_action_without_approval_evidence")
    [] ~UnsafeShape(facts) /\ ~Destructive(facts) /\ IsMutating(facts) /\ IsCritical(facts) ->
         BareVerdict("approval_required", "critical_mutating_action_requires_approval",
                     "operator_approval_required")
    [] OTHER -> NoInvariant

MatchedRules(facts, rules) == {i \in DOMAIN rules : RuleMatches(rules[i], facts) = "yes"}

(* A plausible regression: approval rules are looked up before deny rules. *)
SelectRule_ApprovalFirst(rules, matched) ==
  LET with(e) == {i \in matched : rules[i].effect = e}
      pick(S) == VerdictFromRule(rules[FirstIndex(S)])
  IN  IF with("approval_required") # {} THEN pick(with("approval_required"))
      ELSE IF with("deny") # {} THEN pick(with("deny"))
      ELSE IF with("allow_with_obligations") # {} THEN pick(with("allow_with_obligations"))
      ELSE pick(matched)

SelectRule(rules, matched) ==
  LET with(e) == {i \in matched : rules[i].effect = e}
      pick(S) == VerdictFromRule(rules[FirstIndex(S)])
  IN  IF with("deny") # {} THEN pick(with("deny"))
      ELSE IF with("approval_required") # {} THEN pick(with("approval_required"))
      ELSE IF with("allow_with_obligations") # {} THEN pick(with("allow_with_obligations"))
      ELSE pick(matched)

(* A plausible regression: a type mismatch counts as a condition not met. *)
EvaluatePolicy_MismatchIsNoMatch(facts, rules) ==
  LET invariant == EvaluateInvariants(facts)
      matched == MatchedRules(facts, rules)
  IN  IF invariant # NoInvariant THEN invariant
      ELSE IF matched = {}
           THEN BareVerdict("deny", "no_matching_policy_rule", "no_matching_policy_rule")
      ELSE SelectRule(rules, matched)

(* PolicyEngine.evaluate.  Every rule is matched before one is selected, *)
(* so a type mismatch in any rule leaves the call.                       *)
EvaluatePolicy(facts, rules) ==
  LET invariant == EvaluateInvariants(facts)
      matched == MatchedRules(facts, rules)
  IN  IF invariant # NoInvariant THEN invariant
      ELSE IF \E i \in DOMAIN rules : RuleMatches(rules[i], facts) = "raise" THEN Raised
      ELSE IF matched = {}
           THEN BareVerdict("deny", "no_matching_policy_rule", "no_matching_policy_rule")
      ELSE SelectRule(rules, matched)
=============================================================================
