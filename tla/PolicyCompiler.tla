--------------------------- MODULE PolicyCompiler ---------------------------
(***************************************************************************)
(* Compilation of a declarative policy pack (govengine/policy/compiler):   *)
(* every rule is checked, the rules are put into one canonical order, and  *)
(* packs with duplicate, conflicting or redundant rules or conflicting     *)
(* controls are rejected as a whole.                                       *)
(*                                                                         *)
(* A rule_id is the rank of its text.  A condition carries "key", the rank *)
(* of (path, operator, value digest) in the canonical order; two           *)
(* conditions have the same key exactly when they are equal.               *)
(***************************************************************************)
EXTENDS PolicyEnforcement

CONSTANTS
  MaxRules,        \* MAX_POLICY_RULES
  MaxConditions,   \* MAX_POLICY_CONDITIONS_PER_RULE
  MaxTotal,        \* MAX_POLICY_TOTAL_CONDITIONS
  MaxControls      \* MAX_POLICY_CONTROLS_PER_RULE

ASSUME LimitsAssumption ==
  {MaxRules, MaxConditions, MaxTotal, MaxControls} \subseteq Nat \ {0}

(* sorted of Python: by "Before", and what comes neither way before the    *)
(* other stays as it was.  The place of an element is the number of those  *)
(* up to it.                                                               *)
UpTo(s, i, Before(_, _)) ==
  {j \in DOMAIN s : Before(s[j], s[i]) \/ (~Before(s[i], s[j]) /\ j <= i)}

Sorted(s, Before(_, _)) ==
  [k \in DOMAIN s |-> s[CHOOSE i \in DOMAIN s : Cardinality(UpTo(s, i, Before)) = k]]

(* _conditions: the canonical order of the conditions of one rule. *)
CanonicalConditions(rule) ==
  [rule EXCEPT !.conditions = Sorted(@, LAMBDA a, b : a.key < b.key)]

DuplicateCondition(rule) ==
  \E i, j \in DOMAIN rule.conditions : i < j /\ rule.conditions[i] = rule.conditions[j]

(* PolicyRule.from_mapping: the first check the rule fails, or "none". *)
RuleError(rule) ==
  LET n == Len(rule.conditions)
  IN  IF n = 0 THEN "policy_rule_without_conditions"
      ELSE IF n > MaxConditions THEN "policy_rule_condition_limit_exceeded"
      ELSE IF DuplicateCondition(rule) THEN "duplicate_policy_condition"
      ELSE IF Len(rule.obligations) + Len(rule.constraints) > MaxControls
           THEN "policy_rule_control_limit_exceeded"
      ELSE "none"

(* A plausible regression: ties of priority keep the order of the source. *)
RuleBefore_PriorityOnly(a, b) == a.priority < b.priority

RuleBefore(a, b) ==
  \/ a.priority < b.priority
  \/ a.priority = b.priority /\ a.rule_id < b.rule_id

SortedRules(source) ==
  Sorted([i \in DOMAIN source |-> CanonicalConditions(source[i])], RuleBefore)

TotalConditions(rules) ==
  Cardinality(UNION {{<<i, k>> : k \in DOMAIN rules[i].conditions} : i \in DOMAIN rules})

(* _reject_conflicts: what the loop raises when it reaches rule i. *)
RuleConflict(rules, i) ==
  LET earlier == 1 .. i - 1
      same == {j \in earlier : rules[j].conditions = rules[i].conditions}
  IN  IF \E j \in earlier : rules[j].rule_id = rules[i].rule_id
      THEN "duplicate_policy_rule_id"
      ELSE IF \E j \in same : rules[j].effect # rules[i].effect
      THEN "conflicting_policy_rules"
      ELSE IF same # {} THEN "redundant_policy_rules" ELSE "none"

Controls(rules, field) ==
  UNION {{rules[i][field][k] : k \in DOMAIN rules[i][field]} : i \in DOMAIN rules}

(* _reject_control_conflicts: one control id has one payload in the pack. *)
ControlConflict(rules) ==
  \E field \in {"obligations", "constraints"} :
    \E a, b \in Controls(rules, field) : a.id = b.id /\ a # b

TooManyConditions(rules) == TotalConditions(rules) > MaxTotal

(* PolicyCompiler.compile: the status, the reason and the compiled rules. *)
Rejected(reason) == [ok |-> FALSE, reason |-> reason, rules |-> <<>>]

Compile(source) ==
  LET broken == {i \in DOMAIN source : RuleError(source[i]) # "none"}
      rules == SortedRules(source)
      clashes == {i \in DOMAIN rules : RuleConflict(rules, i) # "none"}
  IN  IF source = <<>> THEN Rejected("policy_pack_without_rules")
      ELSE IF Len(source) > MaxRules THEN Rejected("policy_rule_limit_exceeded")
      ELSE IF broken # {} THEN Rejected(RuleError(source[FirstIndex(broken)]))
      ELSE IF TooManyConditions(rules)
           THEN Rejected("policy_condition_limit_exceeded")
      ELSE IF clashes # {} THEN Rejected(RuleConflict(rules, FirstIndex(clashes)))
      ELSE IF ControlConflict(rules) THEN Rejected("conflicting_policy_controls")
      ELSE [ok |-> TRUE, reason |-> "compiled", rules |-> rules]

(* _validated_compiled_policy_pack_snapshot: a pack is used only if        *)
(* compiling it again gives the very same pack.                            *)
ValidSnapshot(rules) ==
  LET again == Compile(rules)
  IN  again.ok /\ again.rules = rules
=============================================================================
