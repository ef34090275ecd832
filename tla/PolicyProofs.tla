---------------------------- MODULE PolicyProofs ----------------------------
(***************************************************************************)
(* Facts about verdicts and the controls projected from them, for every    *)
(* request, any rules and any numbers of constraints.                      *)
(***************************************************************************)
EXTENDS PolicyEnforcement, FiniteSetTheorems, TLAPS

(* The first index of a nonempty set of indices is the least of them: the  *)
(* intervals below the indices, ordered by inclusion, have a smallest one. *)
LEMMA FirstIndexIn ==
  ASSUME NEW n \in Nat, NEW S, S \subseteq 1 .. n, S # {}
  PROVE  FirstIndex(S) \in S /\ \A j \in S : FirstIndex(S) <= j
<1> DEFINE below == {1 .. i : i \in S}
<1>1. \A i \in S : IsFiniteSet(1 .. i) /\ 1 .. i \in SUBSET (1 .. n)
  <2> SUFFICES ASSUME NEW i \in S PROVE IsFiniteSet(1 .. i) /\ 1 .. i \in SUBSET (1 .. n)
    OBVIOUS
  <2>1. i \in 1 .. n
    OBVIOUS
  <2> QED
    BY <2>1, FS_Interval
<1>2. IsWellFoundedOn(StrictSubsetOrdering(1 .. n), FiniteSubsetsOf(1 .. n))
  BY FS_StrictSubsetOrderingWellFounded
<1>3. below \subseteq FiniteSubsetsOf(1 .. n)
  BY <1>1 DEF FiniteSubsetsOf
<1>4. below # {}
  OBVIOUS
<1> HIDE DEF below
<1>5. PICK x \in below : \A y \in below : ~(<<y, x>> \in StrictSubsetOrdering(1 .. n))
  BY <1>2, <1>3, <1>4, WFMin
<1> USE DEF below
<1>6. PICK k \in S : x = 1 .. k
  OBVIOUS
<1>7. ASSUME NEW j \in S PROVE k <= j
  <2>1. j \in 1 .. n /\ k \in 1 .. n
    OBVIOUS
  <2>2. ~(<<1 .. j, 1 .. k>> \in StrictSubsetOrdering(1 .. n))
    BY <1>5, <1>6
  <2>3. ~(1 .. j \subseteq 1 .. k /\ 1 .. j # 1 .. k)
    BY <1>1, <2>2 DEF StrictSubsetOrdering
  <2>4. SUFFICES ASSUME j < k PROVE FALSE
    BY <2>1
  <2>5. 1 .. j \subseteq 1 .. k
    BY <2>1, <2>4
  <2>6. k \in 1 .. k /\ k \notin 1 .. j
    BY <2>1, <2>4
  <2> QED
    BY <2>3, <2>5, <2>6
<1> QED
  BY <1>7 DEF FirstIndex

(* One matching deny rule settles the verdict, whatever else matches. *)
LEMMA DenyRuleWins ==
  ASSUME NEW rules, NEW n \in Nat, DOMAIN rules = 1 .. n,
         NEW matched, matched \subseteq DOMAIN rules,
         NEW i \in matched, rules[i].effect = "deny"
  PROVE  SelectRule(rules, matched).decision = "deny"
<1> DEFINE denying == {k \in matched : rules[k].effect = "deny"}
<1>1. denying # {} /\ denying \subseteq 1 .. n
  OBVIOUS
<1>2. FirstIndex(denying) \in denying
  BY <1>1, FirstIndexIn
<1>3. SelectRule(rules, matched) = VerdictFromRule(rules[FirstIndex(denying)])
  BY <1>1 DEF SelectRule
<1> QED
  BY <1>2, <1>3 DEF VerdictFromRule, Verdict

(* Every verdict of the policy engine is a Verdict record. *)
LEMMA VerdictShape ==
  ASSUME NEW facts, NEW rules
  PROVE  LET v == EvaluatePolicy(facts, rules)
         IN  v = Verdict(v.decision, v.reason, v.blockers, v.obligations, v.constraints)
<1>1. \A d, r, b, o, k :
        LET v == Verdict(d, r, b, o, k)
        IN  v = Verdict(v.decision, v.reason, v.blockers, v.obligations, v.constraints)
  BY DEF Verdict
<1>2. \A matched : \E d, r, b, o, k : SelectRule(rules, matched) = Verdict(d, r, b, o, k)
  BY DEF SelectRule, VerdictFromRule
<1>3. \E d, r, b, o, k : EvaluateInvariants(facts) = Verdict(d, r, b, o, k)
  BY DEF EvaluateInvariants, BareVerdict, NoInvariant
<1>4. \E d, r, b, o, k : EvaluatePolicy(facts, rules) = Verdict(d, r, b, o, k)
  BY <1>2, <1>3 DEF EvaluatePolicy, Raised, BareVerdict
<1> QED
  BY <1>1, <1>4

(* The constraints of a verdict are those of a rule, or none. *)
LEMMA VerdictConstraints ==
  ASSUME NEW facts, NEW rules, NEW n \in Nat, DOMAIN rules = 1 .. n
  PROVE  LET v == EvaluatePolicy(facts, rules)
         IN  \/ v.constraints = <<>>
             \/ \E i \in DOMAIN rules : v.constraints = rules[i].constraints
<1> DEFINE from(v) == \/ v.constraints = <<>>
                      \/ \E i \in DOMAIN rules : v.constraints = rules[i].constraints
<1>1. \A d, r, b : from(BareVerdict(d, r, b))
  BY DEF BareVerdict, Verdict
<1>2. from(Raised)
  BY DEF Raised, Verdict
<1>3. from(EvaluateInvariants(facts))
  BY <1>1 DEF EvaluateInvariants, NoInvariant
<1>4. \A i \in DOMAIN rules : from(VerdictFromRule(rules[i]))
  BY DEF VerdictFromRule, Verdict
<1>5. ASSUME NEW S, S \subseteq DOMAIN rules, S # {}
      PROVE  from(VerdictFromRule(rules[FirstIndex(S)]))
  BY <1>4, <1>5, FirstIndexIn
<1>6. ASSUME NEW matched, matched \subseteq DOMAIN rules, matched # {}
      PROVE  from(SelectRule(rules, matched))
  <2> DEFINE with(e) == {i \in matched : rules[i].effect = e}
  <2>1. \A e : with(e) \subseteq DOMAIN rules
    BY <1>6
  <2>2. \/ SelectRule(rules, matched) = VerdictFromRule(rules[FirstIndex(matched)])
        \/ \E e : with(e) # {} /\ SelectRule(rules, matched)
                                    = VerdictFromRule(rules[FirstIndex(with(e))])
    BY DEF SelectRule
  <2> HIDE DEF with, from
  <2> QED
    BY <1>5, <1>6, <2>1, <2>2
<1>7. MatchedRules(facts, rules) \subseteq DOMAIN rules
  BY DEF MatchedRules
<1> HIDE DEF from
<1>8. from(EvaluatePolicy(facts, rules))
  BY <1>1, <1>2, <1>3, <1>6, <1>7 DEF EvaluatePolicy
<1> QED
  BY <1>8 DEF from

(* What is projected of a verdict is a matter of these two fields. *)
LEMMA ProjectionOfControls ==
  ASSUME NEW v, NEW w, v.obligations = w.obligations, v.constraints = w.constraints
  PROVE  /\ ProjectRuntimeControls(v) = ProjectRuntimeControls(w)
         /\ Projectable(v) <=> Projectable(w)
<1>1. \A kind : ConstraintValues(v, kind) = ConstraintValues(w, kind)
  BY DEF ConstraintValues
<1>2. \A kinds : HasObligation(v, kinds) = HasObligation(w, kinds)
  BY DEF HasObligation
<1>3. \A kind : Allowlist(v, kind) = Allowlist(w, kind) /\ Switched(v, kind) = Switched(w, kind)
  BY <1>1 DEF Allowlist, Switched
<1>4. ProjectRuntimeControls(v) = ProjectRuntimeControls(w)
  BY <1>1, <1>2, <1>3 DEF ProjectRuntimeControls
<1>5. Projectable(v) <=> Projectable(w)
  BY DEF Projectable
<1> QED
  BY <1>4, <1>5

(* The limit that is projected is the least of those that are given. *)
LEMMA SmallestIsLeast ==
  ASSUME NEW values, \A v \in values : v.num \in Nat \ {0}, NEW v \in values
  PROVE  /\ SmallestPositive(values) \in Nat \ {0}
         /\ SmallestPositive(values) <= v.num
<1> DEFINE S == {w.num : w \in values} \cap 1 .. v.num
<1>1. v.num \in Nat /\ S \subseteq 1 .. v.num /\ S # {}
  OBVIOUS
<1>2. FirstIndex(S) \in S /\ \A j \in S : FirstIndex(S) <= j
  BY <1>1, FirstIndexIn
<1>3. PICK least \in values : least.num = FirstIndex(S)
  BY <1>2
<1>4. ASSUME NEW w \in values PROVE least.num <= w.num
  <2>1. w.num \in Nat \ {0} /\ least.num \in Nat \ {0} /\ least.num <= v.num
    BY <1>2, <1>3
  <2>2. CASE w.num <= v.num
    <3>1. w.num \in S
      BY <2>1, <2>2
    <3> QED
      BY <1>2, <1>3, <3>1
  <2>3. CASE w.num > v.num
    BY <1>1, <2>1, <2>3
  <2> QED
    BY <1>1, <2>1, <2>2, <2>3
<1> DEFINE first == CHOOSE x \in values : \A w \in values : x.num <= w.num
<1>5. first \in values /\ \A w \in values : first.num <= w.num
  BY <1>4
<1>6. SmallestPositive(values) = first.num
  BY DEF SmallestPositive
<1> QED
  BY <1>5, <1>6
=============================================================================
