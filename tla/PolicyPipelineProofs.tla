------------------------ MODULE PolicyPipelineProofs ------------------------
(***************************************************************************)
(* Proofs about compiling, evaluating and enforcing policy packs, for all  *)
(* rules, all requests, and packs of any length and in any order.          *)
(***************************************************************************)
EXTENDS PolicyPipeline, PolicyProofs

(* Rules that can be put in order. *)
Sortable(rules, n) ==
  /\ DOMAIN rules = 1 .. n
  /\ \A i \in 1 .. n : rules[i].priority \in Int /\ rules[i].rule_id \in Int

(* The rules up to the i-th in the order of the compiler.                  *)
RulesUpTo(rules, i) == UpTo(rules, i, RuleBefore)
(* The place of the i-th rule is their number.                             *)
Place(rules, i) == Cardinality(RulesUpTo(rules, i))

(* The rules in that order.                                                *)
InOrder(rules) == Sorted(rules, RuleBefore)

(* No two rules have one id.                                               *)
IdsDiffer(rules, n) == \A i, k \in 1 .. n : rules[i].rule_id = rules[k].rule_id => i = k
(* b are the rules of a, rearranged by p.                                  *)
Rearranged(a, b, n, p) == p \in Bijection(1 .. n, 1 .. n) /\ \A i \in 1 .. n : b[i] = a[p[i]]

(* The rules of a source in their canonical form. *)
Canonical(s) == [i \in DOMAIN s |-> CanonicalConditions(s[i])]

-----------------------------------------------------------------------------
(* The order of compiled rules. *)

(* The rules up to one are some of all, that one among them. *)
LEMMA UpToAll ==
  ASSUME NEW n \in Nat, NEW rules, Sortable(rules, n), NEW i \in 1 .. n
  PROVE  /\ RulesUpTo(rules, i) \in SUBSET (1 .. n) /\ i \in RulesUpTo(rules, i)
         /\ IsFiniteSet(RulesUpTo(rules, i)) /\ Place(rules, i) \in 1 .. n
<1>1. RulesUpTo(rules, i) \in SUBSET (1 .. n) /\ i \in RulesUpTo(rules, i)
  BY DEF RulesUpTo, UpTo, RuleBefore, Sortable
<1>2. IsFiniteSet(1 .. n) /\ Cardinality(1 .. n) = n
  BY FS_Interval
<1>3. IsFiniteSet(RulesUpTo(rules, i)) /\ Place(rules, i) <= n
  BY <1>1, <1>2, FS_Subset DEF Place
<1>4. Place(rules, i) \in Nat /\ Place(rules, i) # 0
  BY <1>1, <1>3, FS_CardinalityType, FS_EmptySet DEF Place
<1> QED
  BY <1>1, <1>3, <1>4

(* A rule comes up to another by its priority, then by its id, then by     *)
(* where it was.                                                           *)
LEMMA UpToExactly ==
  ASSUME NEW n \in Nat, NEW rules, Sortable(rules, n), NEW i \in 1 .. n, NEW k \in 1 .. n
  PROVE  /\ rules[i].priority \in Int /\ rules[i].rule_id \in Int
         /\ i \in RulesUpTo(rules, k) <=>
              \/ rules[i].priority < rules[k].priority
              \/ /\ rules[i].priority = rules[k].priority
                 /\ \/ rules[i].rule_id < rules[k].rule_id
                    \/ rules[i].rule_id = rules[k].rule_id /\ i <= k
BY DEF RulesUpTo, UpTo, RuleBefore, Sortable

(* No two rules have the same place. *)
LEMMA PlacesDiffer ==
  ASSUME NEW n \in Nat, NEW rules, Sortable(rules, n), NEW i \in 1 .. n, NEW k \in 1 .. n,
         Place(rules, i) = Place(rules, k)
  PROVE  i = k
<1>1. ASSUME NEW a \in 1 .. n, NEW b \in 1 .. n, a \in RulesUpTo(rules, b),
             Place(rules, a) = Place(rules, b)
      PROVE  a = b
  <2>1. RulesUpTo(rules, a) \subseteq RulesUpTo(rules, b)
    <3> SUFFICES ASSUME NEW x \in 1 .. n, x \in RulesUpTo(rules, a)
                 PROVE  x \in RulesUpTo(rules, b)
      BY UpToAll
    <3> QED
      BY <1>1, UpToExactly
  <2>2. RulesUpTo(rules, a) = RulesUpTo(rules, b)
    <3>1. /\ IsFiniteSet(RulesUpTo(rules, b))
          /\ Cardinality(RulesUpTo(rules, b)) = Cardinality(RulesUpTo(rules, a))
      BY <1>1, UpToAll DEF Place
    <3> QED
      BY <2>1, <3>1, FS_Subset
  <2>3. b \in RulesUpTo(rules, a)
    BY <2>2, UpToAll
  <2> QED
    BY <1>1, <2>3 DEF RulesUpTo, UpTo, RuleBefore, Sortable
<1>2. i \in RulesUpTo(rules, k) \/ k \in RulesUpTo(rules, i)
  BY DEF RulesUpTo, UpTo, RuleBefore, Sortable
<1> QED
  BY <1>1, <1>2

(* Every place is taken. *)
LEMMA PlacesAreTaken ==
  ASSUME NEW n \in Nat, NEW rules, Sortable(rules, n), NEW k \in 1 .. n
  PROVE  \E i \in 1 .. n : Place(rules, i) = k
<1> DEFINE place == [i \in 1 .. n |-> Place(rules, i)]
<1>1. place \in Injection(1 .. n, 1 .. n)
  BY UpToAll, PlacesDiffer DEF Injection, IsInjective
<1>2. IsFiniteSet(1 .. n)
  BY FS_Interval
<1> HIDE DEF place
<1>3. place \in Surjection(1 .. n, 1 .. n)
  BY <1>1, <1>2, FS_Injection
<1> QED
  BY <1>3 DEF place, Surjection

(* Sorting puts every rule at its place, and nothing else. *)
LEMMA SortedByPlace ==
  ASSUME NEW n \in Nat, NEW rules, Sortable(rules, n)
  PROVE  /\ InOrder(rules) = [k \in 1 .. n |-> InOrder(rules)[k]]
         /\ \A i \in 1 .. n : InOrder(rules)[Place(rules, i)] = rules[i]
<1> DEFINE sorted == InOrder(rules)
           at(k) == CHOOSE i \in 1 .. n : Place(rules, i) = k
<1>1. sorted = [k \in 1 .. n |-> rules[at(k)]]
  BY DEF InOrder, Sorted, Place, RulesUpTo, Sortable
<1>2. ASSUME NEW i \in 1 .. n PROVE sorted[Place(rules, i)] = rules[i]
  <2>1. Place(rules, i) \in 1 .. n
    BY UpToAll
  <2>2. at(Place(rules, i)) \in 1 .. n /\ Place(rules, at(Place(rules, i))) = Place(rules, i)
    OBVIOUS
  <2>3. at(Place(rules, i)) = i
    BY <2>2, PlacesDiffer
  <2> QED
    BY <1>1, <2>1, <2>3
<1> QED
  BY <1>1, <1>2

(* However rules of different ids are ordered before, sorting orders them  *)
(* alike: it counts the same rules up to each.                             *)
LEMMA SortedAlike ==
  ASSUME NEW n \in Nat, NEW a, NEW b, Sortable(a, n), Sortable(b, n),
         NEW p, Rearranged(a, b, n, p), IdsDiffer(a, n)
  PROVE  InOrder(a) = InOrder(b)
<1>1. /\ p \in [1 .. n -> 1 .. n] /\ \A i, k \in 1 .. n : p[i] = p[k] => i = k
      /\ \A k \in 1 .. n : \E i \in 1 .. n : p[i] = k
      /\ \A i \in 1 .. n : b[i] = a[p[i]]
  BY DEF Rearranged, Bijection, Injection, Surjection, IsInjective
<1>2. ASSUME NEW i \in 1 .. n PROVE Place(b, i) = Place(a, p[i])
  <2> DEFINE S == RulesUpTo(b, i)
             T == RulesUpTo(a, p[i])
             q == [x \in S |-> p[x]]
  <2>1. p[i] \in 1 .. n /\ S \subseteq 1 .. n /\ T \subseteq 1 .. n /\ IsFiniteSet(S)
    BY <1>1, UpToAll
  <2>2. ASSUME NEW x \in 1 .. n PROVE x \in S <=> p[x] \in T
    <3>1. p[x] \in 1 .. n /\ b[x] = a[p[x]] /\ b[i] = a[p[i]]
      BY <1>1
    <3>2. a[p[x]].rule_id = a[p[i]].rule_id => x = i
      BY <1>1, <2>1, <3>1 DEF IdsDiffer
    <3>3. /\ a[p[x]].priority \in Int /\ a[p[x]].rule_id \in Int
          /\ p[x] \in T <=>
               \/ a[p[x]].priority < a[p[i]].priority
               \/ /\ a[p[x]].priority = a[p[i]].priority
                  /\ \/ a[p[x]].rule_id < a[p[i]].rule_id
                     \/ a[p[x]].rule_id = a[p[i]].rule_id /\ p[x] <= p[i]
      BY <2>1, <3>1, UpToExactly
    <3>4. x \in S <=>
            \/ b[x].priority < b[i].priority
            \/ /\ b[x].priority = b[i].priority
               /\ \/ b[x].rule_id < b[i].rule_id
                  \/ b[x].rule_id = b[i].rule_id /\ x <= i
      BY UpToExactly
    <3>5. x = i => x <= i /\ p[x] <= p[i]
      BY <3>1
    <3> QED
      BY <3>1, <3>2, <3>3, <3>4, <3>5
  <2> HIDE DEF S, T
  <2>3. q \in [S -> T]
    BY <2>1, <2>2
  <2>4. \A x, y \in S : q[x] = q[y] => x = y
    BY <1>1, <2>1
  <2>5. \A z \in T : \E x \in S : q[x] = z
    BY <1>1, <2>1, <2>2
  <2>6. q \in Bijection(S, T)
    BY <2>3, <2>4, <2>5 DEF Bijection, Injection, Surjection, IsInjective
  <2>7. ExistsBijection(S, T)
    BY <2>6 DEF ExistsBijection
  <2>8. Cardinality(T) = Cardinality(S)
    BY <2>1, <2>7, FS_Bijection
  <2> QED
    BY <2>8 DEF Place, S, T
<1>3. ASSUME NEW k \in 1 .. n PROVE InOrder(a)[k] = InOrder(b)[k]
  <2>1. PICK i \in 1 .. n : Place(b, i) = k
    BY PlacesAreTaken
  <2>2. InOrder(b)[k] = b[i]
    BY <2>1, SortedByPlace
  <2>3. InOrder(a)[k] = a[p[i]]
    <3>1. p[i] \in 1 .. n /\ Place(a, p[i]) = k
      BY <1>1, <1>2, <2>1
    <3> QED
      BY <3>1, SortedByPlace
  <2>4. b[i] = a[p[i]]
    BY <1>1
  <2> QED
    BY <2>2, <2>3, <2>4
<1> QED
  BY <1>3, SortedByPlace

(* What compiling leaves of a rule. *)
LEMMA CanonicalRule ==
  ASSUME NEW r \in Rules
  PROVE  LET c == CanonicalConditions(r)
         IN  /\ c \in CanonicalRules /\ c.priority \in Int
             /\ c.rule_id = r.rule_id /\ c.rule_id \in Int /\ c.effect \in Effects
             /\ \A i \in DOMAIN c.constraints : TypedValue(c.constraints[i].value)
<1>1. /\ CanonicalConditions(r).priority = r.priority
      /\ CanonicalConditions(r).rule_id = r.rule_id
      /\ CanonicalConditions(r).effect = r.effect
      /\ CanonicalConditions(r).constraints = r.constraints
  BY RuleAssumption DEF CanonicalConditions
<1> QED
  BY <1>1, RuleAssumption DEF CanonicalRules

(* Compiling leaves the conditions of a rule numbered from 1.              *)
LEMMA CanonicalDomain ==
  ASSUME NEW r \in CanonicalRules
  PROVE  \E n \in Nat : DOMAIN r.conditions = 1 .. n
<1>1. PICK s \in Rules : r = CanonicalConditions(s)
  BY DEF CanonicalRules
<1>2. "conditions" \in DOMAIN s /\ s.conditions \in Seq({s.conditions[i] : i \in DOMAIN s.conditions})
  BY RuleAssumption
<1>3. DOMAIN r.conditions = DOMAIN s.conditions
  BY <1>1, <1>2 DEF CanonicalConditions, Sorted
<1>4. Len(s.conditions) \in Nat /\ DOMAIN s.conditions = 1 .. Len(s.conditions)
  BY <1>2
<1> QED
  BY <1>3, <1>4

(* Sorting the rules of a source yields a sequence of these rules. *)
LEMMA SortedSource ==
  ASSUME NEW s \in Seq(Rules)
  PROVE  /\ Len(s) \in Nat /\ Sortable(Canonical(s), Len(s))
         /\ SortedRules(s) = InOrder(Canonical(s))
         /\ SortedRules(s) \in Seq(CanonicalRules) /\ Len(SortedRules(s)) = Len(s)
<1>1. Len(s) \in Nat /\ DOMAIN s = 1 .. Len(s) /\ \A i \in 1 .. Len(s) : s[i] \in Rules
  OBVIOUS
<1>2. Sortable(Canonical(s), Len(s)) /\ \A i \in 1 .. Len(s) : Canonical(s)[i] \in CanonicalRules
  BY <1>1, CanonicalRule DEF Sortable, Canonical
<1>3. SortedRules(s) = InOrder(Canonical(s))
  BY DEF SortedRules, Canonical, InOrder
<1>4. \A k \in 1 .. Len(s) : SortedRules(s)[k] \in CanonicalRules
  <2> SUFFICES ASSUME NEW k \in 1 .. Len(s) PROVE SortedRules(s)[k] \in CanonicalRules
    OBVIOUS
  <2>1. PICK i \in 1 .. Len(s) : Place(Canonical(s), i) = k
    BY <1>1, <1>2, PlacesAreTaken
  <2>2. SortedRules(s)[k] = Canonical(s)[i]
    BY <1>1, <1>2, <1>3, <2>1, SortedByPlace
  <2> QED
    BY <1>2, <2>2
<1>5. SortedRules(s) = [k \in 1 .. Len(s) |-> SortedRules(s)[k]]
  BY <1>1, <1>2, <1>3, SortedByPlace
<1>6. SortedRules(s) \in Seq(CanonicalRules) /\ Len(SortedRules(s)) = Len(s)
  <2> DEFINE t == SortedRules(s)
  <2>1. t \in [1 .. Len(s) -> CanonicalRules]
    BY <1>4, <1>5
  <2> HIDE DEF t
  <2>2. t \in Seq(CanonicalRules) /\ Len(t) = Len(s)
    BY <1>1, <2>1
  <2> QED
    BY <2>2 DEF t
<1> QED
  BY <1>1, <1>2, <1>3, <1>6
-----------------------------------------------------------------------------
(* Compilation. *)

(* When a source compiles, and to what. *)
LEMMA CompiledExactly ==
  ASSUME NEW s
  PROVE  LET rules == SortedRules(s)
         IN  /\ Compile(s).ok <=>
                  /\ s # <<>> /\ ~(Len(s) > MaxRules)
                  /\ \A i \in DOMAIN s : RuleError(s[i]) = "none"
                  /\ ~TooManyConditions(rules)
                  /\ \A i \in DOMAIN rules : RuleConflict(rules, i) = "none"
                  /\ ~ControlConflict(rules)
             /\ Compile(s).ok => Compile(s).rules = rules
BY DEF Compile, Rejected

(* No two rules of a source that compiles have the same id. *)
LEMMA CompiledIdsDiffer ==
  ASSUME NEW s \in Seq(Rules), Compile(s).ok, NEW i \in 1 .. Len(s), NEW k \in 1 .. Len(s),
         Canonical(s)[i].rule_id = Canonical(s)[k].rule_id
  PROVE  i = k
<1> DEFINE n == Len(s)
           rules == SortedRules(s)
           given == Canonical(s)
<1>1. /\ n \in Nat /\ Sortable(given, n) /\ rules \in Seq(CanonicalRules) /\ Len(rules) = n
      /\ rules = InOrder(given)
  BY SortedSource
<1>2. \A a \in DOMAIN rules : RuleConflict(rules, a) = "none"
  BY CompiledExactly
<1> HIDE DEF n, rules, given
<1>3. DOMAIN rules = 1 .. n
  BY <1>1
<1>4. ASSUME NEW a \in 1 .. n, NEW b \in 1 .. n, a < b, rules[a].rule_id = rules[b].rule_id
      PROVE  FALSE
  <2>1. a \in 1 .. b - 1
    BY <1>1, <1>4
  <2>2. RuleConflict(rules, b) = "duplicate_policy_rule_id"
    BY <1>4, <2>1 DEF RuleConflict
  <2> QED
    BY <1>2, <1>3, <2>2
<1>5. i \in 1 .. n /\ k \in 1 .. n /\ given[i].rule_id = given[k].rule_id
  BY DEF n, given
<1>6. /\ Place(given, i) \in 1 .. n /\ rules[Place(given, i)] = given[i]
      /\ Place(given, k) \in 1 .. n /\ rules[Place(given, k)] = given[k]
  BY <1>1, <1>5, UpToAll, SortedByPlace
<1>7. Place(given, i) = Place(given, k)
  BY <1>1, <1>4, <1>5, <1>6
<1> QED
  BY <1>1, <1>5, <1>7, PlacesDiffer

(* A source that compiles, compiles to the same in every other order.      *)
LEMMA CompiledAlike ==
  ASSUME NEW s \in Seq(Rules), Compile(s).ok, NEW p \in Bijection(DOMAIN s, DOMAIN s)
  PROVE  LET t == [i \in DOMAIN s |-> s[p[i]]]
         IN  Compile(t).ok /\ Compile(t).rules = Compile(s).rules
<1> DEFINE n == Len(s)
           t == [i \in DOMAIN s |-> s[p[i]]]
<1>1. /\ n \in Nat /\ DOMAIN s = 1 .. n /\ Sortable(Canonical(s), n)
      /\ SortedRules(s) = InOrder(Canonical(s))
  BY SortedSource
<1>2. p \in Bijection(1 .. n, 1 .. n) /\ p \in [1 .. n -> 1 .. n]
  BY <1>1 DEF Bijection, Injection
<1>3. t \in Seq(Rules) /\ Len(t) = n /\ DOMAIN t = 1 .. n /\ \A i \in 1 .. n : t[i] = s[p[i]]
  <2>1. t \in [1 .. n -> Rules] /\ \A i \in 1 .. n : t[i] = s[p[i]]
    BY <1>1, <1>2
  <2> HIDE DEF t, n
  <2> QED
    BY <1>1, <2>1
<1> HIDE DEF t, n
<1>4. /\ Sortable(Canonical(t), n) /\ SortedRules(t) = InOrder(Canonical(t))
  BY <1>3, SortedSource
<1>5. \A i \in 1 .. n : Canonical(t)[i] = Canonical(s)[p[i]]
  BY <1>1, <1>2, <1>3 DEF Canonical
<1>6. \A i, k \in 1 .. n : Canonical(s)[i].rule_id = Canonical(s)[k].rule_id => i = k
  BY CompiledIdsDiffer DEF n
<1>7. SortedRules(t) = SortedRules(s)
  <2> DEFINE a == Canonical(s)
             b == Canonical(t)
  <2>1. /\ n \in Nat /\ Sortable(a, n) /\ Sortable(b, n)
        /\ Rearranged(a, b, n, p) /\ IdsDiffer(a, n)
    BY <1>1, <1>2, <1>4, <1>5, <1>6 DEF Rearranged, IdsDiffer
  <2> HIDE DEF a, b
  <2>2. InOrder(a) = InOrder(b)
    BY <2>1, SortedAlike
  <2> QED
    BY <1>1, <1>4, <2>2 DEF a, b
<1>8. s # <<>> /\ ~(Len(s) > MaxRules) /\ \A i \in DOMAIN s : RuleError(s[i]) = "none"
  BY CompiledExactly
<1>9. t # <<>> /\ ~(Len(t) > MaxRules) /\ \A i \in DOMAIN t : RuleError(t[i]) = "none"
  <2>1. n # 0
    BY <1>1, <1>8 DEF n
  <2>2. t # <<>>
    BY <1>1, <1>3, <2>1
  <2> QED
    BY <1>1, <1>2, <1>3, <1>8, <2>2 DEF n
<1>10. Compile(t).ok /\ Compile(t).rules = Compile(s).rules
  BY <1>7, <1>9, CompiledExactly
<1> QED
  BY <1>10 DEF t
-----------------------------------------------------------------------------
(* The inductive invariant. *)

(* A plan allows only a verdict of its own version, and as projected.      *)
LEMMA AllowedUnderVersion ==
  ASSUME NEW v, NEW verd, NEW j, AdmitUnder(v, verd, j).allowed
  PROVE  j = v /\ AdmitUnder(v, verd, j) = AdmitPolicyExecution(verd)
<1> DEFINE own == AdmitPolicyExecution(verd)
<1>1. "allowed" \in DOMAIN own
  BY DEF AdmitPolicyExecution
<1> HIDE DEF own
<1>2. CASE j # v
  <2>1. AdmitUnder(v, verd, j) =
          [own EXCEPT !.allowed = FALSE,
                      !.reason = IF own.allowed THEN verd.reason ELSE @,
                      !.blockers = @ \cup {"policy_verdict_version_mismatch"}]
    BY <1>2 DEF AdmitUnder, own
  <2>2. AdmitUnder(v, verd, j).allowed = FALSE
    BY <1>1, <2>1
  <2> QED
    BY <2>2
<1>3. CASE j = v
  BY <1>3 DEF AdmitUnder
<1> QED
  BY <1>2, <1>3

(* What an allowed plan says of its verdict. *)
LEMMA AllowedIsProjected ==
  ASSUME NEW verd, AdmitPolicyExecution(verd).allowed
  PROVE  /\ verd.decision \in {"allow", "allow_with_obligations"} /\ Projectable(verd)
         /\ AdmitPolicyExecution(verd).controls = ProjectRuntimeControls(verd)
<1> DEFINE allows == verd.decision \in {"allow", "allow_with_obligations"}
           blockers == verd.blockers
                       \cup (IF allows THEN {} ELSE {verd.reason})
                       \cup (IF allows /\ ~Projectable(verd)
                             THEN {"unprojectable_policy_control"} ELSE {})
           plan_ == AdmitPolicyExecution(verd)
<1>1. /\ plan_.allowed = (blockers = {})
      /\ plan_.controls = IF allows /\ Projectable(verd)
                          THEN ProjectRuntimeControls(verd) ELSE DefaultControls
  BY DEF AdmitPolicyExecution
<1>2. blockers = {} => allows /\ Projectable(verd)
  OBVIOUS
<1> HIDE DEF plan_, blockers
<1>3. plan_.allowed
  BY DEF plan_
<1>4. allows /\ Projectable(verd) /\ plan_.controls = ProjectRuntimeControls(verd)
  BY <1>1, <1>2, <1>3
<1> QED
  BY <1>4 DEF plan_

(* The constraints of a verdict of a compiled pack hold typed values.      *)
LEMMA VerdictTyped ==
  ASSUME NEW f, NEW rules \in Seq(CanonicalRules)
  PROVE  LET v == EvaluatePolicy(f, rules)
         IN  \A i \in DOMAIN v.constraints : TypedValue(v.constraints[i].value)
<1> DEFINE v == EvaluatePolicy(f, rules)
<1>1. Len(rules) \in Nat /\ DOMAIN rules = 1 .. Len(rules)
      /\ \A k \in DOMAIN rules : rules[k] \in CanonicalRules
  OBVIOUS
<1>2. v.constraints = <<>> \/ \E k \in DOMAIN rules : v.constraints = rules[k].constraints
  BY <1>1, VerdictConstraints
<1>3. \A c \in CanonicalRules : \A i \in DOMAIN c.constraints : TypedValue(c.constraints[i].value)
  BY CanonicalRule DEF CanonicalRules
<1> HIDE DEF v
<1>4. \A i \in DOMAIN v.constraints : TypedValue(v.constraints[i].value)
  BY <1>1, <1>2, <1>3
<1> QED
  BY <1>4 DEF v

(* Nothing is judged and nothing planned at first. *)
LEMMA PipelineInit == Init => PipelineInv
<1> SUFFICES ASSUME Init PROVE PipelineInv
  OBVIOUS
<1>1. NoVerdict.constraints = <<>> /\ NoVerdict.decision = "none"
  BY DEF NoVerdict, BareVerdict, Verdict
<1>2. ~NoPlan.outcome.allowed
  <2>1. NoPlan.outcome = AdmitUnder(0, NoVerdict, 0)
    BY DEF NoPlan, PlanOf, NoPack, Pack
  <2> QED
    BY <1>1, <2>1, AllowedUnderVersion, AllowedIsProjected
<1>3. NoPlan.verdict = NoVerdict
  BY DEF NoPlan, PlanOf
<1>4. VerdictOfPack /\ PlanOfVerdict
  BY <1>1, <1>2, <1>3 DEF Init, VerdictOfPack, PlanOfVerdict
<1>5. source \in Seq(Rules) /\ pack.rules \in Seq(CanonicalRules)
      /\ judged.rules \in Seq(CanonicalRules)
  BY DEF Init, NoPack, Pack
<1> QED
  BY <1>4, <1>5 DEF PipelineInv

(* Every step keeps the inductive invariant. *)
LEMMA PipelineNext == PipelineInv /\ [Next]_vars => PipelineInv'
<1> SUFFICES ASSUME PipelineInv, [Next]_vars PROVE PipelineInv'
  OBVIOUS
<1> USE DEF PipelineInv
<1>1. ASSUME NEW r \in Rules, Author(r) PROVE PipelineInv'
  <2>1. source' \in Seq(Rules)
    BY <1>1 DEF Author
  <2>2. VerdictOfPack' /\ PlanOfVerdict'
    BY <1>1 DEF Author, VerdictOfPack, PlanOfVerdict
  <2> QED
    BY <1>1, <2>1, <2>2 DEF Author
<1>2. CASE CompilePack
  <2>1. pack'.rules \in Seq(CanonicalRules)
    <3>1. CASE Compile(source).ok
      <4>1. pack' = Pack(version, Compile(source).rules)
        BY <1>2, <3>1 DEF CompilePack
      <4>2. Compile(source).rules = SortedRules(source)
        BY <3>1, CompiledExactly
      <4>3. pack'.rules = SortedRules(source)
        BY <4>1, <4>2 DEF Pack
      <4> QED
        BY <4>3, SortedSource
    <3>2. CASE ~Compile(source).ok
      BY <1>2, <3>2 DEF CompilePack
    <3> QED
      BY <3>1, <3>2
  <2>2. VerdictOfPack' /\ PlanOfVerdict'
    BY <1>2 DEF CompilePack, VerdictOfPack, PlanOfVerdict
  <2> QED
    BY <1>2, <2>1, <2>2 DEF CompilePack
<1>3. CASE Evaluate
  <2>1. VerdictOfPack' /\ PlanOfVerdict'
    BY <1>3 DEF Evaluate, VerdictOfPack, PlanOfVerdict
  <2> QED
    BY <1>3, <2>1 DEF Evaluate
<1>4. CASE Admit
  <2>1. plan' = PlanOf(pack, facts, verdict, judged)
    BY <1>4 DEF Admit
  <2>2. /\ plan'.outcome = AdmitUnder(pack.version, verdict, judged.version)
        /\ plan'.verdict = verdict
    BY <2>1 DEF PlanOf
  <2>3. NoVerdict.decision = "none" /\ verdict.decision \in Effects
    BY <1>4 DEF Admit, NoVerdict, BareVerdict, Verdict
  <2>4. verdict = EvaluatePolicy(facts, judged.rules)
    BY <2>3 DEF VerdictOfPack, Effects
  <2>5. PlanOfVerdict'
    BY <2>2, <2>4, AllowedUnderVersion, VerdictTyped DEF PlanOfVerdict
  <2>6. VerdictOfPack'
    BY <1>4 DEF Admit, VerdictOfPack
  <2> QED
    BY <1>4, <2>5, <2>6 DEF Admit
<1>5. CASE UNCHANGED vars
  BY <1>5 DEF vars, VerdictOfPack, PlanOfVerdict
<1> QED
  BY <1>1, <1>2, <1>3, <1>4, <1>5 DEF Next

(* What the results below rest on: packs hold compiled rules, a verdict is *)
(* that of its pack, and an allowed plan is the projection of its verdict. *)
THEOREM PipelineInvariant == Spec => []PipelineInv
BY PipelineInit, PipelineNext, PTL DEF Spec
-----------------------------------------------------------------------------
(* The results. *)

(* A plan that a runner accepts grants what the pack in force would grant, *)
(* unless another pack was published under its version                     *)
(* (validate_policy_enforcement_plan).                                     *)
THEOREM AcceptedIsInForce == Spec => []AcceptedPlanIsOfPackInForce
<1>1. ASSUME PipelineInv, PlanAccepted, judged.rules = pack.rules \/ judged.version # pack.version
      PROVE  verdict = EvaluatePolicy(facts, pack.rules)
  <2>1. AdmitUnder(pack.version, verdict, judged.version).allowed
    BY <1>1 DEF PlanAccepted, PlanOf
  <2>2. judged.version = pack.version /\ AdmitPolicyExecution(verdict).allowed
    BY <2>1, AllowedUnderVersion
  <2>3. verdict # NoVerdict
    BY <2>2, AllowedIsProjected DEF NoVerdict, BareVerdict, Verdict
  <2> QED
    BY <1>1, <2>2, <2>3 DEF PipelineInv, VerdictOfPack
<1>2. PipelineInv => AcceptedPlanIsOfPackInForce
  BY <1>1 DEF AcceptedPlanIsOfPackInForce
<1> QED
  BY <1>2, PipelineInvariant, PTL

(* However a pack is authored, compiling it gives the same                 *)
(* (compile_policy_pack).                                                  *)
THEOREM AnyOrderCompilesAlike == Spec => AuthoringOrderIsIrrelevant
<1>1. ASSUME PipelineInv, [Next]_vars, pack' # pack, NEW p \in Bijection(DOMAIN source, DOMAIN source)
      PROVE  LET result == Compile([i \in DOMAIN source |-> source[p[i]]])
             IN  result.ok /\ result.rules = pack'.rules
  <2>1. CompilePack
    BY <1>1 DEF Next, Author, Evaluate, Admit, vars
  <2>2. Compile(source).ok
    BY <1>1, <2>1 DEF CompilePack
  <2>3. pack'.rules = Compile(source).rules
    BY <2>1, <2>2 DEF CompilePack, Pack
  <2> QED
    BY <1>1, <2>2, <2>3, CompiledAlike DEF PipelineInv
<1>2. PipelineInv /\ [Next]_vars =>
        [pack' # pack =>
           \A p \in Bijection(DOMAIN source, DOMAIN source) :
             LET result == Compile([i \in DOMAIN source |-> source[p[i]]])
             IN  result.ok /\ result.rules = pack'.rules]_vars
  BY <1>1
<1> QED
  BY <1>2, PipelineInvariant, PTL DEF AuthoringOrderIsIrrelevant, Spec
-----------------------------------------------------------------------------
(* How strict each decision is. *)
LEMMA StrictnessOf ==
  /\ Strictness("allow") = 0 /\ Strictness("allow_with_obligations") = 1
  /\ Strictness("approval_required") = 2 /\ Strictness("deny") = 3 /\ Strictness("raised") = 3
BY DEF Strictness

(* The rule that is selected is at least as strict as every match.         *)
LEMMA StrictestIsSelected ==
  ASSUME NEW rules, NEW n \in Nat, DOMAIN rules = 1 .. n, \A i \in DOMAIN rules : rules[i].effect \in Effects,
         NEW matched, matched \subseteq DOMAIN rules, NEW i \in matched
  PROVE  Strictness(SelectRule(rules, matched).decision) >= Strictness(rules[i].effect)
<1> DEFINE with(e) == {k \in matched : rules[k].effect = e}
           decision == SelectRule(rules, matched).decision
<1>1. ASSUME NEW S, S \subseteq matched, S # {}
      PROVE  /\ FirstIndex(S) \in S
             /\ VerdictFromRule(rules[FirstIndex(S)]).decision = rules[FirstIndex(S)].effect
  BY <1>1, FirstIndexIn DEF VerdictFromRule, Verdict
<1>2. ASSUME NEW e, with(e) # {}
      PROVE  VerdictFromRule(rules[FirstIndex(with(e))]).decision = e
  BY <1>1, <1>2
<1>3. CASE with("deny") # {}
  <2>1. decision = "deny"
    BY <1>2, <1>3 DEF SelectRule
  <2> QED
    BY <2>1, StrictnessOf DEF Effects
<1>4. CASE with("deny") = {} /\ with("approval_required") # {}
  <2>1. decision = "approval_required"
    BY <1>2, <1>4 DEF SelectRule
  <2>2. rules[i].effect \in Effects \ {"deny"}
    BY <1>4
  <2> QED
    BY <2>1, <2>2, StrictnessOf DEF Effects
<1>5. CASE /\ with("deny") = {} /\ with("approval_required") = {}
           /\ with("allow_with_obligations") # {}
  <2>1. decision = "allow_with_obligations"
    BY <1>2, <1>5 DEF SelectRule
  <2>2. rules[i].effect \in Effects \ {"deny", "approval_required"}
    BY <1>5
  <2> QED
    BY <2>1, <2>2, StrictnessOf DEF Effects
<1>6. CASE /\ with("deny") = {} /\ with("approval_required") = {}
           /\ with("allow_with_obligations") = {}
  <2>1. /\ SelectRule(rules, matched) = VerdictFromRule(rules[FirstIndex(matched)])
        /\ FirstIndex(matched) \in matched
    BY <1>1, <1>6 DEF SelectRule
  <2>2. \A k \in matched : rules[k].effect = "allow"
    BY <1>6 DEF Effects
  <2>3. decision = "allow" /\ rules[i].effect = "allow"
    BY <1>1, <2>1, <2>2
  <2> QED
    BY <2>3, StrictnessOf
<1> QED
  BY <1>3, <1>4, <1>5, <1>6

(* Neither priorities, rule ids nor the order of the source let a          *)
(* permissive rule hide a stricter one that matches (PolicyEngine.evaluate). *)
THEOREM VerdictIsStrictest == Spec => []VerdictAtLeastAsStrictAsEveryMatch
<1>1. ASSUME PipelineInv, verdict # NoVerdict, EvaluateInvariants(facts) = NoInvariant,
             NEW i \in MatchedRules(facts, judged.rules)
      PROVE  Strictness(verdict.decision) >= Strictness(judged.rules[i].effect)
  <2> DEFINE rules == judged.rules
             matched == MatchedRules(facts, rules)
  <2>1. rules \in Seq(CanonicalRules) /\ verdict = EvaluatePolicy(facts, rules)
    BY <1>1 DEF PipelineInv, VerdictOfPack
  <2>2. Len(rules) \in Nat /\ DOMAIN rules = 1 .. Len(rules)
        /\ \A k \in DOMAIN rules : rules[k] \in CanonicalRules
    BY <2>1
  <2>3. \A k \in DOMAIN rules : rules[k].effect \in Effects
    BY <2>2, CanonicalRule DEF CanonicalRules
  <2>4. matched \subseteq DOMAIN rules /\ i \in matched
    BY DEF MatchedRules
  <2>5. verdict = Raised \/ verdict = SelectRule(rules, matched)
    BY <1>1, <2>1, <2>4 DEF EvaluatePolicy
  <2>6. CASE verdict = Raised
    <3>1. verdict.decision = "raised" /\ rules[i].effect \in Effects
      BY <2>3, <2>4, <2>6 DEF Raised, Verdict
    <3> QED
      BY <3>1, StrictnessOf DEF Effects
  <2>7. CASE verdict = SelectRule(rules, matched)
    BY <2>2, <2>3, <2>4, <2>7, StrictestIsSelected
  <2> QED
    BY <2>5, <2>6, <2>7
<1>2. PipelineInv => VerdictAtLeastAsStrictAsEveryMatch
  BY <1>1 DEF VerdictAtLeastAsStrictAsEveryMatch
<1> QED
  BY <1>2, PipelineInvariant, PTL
-----------------------------------------------------------------------------
(* Type errors. *)

(* A condition raises over the facts whose type its operator cannot take.  *)
LEMMA RaisesExactly ==
  ASSUME NEW c, NEW f
  PROVE  /\ ConditionMatches(c, f) = "raise" <=> IllTyped(c, f)
         /\ ConditionMatches(c, f) \in {"yes", "no", "raise"}
<1>1. \A b : YesNo(b) \in {"yes", "no"}
  BY DEF YesNo
<1> DEFINE v == Lookup(c.path, f)
           op == c.operator
<1>2. CASE op = "exists"
  BY <1>1, <1>2 DEF ConditionMatches, IllTyped, Fits
<1>3. CASE op # "exists" /\ v.type = "missing"
  BY <1>3 DEF ConditionMatches, IllTyped
<1>4. CASE op # "exists" /\ v.type # "missing"
  <2>1. CASE op \in {"eq", "neq", "in", "not_in"}
    BY <1>1, <1>4, <2>1 DEF ConditionMatches, IllTyped, Fits
  <2>2. CASE op = "contains"
    BY <1>1, <1>4, <2>2 DEF ConditionMatches, IllTyped, Fits
  <2>3. CASE op \in {"lt", "lte", "gt", "gte"}
    BY <1>1, <1>4, <2>3 DEF ConditionMatches, IllTyped, Fits
  <2>4. CASE op \in {"subset_of", "matches_namespace"}
    BY <1>1, <1>4, <2>4 DEF ConditionMatches, IllTyped, Fits
  <2>5. CASE op \notin {"exists", "eq", "neq", "in", "not_in", "contains", "lt", "lte", "gt", "gte",
                        "subset_of", "matches_namespace"}
    BY <1>4, <2>5 DEF ConditionMatches, IllTyped, Fits
  <2> QED
    BY <1>4, <2>1, <2>2, <2>3, <2>4, <2>5
<1> QED
  BY <1>2, <1>3, <1>4

(* A rule raises exactly when it trips: what comes before the first unmet  *)
(* condition is met.                                                       *)
LEMMA RuleRaisesExactly ==
  ASSUME NEW r \in CanonicalRules, NEW f
  PROVE  RuleMatches(r, f) = "raise" <=> Trips(r, f)
<1> DEFINE outcome(i) == ConditionMatches(r.conditions[i], f)
           unmet == {i \in DOMAIN r.conditions : outcome(i) # "yes"}
<1>1. PICK n \in Nat : DOMAIN r.conditions = 1 .. n
  BY CanonicalDomain
<1>2. \A i \in 1 .. n : /\ outcome(i) = "raise" <=> IllTyped(r.conditions[i], f)
                       /\ outcome(i) \in {"yes", "no", "raise"}
  BY RaisesExactly
<1>3. RuleMatches(r, f) = IF unmet = {} THEN "yes" ELSE outcome(FirstIndex(unmet))
  BY DEF RuleMatches
<1>4. Trips(r, f) <=> \E i \in 1 .. n : /\ IllTyped(r.conditions[i], f)
                                       /\ \A j \in 1 .. i - 1 : outcome(j) = "yes"
  BY <1>1 DEF Trips
<1> HIDE DEF outcome
<1>5. unmet \subseteq 1 .. n
  BY <1>1
<1>6. CASE unmet = {}
  BY <1>1, <1>2, <1>3, <1>4, <1>6
<1>7. CASE unmet # {}
  <2> DEFINE first == FirstIndex(unmet)
  <2>1. first \in unmet /\ \A j \in unmet : first <= j
    BY <1>5, <1>7, FirstIndexIn
  <2> HIDE DEF first
  <2>2. first \in 1 .. n /\ outcome(first) # "yes" /\ \A j \in 1 .. n : j < first => outcome(j) = "yes"
    BY <1>1, <2>1
  <2>3. ASSUME NEW i \in 1 .. n, IllTyped(r.conditions[i], f), \A j \in 1 .. i - 1 : outcome(j) = "yes"
        PROVE  i = first
    <3>1. outcome(i) # "yes"
      BY <1>2, <2>3
    <3>2. first <= i
      BY <1>1, <2>1, <3>1
    <3>3. ~(first < i)
      BY <2>2, <2>3
    <3> QED
      BY <2>2, <3>2, <3>3
  <2>4. Trips(r, f) <=> IllTyped(r.conditions[first], f)
    <3>1. \A j \in 1 .. first - 1 : j \in 1 .. n /\ j < first
      BY <2>2
    <3> QED
      BY <1>4, <2>2, <2>3, <3>1
  <2>5. RuleMatches(r, f) = outcome(first)
    BY <1>3, <1>7 DEF first
  <2> QED
    BY <1>2, <2>2, <2>4, <2>5
<1> QED
  BY <1>6, <1>7

(* A verdict past the invariants raises exactly when a rule trips.         *)
LEMMA VerdictRaisesExactly ==
  ASSUME NEW rules \in Seq(CanonicalRules), NEW f, EvaluateInvariants(f) = NoInvariant
  PROVE  EvaluatePolicy(f, rules).decision = "raised" <=> \E i \in DOMAIN rules : Trips(rules[i], f)
<1> DEFINE matched == MatchedRules(f, rules)
           none == BareVerdict("deny", "no_matching_policy_rule", "no_matching_policy_rule")
<1>1. Len(rules) \in Nat /\ DOMAIN rules = 1 .. Len(rules)
      /\ \A k \in DOMAIN rules : rules[k] \in CanonicalRules
  OBVIOUS
<1>2. \A i \in DOMAIN rules : RuleMatches(rules[i], f) = "raise" <=> Trips(rules[i], f)
  BY <1>1, RuleRaisesExactly
<1>3. Raised.decision = "raised" /\ none.decision = "deny"
  BY DEF Raised, BareVerdict, Verdict
<1>4. ASSUME matched # {} PROVE SelectRule(rules, matched).decision \in Effects
  <2>1. \A i \in DOMAIN rules : VerdictFromRule(rules[i]).decision \in Effects
    BY <1>1, CanonicalRule DEF CanonicalRules, VerdictFromRule, Verdict
  <2>2. \A S \in SUBSET matched : S # {} => FirstIndex(S) \in DOMAIN rules
    BY <1>1, FirstIndexIn DEF MatchedRules
  <2> HIDE DEF matched
  <2>3. \A S \in SUBSET matched :
          S # {} => VerdictFromRule(rules[FirstIndex(S)]).decision \in Effects
    BY <2>1, <2>2
  <2> QED
    BY <1>4, <2>3 DEF SelectRule
<1>5. EvaluatePolicy(f, rules) = IF \E i \in DOMAIN rules : RuleMatches(rules[i], f) = "raise" THEN Raised
                                 ELSE IF matched = {} THEN none
                                 ELSE SelectRule(rules, matched)
  BY DEF EvaluatePolicy
<1> HIDE DEF matched, none
<1> QED
  BY <1>2, <1>3, <1>4, <1>5 DEF Effects

(* One rule that trips over the facts stops the request, nothing else      *)
(* does, and no plan granted over such facts is accepted                   *)
(* (PolicyEngine.evaluate).                                                *)
THEOREM IllTypedFactsStop == Spec => []IllTypedFactsStopTheRequest
<1>1. ASSUME PipelineInv, verdict # NoVerdict, EvaluateInvariants(facts) = NoInvariant
      PROVE  verdict.decision = "raised" <=> \E i \in DOMAIN judged.rules : Trips(judged.rules[i], facts)
  BY <1>1, VerdictRaisesExactly DEF PipelineInv, VerdictOfPack
<1>2. ASSUME PipelineInv, PlanAccepted, judged.rules = pack.rules \/ judged.version # pack.version,
             NEW i \in DOMAIN pack.rules
      PROVE  ~Trips(pack.rules[i], facts)
  <2>1. AdmitUnder(pack.version, verdict, judged.version).allowed
    BY <1>2 DEF PlanAccepted, PlanOf
  <2>2. judged.rules = pack.rules /\ verdict.decision \in {"allow", "allow_with_obligations"}
    BY <1>2, <2>1, AllowedUnderVersion, AllowedIsProjected
  <2>3. verdict # NoVerdict /\ verdict = EvaluatePolicy(facts, pack.rules)
    BY <1>2, <2>2 DEF NoVerdict, BareVerdict, Verdict, PipelineInv, VerdictOfPack
  <2>4. EvaluateInvariants(facts) = NoInvariant
    <3>1. EvaluateInvariants(facts).decision \in {"deny", "approval_required", "none"}
      BY DEF EvaluateInvariants, NoInvariant, BareVerdict, Verdict
    <3>2. EvaluateInvariants(facts) # NoInvariant => verdict = EvaluateInvariants(facts)
      BY <2>3 DEF EvaluatePolicy
    <3> QED
      BY <2>2, <3>1, <3>2
  <2> QED
    BY <1>1, <1>2, <2>2, <2>3, <2>4
<1>3. PipelineInv => IllTypedFactsStopTheRequest
  BY <1>1, <1>2 DEF IllTypedFactsStopTheRequest
<1> QED
  BY <1>3, PipelineInvariant, PTL
-----------------------------------------------------------------------------
(* What a plan enforces. *)

(* A projected limit is a limit, and at most every limit of its kind.      *)
LEMMA LimitBounds ==
  ASSUME NEW v, NEW kind \in LimitKinds, Projectable(v),
         \A i \in DOMAIN v.constraints : TypedValue(v.constraints[i].value),
         NEW k \in DOMAIN v.constraints, v.constraints[k].kind = kind
  PROVE  Bounded(SmallestPositive(ConstraintValues(v, kind)), v.constraints[k])
<1>1. \A i \in DOMAIN v.constraints :
        v.constraints[i].kind = kind => v.constraints[i].value.num \in Nat \ {0}
  <2> SUFFICES ASSUME NEW i \in DOMAIN v.constraints, v.constraints[i].kind = kind
               PROVE  v.constraints[i].value.num \in Nat \ {0}
    OBVIOUS
  <2>1. ProjectableConstraint(v.constraints[i])
    BY DEF Projectable
  <2>2. v.constraints[i].value.type \in {"int", "float"} /\ v.constraints[i].value.num > 0
    BY <2>1 DEF ProjectableConstraint, LimitKinds, NumberTypes, SwitchKinds, AllowlistKinds
  <2>3. v.constraints[i].value.num \in Int
    BY <2>2 DEF TypedValue
  <2> QED
    BY <2>2, <2>3
<1>2. \A x \in ConstraintValues(v, kind) : x.num \in Nat \ {0}
  BY <1>1 DEF ConstraintValues
<1>3. v.constraints[k].value \in ConstraintValues(v, kind)
  BY DEF ConstraintValues
<1>4. /\ SmallestPositive(ConstraintValues(v, kind)) \in Nat \ {0}
      /\ SmallestPositive(ConstraintValues(v, kind)) <= v.constraints[k].value.num
  BY <1>2, <1>3, SmallestIsLeast
<1> QED
  BY <1>4 DEF Bounded

(* The one JSON value that is a true Boolean. *)
LEMMA OnlyTrueIsTrue ==
  ASSUME NEW value, TypedValue(value), value.type = "bool", value.truth
  PROVE  value = Bool(TRUE)
<1>1. value \in {Bool(TRUE), Bool(FALSE)}
  BY DEF TypedValue
<1>2. Bool(FALSE).truth = FALSE
  BY DEF Bool
<1> QED
  BY <1>1, <1>2

(* The projection of a verdict enforces each of its constraints.           *)
LEMMA ProjectionEnforces ==
  ASSUME NEW v, Projectable(v),
         \A i \in DOMAIN v.constraints : TypedValue(v.constraints[i].value),
         NEW k \in DOMAIN v.constraints
  PROVE  Enforced(ProjectRuntimeControls(v), v.constraints[k])
<1> SUFFICES ASSUME NEW c, c = v.constraints[k]
             PROVE  Enforced(ProjectRuntimeControls(v), c)
  OBVIOUS
<1> DEFINE controls == ProjectRuntimeControls(v)
<1>1. ProjectableConstraint(c) /\ TypedValue(c.value)
  BY DEF Projectable
<1>2. c.value \in ConstraintValues(v, c.kind)
  BY DEF ConstraintValues
<1>3. ASSUME c.kind \in LimitKinds
      PROVE  Enforced(controls, c)
  <2>1. Bounded(SmallestPositive(ConstraintValues(v, c.kind)), c)
    BY <1>3, LimitBounds
  <2> QED
    BY <1>3, <2>1 DEF Enforced, ProjectRuntimeControls, LimitKinds, SwitchKinds, AllowlistKinds
<1>4. ASSUME c.kind \in SwitchKinds
      PROVE  Enforced(controls, c)
  <2>1. c.value.type = "bool" /\ c.value.truth
    BY <1>1, <1>4 DEF ProjectableConstraint, LimitKinds, SwitchKinds, AllowlistKinds
  <2>2. c.value = Bool(TRUE)
    BY <1>1, <2>1, OnlyTrueIsTrue
  <2>3. Switched(v, c.kind)
    BY <1>2, <2>2 DEF Switched
  <2>4. controls[c.kind]
    BY <1>4, <2>3 DEF ProjectRuntimeControls, SwitchKinds
  <2> HIDE DEF controls
  <2> QED
    BY <1>4, <2>4 DEF Enforced, LimitKinds, SwitchKinds, AllowlistKinds
<1>5. ASSUME c.kind = "output_digest_required"
      PROVE  Enforced(controls, c)
  <2>1. c.value.type = "bool"
    BY <1>1, <1>5 DEF ProjectableConstraint, LimitKinds, SwitchKinds, AllowlistKinds
  <2>2. ASSUME c.value.truth
        PROVE  controls.output_digest_required
    <3>1. c.value = Bool(TRUE)
      BY <1>1, <2>1, <2>2, OnlyTrueIsTrue
    <3>2. Switched(v, "output_digest_required")
      BY <1>2, <1>5, <3>1 DEF Switched
    <3> QED
      BY <3>2 DEF ProjectRuntimeControls
  <2> HIDE DEF controls
  <2> QED
    BY <1>5, <2>2 DEF Enforced, LimitKinds, SwitchKinds, AllowlistKinds
<1>6. ASSUME c.kind \in AllowlistKinds
      PROVE  Enforced(controls, c)
  <2>1. c.value.type = "list" /\ c.value.items # <<>>
    BY <1>1, <1>6 DEF ProjectableConstraint, LimitKinds, SwitchKinds, AllowlistKinds
  <2>2. c.value.items \in Seq({c.value.items[i] : i \in DOMAIN c.value.items})
    BY <1>1, <2>1 DEF TypedValue
  <2>3. 1 \in DOMAIN c.value.items
    BY <2>1, <2>2
  <2>4. c.value.items[1] \in Allowlist(v, c.kind)
    BY <1>2, <2>3 DEF Allowlist
  <2>5. controls[c.kind] # {}
    BY <1>6, <2>4 DEF ProjectRuntimeControls, AllowlistKinds
  <2> HIDE DEF controls
  <2> QED
    BY <1>6, <2>5 DEF Enforced, LimitKinds, SwitchKinds, AllowlistKinds
<1>7. c.kind \in LimitKinds \cup SwitchKinds \cup {"output_digest_required"} \cup AllowlistKinds
  BY <1>1 DEF ProjectableConstraint
<1> QED
  BY <1>3, <1>4, <1>5, <1>6, <1>7

(* An item of a projected allowlist is named by a constraint.              *)
LEMMA AllowlistIsNamed ==
  ASSUME NEW v, NEW kind \in AllowlistKinds, NEW item \in Allowlist(v, kind)
  PROVE  Named(v, kind, item)
<1>1. PICK value \in ConstraintValues(v, kind) :
        item \in {value.items[i] : i \in DOMAIN value.items}
  BY DEF Allowlist
<1>2. PICK k \in DOMAIN v.constraints : v.constraints[k].kind = kind /\ v.constraints[k].value = value
  BY <1>1 DEF ConstraintValues
<1>3. \E i \in DOMAIN value.items : StrictEqual(item, value.items[i])
  BY <1>1 DEF StrictEqual
<1> QED
  BY <1>2, <1>3 DEF Named, Includes

(* A ready plan enforces every control its verdict asked for               *)
(* (admit_policy_execution, project_runtime_controls).                     *)
THEOREM ReadyPlanEnforcesIt == Spec => []ReadyPlanEnforcesEveryControl
<1>1. ASSUME PlanOfVerdict, plan.outcome.allowed
      PROVE  LET v == plan.verdict
                 controls == plan.outcome.controls
             IN  /\ v.decision \in {"allow", "allow_with_obligations"}
                 /\ \A i \in DOMAIN v.constraints : Enforced(controls, v.constraints[i])
                 /\ \A kind \in AllowlistKinds : \A item \in controls[kind] : Named(v, kind, item)
                 /\ \A i \in DOMAIN v.obligations :
                      LET kind == v.obligations[i].kind
                      IN  kind \in SupportedObligations
                          /\ (kind = "output_digest_required" => controls.output_digest_required)
  <2> DEFINE v == plan.verdict
             controls == plan.outcome.controls
  <2>1. /\ v.decision \in {"allow", "allow_with_obligations"} /\ Projectable(v)
        /\ controls = ProjectRuntimeControls(v)
    BY <1>1, AllowedIsProjected DEF PlanOfVerdict
  <2>2. \A i \in DOMAIN v.constraints : TypedValue(v.constraints[i].value)
    BY <1>1 DEF PlanOfVerdict
  <2>3. \A i \in DOMAIN v.constraints : Enforced(controls, v.constraints[i])
    BY <2>1, <2>2, ProjectionEnforces
  <2>4. ASSUME NEW kind \in AllowlistKinds, NEW item \in controls[kind]
        PROVE  Named(v, kind, item)
    <3>1. controls[kind] = Allowlist(v, kind)
      BY <2>1 DEF ProjectRuntimeControls, AllowlistKinds
    <3> QED
      BY <3>1, AllowlistIsNamed
  <2>5. ASSUME NEW i \in DOMAIN v.obligations
        PROVE  /\ v.obligations[i].kind \in SupportedObligations
               /\ v.obligations[i].kind = "output_digest_required"
                    => controls.output_digest_required
    <3>1. v.obligations[i].kind \in SupportedObligations
      BY <2>1 DEF Projectable
    <3>2. v.obligations[i].kind = "output_digest_required"
            => HasObligation(v, {"output_digest_required"})
      BY DEF HasObligation
    <3> QED
      BY <2>1, <3>1, <3>2 DEF ProjectRuntimeControls
  <2> QED
    BY <2>1, <2>3, <2>4, <2>5
<1>2. PipelineInv => ReadyPlanEnforcesEveryControl
  BY <1>1 DEF PipelineInv, ReadyPlanEnforcesEveryControl
<1> QED
  BY <1>2, PipelineInvariant, PTL
=============================================================================
