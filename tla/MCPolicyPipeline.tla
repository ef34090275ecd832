-------------------------- MODULE MCPolicyPipeline --------------------------
(* Instances of PolicyPipeline for TLC. *)
EXTENDS PolicyPipeline

Cond(key, path, operator, value) ==
  [key |-> key, path |-> path, operator |-> operator, value |-> value]

Rule(id, effect, priority, conditions, obligations, constraints) ==
  [rule_id |-> id, effect |-> effect, priority |-> priority, conditions |-> conditions,
   reason |-> effect, obligations |-> obligations, constraints |-> constraints]

Word(w) == Text(<<w>>)
Words(ws) == List([i \in DOMAIN ws |-> Word(ws[i])])

ModeRead == Cond(1, "action.mode", "eq", Word("read"))
ModeKnown == Cond(2, "action.mode", "in", Words(<<"read", "write">>))
NotOps == Cond(3, "principal.team", "neq", Word("ops"))
InOps == Cond(4, "principal.team", "matches_namespace", Word("ops"))
Ticket == Cond(5, "context.ticket", "exists", Bool(TRUE))
NoTicket == Cond(6, "context.ticket", "exists", Bool(FALSE))
Big == Cond(7, "resource.size", "gte", Num(5))
Tagged == Cond(8, "resource.tags", "contains", Word("prod"))
OnlyKnownTags == Cond(9, "resource.tags", "subset_of", Words(<<"prod", "test">>))
SmallSize == Cond(10, "resource.size", "not_in", List(<<Num(7), Num(9)>>))

Receipt == [id |-> "o1", kind |-> "receipt"]
Digest == [id |-> "o2", kind |-> "output_digest_required"]
Timeout(id, n) == [id |-> id, kind |-> "timeout", value |-> Num(n)]
Egress == [id |-> "c3", kind |-> "allowed_network_egress", value |-> Words(<<"eu">>)]
Unknown == [id |-> "c4", kind |-> "gpu_only", value |-> Bool(TRUE)]

MCRules ==
  { Rule(1, "allow", 1, <<ModeRead, SmallSize>>, <<>>, <<>>),
    Rule(2, "deny", 100, <<InOps, Tagged>>, <<>>, <<>>),
    Rule(3, "approval_required", 50, <<Big>>, <<>>, <<>>),
    Rule(4, "allow_with_obligations", 50, <<ModeKnown, OnlyKnownTags>>, <<Receipt, Digest>>,
         <<Timeout("c1", 9), Timeout("c2", 5), Egress>>),
    \* the same conditions as rule 4, authored in another order
    Rule(5, "deny", 1, <<OnlyKnownTags, ModeKnown>>, <<>>, <<>>),
    \* the control id of rule 4 with another payload
    Rule(6, "allow_with_obligations", 50, <<NoTicket, NotOps>>, <<>>, <<Unknown, Timeout("c1", 3)>>),
    Rule(7, "allow", 1, <<>>, <<>>, <<>>),
    Rule(1, "allow", 1, <<Ticket, Ticket>>, <<>>, <<>>) }

Facts(mode, team, size, tags) ==
  [p \in {"action.mode", "principal.team", "resource.size", "resource.tags"} |->
     CASE p = "action.mode" -> Word(mode)
       [] p = "principal.team" -> Text(team)
       [] p = "resource.size" -> size
       [] OTHER -> tags]

With(f, path, value) == [p \in DOMAIN f \cup {path} |-> IF p = path THEN value ELSE f[p]]

MCRequests ==
  { Facts("read", <<"ops", ".", "night">>, Num(7), Words(<<"prod", "other">>)),
    With(Facts("read", <<"dev">>, Num(6), Words(<<"test">>)), "context.ticket", Word("t")),
    \* the tags as the text "production"; the second team is "operations"
    Facts("write", <<"ops">>, Num(2), Text(<<"prod", "uction">>)),
    Facts("list", <<"ops", "erations">>, Word("huge"), Text(<<"prod", "uction">>)),
    With(Facts("write", <<"dev">>, Num(6), Words(<<>>)), "resource.criticality", Word("critical")),
    With(Facts("read", <<"dev">>, Num(2), Words(<<>>)), "action.destructive", Bool(TRUE)) }
=============================================================================
