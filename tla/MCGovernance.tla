---------------------------- MODULE MCGovernance ----------------------------
(***************************************************************************)
(* The small world shared by the TLC instances of the governance           *)
(* transaction: two packs, the activation bindings of a host, and the      *)
(* requests that exercise every gate.                                      *)
(***************************************************************************)
EXTENDS GovernanceDecision

Word(w) == Text(<<w>>)
Cond(key, path, operator, value) ==
  [key |-> key, path |-> path, operator |-> operator, value |-> value]
Rule(id, effect, conditions, obligations, constraints) ==
  [rule_id |-> id, effect |-> effect, priority |-> 100, conditions |-> conditions,
   reason |-> effect, obligations |-> obligations, constraints |-> constraints]

ReadRule ==
  Rule(1, "allow_with_obligations", <<Cond(1, "action.mode", "eq", Word("read"))>>,
       <<[id |-> "o1", kind |-> "output_digest_required"]>>,
       <<[id |-> "c1", kind |-> "output_limit", value |-> Num(2)],
         [id |-> "c2", kind |-> "output_limit", value |-> Num(1)]>>)
WriteRule ==
  Rule(2, "approval_required", <<Cond(2, "action.mode", "eq", Word("write"))>>, <<>>, <<>>)
FrozenRule ==
  Rule(3, "deny", <<Cond(3, "resource.frozen", "eq", Bool(TRUE))>>, <<>>, <<>>)
OddRule ==
  Rule(4, "approval_required", <<Cond(4, "action.mode", "eq", Word("odd"))>>, <<>>,
       <<[id |-> "c4", kind |-> "gpu_only", value |-> Bool(TRUE)]>>)
OpenRule ==
  Rule(5, "allow", <<Cond(5, "action.mode", "in", List(<<Word("tune"), Word("read")>>))>>, <<>>, <<>>)

Pack == [policy_id |-> "p", version |-> "1", schema_version |-> "v1", issuer_ref |-> "i",
         policy_epoch |-> 1, not_before |-> 0, expires_at |-> 9,
         rules |-> <<ReadRule, WriteRule, FrozenRule, OddRule, OpenRule>>]

(* b1 is superseded by b2 or withdrawn as b3; b2 ends early. *)
Activation(status, epoch, expires) ==
  [policy_id |-> "p", policy_version |-> "1",
   policy_pack |-> Digest("policy_pack", [Pack EXCEPT !.policy_epoch = epoch]),
   policy_epoch |-> epoch, issuer_ref |-> "i", status |-> status, not_before |-> 0,
   expires_at |-> expires]

MCBinding ==
  [b1 |-> Activation("active", 1, 2), b2 |-> Activation("active", 2, 9),
   b3 |-> Activation("revoked", 1, 9)]

Facts(mode, frozen) ==
  [p \in {"action.mode", "resource.frozen"} |->
     IF p = "action.mode" THEN Word(mode) ELSE Bool(frozen)]

WipingFacts ==
  [p \in {"action.mode", "resource.frozen", "action.destructive", "resource.criticality"} |->
     CASE p = "action.destructive" -> Bool(TRUE)
       [] p = "resource.criticality" -> Word("critical")
       [] OTHER -> Facts("write", FALSE)[p]]

ScopePolicy(epoch) ==
  [policy_pack |-> Digest("policy_pack", [Pack EXCEPT !.policy_epoch = epoch]),
   policy_epoch |-> epoch, allowed_target_namespaces |-> {"ns"}, network_allowed |-> TRUE,
   allowed_schemes |-> {"https"}, allowed_ports |-> {443},
   allowed_address_classes |-> {"public", "private"}, private_networks_allowed |-> FALSE]

Destination(class) ==
  [scheme |-> "https", effective_port |-> 443, address_class |-> class, origin_bound |-> TRUE]
Public == Destination("public")

(* A request with consistent digests and no approval. *)
Plain(facts, side_effect, destination, epoch) ==
  LET pack == [Pack EXCEPT !.policy_epoch = epoch]
      base ==
        [transaction_id |-> "t", operation |-> "op", attempt_id |-> "a1",
         policy_pack |-> pack, policy_epoch |-> epoch,
         execution_facts |-> [request_id |-> "t", subject_ref |-> <<"op", "a1">>,
                              facts |-> facts],
         execution_spec |-> "spec", payload |-> "payload",
         requested_scope |-> [target_namespace |-> "ns", claims_authority |-> FALSE,
                              destination |-> destination],
         scope_policy |-> ScopePolicy(epoch),
         requirements |-> [operation |-> "op", execution_spec |-> "spec",
                           required_backend_class |-> "http",
                           side_effect_class |-> side_effect,
                           required_capabilities |-> {"get", "log"}],
         inventory |-> [runtime_instance_id |-> "rt", inventory_epoch |-> 0,
                        backend_classes |-> {"http"},
                        side_effect_classes |-> SideEffectClasses,
                        capabilities |-> {"get", "log", "put"}],
         side_effect_class |-> side_effect, runtime_instance_id |-> "rt",
         lease_id |-> Digest("lease", "l"), lease_epoch |-> 0, fencing_token |-> "f",
         approval |-> NoApproval, digests |-> NoDigest]
  IN  [base EXCEPT !.digests = ClaimedDigests(base)]

Approval(q, id, expires) ==
  [approval_id |-> id, subject |-> SubjectRecord(q), operation |-> q.operation,
   attempt_id |-> q.attempt_id, execution_spec |-> q.execution_spec,
   execution_facts |-> q.digests.execution_facts,
   target_scope |-> q.digests.requested_scope, policy_pack |-> q.digests.policy_pack,
   approved_side_effect_class |-> q.side_effect_class, policy_epoch |-> q.policy_epoch,
   approver_role |-> "owner", trust_domain |-> "d", approver_ref |-> "ann",
   has_signature_ref |-> TRUE, issued_at |-> 0, not_before |-> 0, expires_at |-> expires]

Attach(q, a) == [q EXCEPT !.approval = a, !.digests.approval = Digest("approval", a)]
Approved(q, id, expires) == Attach(q, Approval(q, id, expires))

Read == Plain(Facts("read", FALSE), "read_only", Public, 1)
Write == Plain(Facts("write", FALSE), "mutation", Public, 1)
Frozen == Plain(Facts("write", TRUE), "mutation", Public, 1)
Wiping == Plain(WipingFacts, "mutation", Public, 1)
Odd == Plain(Facts("odd", FALSE), "mutation", Public, 1)
Tune == Plain(Facts("tune", FALSE), "mutation", Public, 1)
Private == Plain(Facts("tune", FALSE), "read_only", Destination("private"), 1)
Starved == LET q == Plain(Facts("tune", FALSE), "read_only", Public, 1)
               poor == [q.inventory EXCEPT !.capabilities = {"get"}]
           IN  [q EXCEPT !.inventory = poor, !.digests.inventory = Digest("inventory", poor)]
Classless == LET q == Plain(Facts("tune", FALSE), "read_only", Public, 1)
                 other == [q.inventory EXCEPT !.backend_classes = {"queue"}]
             IN  [q EXCEPT !.inventory = other, !.digests.inventory = Digest("inventory", other)]
Unbound == Plain(Facts("tune", FALSE), "read_only", [Public EXCEPT !.origin_bound = FALSE], 1)
Second == Plain(Facts("tune", FALSE), "read_only", Public, 2)

(* The approval of a read presented with a write of the same attempt. *)
Borrowed == Attach(Write, Approval(Read, "ap4", 9))
Drifted == [Read EXCEPT !.digests.execution_facts = Write.digests.execution_facts]
Mismatch == [Read EXCEPT !.transaction_id = "t2"]

MCTrustPolicy ==
  [trusted_roles |-> {"owner"}, trusted_domains |-> {"d"}, trusted_approver_refs |-> {},
   require_signature_ref |-> TRUE]

(* The requests that GovernanceDecision is checked with on its own. *)
GateRequests ==
  [read |-> Read, write |-> Write, write_approved |-> Approved(Write, "ap1", 1),
   tune |-> Tune, tune_approved |-> Approved(Tune, "ap2", 9),
   odd_approved |-> Approved(Odd, "ap3", 9), frozen_approved |-> Approved(Frozen, "ap5", 9),
   wiping_approved |-> Approved(Wiping, "ap7", 9),
   unsigned |-> Approved(Write, "ap6", 9), borrowed |-> Borrowed, private |-> Private,
   starved |-> Starved, classless |-> Classless, unbound |-> Unbound, second |-> Second,
   drifted |-> Drifted, mismatch |-> Mismatch]
=============================================================================
