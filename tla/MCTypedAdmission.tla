-------------------------- MODULE MCTypedAdmission --------------------------
(* An instance of TypedAdmission for TLC: a built-in and a plugin backend,   *)
(* and variants of both that differ in one thing each.                       *)
EXTENDS TypedAdmission, MCGovernance, TLC

Symmetry == Permutations(Calls)

Allow(id, kind, items) == [id |-> id, kind |-> kind, value |-> List(items)]
Backends(id, items) == Allow(id, "allowed_backend_classes", items)
LocalOnly == Allow("e1", "allowed_network_egress", <<Word("no_network")>>)

PutRule == Rule(1, "approval_required", <<Cond(1, "action.mode", "eq", Word("put"))>>, <<>>, <<>>)
PlugRule ==
  Rule(2, "approval_required", <<Cond(2, "action.mode", "eq", Word("plug"))>>, <<>>,
       <<Backends("b1", <<Word("plugin_x")>>), LocalOnly>>)
WideRule ==
  Rule(3, "approval_required", <<Cond(3, "action.mode", "eq", Word("wide"))>>, <<>>,
       <<Backends("b2", <<Word("plugin_x"), Word("plugin_y")>>), LocalOnly>>)
TypedPack == [Pack EXCEPT !.rules = <<PutRule, PlugRule, WideRule>>]

Settled(status, epoch) ==
  [Activation(status, epoch, 9) EXCEPT !.policy_pack = Digest("policy_pack", TypedPack)]
TypedBinding == [b1 |-> Settled("active", 1), b2 |-> Settled("revoked", 1)]

Descriptor(backend, egress, declared) ==
  [backend_class |-> backend, identity_class |-> "none", egress_class |-> egress,
   boundary_egress |-> egress, mode |-> "apply", certification_tier |-> "plugin",
   declared |-> declared, secrets |-> {}, destination |-> NoDestination]

Step1(descriptor, required) ==
  [operation_mode |-> "apply", side_effect_class |-> "mutation", read_only |-> FALSE,
   backend_class |-> descriptor.backend_class, operation |-> "op", execution_spec |-> "spec",
   payload |-> "payload", descriptor |-> descriptor,
   descriptor_digest |-> Digest("descriptor", descriptor), receipt_required |-> TRUE,
   approval_ref |-> "", allowed_network_egress |-> {descriptor.egress_class},
   network_policy |-> NoNetworkPolicy, network_policy_digest |-> NoDigest,
   destination |-> NoDestination, require_destination |-> FALSE, allowed_backend_classes |-> {},
   required_capabilities |-> required]

HttpPolicy == [egress |-> {"outbound_http"}, schemes |-> {"https"}, address_classes |-> {}, origin |-> ""]
Put0 == Step1(Descriptor("http_api", "outbound_http", {"connector.http.rest.mutate"}), {"http_api"})
Plug == Step1(Descriptor("plugin_x", "no_network", {"put"}), {"put"})
WithSecret(t, present) ==
  LET d == [t.descriptor EXCEPT !.secrets = {[required |-> TRUE, present |-> present]}]
  IN  [t EXCEPT !.descriptor = d, !.descriptor_digest = Digest("descriptor", d)]

Bound(t) == [t EXCEPT !.network_policy = HttpPolicy,
                      !.network_policy_digest = Digest("network_policy", HttpPolicy)]
Put == Bound(WithSecret(Put0, TRUE))

MCTyped ==
  [put |-> Put, put_ref |-> [Put EXCEPT !.approval_ref = "ticket"],
   put_no_secret |-> WithSecret(Put, FALSE), put_open |-> WithSecret(Put0, TRUE), put_silent |-> [Put EXCEPT !.receipt_required = FALSE],
   put_drift |-> [Put EXCEPT !.descriptor_digest = NoDigest],
   look |-> [Put EXCEPT !.operation_mode = "observe"],
   plug |-> Plug, plug_secret |-> WithSecret(Plug, TRUE),
   plug_shell |-> Step1(Descriptor("shell", "local_subprocess", {"put"}), {"put"})]

Governs(typed, word, mode, approval) ==
  [typed |-> typed, word |-> word, mode |-> mode, approval |-> approval]
Transactions ==
  [put |-> Governs("put", "put", "apply", "ap1"),
   recover |-> Governs("put_ref", "put", "recovery", "ap2"),
   put_plain |-> Governs("put", "put", "apply", "none"),
   put_no_secret |-> Governs("put_no_secret", "put", "apply", "ap1"),
   put_open |-> Governs("put_open", "put", "apply", "ap1"),
   plug |-> Governs("plug", "plug", "apply", "ap3"),
   plug_wide |-> Governs("plug", "wide", "apply", "ap3"),
   plug_shell |-> Governs("plug_shell", "plug", "apply", "ap3")]

(* The governance request of a step, in one of the pack's modes.  Each     *)
(* stage is a singleton: TLC's cost model unfolds a definition once for    *)
(* every use of it, but not a bound variable.                              *)
Governed(base, t, mode) ==
  [base EXCEPT
     !.policy_pack = TypedPack,
     !.scope_policy.policy_pack = Digest("policy_pack", TypedPack),
     !.requirements.required_backend_class = t.backend_class,
     !.requirements.required_capabilities = {"put"},
     !.inventory.backend_classes = {t.backend_class},
     !.execution_facts =
       [request_id |-> "t", subject_ref |-> <<"op", "a1">>, facts |-> @.facts,
        metadata |-> [typed_request |-> TypedDigest(t), actual_operation_mode |-> mode]]]

Drafts(x) ==
  {Governed(base, t, x.mode) :
     base \in {Plain(Facts(x.word, FALSE), "mutation", Public, 1)},
     t \in {MCTyped[x.typed]}}

Digested(x) == {[q EXCEPT !.digests = ClaimedDigests(q)] : q \in Drafts(x)}

MCRequest ==
  [r \in DOMAIN Transactions |->
     CHOOSE signed \in UNION {{IF x.approval = "none" THEN q ELSE Approved(q, x.approval, 9) :
                                  q \in Digested(x)} : x \in {Transactions[r]}} : TRUE]
=============================================================================
