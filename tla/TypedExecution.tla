--------------------------- MODULE TypedExecution ---------------------------
(***************************************************************************)
(* govengine/typed_execution_governance.py: the checks made of one typed   *)
(* execution step before any backend I/O.  All are pure; what a step is    *)
(* refused for is a set of blockers.                                       *)
(*                                                                         *)
(* Lists of capabilities, egress classes and secrets are sets, a digest is *)
(* Digest(kind, content), and "" is a field left empty, as in the code.    *)
(***************************************************************************)
EXTENDS GovernanceRequest

SupportedBackendClasses ==
  {"http_api", "local_shell_readonly", "mock", "ssh_readonly", "static_fixture"}
RawShellBackendClasses == {"local_shell", "raw_shell", "shell", "ssh", "subprocess"}
ReadOnlyOperationModes == {"dry_run", "observe", "emergency_readonly", "read_only"}
OperationModes == ReadOnlyOperationModes \cup {"apply"}
LocalEgress == {"no_network", "local_subprocess"}
NetworkEgress == {"outbound_http", "outbound_ssh", "plugin_undeclared"}
EgressClasses == LocalEgress \cup NetworkEgress
IdentityClasses == {"api_token_optional", "none", "plugin_declared", "ssh_identity"}

NoNetworkPolicy == [schemes |-> {"none"}]

DescriptorDigest(t) == Digest("descriptor", t.descriptor)
TypedDigest(t) == Digest("typed", t)

ValidDescriptor(descriptor) ==
  /\ descriptor.egress_class \in EgressClasses \cup {""}
  /\ descriptor.identity_class \in IdentityClasses \cup {""}

(* _validate_typed_execution_request_shape *)
ConsistentTyped(t) ==
  /\ t.operation_mode \in OperationModes
  /\ t.side_effect_class \in SideEffectClasses
  /\ t.backend_class = t.descriptor.backend_class
  /\ t.descriptor_digest = DescriptorDigest(t)
  /\ t.network_policy_digest =
       IF t.network_policy = NoNetworkPolicy THEN NoDigest
       ELSE Digest("network_policy", t.network_policy)

(* validate_typed_execution_governance_request *)
ValidTyped(t) == ValidDescriptor(t.descriptor) /\ ConsistentTyped(t)

Failing(checks) == {b \in DOMAIN checks : checks[b]}

MissingDigest(t) == t.execution_spec = "" \/ t.payload = ""
PostureBroken(t) ==
  /\ t.operation_mode \in ReadOnlyOperationModes
  /\ t.side_effect_class # "read_only" \/ ~t.read_only
IsMutation(t) == t.side_effect_class = "mutation"

(* What a mutation is always refused for: it takes an approval that this   *)
(* record cannot prove.                                                    *)
ApprovalBlockers ==
  {"mutation_requires_approval_evidence", "mutation_requires_approval_attestation"}

ApprovalChecks(t) ==
  [mutation_requires_approval_attestation |-> IsMutation(t) /\ t.approval_ref # "",
   mutation_requires_approval_evidence |-> IsMutation(t) /\ t.approval_ref = ""]

(* project_typed_execution_governance. *)
GovernanceBlockers(t) ==
  Failing([missing_typed_execution_digest_binding |-> MissingDigest(t),
           read_only_side_effect_required |-> PostureBroken(t),
           receipt_required |-> ~t.receipt_required])
  \cup Failing(ApprovalChecks(t))

(* The egress the descriptor declares; its boundary is read first. *)
Egress(t) ==
  IF t.descriptor.boundary_egress # "" THEN t.descriptor.boundary_egress
  ELSE t.descriptor.egress_class

(* Local egress needs no policy; network egress needs a network policy     *)
(* that was declared independently and allows it.                          *)
NetworkMatches(t) ==
  \/ /\ Egress(t) \in LocalEgress
     /\ t.allowed_network_egress = {} \/ Egress(t) \in t.allowed_network_egress
  \/ /\ Egress(t) \in NetworkEgress /\ t.network_policy # NoNetworkPolicy
     /\ Egress(t) \in t.network_policy.egress

AllowedBy(allowlist, x) == allowlist = {} \/ x \in allowlist

DestinationMatches(t) ==
  LET d == t.destination
      policy == t.network_policy
  IN  /\ policy # NoNetworkPolicy
      /\ t.descriptor.destination = d
      /\ AllowedBy(policy.schemes, d.scheme)
      /\ AllowedBy(policy.address_classes, d.address_class)
      /\ policy.origin # "" => d.origin = policy.origin

(* _RUNTIME_CAPABILITY_ALIASES. *)
Aliases(capability) ==
  CASE capability = "http_api" -> {"connector.http.rest.read", "connector.http.rest.mutate"}
    [] capability = "local_shell_readonly" -> {"connector.shell.readonly"}
    [] capability = "ssh_readonly" -> {"connector.ssh.readonly"}
    [] capability = "static_fixture" -> {"connector.fixture.static"}
    [] capability = "mock" -> {"connector.mock.invoke"}
    [] OTHER -> {}

MissingCapabilities(t) ==
  LET declared == t.descriptor.declared
      provided == declared \cup {t.backend_class, "connector." \o t.backend_class}
  IN  {c \in t.required_capabilities : c \notin provided /\ Aliases(c) \cap declared = {}}

(* evaluate_typed_execution_capability_compatibility: a control that fails *)
(* blocks under its name, or under the name it takes when it fails.        *)
CompatibilityChecks(t) ==
  LET raw == t.backend_class \in RawShellBackendClasses
      supported == /\ t.backend_class \in SupportedBackendClasses
                   /\ AllowedBy(t.allowed_backend_classes, t.backend_class)
      bound == t.destination # NoDestination
      policy == t.network_policy # NoNetworkPolicy
  IN  [backend_class_supported |-> ~supported /\ raw,
       unsupported_backend_class |-> ~supported /\ ~raw,
       raw_shell_backend_blocked |-> raw,
       read_only_posture |-> PostureBroken(t),
       step_execution_spec_digest_present |-> t.execution_spec = "",
       payload_digest_present |-> t.payload = "",
       receipt_required |-> ~t.receipt_required,
       network_policy_binding_missing |->
          \/ ~NetworkMatches(t) /\ Egress(t) \in NetworkEgress /\ ~policy
          \/ bound /\ ~policy,
       network_boundary_mismatch |->
          ~NetworkMatches(t) /\ ~(Egress(t) \in NetworkEgress /\ ~policy),
       network_destination_binding_match |-> ~bound /\ t.require_destination,
       network_destination_binding_mismatch |-> bound /\ policy /\ ~DestinationMatches(t),
       secret_ref_requirements_met |->
          \E s \in t.descriptor.secrets : s.required /\ ~s.present,
       operation_capability_requirements_missing |-> t.required_capabilities = {},
       capability_coverage |->
          t.required_capabilities # {} /\ MissingCapabilities(t) # {},
       missing_required_capability_descriptors |-> MissingCapabilities(t) # {}]

CompatibilityBlockers(t) == Failing(CompatibilityChecks(t)) \cup Failing(ApprovalChecks(t))

(* explain_typed_execution_governance and admit_typed_execution: a step is *)
(* admitted on its own only without any blocker, so never a mutation.      *)
TypedBlockers(t) == GovernanceBlockers(t) \cup CompatibilityBlockers(t)
=============================================================================
