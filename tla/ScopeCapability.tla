--------------------------- MODULE ScopeCapability ---------------------------
(***************************************************************************)
(* The two pure gates beside policy: host-asserted network scope           *)
(* (govengine/scope_policy.py) and runtime capabilities                    *)
(* (govengine/capabilities.py).                                            *)
(***************************************************************************)
EXTENDS Integers, FiniteSets

SupportedSchemes == {"http", "https"}
PrivateAddressClasses == {"private", "loopback", "link_local"}
AddressClasses == PrivateAddressClasses \cup {"public"}
Ports == 1 .. 65535
SideEffectClasses == {"read_only", "mutation"}

(* requested_destination is None. *)
NoDestination == [scheme |-> "none"]

(* _validate_scope_policy_binding: an enabled network policy names every    *)
(* allowlist and a disabled one names none.                                 *)
ValidScopePolicy(policy) ==
  /\ policy.allowed_target_namespaces # {}
  /\ policy.allowed_schemes \subseteq SupportedSchemes
  /\ policy.allowed_address_classes \subseteq AddressClasses
  /\ (policy.allowed_schemes # {}) = policy.network_allowed
  /\ (policy.allowed_ports # {}) = policy.network_allowed
  /\ (policy.allowed_address_classes # {}) = policy.network_allowed

(* A plausible regression: being in allowed_address_classes is taken as     *)
(* consent to a private network.                                            *)
EvaluateScopePolicy_NoPrivateCheck(scope, policy) ==
  LET d == scope.destination
  IN  IF scope.target_namespace \notin policy.allowed_target_namespaces
      THEN "target_namespace_not_allowed"
      ELSE IF d = NoDestination THEN "scope_allowed"
      ELSE IF ~policy.network_allowed THEN "network_not_allowed"
      ELSE IF d.scheme \notin policy.allowed_schemes THEN "network_scheme_not_allowed"
      ELSE IF d.effective_port \notin Ports THEN "raised"
      ELSE IF d.effective_port \notin policy.allowed_ports THEN "network_port_not_allowed"
      ELSE IF d.address_class \notin policy.allowed_address_classes
           THEN "network_address_class_not_allowed"
      ELSE IF ~d.origin_bound THEN "raised"
      ELSE "scope_allowed"

(* evaluate_scope_policy: the reason code, or "raised". *)
EvaluateScopePolicy(scope, policy) ==
  LET d == scope.destination
  IN  IF scope.target_namespace \notin policy.allowed_target_namespaces
      THEN "target_namespace_not_allowed"
      ELSE IF d = NoDestination THEN "scope_allowed"
      ELSE IF ~policy.network_allowed THEN "network_not_allowed"
      ELSE IF d.scheme \notin policy.allowed_schemes THEN "network_scheme_not_allowed"
      ELSE IF d.effective_port \notin Ports THEN "raised"
      ELSE IF d.effective_port \notin policy.allowed_ports THEN "network_port_not_allowed"
      ELSE IF d.address_class \in PrivateAddressClasses /\ ~policy.private_networks_allowed
           THEN "private_network_not_allowed"
      ELSE IF d.address_class \notin policy.allowed_address_classes
           THEN "network_address_class_not_allowed"
      ELSE IF ~d.origin_bound THEN "raised"
      ELSE "scope_allowed"

ValidRequirements(requirements) ==
  /\ requirements.required_capabilities # {}
  /\ requirements.side_effect_class \in SideEffectClasses

ValidInventory(inventory) ==
  /\ inventory.backend_classes # {} /\ inventory.capabilities # {}
  /\ inventory.side_effect_classes # {}
  /\ inventory.side_effect_classes \subseteq SideEffectClasses

(* evaluate_capability_compatibility: the reason code. *)
EvaluateCapability(requirements, inventory) ==
  IF requirements.required_backend_class \notin inventory.backend_classes
  THEN "required_backend_class_missing"
  ELSE IF requirements.side_effect_class \notin inventory.side_effect_classes
  THEN "side_effect_class_not_supported"
  ELSE IF ~(requirements.required_capabilities \subseteq inventory.capabilities)
  THEN "required_capabilities_missing"
  ELSE "capabilities_compatible"
=============================================================================
