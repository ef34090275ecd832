--------------------------- MODULE MCOperationChain ---------------------------
EXTENDS OperationChain

(* One stage goes by its legacy name. *)
HostStageNames == (DOMAIN Transitions \ {"verified_chain"}) \cup {"chain_verified"}
HostTicketVersions == {"v0.3"}

ChangingRoles == {"intent_contract", "execution_ticket"}
FailingRoles == {"policy_decision"}

ChainLimits == [max_depth |-> 1, max_children |-> 2]
=============================================================================
