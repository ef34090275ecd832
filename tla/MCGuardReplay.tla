--------------------------- MODULE MCGuardReplay ---------------------------
(* An instance of GuardReplay for TLC. *)
EXTENDS GuardReplay, TLC

Rec(tag, chain, key, digest, ticket) ==
  [root_tag |-> tag, chain_id |-> chain, key_id |-> key,
   root_chain_digest |-> digest, ticket_id |-> ticket]

\* A payload, the same payload guarded again, under another ticket and under
\* another key, and an old record that has no payload digest.
MCRecords ==
  { Rec("t1", "c1", "k1", "d1", "k"), Rec("t2", "c1", "k1", "d1", "k"),
    Rec("t2", "c1", "k1", "d1", ""), Rec("t1", "c1", "k2", "d1", "k"),
    Rec("t1", "c1", "k1", "", "") }

Symmetry == Permutations(Hosts)
=============================================================================
