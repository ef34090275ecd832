-------------------------- MODULE MCAdmissionFlow --------------------------
(* An instance of AdmissionFlow for TLC: parts that differ from a sound   *)
(* set in one or two places, two bundles with different payloads.         *)
EXTENDS AdmissionFlow

Rec(tag, chain, key, digest, ticket) ==
  [root_tag |-> tag, chain_id |-> chain, key_id |-> key,
   root_chain_digest |-> digest, ticket_id |-> ticket]

MCRecords ==
  { Rec("t1", "c1", "k1", "d1", "k"), Rec("t2", "c1", "k1", "d2", "k") }

Prep(allowed, status) == [allowed |-> allowed, status |-> status]
Pol(allowed, decision) == [allowed |-> allowed, decision |-> decision]
Tick(allowed, status, approval, id) ==
  [allowed |-> allowed, status |-> status, approval |-> approval, ticket_id |-> id,
   ticket_digest |-> id]
Tru(reason, trusted, status) == [reason_code |-> reason, trusted |-> trusted, status |-> status]
Run(allowed, live) == [allowed |-> allowed, live_backend_enabled |-> live]
Rcpt(required, status, binds) == [required |-> required, status |-> status, binds |-> binds]

Both == {"admission", "ticket"}

\* What the host asks for goes with the parts: a runtime-consumable, not
\* live admission unless said otherwise.
Good ==
  [prepared |-> Prep(Absent, "prepared"), policy |-> Pol(Absent, "allow"),
   ticket |-> Tick(Absent, "approved", Absent, "k"), trust |-> Tru("ok", TRUE, "passed"),
   runner |-> Run(TRUE, FALSE), receipt |-> Rcpt(TRUE, Absent, Both),
   runtime_consumable |-> TRUE, live |-> FALSE]

MCSound ==
  [prepared |-> Good.prepared, policy |-> Good.policy, ticket |-> Good.ticket,
   trust |-> Good.trust, runner |-> Run(TRUE, TRUE), receipt |-> Good.receipt,
   guarded |-> [NoGuarded EXCEPT !.verification_status = "passed", !.replay_status = "fresh"],
   replay |-> NoReplay]

\* Each part in the other states that the code tells apart.
Prepareds == { Prep(FALSE, "prepared"), Prep(Absent, "draft") }
Policies ==
  { Pol(Absent, Absent), Pol(TRUE, "deny"), Pol(FALSE, "allow"), Pol(Absent, "dry_run_only"),
    Pol(Absent, "odd") }
  \cup {PolicyVerdictDecision(d) : d \in {"allow_with_obligations", "approval_required", "deny"}}
  \* a verdict that was not projected
  \cup {GovPolicyDecision("allow_with_obligations")}
Tickets ==
  { Tick(Absent, Absent, Absent, Absent), Tick(FALSE, "approved", Absent, "k"),
    Tick(Absent, Absent, "approved", "k"), Tick(Absent, "expired", Absent, "k"),
    Tick(Absent, "approved", Absent, Absent) }
Trusts ==
  { Tru(Absent, Absent, Absent), Tru("signer_not_allowed", TRUE, "passed"),
    Tru("ok", FALSE, "passed"), Tru(Absent, Absent, "trusted"), Tru(Absent, Absent, "odd") }
Runners == { Run(Absent, Absent), Run(FALSE, TRUE), Run(TRUE, TRUE) }
Receipts ==
  { Rcpt(Absent, Absent, Absent), Rcpt(FALSE, "optional", Both), Rcpt(Absent, "required", {"ticket"}) }

Single ==
  {[Good EXCEPT !.prepared = p] : p \in Prepareds} \cup {[Good EXCEPT !.policy = p] : p \in Policies}
  \cup {[Good EXCEPT !.ticket = t] : t \in Tickets} \cup {[Good EXCEPT !.trust = t] : t \in Trusts}
  \cup {[Good EXCEPT !.runner = r] : r \in Runners} \cup {[Good EXCEPT !.receipt = r] : r \in Receipts}

\* Several parts that fail together.
Multiple ==
  {[Good EXCEPT !.policy = p, !.trust = t, !.runner = r] :
     p \in {Pol(Absent, "deny")}, t \in {Good.trust, Tru(Absent, Absent, Absent)},
     r \in {Run(TRUE, TRUE), Run(FALSE, FALSE)}}
  \cup {[s EXCEPT !.receipt = Rcpt(Absent, Absent, Absent)] :
          s \in {[Good EXCEPT !.ticket = Tick(Absent, "pending", Absent, "k")],
                 [Good EXCEPT !.prepared = Prep(Absent, Absent)]}}

\* Admissions for review, and live ones.
Otherwise ==
  {[Good EXCEPT !.runtime_consumable = FALSE, !.live = live, !.runner = Run(TRUE, live)] :
     live \in BOOLEAN}
  \cup {[Good EXCEPT !.live = TRUE, !.runner = r] : r \in {Run(TRUE, TRUE), Run(TRUE, FALSE)}}
  \cup {[Good EXCEPT !.runtime_consumable = FALSE, !.receipt = Rcpt(Absent, "required", Both),
                      !.ticket = Tick(Absent, Absent, "approved", "k")]}

\* A blocked admission and one for review stay what they are: what is claimed
\* after them is explored without them.
AdmittedForARuntime(j) == Composed(j) => admission[j].allowed /\ asked[j].runtime_consumable
OthersAreFinal == \A j \in Jobs : AdmittedForARuntime(j)

\* After as many answers as there may be, only such admissions are composed.
LateCompositionsThatMatter ==
  Len(returned) = MaxReturned => \A j \in Jobs : Composed(j) \/ AdmittedForARuntime(j)'

MCSummaries == {Good} \cup Single \cup Multiple \cup Otherwise
=============================================================================
