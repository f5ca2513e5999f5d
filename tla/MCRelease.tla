----------------------------- MODULE MCRelease -----------------------------
(* The releases of two tenants with their baseline, and the assurance       *)
(* evidence of one deployment.  The two share no variable: a behaviour here *)
(* runs the one or the other.                                               *)
EXTENDS StableRelease, Assurance, TLC

CONSTANTS n1, n2

OneInstant == \A x \in UNION {rlsPolicies, profiles, egress, tools, workers,
                                releases, rollbacks, upgrades, checkpoints} : x.at = 0

\* The second tenant has a part only in behaviours of one instant without plans,
\* a third release only in those of one instant and one tenant without baseline.
SmallIfCrowded ==
  LET alone == \A x \in egress \cup tools \cup profiles : x.tenant = n1
  IN /\ alone \/ (OneInstant /\ rollbacks = {} /\ checkpoints = {})
     /\ Cardinality(releases) > 2 => alone /\ OneInstant /\ baselines = {}

\* Evidence of one instant; evidence of which the surface, the review or the scope is
\* younger than the rest; a policy that is younger than its surface.
ReadinessCases ==
  LET ev(p, s, r, l) == [policy_at |-> p, surface_at |-> s, review_at |-> r,
                         scope_at |-> l]
  IN {ev(0, 0, 0, 0), ev(0, 1, 0, 0), ev(0, 0, 1, 0), ev(0, 0, 0, 1), ev(1, 0, 1, 1)}

\* One policy, allowlist or profile is superseded in a behaviour, none in one whose
\* baseline has evidence of two instants.
OneSupersession ==
  LET evenly == {ev \in Readiness : \A k \in DOMAIN ev : ev[k] = 0}
  IN Cardinality({x \in rlsPolicies \cup profiles \cup egress \cup tools :
                    x.version > 1})
       <= IF \A b \in baselines : b.evidence \in evenly THEN 1 ELSE 0

\* Which names the callers choose makes no difference.
Interchangeable == Permutations(ReleaseId) \cup Permutations(AssertionId)
                     \cup Permutations(EntryId)

References == {[framework |-> "NIST_AI_RMF", id |-> "GOVERN-1"],
               [framework |-> "EU_AI_ACT", id |-> "ART-26"]}

ReadinessInit == ReleaseInit /\ AssuranceInit
ReadinessNext ==
  \/ ReleaseNext /\ SmallIfCrowded' /\ OneSupersession'
     /\ scopes = {} /\ UNCHANGED assuranceVars
  \/ AssuranceNext /\ rlsPolicies = {} /\ egress = {} /\ tools = {}
                   /\ UNCHANGED releaseVars
ReadinessSpec ==
  ReadinessInit /\ [][ReadinessNext]_<<releaseVars, assuranceVars>>
=============================================================================
