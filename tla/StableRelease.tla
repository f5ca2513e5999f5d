--------------------------- MODULE StableRelease ---------------------------
(***************************************************************************)
(* StableReleaseRegistry (regagentops/stability.py): the one baseline of   *)
(* version 1.0.0, registered over two releases of the production registry: *)
(* the 0.9.x release one upgrades from and the 1.0.0 release one upgrades  *)
(* to.  The registry belongs to no tenant.  Policies, reviews and the rest *)
(* of the readiness evidence are the caller's artifacts, known here by     *)
(* their dates.                                                            *)
(***************************************************************************)
EXTENDS Deployment

CONSTANTS SourceVersion,  \* the versions of the 0.9 series
          StableVersion,  \* 1.0.0
          Readiness       \* [policy_at, surface_at, review_at, scope_at]

ASSUME StableAssumption == StableVersion \in Nat /\ SourceVersion \subseteq Nat

VARIABLE baselines  \* the registered baseline, if there is one

releaseVars == <<isolationVars, deploymentVars, baselines>>

\* Mutant: the source release is only looked up.
SourceRegistered(source, target) == source \in releases /\ ReleaseCurrent(target)

BothCurrent(source, target) == ReleaseCurrent(source) /\ ReleaseCurrent(target)

\* _assert_chronology
ReadinessDated(b) ==
  LET source == b.path.source
      ev == b.evidence
  IN /\ source.at <= b.release.at
     /\ ev.policy_at <= ev.surface_at
     /\ source.at <= b.path.at /\ b.release.at <= b.path.at
     /\ b.release.at <= ev.review_at
     /\ \A t \in {ev.policy_at, ev.surface_at, source.at, b.release.at, b.path.at,
                  ev.review_at, ev.scope_at} : t <= b.assembled_at

\* register_baseline.  boundary is the release that the production-reference
\* boundary evidence, the provenance and the checksums of the baseline name.
RegisterBaseline(path, release, boundary, ev, t) ==
  LET b == [path |-> path, release |-> release, evidence |-> ev, assembled_at |-> t]
  IN /\ baselines = {}
     /\ path.source.version \in SourceVersion
     /\ release.version = StableVersion
     /\ path.target = release
     /\ boundary = release
     /\ BothCurrent(path.source, release)
     /\ ReadinessDated(b)
     /\ baselines' = {b}
     /\ UNCHANGED <<isolationVars, deploymentVars>>

\* assert_baseline_current, of the registered baseline and its own artifacts.
BaselineCurrent == \E b \in baselines : BothCurrent(b.path.source, b.release)

ReleaseInit == IsolationInit /\ DeploymentInit /\ baselines = {}

ReleaseNext ==
  \/ IsolationNext /\ UNCHANGED <<deploymentVars, baselines>>
  \/ DeploymentNext /\ UNCHANGED <<isolationVars, baselines>>
  \/ \E source, target, release, boundary \in releases, ev \in Readiness,
        u, t \in RegistryTime :
        /\ source # target
        /\ RegisterBaseline([source |-> source, target |-> target, at |-> u],
                            release, boundary, ev, t)

ReleaseSpec == ReleaseInit /\ [][ReleaseNext]_releaseVars

-----------------------------------------------------------------------------
(* Properties *)

\* Histories are contiguous and dated, every artifact binds registered ones of
\* its own tenant, and identities and versions of releases are never reused.
ReleaseTypeOK ==
  /\ rlsPolicies \subseteq RlsPolicy
  /\ \A id \in RlsPolicyId : WellFormedHistory(PolicyHistory(id))
  /\ \A n \in Tenant : \A S \in {egress, tools, profiles, workers} :
       WellFormedHistory(Of(n, S))
  /\ \A x \in profiles : x.policies # {} /\ x.policies \subseteq rlsPolicies
  /\ \A w \in workers : /\ w.egress \in Of(w.tenant, egress)
                        /\ w.tools \in Of(w.tenant, tools)
                        /\ w.isolation \in Of(w.tenant, profiles)
  /\ \A r \in releases : r.worker \in Of(r.tenant, workers)
  /\ \A r, s \in releases :
       /\ r.tenant = s.tenant
       /\ r.release_id = s.release_id \/ r.version = s.version
       => r = s

\* The baseline leads from a 0.9 release to the 1.0.0 release.  Both had to be current
\* when it was registered, so within one tenant both run on one and the same worker
\* profile: an upgrade that changes the worker has no baseline.  (Nothing asks for one
\* and the same tenant.)  No release, nor any profile or allowlist it rests on, is
\* younger than the upgrade path, and no evidence the baseline binds is younger than
\* the baseline.  (Nothing dates a row-level-security policy against its profile.)
BaselineIsGrounded ==
  \A b \in baselines :
    LET source == b.path.source
        target == b.release
        ev == b.evidence
    IN /\ source \in releases /\ target \in releases /\ b.path.target = target
       /\ source.version \in SourceVersion /\ target.version = StableVersion
       /\ source.tenant = target.tenant => source.worker = target.worker
       /\ \A r \in {source, target} :
            \A d \in {r, r.worker, r.worker.egress, r.worker.tools,
                      r.worker.isolation} : d.at <= b.path.at
       /\ target.at <= ev.review_at /\ ev.policy_at <= ev.surface_at
       /\ \A t \in {b.path.at, ev.policy_at, ev.surface_at, ev.review_at,
                    ev.scope_at} : t <= b.assembled_at

\* A baseline that is not current is never current again, and there is no other:
\* after a change of worker or policies 1.0.0 has no current baseline for good.
BaselineDriftIsFinal ==
  [][baselines # {} /\ ~BaselineCurrent => ~BaselineCurrent']_releaseVars

\* "A policy or RLS/tenant-isolation change therefore requires a new worker/release
\* binding instead of silently reusing a stale release manifest"
\* (docs/PRODUCTION_REFERENCE.md:88): when a new version of a row-level-security
\* policy is registered, dated after a registered and current release whose isolation
\* profile names the version in force until then, that release is current no longer.
RlsChangeStalesReleases ==
  [][\A r \in releases, q \in rlsPolicies' \ rlsPolicies :
       \A p \in r.worker.isolation.policies :
         /\ ReleaseCurrent(r) /\ r.at < q.at
         /\ q.policy_id = p.policy_id /\ IsLatest(PolicyHistory(p.policy_id), p)
         => ~ReleaseCurrent(r)']_<<isolationVars, deploymentVars>>
=============================================================================
