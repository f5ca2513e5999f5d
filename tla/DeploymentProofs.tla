------------------------- MODULE DeploymentProofs -------------------------
(* What the registries of a tenant's releases keep, for any number of      *)
(* tenants, identities, versions and instants; and what is assembled from  *)
(* assurance evidence, which stays verifiable for any deployments,         *)
(* frameworks, people and times.                                           *)
EXTENDS StableRelease, Assurance, VersionedHistoryProofs

\* Tenants are tenants and timestamps timestamps, in every artifact.
Attributed ==
  /\ \A x \in egress \cup tools \cup profiles \cup workers \cup releases :
       x.tenant \in Tenant /\ x.at \in Nat
  /\ \A x \in rlsPolicies \cup rollbacks \cup upgrades \cup checkpoints : x.at \in Nat
  /\ \A r \in releases : r.version \in Nat

\* What register_worker compared stays compared.
WorkersAreDated == \A w \in workers : WorkerDated(w)

\* register_release looks at the highest version of the tenant's releases: if there
\* are any, there is one.
LatestReleaseExists ==
  \A n \in Tenant : Of(n, releases) # {} => \E l \in releases : IsLatest(Of(n, releases), l)

ReleaseInv ==
  /\ ReleaseTypeOK
  /\ Attributed
  /\ WorkersAreDated
  /\ LatestReleaseExists
  /\ DeploymentIsChronological
  /\ UpgradesAreReversible
  /\ BaselineIsGrounded

-----------------------------------------------------------------------------
\* register appends to one history of a set of histories and leaves the rest alone.
LEMMA HistoriesGrow ==
  ASSUME NEW S, NEW x,
         \A m \in Tenant : WellFormedHistory(Of(m, S)),
         \A y \in S : y.at \in Nat,
         x.at \in Nat, Appendable(Of(x.tenant, S), x)
  PROVE  \A m \in Tenant : WellFormedHistory(Of(m, S \cup {x}))
<1> SUFFICES ASSUME NEW m \in Tenant
             PROVE  WellFormedHistory(Of(m, S \cup {x}))
  OBVIOUS
<1>1. CASE m = x.tenant
  <2>1. Of(m, S \cup {x}) = Of(m, S) \cup {x} BY <1>1 DEF Of
  <2>2. Dated(Of(m, S)) BY DEF Dated, Of
  <2> QED BY <1>1, <2>1, <2>2, AppendKeepsWellFormed
<1>2. CASE m # x.tenant
  <2>1. Of(m, S \cup {x}) = Of(m, S) BY <1>2 DEF Of
  <2> QED BY <2>1
<1> QED BY <1>1, <1>2

\* Each call stores at most one artifact, and none is ever removed.
LEMMA RegistriesGrow ==
  ASSUME [ReleaseNext]_releaseVars
  PROVE  /\ rlsPolicies \subseteq rlsPolicies' /\ profiles \subseteq profiles'
         /\ egress \subseteq egress' /\ tools \subseteq tools'
         /\ workers \subseteq workers' /\ releases \subseteq releases'
         /\ rollbacks \subseteq rollbacks' /\ upgrades \subseteq upgrades'
         /\ checkpoints \subseteq checkpoints' /\ baselines \subseteq baselines'
<1>1. CASE IsolationNext /\ UNCHANGED <<deploymentVars, baselines>>
  <2>1. rlsPolicies \subseteq rlsPolicies' /\ profiles \subseteq profiles'
    BY <1>1 DEF IsolationNext, RegisterPolicy, RegisterProfile
  <2> QED BY <1>1, <2>1 DEF deploymentVars
<1>2. CASE DeploymentNext /\ UNCHANGED <<isolationVars, baselines>>
  <2>1. rlsPolicies' = rlsPolicies /\ profiles' = profiles /\ baselines' = baselines
    BY <1>2 DEF isolationVars
  <2>2. \A n, v, t : RegisterEgress(n, v, t) \/ RegisterTools(n, v, t) =>
          /\ egress \subseteq egress' /\ tools \subseteq tools'
          /\ UNCHANGED <<workers, releases, rollbacks, upgrades, checkpoints>>
    BY DEF RegisterEgress, RegisterTools
  <2>3. \A n, v, e, a, p, t : RegisterWorker(n, v, e, a, p, t) =>
          /\ workers \subseteq workers'
          /\ UNCHANGED <<egress, tools, releases, rollbacks, upgrades, checkpoints>>
    BY DEF RegisterWorker
  <2>4. \A id, v, w, t : RegisterRelease(id, v, w, t) =>
          /\ releases \subseteq releases'
          /\ UNCHANGED <<egress, tools, workers, rollbacks, upgrades, checkpoints>>
    BY DEF RegisterRelease
  <2>5. \A id, source, target, t : RegisterRollback(id, source, target, t) =>
          /\ rollbacks \subseteq rollbacks'
          /\ UNCHANGED <<egress, tools, workers, releases, upgrades, checkpoints>>
    BY DEF RegisterRollback
  <2>6. \A id, old, new, p, t : RegisterUpgrade(id, old, new, p, t) =>
          /\ upgrades \subseteq upgrades'
          /\ UNCHANGED <<egress, tools, workers, releases, rollbacks, checkpoints>>
    BY DEF RegisterUpgrade
  <2>7. \A id, r, t : RegisterCheckpoint(id, r, t) =>
          /\ checkpoints \subseteq checkpoints'
          /\ UNCHANGED <<egress, tools, workers, releases, rollbacks, upgrades>>
    BY DEF RegisterCheckpoint
  <2> QED BY <1>2, <2>1, <2>2, <2>3, <2>4, <2>5, <2>6, <2>7 DEF DeploymentNext
<1>3. CASE \E path, release, boundary, ev, t :
             RegisterBaseline(path, release, boundary, ev, t)
  BY <1>3 DEF RegisterBaseline, isolationVars, deploymentVars
<1>4. CASE UNCHANGED releaseVars
  BY <1>4 DEF releaseVars, isolationVars, deploymentVars
<1> QED BY <1>1, <1>2, <1>3, <1>4 DEF ReleaseNext

\* Registries that a call leaves alone keep their type.
LEMMA TypeOfTheRest ==
  ASSUME ReleaseTypeOK,
         UNCHANGED <<isolationVars, egress, tools, workers, releases>>
  PROVE  ReleaseTypeOK'
<1>1. /\ rlsPolicies' = rlsPolicies /\ profiles' = profiles /\ egress' = egress
      /\ tools' = tools /\ workers' = workers /\ releases' = releases
  BY DEF isolationVars
<1>2. \A m \in Tenant : \A S \in {egress', tools', profiles', workers'} :
        WellFormedHistory(Of(m, S))
  BY <1>1 DEF ReleaseTypeOK
<1>3. \A id \in RlsPolicyId : WellFormedHistory(PolicyHistory(id)')
  BY <1>1 DEF ReleaseTypeOK, PolicyHistory
<1> QED BY <1>1, <1>2, <1>3 DEF ReleaseTypeOK, Of

\* A release that has lost its currency has lost it for good: each of the four
\* artifacts it was compared with is in its history, and histories only grow.
LEMMA NotCurrentAgain ==
  ASSUME ReleaseTypeOK, [ReleaseNext]_releaseVars,
         NEW r \in releases, ~ReleaseCurrent(r)
  PROVE  ~ReleaseCurrent(r)'
<1> DEFINE w == r.worker
           n == w.tenant
<1>1. /\ w \in Of(n, workers) /\ w.egress \in Of(n, egress)
      /\ w.tools \in Of(n, tools) /\ w.isolation \in Of(n, profiles)
  BY DEF ReleaseTypeOK, Of
<1>2. /\ Of(n, workers) \subseteq Of(n, workers') /\ Of(n, egress) \subseteq Of(n, egress')
      /\ Of(n, tools) \subseteq Of(n, tools') /\ Of(n, profiles) \subseteq Of(n, profiles')
  BY RegistriesGrow DEF Of
<1>3. \/ ~IsLatest(Of(n, workers), w) \/ ~IsLatest(Of(n, egress), w.egress)
      \/ ~IsLatest(Of(n, tools), w.tools) \/ ~IsLatest(Of(n, profiles), w.isolation)
  BY DEF ReleaseCurrent, IsCurrentWorker, DependenciesCurrent
<1>4. \/ ~IsLatest(Of(n, workers'), w) \/ ~IsLatest(Of(n, egress'), w.egress)
      \/ ~IsLatest(Of(n, tools'), w.tools) \/ ~IsLatest(Of(n, profiles'), w.isolation)
  BY <1>1, <1>2, <1>3, OldStaysOld
<1> QED BY <1>4 DEF ReleaseCurrent, IsCurrentWorker, DependenciesCurrent

-----------------------------------------------------------------------------
(* The invariant, operation by operation *)

LEMMA ReleaseInitInv ==
  ASSUME ReleaseInit
  PROVE  ReleaseInv
<1> USE DEF ReleaseInit, IsolationInit, DeploymentInit
<1>1. ReleaseTypeOK
  BY DEF ReleaseTypeOK, Of, PolicyHistory, WellFormedHistory
<1>2. Attributed /\ WorkersAreDated BY DEF Attributed, WorkersAreDated
<1>3. LatestReleaseExists BY DEF LatestReleaseExists, Of
<1>4. DeploymentIsChronological /\ UpgradesAreReversible /\ BaselineIsGrounded
  BY DEF DeploymentIsChronological, UpgradesAreReversible, BaselineIsGrounded
<1> QED BY <1>1, <1>2, <1>3, <1>4 DEF ReleaseInv

LEMMA PolicyKeeps ==
  ASSUME ReleaseInv, NEW id \in RlsPolicyId, NEW v \in 1 .. MaxRlsVersion,
         NEW t \in RegistryTime, RegisterPolicy(id, v, t),
         UNCHANGED <<deploymentVars, baselines>>
  PROVE  ReleaseInv'
<1> DEFINE p == [policy_id |-> id, version |-> v, at |-> t]
<1>1. /\ Appendable(PolicyHistory(id), p) /\ rlsPolicies' = rlsPolicies \cup {p}
      /\ UNCHANGED <<profiles, deploymentVars, baselines>>
  BY DEF RegisterPolicy
<1>2. t \in Nat /\ p \in RlsPolicy BY IsolationAssumption DEF RlsPolicy
<1>3. ASSUME NEW i \in RlsPolicyId PROVE WellFormedHistory(PolicyHistory(i)')
  <2>1. CASE i = id
    <3>1. PolicyHistory(i)' = PolicyHistory(id) \cup {p} BY <1>1, <2>1 DEF PolicyHistory
    <3>2. WellFormedHistory(PolicyHistory(id)) BY DEF ReleaseInv, ReleaseTypeOK
    <3>3. Dated(PolicyHistory(id)) BY DEF ReleaseInv, Attributed, Dated, PolicyHistory
    <3> QED BY <1>1, <1>2, <3>1, <3>2, <3>3, AppendKeepsWellFormed
  <2>2. CASE i # id
    <3>1. PolicyHistory(i)' = PolicyHistory(i) BY <1>1, <2>2 DEF PolicyHistory
    <3> QED BY <3>1 DEF ReleaseInv, ReleaseTypeOK
  <2> QED BY <2>1, <2>2
<1>4. ReleaseTypeOK'
  BY <1>1, <1>2, <1>3 DEF ReleaseInv, ReleaseTypeOK, deploymentVars
<1>5. Attributed' BY <1>1, <1>2 DEF ReleaseInv, Attributed, deploymentVars
<1>6. /\ WorkersAreDated' /\ LatestReleaseExists' /\ DeploymentIsChronological'
      /\ UpgradesAreReversible' /\ BaselineIsGrounded'
  BY <1>1 DEF ReleaseInv, WorkersAreDated, LatestReleaseExists,
     DeploymentIsChronological, UpgradesAreReversible, BaselineIsGrounded, deploymentVars
<1> QED BY <1>4, <1>5, <1>6 DEF ReleaseInv

\* A new profile, egress policy or allowlist disturbs nothing but its own history.
LEMMA ProfileKeeps ==
  ASSUME ReleaseInv, NEW n \in Tenant, NEW v, NEW D \in SUBSET rlsPolicies,
         NEW t \in RegistryTime, RegisterProfile(n, v, D, t),
         UNCHANGED <<deploymentVars, baselines>>
  PROVE  ReleaseInv'
<1> DEFINE x == [tenant |-> n, version |-> v, policies |-> D, at |-> t]
<1>1. /\ D # {} /\ Appendable(Of(n, profiles), x) /\ profiles' = profiles \cup {x}
      /\ UNCHANGED <<rlsPolicies, deploymentVars, baselines>>
  BY DEF RegisterProfile
<1>2. t \in Nat BY IsolationAssumption
<1>3. \A m \in Tenant : WellFormedHistory(Of(m, profiles'))
  <2>1. \A m \in Tenant : WellFormedHistory(Of(m, profiles))
    BY DEF ReleaseInv, ReleaseTypeOK
  <2>2. \A y \in profiles : y.at \in Nat BY DEF ReleaseInv, Attributed
  <2> QED BY <1>1, <1>2, <2>1, <2>2, HistoriesGrow
<1>4. ReleaseTypeOK'
  <2>1. \A m \in Tenant : \A S \in {egress', tools', profiles', workers'} :
          WellFormedHistory(Of(m, S))
    BY <1>1, <1>3 DEF ReleaseInv, ReleaseTypeOK, deploymentVars
  <2>2. \A i \in RlsPolicyId : WellFormedHistory(PolicyHistory(i)')
    BY <1>1 DEF ReleaseInv, ReleaseTypeOK, deploymentVars, PolicyHistory
  <2>3. /\ \A y \in profiles' : y.policies # {} /\ y.policies \subseteq rlsPolicies'
        /\ rlsPolicies' \subseteq RlsPolicy
    BY <1>1 DEF ReleaseInv, ReleaseTypeOK, deploymentVars
  <2>4. \A y \in workers' : /\ y.egress \in Of(y.tenant, egress')
                            /\ y.tools \in Of(y.tenant, tools')
                            /\ y.isolation \in Of(y.tenant, profiles')
    BY <1>1 DEF ReleaseInv, ReleaseTypeOK, deploymentVars, Of
  <2>5. /\ \A r \in releases' : r.worker \in Of(r.tenant, workers')
        /\ \A r, s \in releases' :
             /\ r.tenant = s.tenant
             /\ r.release_id = s.release_id \/ r.version = s.version
             => r = s
    BY <1>1 DEF ReleaseInv, ReleaseTypeOK, deploymentVars, Of
  <2> QED BY <2>1, <2>2, <2>3, <2>4, <2>5 DEF ReleaseTypeOK
<1>5. Attributed' BY <1>1, <1>2 DEF ReleaseInv, Attributed, deploymentVars
<1>6. /\ WorkersAreDated' /\ LatestReleaseExists' /\ DeploymentIsChronological'
      /\ UpgradesAreReversible' /\ BaselineIsGrounded'
  BY <1>1 DEF ReleaseInv, WorkersAreDated, LatestReleaseExists,
     DeploymentIsChronological, UpgradesAreReversible, BaselineIsGrounded, deploymentVars
<1> QED BY <1>4, <1>5, <1>6 DEF ReleaseInv

LEMMA EgressKeeps ==
  ASSUME ReleaseInv, NEW n \in Tenant, NEW v, NEW t \in RegistryTime,
         RegisterEgress(n, v, t), UNCHANGED <<isolationVars, baselines>>
  PROVE  ReleaseInv'
<1> DEFINE x == [tenant |-> n, version |-> v, at |-> t]
<1>1. /\ Appendable(Of(n, egress), x) /\ egress' = egress \cup {x}
      /\ UNCHANGED <<tools, workers, releases, rollbacks, upgrades, checkpoints>>
      /\ UNCHANGED <<isolationVars, baselines>>
  BY DEF RegisterEgress
<1>2. t \in Nat BY IsolationAssumption
<1>3. \A m \in Tenant : WellFormedHistory(Of(m, egress'))
  <2>1. \A m \in Tenant : WellFormedHistory(Of(m, egress))
    BY DEF ReleaseInv, ReleaseTypeOK
  <2>2. \A y \in egress : y.at \in Nat BY DEF ReleaseInv, Attributed
  <2> QED BY <1>1, <1>2, <2>1, <2>2, HistoriesGrow
<1>4. ReleaseTypeOK'
  <2>1. \A m \in Tenant : \A S \in {egress', tools', profiles', workers'} :
          WellFormedHistory(Of(m, S))
    BY <1>1, <1>3 DEF ReleaseInv, ReleaseTypeOK, isolationVars
  <2>2. \A i \in RlsPolicyId : WellFormedHistory(PolicyHistory(i)')
    BY <1>1 DEF ReleaseInv, ReleaseTypeOK, isolationVars, PolicyHistory
  <2>3. /\ \A y \in profiles' : y.policies # {} /\ y.policies \subseteq rlsPolicies'
        /\ rlsPolicies' \subseteq RlsPolicy
    BY <1>1 DEF ReleaseInv, ReleaseTypeOK, isolationVars
  <2>4. \A y \in workers' : /\ y.egress \in Of(y.tenant, egress')
                            /\ y.tools \in Of(y.tenant, tools')
                            /\ y.isolation \in Of(y.tenant, profiles')
    BY <1>1 DEF ReleaseInv, ReleaseTypeOK, isolationVars, Of
  <2>5. /\ \A r \in releases' : r.worker \in Of(r.tenant, workers')
        /\ \A r, s \in releases' :
             /\ r.tenant = s.tenant
             /\ r.release_id = s.release_id \/ r.version = s.version
             => r = s
    BY <1>1 DEF ReleaseInv, ReleaseTypeOK, isolationVars, Of
  <2> QED BY <2>1, <2>2, <2>3, <2>4, <2>5 DEF ReleaseTypeOK
<1>5. Attributed' BY <1>1, <1>2 DEF ReleaseInv, Attributed, isolationVars
<1>6. /\ WorkersAreDated' /\ LatestReleaseExists' /\ DeploymentIsChronological'
      /\ UpgradesAreReversible' /\ BaselineIsGrounded'
  BY <1>1 DEF ReleaseInv, WorkersAreDated, LatestReleaseExists,
     DeploymentIsChronological, UpgradesAreReversible, BaselineIsGrounded
<1> QED BY <1>4, <1>5, <1>6 DEF ReleaseInv

LEMMA ToolsKeeps ==
  ASSUME ReleaseInv, NEW n \in Tenant, NEW v, NEW t \in RegistryTime,
         RegisterTools(n, v, t), UNCHANGED <<isolationVars, baselines>>
  PROVE  ReleaseInv'
<1> DEFINE x == [tenant |-> n, version |-> v, at |-> t]
<1>1. /\ Appendable(Of(n, tools), x) /\ tools' = tools \cup {x}
      /\ UNCHANGED <<egress, workers, releases, rollbacks, upgrades, checkpoints>>
      /\ UNCHANGED <<isolationVars, baselines>>
  BY DEF RegisterTools
<1>2. t \in Nat BY IsolationAssumption
<1>3. \A m \in Tenant : WellFormedHistory(Of(m, tools'))
  <2>1. \A m \in Tenant : WellFormedHistory(Of(m, tools))
    BY DEF ReleaseInv, ReleaseTypeOK
  <2>2. \A y \in tools : y.at \in Nat BY DEF ReleaseInv, Attributed
  <2> QED BY <1>1, <1>2, <2>1, <2>2, HistoriesGrow
<1>4. ReleaseTypeOK'
  <2>1. \A m \in Tenant : \A S \in {egress', tools', profiles', workers'} :
          WellFormedHistory(Of(m, S))
    BY <1>1, <1>3 DEF ReleaseInv, ReleaseTypeOK, isolationVars
  <2>2. \A i \in RlsPolicyId : WellFormedHistory(PolicyHistory(i)')
    BY <1>1 DEF ReleaseInv, ReleaseTypeOK, isolationVars, PolicyHistory
  <2>3. /\ \A y \in profiles' : y.policies # {} /\ y.policies \subseteq rlsPolicies'
        /\ rlsPolicies' \subseteq RlsPolicy
    BY <1>1 DEF ReleaseInv, ReleaseTypeOK, isolationVars
  <2>4. \A y \in workers' : /\ y.egress \in Of(y.tenant, egress')
                            /\ y.tools \in Of(y.tenant, tools')
                            /\ y.isolation \in Of(y.tenant, profiles')
    BY <1>1 DEF ReleaseInv, ReleaseTypeOK, isolationVars, Of
  <2>5. /\ \A r \in releases' : r.worker \in Of(r.tenant, workers')
        /\ \A r, s \in releases' :
             /\ r.tenant = s.tenant
             /\ r.release_id = s.release_id \/ r.version = s.version
             => r = s
    BY <1>1 DEF ReleaseInv, ReleaseTypeOK, isolationVars, Of
  <2> QED BY <2>1, <2>2, <2>3, <2>4, <2>5 DEF ReleaseTypeOK
<1>5. Attributed' BY <1>1, <1>2 DEF ReleaseInv, Attributed, isolationVars
<1>6. /\ WorkersAreDated' /\ LatestReleaseExists' /\ DeploymentIsChronological'
      /\ UpgradesAreReversible' /\ BaselineIsGrounded'
  BY <1>1 DEF ReleaseInv, WorkersAreDated, LatestReleaseExists,
     DeploymentIsChronological, UpgradesAreReversible, BaselineIsGrounded
<1> QED BY <1>4, <1>5, <1>6 DEF ReleaseInv

LEMMA WorkerKeeps ==
  ASSUME ReleaseInv, NEW n \in Tenant, NEW v,
         NEW e \in Of(n, egress), NEW a \in Of(n, tools), NEW p \in Of(n, profiles),
         NEW t \in RegistryTime,
         RegisterWorker(n, v, e, a, p, t), UNCHANGED <<isolationVars, baselines>>
  PROVE  ReleaseInv'
<1> DEFINE w == [tenant |-> n, version |-> v, egress |-> e, tools |-> a,
                 isolation |-> p, at |-> t]
<1>1. /\ WorkerDated(w) /\ Appendable(Of(n, workers), w) /\ workers' = workers \cup {w}
      /\ UNCHANGED <<egress, tools, releases, rollbacks, upgrades, checkpoints>>
      /\ UNCHANGED <<isolationVars, baselines>>
  BY DEF RegisterWorker
<1>2. t \in Nat BY IsolationAssumption
<1>3. \A m \in Tenant : WellFormedHistory(Of(m, workers'))
  <2>1. \A m \in Tenant : WellFormedHistory(Of(m, workers))
    BY DEF ReleaseInv, ReleaseTypeOK
  <2>2. \A y \in workers : y.at \in Nat BY DEF ReleaseInv, Attributed
  <2> QED BY <1>1, <1>2, <2>1, <2>2, HistoriesGrow
<1>4. ReleaseTypeOK'
  <2>1. \A m \in Tenant : \A S \in {egress', tools', profiles', workers'} :
          WellFormedHistory(Of(m, S))
    BY <1>1, <1>3 DEF ReleaseInv, ReleaseTypeOK, isolationVars
  <2>2. \A i \in RlsPolicyId : WellFormedHistory(PolicyHistory(i)')
    BY <1>1 DEF ReleaseInv, ReleaseTypeOK, isolationVars, PolicyHistory
  <2>3. /\ \A y \in profiles' : y.policies # {} /\ y.policies \subseteq rlsPolicies'
        /\ rlsPolicies' \subseteq RlsPolicy
    BY <1>1 DEF ReleaseInv, ReleaseTypeOK, isolationVars
  <2>4. \A y \in workers' : /\ y.egress \in Of(y.tenant, egress')
                            /\ y.tools \in Of(y.tenant, tools')
                            /\ y.isolation \in Of(y.tenant, profiles')
    BY <1>1 DEF ReleaseInv, ReleaseTypeOK, isolationVars, Of
  <2>5. /\ \A r \in releases' : r.worker \in Of(r.tenant, workers')
        /\ \A r, s \in releases' :
             /\ r.tenant = s.tenant
             /\ r.release_id = s.release_id \/ r.version = s.version
             => r = s
    BY <1>1 DEF ReleaseInv, ReleaseTypeOK, isolationVars, Of
  <2> QED BY <2>1, <2>2, <2>3, <2>4, <2>5 DEF ReleaseTypeOK
<1>5. Attributed' BY <1>1, <1>2 DEF ReleaseInv, Attributed, isolationVars
<1>6. WorkersAreDated' BY <1>1 DEF ReleaseInv, WorkersAreDated, WorkerDated
<1>7. /\ LatestReleaseExists' /\ DeploymentIsChronological'
      /\ UpgradesAreReversible' /\ BaselineIsGrounded'
  BY <1>1 DEF ReleaseInv, LatestReleaseExists, DeploymentIsChronological,
     UpgradesAreReversible, BaselineIsGrounded
<1> QED BY <1>4, <1>5, <1>6, <1>7 DEF ReleaseInv

\* After(x, r): x is not older than release r or anything r rests on.
After(x, r) == /\ r.at <= x.at /\ r.worker.at <= x.at /\ r.worker.egress.at <= x.at
               /\ r.worker.tools.at <= x.at /\ r.worker.isolation.at <= x.at

\* All dates below a registered release are dates, and none is younger than it.
LEMMA ReleaseDates ==
  ASSUME ReleaseInv, NEW r \in releases
  PROVE  /\ r.at \in Nat /\ r.worker.at \in Nat /\ r.worker.egress.at \in Nat
         /\ r.worker.tools.at \in Nat /\ r.worker.isolation.at \in Nat
         /\ After(r, r)
<1>1. r.worker \in workers /\ r.at \in Nat
  BY DEF ReleaseInv, ReleaseTypeOK, Attributed, Of
<1>2. /\ r.worker.egress \in egress /\ r.worker.tools \in tools
      /\ r.worker.isolation \in profiles
  BY <1>1 DEF ReleaseInv, ReleaseTypeOK, Of
<1>3. /\ r.worker.at \in Nat /\ r.worker.egress.at \in Nat
      /\ r.worker.tools.at \in Nat /\ r.worker.isolation.at \in Nat
  BY <1>1, <1>2 DEF ReleaseInv, Attributed
<1>4. After(r, r) BY DEF ReleaseInv, DeploymentIsChronological, After
<1> QED BY <1>1, <1>3, <1>4

\* What is not older than a release is not older than what that release follows.
LEMMA AfterIsTransitive ==
  ASSUME ReleaseInv, NEW r \in releases, NEW t \in Nat, r.at <= t,
         NEW x, x.at = t
  PROVE  After(x, r)
BY ReleaseDates DEF After

LEMMA ReleaseKeeps ==
  ASSUME ReleaseInv, NEW n \in Tenant, NEW id, NEW v \in ReleaseVersion,
         NEW w \in Of(n, workers), NEW t \in RegistryTime,
         RegisterRelease(id, v, w, t), UNCHANGED <<isolationVars, baselines>>
  PROVE  ReleaseInv'
<1> DEFINE r == [tenant |-> w.tenant, release_id |-> id, version |-> v,
                 worker |-> w, at |-> t]
<1>1. w \in workers /\ w.tenant = n BY DEF Of
<1>2. /\ \A x \in Of(n, releases) : x.release_id # id
      /\ w.at <= t
      /\ \A x \in Of(n, releases) : x.version < v
      /\ \A x \in Of(n, releases) : IsLatest(Of(n, releases), x) => x.at <= t
      /\ releases' = releases \cup {r}
      /\ UNCHANGED <<egress, tools, workers, rollbacks, upgrades, checkpoints>>
      /\ UNCHANGED <<isolationVars, baselines>>
  BY <1>1 DEF RegisterRelease
<1>3. t \in Nat /\ v \in Nat BY IsolationAssumption, DeploymentAssumption
<1>4. ReleaseTypeOK'
  <2>1. \A x \in releases' : x.worker \in Of(x.tenant, workers')
    BY <1>1, <1>2 DEF ReleaseInv, ReleaseTypeOK, Of
  <2>2. \A x, y \in releases' :
          /\ x.tenant = y.tenant
          /\ x.release_id = y.release_id \/ x.version = y.version
          => x = y
    <3> SUFFICES ASSUME NEW x \in releases', NEW y \in releases', x.tenant = y.tenant,
                        x.release_id = y.release_id \/ x.version = y.version
                 PROVE  x = y
      OBVIOUS
    <3>1. ASSUME NEW z \in releases, z.tenant = n
          PROVE  z.release_id # id /\ z.version # v
      BY <1>2, <1>3, <3>1 DEF Of, ReleaseInv, Attributed
    <3>2. CASE x \in releases /\ y \in releases BY <3>2 DEF ReleaseInv, ReleaseTypeOK
    <3>3. CASE x = r /\ y \in releases BY <1>1, <3>1, <3>3
    <3>4. CASE y = r /\ x \in releases BY <1>1, <3>1, <3>4
    <3> QED BY <1>2, <3>2, <3>3, <3>4
  <2>3. \A m \in Tenant : \A S \in {egress', tools', profiles', workers'} :
          WellFormedHistory(Of(m, S))
    BY <1>2 DEF ReleaseInv, ReleaseTypeOK, isolationVars
  <2>4. \A i \in RlsPolicyId : WellFormedHistory(PolicyHistory(i)')
    BY <1>2 DEF ReleaseInv, ReleaseTypeOK, isolationVars, PolicyHistory
  <2>5. /\ \A y \in profiles' : y.policies # {} /\ y.policies \subseteq rlsPolicies'
        /\ rlsPolicies' \subseteq RlsPolicy
    BY <1>2 DEF ReleaseInv, ReleaseTypeOK, isolationVars
  <2>6. \A y \in workers' : /\ y.egress \in Of(y.tenant, egress')
                            /\ y.tools \in Of(y.tenant, tools')
                            /\ y.isolation \in Of(y.tenant, profiles')
    BY <1>2 DEF ReleaseInv, ReleaseTypeOK, isolationVars, Of
  <2> QED BY <2>1, <2>2, <2>3, <2>4, <2>5, <2>6 DEF ReleaseTypeOK
<1>5. Attributed' BY <1>1, <1>2, <1>3 DEF ReleaseInv, Attributed, isolationVars
<1>6. WorkersAreDated' BY <1>2 DEF ReleaseInv, WorkersAreDated
<1>7. LatestReleaseExists'
  <2> SUFFICES ASSUME NEW m \in Tenant, Of(m, releases') # {}
               PROVE  \E l \in releases' : IsLatest(Of(m, releases'), l)
    BY DEF LatestReleaseExists, Of
  <2>1. CASE m = n
    <3>1. IsLatest(Of(n, releases'), r)
      BY <1>1, <1>2, <1>3 DEF IsLatest, Of, ReleaseInv, Attributed
    <3> QED BY <1>2, <2>1, <3>1
  <2>2. CASE m # n
    <3>1. Of(m, releases') = Of(m, releases) BY <1>1, <1>2, <2>2 DEF Of
    <3> QED BY <1>2, <3>1 DEF ReleaseInv, LatestReleaseExists
  <2> QED BY <2>1, <2>2
<1>8. DeploymentIsChronological'
  <2>1. After(r, r)
    <3>1. WorkerDated(w) BY <1>1 DEF ReleaseInv, WorkersAreDated
    <3>2. /\ w.at \in Nat /\ w.egress.at \in Nat /\ w.tools.at \in Nat
          /\ w.isolation.at \in Nat
      BY <1>1 DEF ReleaseInv, Attributed, ReleaseTypeOK, Of
    <3> QED BY <1>2, <1>3, <3>1, <3>2 DEF After, WorkerDated
  <2>2. ASSUME NEW x \in releases, x.tenant = n PROVE After(r, x)
    <3>1. x \in Of(n, releases) BY <2>2 DEF Of
    <3>2. PICK l \in releases : IsLatest(Of(n, releases), l)
      BY <3>1 DEF ReleaseInv, LatestReleaseExists
    <3>3. l \in Of(n, releases) /\ x.version <= l.version
      BY <3>1, <3>2 DEF IsLatest
    <3>4. l.at <= t BY <1>2, <3>2, <3>3
    <3>5. x.at <= l.at
      BY <2>2, <3>3 DEF Of, ReleaseInv, DeploymentIsChronological
    <3>6. x.at <= t BY <1>3, <3>4, <3>5 DEF ReleaseInv, Attributed
    <3> QED BY <1>3, <3>6, AfterIsTransitive
  <2>3. ASSUME NEW x \in releases', NEW y \in releases',
               x.tenant = y.tenant, x.version <= y.version
        PROVE  After(y, x)
    <3>1. CASE x \in releases /\ y \in releases
      BY <2>3, <3>1 DEF ReleaseInv, DeploymentIsChronological, After
    <3>2. CASE x \in releases /\ y = r BY <1>1, <2>2, <2>3, <3>2
    <3>3. CASE x = r /\ y \in releases
      <4>1. y.version < v /\ y.version \in Nat
        BY <1>1, <1>2, <2>3, <3>3 DEF Of, ReleaseInv, Attributed
      <4> QED BY <1>3, <2>3, <3>3, <4>1
    <3>4. CASE x = r /\ y = r BY <2>1, <3>4
    <3> QED BY <1>2, <3>1, <3>2, <3>3, <3>4
  <2>4. \A x \in releases' : After(x, x)
    BY <1>2, <2>1, ReleaseDates
  <2> QED BY <1>2, <2>3, <2>4 DEF ReleaseInv, DeploymentIsChronological, After
<1>9. UpgradesAreReversible' /\ BaselineIsGrounded'
  BY <1>2 DEF ReleaseInv, UpgradesAreReversible, BaselineIsGrounded
<1> QED BY <1>4, <1>5, <1>6, <1>7, <1>8, <1>9 DEF ReleaseInv

LEMMA RollbackKeeps ==
  ASSUME ReleaseInv, NEW n \in Tenant, NEW id,
         NEW source \in Of(n, releases), NEW target \in Of(n, releases),
         NEW t \in RegistryTime, RegisterRollback(id, source, target, t),
         UNCHANGED <<isolationVars, baselines>>
  PROVE  ReleaseInv'
<1> DEFINE p == [tenant |-> source.tenant, id |-> id, source |-> source,
                 target |-> target, at |-> t]
<1>1. /\ source.at <= t /\ target.at <= t
      /\ rollbacks' = rollbacks \cup {p}
      /\ UNCHANGED <<egress, tools, workers, releases, upgrades, checkpoints>>
      /\ UNCHANGED <<isolationVars, baselines>>
  BY DEF RegisterRollback
<1>2. t \in Nat /\ source \in releases /\ target \in releases
  BY IsolationAssumption DEF Of
<1>3. ReleaseTypeOK'
  BY <1>1, TypeOfTheRest DEF ReleaseInv
<1>4. Attributed' BY <1>1, <1>2 DEF ReleaseInv, Attributed, isolationVars
<1>5. DeploymentIsChronological'
  <2>1. After(p, p.source) /\ After(p, p.target)
    BY <1>1, <1>2, AfterIsTransitive
  <2> QED BY <1>1, <2>1 DEF ReleaseInv, DeploymentIsChronological, After
<1>6. UpgradesAreReversible' BY <1>1 DEF ReleaseInv, UpgradesAreReversible
<1>7. WorkersAreDated' /\ LatestReleaseExists' /\ BaselineIsGrounded'
  BY <1>1 DEF ReleaseInv, WorkersAreDated, LatestReleaseExists, BaselineIsGrounded
<1> QED BY <1>3, <1>4, <1>5, <1>6, <1>7 DEF ReleaseInv

LEMMA UpgradeKeeps ==
  ASSUME ReleaseInv, NEW n \in Tenant, NEW id,
         NEW old \in Of(n, releases), NEW new \in Of(n, releases),
         NEW p \in rollbacks, NEW t \in RegistryTime,
         RegisterUpgrade(id, old, new, p, t), UNCHANGED <<isolationVars, baselines>>
  PROVE  ReleaseInv'
<1> DEFINE u == [tenant |-> new.tenant, id |-> id, from |-> old, to |-> new,
                 rollback |-> p, at |-> t]
<1>1. /\ old.tenant = new.tenant /\ old.version < new.version
      /\ p.source = new /\ p.target = old
      /\ new.at <= t /\ p.at <= t
      /\ upgrades' = upgrades \cup {u}
      /\ UNCHANGED <<egress, tools, workers, releases, rollbacks, checkpoints>>
      /\ UNCHANGED <<isolationVars, baselines>>
  BY DEF RegisterUpgrade, Reverses
<1>2. t \in Nat /\ old \in releases /\ new \in releases
  BY IsolationAssumption DEF Of
<1>3. old.at <= new.at
  <2>1. old.version \in Nat /\ new.version \in Nat
    BY <1>2 DEF ReleaseInv, Attributed
  <2>2. old.version <= new.version BY <1>1, <2>1
  <2> QED BY <1>1, <1>2, <2>2 DEF ReleaseInv, DeploymentIsChronological
<1>4. ReleaseTypeOK'
  BY <1>1, TypeOfTheRest DEF ReleaseInv
<1>5. Attributed' BY <1>1, <1>2 DEF ReleaseInv, Attributed, isolationVars
<1>6. DeploymentIsChronological'
  <2>1. old.at <= t BY <1>1, <1>2, <1>3 DEF ReleaseInv, Attributed
  <2>2. After(u, u.from) /\ After(u, u.to)
    BY <1>1, <1>2, <2>1, AfterIsTransitive
  <2> QED BY <1>1, <2>2 DEF ReleaseInv, DeploymentIsChronological, After
<1>7. UpgradesAreReversible'
  BY <1>1, <1>2, <1>3 DEF ReleaseInv, UpgradesAreReversible
<1>8. WorkersAreDated' /\ LatestReleaseExists' /\ BaselineIsGrounded'
  BY <1>1 DEF ReleaseInv, WorkersAreDated, LatestReleaseExists, BaselineIsGrounded
<1> QED BY <1>4, <1>5, <1>6, <1>7, <1>8 DEF ReleaseInv

LEMMA CheckpointKeeps ==
  ASSUME ReleaseInv, NEW n \in Tenant, NEW id, NEW r \in Of(n, releases),
         NEW t \in RegistryTime, RegisterCheckpoint(id, r, t),
         UNCHANGED <<isolationVars, baselines>>
  PROVE  ReleaseInv'
<1> DEFINE c == [tenant |-> r.tenant, id |-> id, release |-> r, at |-> t]
<1>1. /\ r.at <= t /\ checkpoints' = checkpoints \cup {c}
      /\ UNCHANGED <<egress, tools, workers, releases, rollbacks, upgrades>>
      /\ UNCHANGED <<isolationVars, baselines>>
  BY DEF RegisterCheckpoint
<1>2. t \in Nat /\ r \in releases BY IsolationAssumption DEF Of
<1>3. ReleaseTypeOK'
  BY <1>1, TypeOfTheRest DEF ReleaseInv
<1>4. Attributed' BY <1>1, <1>2 DEF ReleaseInv, Attributed, isolationVars
<1>5. DeploymentIsChronological'
  <2>1. After(c, c.release) BY <1>1, <1>2, AfterIsTransitive
  <2> QED BY <1>1, <2>1 DEF ReleaseInv, DeploymentIsChronological, After
<1>6. /\ WorkersAreDated' /\ LatestReleaseExists'
      /\ UpgradesAreReversible' /\ BaselineIsGrounded'
  BY <1>1 DEF ReleaseInv, WorkersAreDated, LatestReleaseExists,
     UpgradesAreReversible, BaselineIsGrounded
<1> QED BY <1>3, <1>4, <1>5, <1>6 DEF ReleaseInv

\* Two current releases of a tenant run on its one latest worker profile.
LEMMA BaselineKeeps ==
  ASSUME ReleaseInv, NEW source \in releases, NEW release \in releases,
         NEW path, path.source = source, NEW boundary, NEW ev,
         path.at \in Nat, NEW t, RegisterBaseline(path, release, boundary, ev, t)
  PROVE  ReleaseInv'
<1> DEFINE b == [path |-> path, release |-> release, evidence |-> ev, assembled_at |-> t]
<1>1. /\ path.source.version \in SourceVersion /\ release.version = StableVersion
      /\ path.target = release
      /\ BothCurrent(path.source, release)
      /\ ReadinessDated(b)
      /\ baselines = {} /\ baselines' = {b}
      /\ UNCHANGED <<isolationVars, deploymentVars>>
  BY DEF RegisterBaseline
<1>2. source.tenant = release.tenant => source.worker = release.worker
  <2> SUFFICES ASSUME source.tenant = release.tenant
               PROVE  source.worker = release.worker
    OBVIOUS
  <2> DEFINE n == source.tenant
  <2>1. source.worker.tenant = n /\ release.worker.tenant = n /\ n \in Tenant
    BY DEF ReleaseInv, ReleaseTypeOK, Attributed, Of
  <2>2. /\ IsLatest(Of(n, workers), source.worker)
        /\ IsLatest(Of(n, workers), release.worker)
    BY <1>1, <2>1 DEF BothCurrent, ReleaseCurrent, IsCurrentWorker
  <2>3. WellFormedHistory(Of(n, workers)) BY <2>1 DEF ReleaseInv, ReleaseTypeOK
  <2> QED BY <2>2, <2>3, LatestIsUnique
<1>3. /\ source.at <= path.at /\ release.at <= path.at
      /\ release.at <= ev.review_at /\ ev.policy_at <= ev.surface_at
      /\ \A u \in {path.at, ev.policy_at, ev.surface_at, ev.review_at, ev.scope_at} : u <= t
  BY <1>1 DEF ReadinessDated
<1>4. \A r \in {source, release} :
        \A d \in {r, r.worker, r.worker.egress, r.worker.tools, r.worker.isolation} :
          d.at <= path.at
  BY <1>3, ReleaseDates DEF After
<1>5. BaselineIsGrounded'
  BY <1>1, <1>2, <1>3, <1>4 DEF BaselineIsGrounded, deploymentVars
<1>6. ReleaseTypeOK'
  BY <1>1, TypeOfTheRest DEF ReleaseInv, deploymentVars
<1>7. Attributed' BY <1>1 DEF ReleaseInv, Attributed, isolationVars, deploymentVars
<1>8. /\ WorkersAreDated' /\ LatestReleaseExists' /\ DeploymentIsChronological'
      /\ UpgradesAreReversible'
  BY <1>1 DEF ReleaseInv, WorkersAreDated, LatestReleaseExists,
     DeploymentIsChronological, UpgradesAreReversible, deploymentVars
<1> QED BY <1>5, <1>6, <1>7, <1>8 DEF ReleaseInv

LEMMA ReleaseStepInv ==
  ASSUME ReleaseInv, [ReleaseNext]_releaseVars
  PROVE  ReleaseInv'
<1>1. CASE IsolationNext /\ UNCHANGED <<deploymentVars, baselines>>
  BY <1>1, PolicyKeeps, ProfileKeeps DEF IsolationNext
<1>2. CASE DeploymentNext /\ UNCHANGED <<isolationVars, baselines>>
  <2>1. PICK n \in Tenant, t \in RegistryTime :
          \/ \E v \in 1 .. MaxEgressVersion : RegisterEgress(n, v, t)
          \/ \E v \in 1 .. MaxToolsVersion : RegisterTools(n, v, t)
          \/ \E v \in 1 .. MaxWorkerVersion, e \in Of(n, egress), a \in Of(n, tools),
                p \in Of(n, profiles) : RegisterWorker(n, v, e, a, p, t)
          \/ \E id \in ReleaseId, v \in ReleaseVersion, w \in Of(n, workers) :
                RegisterRelease(id, v, w, t)
          \/ \E id \in PlanId, source, target \in Of(n, releases) :
                RegisterRollback(id, source, target, t)
          \/ \E id \in PlanId, old, new \in Of(n, releases), p \in rollbacks :
                RegisterUpgrade(id, old, new, p, t)
          \/ \E id \in CheckpointId, r \in Of(n, releases) :
                RegisterCheckpoint(id, r, t)
    BY <1>2 DEF DeploymentNext
  <2>2. UNCHANGED <<isolationVars, baselines>> BY <1>2
  <2>3. CASE \E v \in 1 .. MaxEgressVersion : RegisterEgress(n, v, t)
    BY <2>2, <2>3, EgressKeeps
  <2>4. CASE \E v \in 1 .. MaxToolsVersion : RegisterTools(n, v, t)
    BY <2>2, <2>4, ToolsKeeps
  <2>5. CASE \E v \in 1 .. MaxWorkerVersion, e \in Of(n, egress), a \in Of(n, tools),
                p \in Of(n, profiles) : RegisterWorker(n, v, e, a, p, t)
    BY <2>2, <2>5, WorkerKeeps
  <2>6. CASE \E id \in ReleaseId, v \in ReleaseVersion, w \in Of(n, workers) :
                RegisterRelease(id, v, w, t)
    BY <2>2, <2>6, ReleaseKeeps
  <2>7. CASE \E id \in PlanId, source, target \in Of(n, releases) :
                RegisterRollback(id, source, target, t)
    BY <2>2, <2>7, RollbackKeeps
  <2>8. CASE \E id \in PlanId, old, new \in Of(n, releases), p \in rollbacks :
                RegisterUpgrade(id, old, new, p, t)
    BY <2>2, <2>8, UpgradeKeeps
  <2>9. CASE \E id \in CheckpointId, r \in Of(n, releases) :
                RegisterCheckpoint(id, r, t)
    BY <2>2, <2>9, CheckpointKeeps
  <2> QED BY <2>1, <2>3, <2>4, <2>5, <2>6, <2>7, <2>8, <2>9
<1>3. CASE \E source, target, release, boundary \in releases, ev \in Readiness,
              u, t \in RegistryTime :
              /\ source # target
              /\ RegisterBaseline([source |-> source, target |-> target, at |-> u],
                                  release, boundary, ev, t)
  BY <1>3, BaselineKeeps, IsolationAssumption
<1>4. CASE UNCHANGED releaseVars
  <2>1. UNCHANGED <<isolationVars, egress, tools, workers, releases, rollbacks,
                    upgrades, checkpoints, baselines>>
    BY <1>4 DEF releaseVars, deploymentVars
  <2>2. ReleaseTypeOK' BY <2>1, TypeOfTheRest DEF ReleaseInv
  <2>3. /\ Attributed' /\ WorkersAreDated' /\ LatestReleaseExists'
        /\ DeploymentIsChronological'
    BY <2>1 DEF ReleaseInv, Attributed, WorkersAreDated, LatestReleaseExists,
       DeploymentIsChronological, isolationVars
  <2>4. UpgradesAreReversible' /\ BaselineIsGrounded'
    BY <2>1 DEF ReleaseInv, UpgradesAreReversible, BaselineIsGrounded
  <2> QED BY <2>2, <2>3, <2>4 DEF ReleaseInv
<1> QED BY <1>1, <1>2, <1>3, <1>4 DEF ReleaseNext

-----------------------------------------------------------------------------
(* Theorems *)

THEOREM ReleaseInvHolds == ReleaseSpec => []ReleaseInv
<1>1. ReleaseInit => ReleaseInv BY ReleaseInitInv
<1>2. ReleaseInv /\ [ReleaseNext]_releaseVars => ReleaseInv' BY ReleaseStepInv
<1> QED BY <1>1, <1>2, PTL DEF ReleaseSpec

\* ReleaseTypeOK: the histories of every tenant stay contiguous and dated, every
\* artifact binds registered ones of its own tenant, and no identity or version of a
\* release is taken twice.
THEOREM ReleaseTypeCorrect == ReleaseSpec => []ReleaseTypeOK
<1>1. ReleaseInv => ReleaseTypeOK BY DEF ReleaseInv
<1> QED BY <1>1, ReleaseInvHolds, PTL

\* DeploymentIsChronological: no release, plan or checkpoint is older than anything
\* it rests on, down to the egress policy, the tool allowlist and the isolation profile.
THEOREM DatesAgreeAlongTheChain == ReleaseSpec => []DeploymentIsChronological
<1>1. ReleaseInv => DeploymentIsChronological BY DEF ReleaseInv
<1> QED BY <1>1, ReleaseInvHolds, PTL

\* UpgradesAreReversible: every upgrade has a registered plan back to where it started.
THEOREM UpgradesCanBeUndone == ReleaseSpec => []UpgradesAreReversible
<1>1. ReleaseInv => UpgradesAreReversible BY DEF ReleaseInv
<1> QED BY <1>1, ReleaseInvHolds, PTL

\* BaselineIsGrounded: the baseline leads between two releases that, within a tenant,
\* run on one worker profile, and neither they nor its evidence are younger than it.
THEOREM BaselineStaysGrounded == ReleaseSpec => []BaselineIsGrounded
<1>1. ReleaseInv => BaselineIsGrounded BY DEF ReleaseInv
<1> QED BY <1>1, ReleaseInvHolds, PTL

\* ReleaseDriftIsFinal: assert_release_current never accepts again a release it has
\* refused.
THEOREM ReleasesNeverRevive == ReleaseSpec => ReleaseDriftIsFinal
<1>1. ReleaseInv /\ [ReleaseNext]_releaseVars
        => [\A r \in releases : ~ReleaseCurrent(r) => ~ReleaseCurrent(r)']_
             <<isolationVars, deploymentVars>>
  BY NotCurrentAgain DEF ReleaseInv
<1> QED BY <1>1, ReleaseInvHolds, PTL DEF ReleaseSpec, ReleaseDriftIsFinal

\* BaselineDriftIsFinal: a baseline that is not current any more stays so, and as
\* there is one baseline at most, version 1.0.0 has no current one from then on.
THEOREM BaselineNeverRevives == ReleaseSpec => BaselineDriftIsFinal
<1>1. ASSUME ReleaseInv, [ReleaseNext]_releaseVars,
             baselines # {}, ~BaselineCurrent
      PROVE  ~BaselineCurrent'
  <2>1. baselines' = baselines
    <3>1. \A path, release, boundary, ev, t :
            ~RegisterBaseline(path, release, boundary, ev, t)
      BY <1>1 DEF RegisterBaseline
    <3> QED BY <1>1, <3>1 DEF ReleaseNext, releaseVars
  <2>2. \A b \in baselines : b.path.source \in releases /\ b.release \in releases
    BY <1>1 DEF ReleaseInv, BaselineIsGrounded
  <2>3. \A b \in baselines : ~ReleaseCurrent(b.path.source)' \/ ~ReleaseCurrent(b.release)'
    <3> SUFFICES ASSUME NEW b \in baselines
                 PROVE  ~ReleaseCurrent(b.path.source)' \/ ~ReleaseCurrent(b.release)'
      OBVIOUS
    <3>1. ~ReleaseCurrent(b.path.source) \/ ~ReleaseCurrent(b.release)
      BY <1>1 DEF BaselineCurrent, BothCurrent
    <3>2. ReleaseTypeOK BY <1>1 DEF ReleaseInv
    <3> QED BY <1>1, <2>2, <3>1, <3>2, NotCurrentAgain
  <2> QED BY <2>1, <2>3 DEF BaselineCurrent, BothCurrent
<1>2. ReleaseInv /\ [ReleaseNext]_releaseVars
        => [baselines # {} /\ ~BaselineCurrent => ~BaselineCurrent']_releaseVars
  BY <1>1
<1> QED BY <1>2, ReleaseInvHolds, PTL DEF ReleaseSpec, BaselineDriftIsFinal

-----------------------------------------------------------------------------
(* Assurance evidence *)

\* Artifacts name registered scopes and do not predate them, a scope and a
\* reference have one verdict, and a verdict has one entry.
VerdictsAreSingle ==
  /\ \A s \in scopes : s.at \in AssuranceTime
  /\ \A a \in assertions : a.scope \in scopes /\ a.at \in AssuranceTime /\ a.scope.at <= a.at
  /\ \A v \in evidence : v.scope \in scopes /\ v.at \in AssuranceTime /\ v.scope.at <= v.at
  /\ \A a, b \in assertions : a.scope = b.scope /\ a.reference = b.reference => a = b
  /\ \A e, f \in entries : e.assertion = f.assertion => e = f

\* An entry is about one scope: its own, its assertion's and its evidence's.
EntriesAgree ==
  \A e \in entries :
    /\ e.assertion \in assertions /\ e.evidence \subseteq evidence
    /\ e.assertion.scope = e.scope /\ e.assertion.reference = e.reference
    /\ e.at \in AssuranceTime /\ e.assertion.at <= e.at
    /\ \A v \in e.evidence : v.scope = e.scope /\ v.at <= e.at

AssuranceInv == VerdictsAreSingle /\ EntriesAgree /\ PackagesStayVerifiable

\* Registering anything but a package cannot spoil one.
LEMMA PackagesSurvive ==
  ASSUME AssuranceInv, UNCHANGED packages,
         scopes \subseteq scopes', assertions \subseteq assertions',
         evidence \subseteq evidence', entries \subseteq entries'
  PROVE  PackagesStayVerifiable'
BY DEF AssuranceInv, PackagesStayVerifiable, PackageVerifies

LEMMA ScopeKeeps ==
  ASSUME AssuranceInv, NEW target, NEW c, NEW t \in AssuranceTime,
         RegisterScope(target, c, t)
  PROVE  AssuranceInv'
<1>1. scopes' = scopes \cup {[target |-> target, context |-> c, at |-> t]}
      /\ UNCHANGED <<assertions, evidence, entries, packages>>
  BY DEF RegisterScope
<1>2. VerdictsAreSingle' BY <1>1 DEF AssuranceInv, VerdictsAreSingle
<1>3. EntriesAgree' BY <1>1 DEF AssuranceInv, EntriesAgree
<1>4. PackagesStayVerifiable' BY <1>1, PackagesSurvive
<1> QED BY <1>2, <1>3, <1>4 DEF AssuranceInv

LEMMA ApplicabilityKeeps ==
  ASSUME AssuranceInv, NEW id, NEW s \in scopes, NEW ref, NEW b,
         NEW t \in AssuranceTime, RegisterApplicability(id, s, ref, b, t)
  PROVE  AssuranceInv'
<1> DEFINE x == [id |-> id, scope |-> s, reference |-> ref, applicable |-> b, at |-> t]
<1>1. /\ s.at <= t /\ \A a \in assertions : a.scope # s \/ a.reference # ref
      /\ assertions' = assertions \cup {x}
      /\ UNCHANGED <<scopes, evidence, entries, packages>>
  BY DEF RegisterApplicability
<1>2. VerdictsAreSingle' BY <1>1 DEF AssuranceInv, VerdictsAreSingle
<1>3. EntriesAgree' BY <1>1 DEF AssuranceInv, EntriesAgree
<1>4. PackagesStayVerifiable' BY <1>1, PackagesSurvive
<1> QED BY <1>2, <1>3, <1>4 DEF AssuranceInv

LEMMA EvidenceKeeps ==
  ASSUME AssuranceInv, NEW id, NEW s \in scopes, NEW t \in AssuranceTime,
         RegisterEvidence(id, s, t)
  PROVE  AssuranceInv'
<1>1. /\ s.at <= t /\ evidence' = evidence \cup {[id |-> id, scope |-> s, at |-> t]}
      /\ UNCHANGED <<scopes, assertions, entries, packages>>
  BY DEF RegisterEvidence
<1>2. VerdictsAreSingle' BY <1>1 DEF AssuranceInv, VerdictsAreSingle
<1>3. EntriesAgree' BY <1>1 DEF AssuranceInv, EntriesAgree
<1>4. PackagesStayVerifiable' BY <1>1, PackagesSurvive
<1> QED BY <1>2, <1>3, <1>4 DEF AssuranceInv

LEMMA EntryKeeps ==
  ASSUME AssuranceInv, NEW id, NEW s \in scopes, NEW ref, NEW a \in assertions,
         NEW c, NEW D \in SUBSET evidence, NEW t \in AssuranceTime,
         RegisterEntry(id, s, ref, a, c, D, t)
  PROVE  AssuranceInv'
<1> DEFINE x == [id |-> id, scope |-> s, reference |-> ref, assertion |-> a,
                 coverage |-> c, evidence |-> D, at |-> t]
<1>1. /\ a.scope = s /\ a.reference = ref /\ a.at <= t
      /\ \A v \in D : v.scope = s /\ v.at <= t
      /\ \A e \in entries : e.assertion # a
      /\ entries' = entries \cup {x}
      /\ UNCHANGED <<scopes, assertions, evidence, packages>>
  BY DEF RegisterEntry, EvidenceFits
<1>2. VerdictsAreSingle' BY <1>1 DEF AssuranceInv, VerdictsAreSingle
<1>3. EntriesAgree' BY <1>1 DEF AssuranceInv, EntriesAgree
<1>4. PackagesStayVerifiable' BY <1>1, PackagesSurvive
<1> QED BY <1>2, <1>3, <1>4 DEF AssuranceInv

\* build_package: what verify_package compares one by one holds of all that the
\* entries bring along.
LEMMA PackageKeeps ==
  ASSUME AssuranceInv, NEW id, NEW s \in scopes, NEW E \in SUBSET entries,
         NEW t \in AssuranceTime, BuildPackage(id, s, E, t)
  PROVE  AssuranceInv'
<1> DEFINE p == PackageOf(id, s, E, t)
<1>1. /\ \A e \in E : e.scope = s /\ e.at <= t
      /\ \A q \in packages : q.id # id
      /\ packages' = packages \cup {p}
      /\ UNCHANGED <<scopes, assertions, evidence, entries>>
  BY DEF BuildPackage, Fresh
<1>2. VerdictsAreSingle' /\ EntriesAgree'
  BY <1>1 DEF AssuranceInv, VerdictsAreSingle, EntriesAgree
<1>3. /\ p.id = id /\ p.scope = s /\ p.entries = E /\ p.at = t
      /\ p.assertions = {e.assertion : e \in E}
      /\ p.evidence = UNION {e.evidence : e \in E}
  BY DEF PackageOf
<1>4. ASSUME NEW e \in E
      PROVE  /\ e.scope = s /\ e.assertion \in assertions
             /\ e.assertion.scope = s /\ e.evidence \subseteq evidence
             /\ s.at <= e.assertion.at /\ e.assertion.at <= t
             /\ s.at <= e.at /\ e.at <= t
             /\ \A v \in e.evidence : v.scope = s /\ s.at <= v.at /\ v.at <= t
  <2>1. /\ e \in entries /\ e.scope = s /\ e.at <= t BY <1>1
  <2>2. /\ e.assertion \in assertions /\ e.evidence \subseteq evidence
        /\ e.assertion.scope = s /\ e.at \in AssuranceTime /\ e.assertion.at <= e.at
        /\ \A v \in e.evidence : v.scope = s /\ v.at <= e.at
    BY <2>1 DEF AssuranceInv, EntriesAgree
  <2>3. /\ s.at \in AssuranceTime
        /\ e.assertion.at \in AssuranceTime /\ s.at <= e.assertion.at
        /\ \A v \in e.evidence : v.at \in AssuranceTime /\ s.at <= v.at
    BY <2>2 DEF AssuranceInv, VerdictsAreSingle
  <2>4. /\ e.at \in Nat /\ t \in Nat /\ s.at \in Nat /\ e.assertion.at \in Nat
        /\ \A v \in e.evidence : v.at \in Nat
    BY <2>2, <2>3, AssuranceAssumption
  <2>5. e.assertion.at <= t /\ s.at <= e.at BY <2>1, <2>2, <2>3, <2>4
  <2>6. \A v \in e.evidence : v.at <= t BY <2>1, <2>2, <2>3, <2>4
  <2> QED BY <2>1, <2>2, <2>3, <2>5, <2>6
<1>5. \A x \in p.entries \cup p.assertions \cup p.evidence :
        x.scope = p.scope /\ p.scope.at <= x.at /\ x.at <= p.at
  BY <1>3, <1>4
<1>6. \A e, f \in E : e.reference = f.reference => e = f
  <2> SUFFICES ASSUME NEW e \in E, NEW f \in E, e.reference = f.reference
               PROVE  e = f
    OBVIOUS
  <2>1. e.assertion.reference = f.assertion.reference
    BY DEF AssuranceInv, EntriesAgree
  <2>2. e.assertion = f.assertion
    BY <1>4, <2>1 DEF AssuranceInv, VerdictsAreSingle
  <2> QED BY <2>2 DEF AssuranceInv, VerdictsAreSingle
<1>7. PackageVerifies(p)'
  <2>1. p.assertions \subseteq assertions /\ \A a \in p.assertions : a.scope = p.scope
    BY <1>3, <1>4
  <2>2. p.evidence \subseteq evidence /\ \A v \in p.evidence : v.scope = p.scope
    BY <1>3, <1>4
  <2>3. \A q \in packages' : q.id = p.id => q = p BY <1>1, <1>3
  <2>4. p = PackageOf(p.id, p.scope, p.entries, p.at) BY <1>3
  <2>5. /\ p.scope \in scopes /\ p.entries \subseteq entries
        /\ \A e \in p.entries : e.scope = p.scope /\ e.at <= p.at
    BY <1>1, <1>3
  <2> QED BY <1>1, <2>1, <2>2, <2>3, <2>4, <2>5 DEF PackageVerifies
<1>8. ASSUME NEW q \in packages
      PROVE  /\ PackageVerifies(q)'
             /\ \A x \in q.entries \cup q.assertions \cup q.evidence :
                  x.scope = q.scope /\ q.scope.at <= x.at /\ x.at <= q.at
             /\ \A e, f \in q.entries : e.reference = f.reference => e = f
  BY <1>1, <1>3 DEF AssuranceInv, PackagesStayVerifiable, PackageVerifies
<1>9. PackagesStayVerifiable'
  BY <1>1, <1>3, <1>5, <1>6, <1>7, <1>8 DEF PackagesStayVerifiable
<1> QED BY <1>2, <1>9 DEF AssuranceInv

LEMMA AssuranceStepInv ==
  ASSUME AssuranceInv, [AssuranceNext]_assuranceVars
  PROVE  AssuranceInv'
<1>1. CASE AssuranceNext
  BY <1>1, ScopeKeeps, ApplicabilityKeeps, EvidenceKeeps, EntryKeeps, PackageKeeps
     DEF AssuranceNext
<1>2. CASE UNCHANGED assuranceVars
  BY <1>2 DEF assuranceVars, AssuranceInv, VerdictsAreSingle, EntriesAgree,
     PackagesStayVerifiable, PackageVerifies
<1> QED BY <1>1, <1>2

\* PackagesStayVerifiable: a package that build_package returned verifies for ever,
\* and is the evidence of one scope with one verdict per reference.
THEOREM PackagesVerifyForEver == AssuranceSpec => []PackagesStayVerifiable
<1>1. AssuranceInit => AssuranceInv
  BY DEF AssuranceInit, AssuranceInv, VerdictsAreSingle, EntriesAgree,
     PackagesStayVerifiable
<1>2. AssuranceInv /\ [AssuranceNext]_assuranceVars => AssuranceInv'
  BY AssuranceStepInv
<1>3. AssuranceInv => PackagesStayVerifiable BY DEF AssuranceInv
<1> QED BY <1>1, <1>2, <1>3, PTL DEF AssuranceSpec
=============================================================================
