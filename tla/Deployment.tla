----------------------------- MODULE Deployment -----------------------------
(***************************************************************************)
(* ProductionDeploymentRegistry (regagentops/deployment.py): what one      *)
(* production release of a tenant rests on, and the plans to leave it.     *)
(* A worker profile binds the tenant's current egress policy, tool         *)
(* allowlist and isolation profile; a release binds the current worker.    *)
(* Egress, allowlist, isolation and workers move on by calls of their own, *)
(* and a release is current as long as none of them has.                   *)
(***************************************************************************)
EXTENDS TenantIsolation

CONSTANTS ReleaseId,         \* release identities
          ReleaseVersion,    \* semantic versions of releases, as numbers
          PlanId,            \* identities of rollback and upgrade plans
          CheckpointId,      \* identities of recovery checkpoints
          MaxEgressVersion, MaxToolsVersion, MaxWorkerVersion  \* bounds

ASSUME DeploymentAssumption ==
  /\ ReleaseVersion \subseteq Nat
  /\ MaxEgressVersion \in Nat /\ MaxToolsVersion \in Nat /\ MaxWorkerVersion \in Nat

VARIABLES egress, tools, workers, releases, rollbacks, upgrades, checkpoints

deploymentVars == <<egress, tools, workers, releases, rollbacks, upgrades, checkpoints>>

\* The tenant's current worker, with nothing it binds superseded.  (Of the four
\* artifacts a caller names, and of the registry's own, only digests are compared.)
DependenciesCurrent(w) ==
  /\ IsLatest(Of(w.tenant, egress), w.egress)
  /\ IsLatest(Of(w.tenant, tools), w.tools)
  /\ IsLatest(Of(w.tenant, profiles), w.isolation)

IsCurrentWorker(w) == IsLatest(Of(w.tenant, workers), w)

\* assert_release_current
ReleaseCurrent(r) ==
  r \in releases /\ IsCurrentWorker(r.worker) /\ DependenciesCurrent(r.worker)

\* Mutant: a version that is taken is overwritten.
RegisterEgressAgain(n, v, t) ==
  /\ egress' = {x \in egress : x.tenant # n \/ x.version # v}
               \cup {[tenant |-> n, version |-> v, at |-> t]}
  /\ UNCHANGED <<tools, workers, releases, rollbacks, upgrades, checkpoints>>

RegisterEgress(n, v, t) ==
  LET x == [tenant |-> n, version |-> v, at |-> t]
  IN /\ Appendable(Of(n, egress), x)
     /\ egress' = egress \cup {x}
     /\ UNCHANGED <<tools, workers, releases, rollbacks, upgrades, checkpoints>>

RegisterTools(n, v, t) ==
  LET x == [tenant |-> n, version |-> v, at |-> t]
  IN /\ Appendable(Of(n, tools), x)
     /\ tools' = tools \cup {x}
     /\ UNCHANGED <<egress, workers, releases, rollbacks, upgrades, checkpoints>>

\* Mutant: the isolation profile's date is left out.
DatedAfterPolicies(w) == w.egress.at <= w.at /\ w.tools.at <= w.at

WorkerDated(w) ==
  w.egress.at <= w.at /\ w.tools.at <= w.at /\ w.isolation.at <= w.at

RegisterWorker(n, v, e, a, p, t) ==
  LET w == [tenant |-> n, version |-> v, egress |-> e, tools |-> a,
            isolation |-> p, at |-> t]
  IN /\ DependenciesCurrent(w)
     /\ WorkerDated(w)
     /\ Appendable(Of(n, workers), w)
     /\ workers' = workers \cup {w}
     /\ UNCHANGED <<egress, tools, releases, rollbacks, upgrades, checkpoints>>

\* register_release: a new identity, a version above all others of the tenant's
\* and a date not before that of the release below it.
RegisterRelease(id, v, w, t) ==
  LET r == [tenant |-> w.tenant, release_id |-> id, version |-> v,
            worker |-> w, at |-> t]
  IN /\ \A x \in Of(w.tenant, releases) : x.release_id # id
     /\ IsCurrentWorker(w) /\ DependenciesCurrent(w)
     /\ w.at <= t
     /\ \A x \in Of(w.tenant, releases) : x.version < v
     /\ \A x \in Of(w.tenant, releases) :
          IsLatest(Of(w.tenant, releases), x) => x.at <= t
     /\ releases' = releases \cup {r}
     /\ UNCHANGED <<egress, tools, workers, rollbacks, upgrades, checkpoints>>

RegisterRollback(id, source, target, t) ==
  /\ source.tenant = target.tenant
  /\ target.version < source.version
  /\ source.at <= t /\ target.at <= t
  /\ \A p \in Of(source.tenant, rollbacks) : p.id # id
  /\ rollbacks' = rollbacks \cup {[tenant |-> source.tenant, id |-> id,
                                   source |-> source, target |-> target, at |-> t]}
  /\ UNCHANGED <<egress, tools, workers, releases, upgrades, checkpoints>>

\* Mutant: it is enough that the plan leaves the new release.
LeavesNew(p, old, new) == p.source = new

Reverses(p, old, new) == p.source = new /\ p.target = old

RegisterUpgrade(id, old, new, p, t) ==
  /\ old.tenant = new.tenant /\ p.tenant = new.tenant
  /\ old.version < new.version
  /\ Reverses(p, old, new)
  /\ new.at <= t /\ p.at <= t
  /\ \A u \in Of(new.tenant, upgrades) : u.id # id
  /\ upgrades' = upgrades \cup {[tenant |-> new.tenant, id |-> id, from |-> old,
                                 to |-> new, rollback |-> p, at |-> t]}
  /\ UNCHANGED <<egress, tools, workers, releases, rollbacks, checkpoints>>

RegisterCheckpoint(id, r, t) ==
  /\ r.at <= t
  /\ \A c \in Of(r.tenant, checkpoints) : c.id # id
  /\ checkpoints' = checkpoints \cup
       {[tenant |-> r.tenant, id |-> id, release |-> r, at |-> t]}
  /\ UNCHANGED <<egress, tools, workers, releases, rollbacks, upgrades>>

DeploymentInit ==
  /\ egress = {} /\ tools = {} /\ workers = {} /\ releases = {}
  /\ rollbacks = {} /\ upgrades = {} /\ checkpoints = {}

DeploymentNext == \E n \in Tenant, t \in RegistryTime :
  \/ \E v \in 1 .. MaxEgressVersion : RegisterEgress(n, v, t)
  \/ \E v \in 1 .. MaxToolsVersion : RegisterTools(n, v, t)
  \/ \E v \in 1 .. MaxWorkerVersion, e \in Of(n, egress), a \in Of(n, tools),
        p \in Of(n, profiles) : RegisterWorker(n, v, e, a, p, t)
  \/ \E id \in ReleaseId, v \in ReleaseVersion, w \in Of(n, workers) :
        RegisterRelease(id, v, w, t)
  \/ \E id \in PlanId, source, target \in Of(n, releases) :
        RegisterRollback(id, source, target, t)
  \/ \E id \in PlanId, old, new \in Of(n, releases), p \in rollbacks :
        RegisterUpgrade(id, old, new, p, t)
  \/ \E id \in CheckpointId, r \in Of(n, releases) : RegisterCheckpoint(id, r, t)

-----------------------------------------------------------------------------
(* Properties *)

\* What a release that is not current has lost is lost for good: neither new
\* policies nor new workers make assert_release_current accept it again.  A
\* rollback to a release of an earlier worker therefore never restores it.
ReleaseDriftIsFinal ==
  [][\A r \in releases : ~ReleaseCurrent(r) => ~ReleaseCurrent(r)']_
     <<isolationVars, deploymentVars>>

\* "Prevents downstream deployment artefacts from claiming to exist before their
\* dependencies" (docs/PRODUCTION_REFERENCE.md), along the whole chain and not
\* only link by link: an upgrade, a rollback or a checkpoint is not older than
\* any egress policy, allowlist, profile or worker its releases rest on, and of two
\* releases of a tenant the one of the higher version is not older.
DeploymentIsChronological ==
  LET after(x, r) == /\ \A d \in {r, r.worker, r.worker.egress, r.worker.tools,
                                  r.worker.isolation} : d.at <= x.at
  IN /\ \A r \in releases : after(r, r)
     /\ \A r, s \in releases :
          r.tenant = s.tenant /\ r.version <= s.version => after(s, r)
     /\ \A p \in rollbacks : after(p, p.source) /\ after(p, p.target)
     /\ \A u \in upgrades : after(u, u.from) /\ after(u, u.to)
     /\ \A c \in checkpoints : after(c, c.release)

\* Every upgrade of a tenant can be reversed by a registered plan that is older
\* than it: from the very release it leads to, back to the very release it
\* leaves, which is a registered one of the same tenant and of a lower version.
UpgradesAreReversible ==
  \A u \in upgrades :
    /\ u.from \in releases /\ u.to \in releases /\ u.rollback \in rollbacks
    /\ u.rollback.source = u.to /\ u.rollback.target = u.from
    /\ u.from.tenant = u.to.tenant
    /\ u.from.version < u.to.version /\ u.from.at <= u.to.at
    /\ u.rollback.at <= u.at
=============================================================================
