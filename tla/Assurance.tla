----------------------------- MODULE Assurance -----------------------------
(***************************************************************************)
(* AssuranceEvidenceRegistry (regagentops/assurance.py): people state that *)
(* a reference of a framework applies to a deployment in a context (an     *)
(* assurance scope), map evidence to it, and assemble the mappings into a  *)
(* package that a reviewer verifies later, when the registry has grown.    *)
(* Artifacts name each other by digest and each repeats the scope it is    *)
(* meant for, so two artifacts may disagree about it.                      *)
(***************************************************************************)
EXTENDS Integers, FiniteSets

CONSTANTS ScopeTarget,     \* systems and their deployments
          ScopeContext,    \* digests of context records
          Reference,       \* [framework, id]: references of frameworks
          AssertionId, EvidenceId, EntryId, PackageId,  \* caller-chosen identities
          AssuranceTime    \* timestamps of artifacts

ASSUME AssuranceAssumption == AssuranceTime \subseteq Nat

Coverage == {"SUPPORTED", "PARTIAL", "GAP", "NOT_APPLICABLE"}

VARIABLES scopes, assertions, evidence, entries, packages

assuranceVars == <<scopes, assertions, evidence, entries, packages>>

\* An identity that no artifact of S has.  (A second call with an identity that is
\* taken is an exact retry or a conflict: neither changes anything.)
Fresh(id, S) == \A x \in S : x.id # id

RegisterScope(target, context, t) ==
  /\ \A s \in scopes : s.target = target => s.context # context /\ s.at <= t
  /\ scopes' = scopes \cup {[target |-> target, context |-> context, at |-> t]}
  /\ UNCHANGED <<assertions, evidence, entries, packages>>

\* A person's verdict whether ref applies in scope s: one per scope and reference.
RegisterApplicability(id, s, ref, applicable, t) ==
  /\ s.at <= t
  /\ Fresh(id, assertions)
  /\ \A a \in assertions : a.scope # s \/ a.reference # ref
  /\ assertions' = assertions \cup
       {[id |-> id, scope |-> s, reference |-> ref, applicable |-> applicable,
         at |-> t]}
  /\ UNCHANGED <<scopes, evidence, entries, packages>>

RegisterEvidence(id, s, t) ==
  /\ s.at <= t
  /\ Fresh(id, evidence)
  /\ evidence' = evidence \cup {[id |-> id, scope |-> s, at |-> t]}
  /\ UNCHANGED <<scopes, assertions, entries, packages>>

\* AssuranceCrosswalkEntry carries evidence exactly if it claims support, and an
\* assertion that does not apply is covered by NOT_APPLICABLE and by nothing else.
CoverageFits(coverage, D, applicable) ==
  /\ coverage \in {"SUPPORTED", "PARTIAL"} <=> D # {}
  /\ coverage = "NOT_APPLICABLE" <=> ~applicable

\* Mutant: evidence of any scope will do.
EvidenceOlder(D, s, t) == \A v \in D : v.at <= t

EvidenceFits(D, s, t) == \A v \in D : v.scope = s /\ v.at <= t

RegisterEntry(id, s, ref, a, coverage, D, t) ==
  /\ a.scope = s /\ a.reference = ref
  /\ a.at <= t
  /\ CoverageFits(coverage, D, a.applicable)
  /\ EvidenceFits(D, s, t)
  /\ Fresh(id, entries)
  /\ \A e \in entries : e.assertion # a
  /\ entries' = entries \cup
       {[id |-> id, scope |-> s, reference |-> ref, assertion |-> a,
         coverage |-> coverage, evidence |-> D, at |-> t]}
  /\ UNCHANGED <<scopes, assertions, evidence, packages>>

PackageOf(id, s, E, t) ==
  [id |-> id, scope |-> s, entries |-> E,
   assertions |-> {e.assertion : e \in E},
   evidence |-> UNION {e.evidence : e \in E},
   frameworks |-> {e.reference.framework : e \in E}, at |-> t]

BuildPackage(id, s, E, t) ==
  /\ E # {}
  /\ \A e \in E : e.scope = s /\ e.at <= t
  /\ Fresh(id, packages)
  /\ packages' = packages \cup {PackageOf(id, s, E, t)}
  /\ UNCHANGED <<scopes, assertions, evidence, entries>>

\* verify_package, of a package from anywhere.
PackageVerifies(p) ==
  /\ p.scope \in scopes
  /\ \A q \in packages : q.id = p.id => q = p
  /\ p.entries \subseteq entries
  /\ \A e \in p.entries : e.scope = p.scope /\ e.at <= p.at
  /\ p = PackageOf(p.id, p.scope, p.entries, p.at)
  /\ p.assertions \subseteq assertions /\ \A a \in p.assertions : a.scope = p.scope
  /\ p.evidence \subseteq evidence /\ \A v \in p.evidence : v.scope = p.scope

AssuranceInit == /\ scopes = {} /\ assertions = {} /\ evidence = {}
                 /\ entries = {} /\ packages = {}

AssuranceNext == \E t \in AssuranceTime :
  \/ \E target \in ScopeTarget, c \in ScopeContext : RegisterScope(target, c, t)
  \/ \E id \in AssertionId, s \in scopes, ref \in Reference, b \in BOOLEAN :
        RegisterApplicability(id, s, ref, b, t)
  \/ \E id \in EvidenceId, s \in scopes : RegisterEvidence(id, s, t)
  \/ \E id \in EntryId, s \in scopes, ref \in Reference, a \in assertions,
        c \in Coverage, D \in SUBSET evidence :
        RegisterEntry(id, s, ref, a, c, D, t)
  \/ \E id \in PackageId, s \in scopes, E \in SUBSET entries :
        BuildPackage(id, s, E, t)

AssuranceSpec == AssuranceInit /\ [][AssuranceNext]_assuranceVars

-----------------------------------------------------------------------------
(* Properties *)

\* What build_package returned, verify_package accepts, then and whatever is
\* registered later; and what it accepts is the evidence of one scope: nothing in
\* it is older than the scope or younger than the package, and no reference is
\* given two verdicts.
PackagesStayVerifiable ==
  \A p \in packages :
    /\ PackageVerifies(p)
    /\ \A x \in p.entries \cup p.assertions \cup p.evidence :
         x.scope = p.scope /\ p.scope.at <= x.at /\ x.at <= p.at
    /\ \A e, f \in p.entries : e.reference = f.reference => e = f
=============================================================================
