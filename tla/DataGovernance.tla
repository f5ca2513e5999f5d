--------------------------- MODULE DataGovernance ---------------------------
(***************************************************************************)
(* DataGovernanceRegistry (regagentops/data_governance.py): append-only    *)
(* profiles of the data behind a resource, and the decision whether a      *)
(* declared use of it fits.  A decision can only narrow what the policy    *)
(* engine allowed.  One institution, in memory; the set of profiles IS the *)
(* registry snapshot digest.                                               *)
(***************************************************************************)
EXTENDS VersionedHistory, FiniteSets

CONSTANTS Resource,          \* governed resources
          ProfileTerms,      \* what an institution may say of a resource
          DataUse,           \* declarations callers make
          MaxProfileVersion, \* bound: versions of one resource's profile
          ProfileTime        \* registered_at timestamps

\* OutputHandling, in the order in which a safe mode is preferred.
SafeHandling == <<"redacted", "aggregated", "metadata_only">>
Handling == {"raw", "redacted", "aggregated", "metadata_only"}

\* DataResourceProfile.__post_init__
WellFormedTerms(x) ==
  /\ x.primary # {} /\ x.primary \cap x.secondary = {}
  /\ x.permitted # {} /\ x.permitted \subseteq Handling
  /\ x.redact \subseteq x.categories
  /\ x.redact # {} => x.permitted # {"raw"}
  /\ x.max_retention \in Nat /\ x.enabled \in BOOLEAN

ASSUME DataAssumption ==
  /\ MaxProfileVersion \in Nat /\ ProfileTime \subseteq Nat
  /\ \A x \in ProfileTerms : WellFormedTerms(x)
  /\ \A u \in DataUse : u.handling \in Handling /\ u.retention \in Nat

VARIABLE profiles

Profile == [resource : Resource, version : 1 .. MaxProfileVersion,
            terms : ProfileTerms, at : ProfileTime]

ProfileHistory(P, r) == {x \in P : x.resource = r}

\* current_profile(r) returns x.
IsCurrentProfile(P, r, x) == IsLatest(ProfileHistory(P, r), x) /\ x.terms.enabled

\* Mutant: the profile of a version is overwritten.
RegisterProfileAgain(r, v, terms, t) ==
  LET x == [resource |-> r, version |-> v, terms |-> terms, at |-> t]
  IN profiles' = {y \in profiles : y.resource # r \/ y.version # v} \cup {x}

RegisterProfile(r, v, terms, t) ==
  LET x == [resource |-> r, version |-> v, terms |-> terms, at |-> t]
  IN Appendable(ProfileHistory(profiles, r), x) /\ profiles' = profiles \cup {x}

DataInit == profiles = {}
DataRegistryNext ==
  \E r \in Resource, v \in 1 .. MaxProfileVersion, terms \in ProfileTerms,
     t \in ProfileTime : RegisterProfile(r, v, terms, t)

-----------------------------------------------------------------------------
(* The decision *)

\* The declaration is about this very request and was made in its time.
DeclarationFits(q, u, t) ==
  /\ u.request = q.id /\ u.resource = q.resource /\ u.purpose = q.purpose
  /\ q.requested_at <= u.declared_at /\ u.declared_at <= t

\* Mutant: what the caller asks for is what the caller gets.
HandlingAsked(x, u) == u.handling

MustTransform(x, u) == x.redact # {} /\ u.handling = "raw"

\* The output handling the decision binds: the first safe mode the profile permits
\* when raw output has to be transformed (there is one, by WellFormedTerms).
HandlingFor(x, u) ==
  IF MustTransform(x, u)
  THEN LET first == CHOOSE i \in 1 .. 3 :
                      /\ SafeHandling[i] \in x.permitted
                      /\ \A j \in 1 .. i - 1 : SafeHandling[j] \notin x.permitted
       IN SafeHandling[first]
  ELSE u.handling

\* evaluate does not deny a use u that fits request q under the terms x.
TermsAdmit(x, q, u) ==
  /\ q.classification = x.classification
  /\ u.categories = x.categories
  /\ u.purpose \in x.primary \cup x.secondary
  /\ u.retention <= x.max_retention
  /\ HandlingFor(x, u) \in x.permitted

\* The DataGovernanceDecision on a positive answer: what it binds of the profile
\* that was read, and the snapshot that was digested after it.
Granted(x, u, snapshot) ==
  [profile |-> x, use |-> u, snapshot |-> snapshot,
   handling |-> HandlingFor(x.terms, u),
   secondary |-> u.purpose \in x.terms.secondary]
=============================================================================
