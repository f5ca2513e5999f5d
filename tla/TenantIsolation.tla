-------------------------- MODULE TenantIsolation --------------------------
(***************************************************************************)
(* TenantIsolationRegistry (regagentops/hardening.py): append-only         *)
(* histories of PostgreSQL row-level-security policies, which belong to    *)
(* the institution, and of tenant isolation profiles, each of which names  *)
(* the policies its tenant relies on.  One institution, in memory.         *)
(***************************************************************************)
EXTENDS VersionedHistory, FiniteSets

CONSTANTS Tenant,            \* tenants of the institution
          RlsPolicyId,       \* identities of row-level-security policies
          MaxRlsVersion,     \* bound: versions of a policy
          MaxProfileVersion, \* bound: versions of a tenant's profile
          RegistryTime       \* timestamps of artifacts

ASSUME IsolationAssumption ==
  /\ MaxRlsVersion \in Nat /\ MaxProfileVersion \in Nat
  /\ RegistryTime \subseteq Nat

VARIABLES rlsPolicies,  \* registered row-level-security policies
          profiles      \* registered tenant isolation profiles

isolationVars == <<rlsPolicies, profiles>>

RlsPolicy == [policy_id : RlsPolicyId, version : 1 .. MaxRlsVersion,
              at : RegistryTime]

\* The tenant's part of a set of versioned artifacts, each of which names its tenant.
Of(n, S) == {x \in S : x.tenant = n}
PolicyHistory(id) == {p \in rlsPolicies : p.policy_id = id}

RegisterPolicy(id, v, t) ==
  LET p == [policy_id |-> id, version |-> v, at |-> t]
  IN /\ Appendable(PolicyHistory(id), p)
     /\ rlsPolicies' = rlsPolicies \cup {p}
     /\ UNCHANGED profiles

\* register_profile: the named policies must be known; they need neither be the
\* latest of their identities nor be older than the profile.
RegisterProfile(n, v, D, t) ==
  LET x == [tenant |-> n, version |-> v, policies |-> D, at |-> t]
  IN /\ D # {} /\ D \subseteq rlsPolicies
     /\ Appendable(Of(n, profiles), x)
     /\ profiles' = profiles \cup {x}
     /\ UNCHANGED rlsPolicies

IsolationInit == rlsPolicies = {} /\ profiles = {}

IsolationNext ==
  \/ \E id \in RlsPolicyId, v \in 1 .. MaxRlsVersion, t \in RegistryTime :
        RegisterPolicy(id, v, t)
  \/ \E n \in Tenant, v \in 1 .. MaxProfileVersion, D \in SUBSET rlsPolicies,
        t \in RegistryTime : RegisterProfile(n, v, D, t)
=============================================================================
