-------------------------- MODULE ApprovalDelegation --------------------------
(***************************************************************************)
(* Where the authority of an approver comes from: ApprovalAuthorityGrant   *)
(* and ApprovalAuthorityBundle (regagentops/approval_models.py) and the    *)
(* check ApprovalAuthorityRegistry (approval_authority.py) makes of a      *)
(* bundle before any of its grants may be used.                            *)
(*                                                                         *)
(* A delegated grant names its parent by digest, here by the parent        *)
(* itself: grants are written one after the other, and none can be its own *)
(* ancestor.  One institution; every grant has an id of its own; tools     *)
(* stand for the three sets a grant lists (tools, actions, environments),  *)
(* which are compared alike.                                               *)
(***************************************************************************)
EXTENDS Integers, FiniteSets

CONSTANTS GrantSubject, \* people grants are for
          GrantScope,   \* [tools, max_risk, from, until]
          MaxGrants     \* bound: grants written

ASSUME DelegationAssumption ==
  /\ MaxGrants \in Nat
  /\ \A s \in GrantScope : /\ s.tools # {} /\ s.max_risk \in Nat
                           /\ s.from \in Nat /\ s.until \in Nat

VARIABLES grants, \* grants written so far, in a bundle or not
          bundle  \* the grants of the registry in force

delegationVars == <<grants, bundle>>

Direct == [direct |-> TRUE]

-----------------------------------------------------------------------------
\* The institution gives p a grant.  Nobody looks at the issuer of a direct one.
GrantDirectly(p, s, d) ==
  /\ Cardinality(grants) < MaxGrants
  /\ s.from < s.until
  /\ grants' = grants \cup {[issuer |-> p, subject |-> p, scope |-> s,
                             can_delegate |-> d, parent |-> Direct]}
  /\ UNCHANGED bundle

\* i writes a grant for p on the strength of parent.  The constructor checks the
\* window alone: whether the link holds is found out when a registry is built.
Delegate(i, p, s, d, parent) ==
  /\ Cardinality(grants) < MaxGrants
  /\ s.from < s.until
  /\ grants' = grants \cup {[issuer |-> i, subject |-> p, scope |-> s,
                             can_delegate |-> d, parent |-> parent]}
  /\ UNCHANGED bundle

\* Mutant: the child's window must open inside the parent's, not close there.
OpensInside(g, parent) ==
  /\ parent.can_delegate
  /\ g.issuer = parent.subject
  /\ g.scope.tools \subseteq parent.scope.tools
  /\ g.scope.max_risk <= parent.scope.max_risk
  /\ parent.scope.from <= g.scope.from /\ g.scope.from < parent.scope.until

\* What _validate_grant asks of a link.
Links(g, parent) ==
  /\ parent.can_delegate
  /\ g.issuer = parent.subject
  /\ g.scope.tools \subseteq parent.scope.tools
  /\ g.scope.max_risk <= parent.scope.max_risk
  /\ parent.scope.from <= g.scope.from /\ g.scope.until <= parent.scope.until

\* The registry of B: every link inside B.  The code follows each grant up to its
\* root as well, over links that the loop over B visits anyway.
BuildRegistry(B) ==
  /\ \A g \in B : g.parent = Direct \/ (g.parent \in B /\ Links(g, g.parent))
  /\ bundle' = B
  /\ UNCHANGED grants

DelegationInit == grants = {} /\ bundle = {}

DelegationNext ==
  \/ \E p \in GrantSubject, s \in GrantScope, d \in BOOLEAN :
        \/ GrantDirectly(p, s, d)
        \/ \E i \in GrantSubject, parent \in grants : Delegate(i, p, s, d, parent)
  \/ \E B \in SUBSET grants : BuildRegistry(B)

DelegationSpec == DelegationInit /\ [][DelegationNext]_delegationVars

-----------------------------------------------------------------------------
(* Properties *)

\* authorize_approver, as far as the grant decides: g is in force at t and covers
\* the tool and the risk.
Covers(g, tool, risk, t) ==
  /\ g.scope.from <= t /\ t < g.scope.until
  /\ tool \in g.scope.tools /\ risk <= g.scope.max_risk

\* g and everything it was delegated from, over any number of links: the smallest
\* set of grants that holds g and the parents of its members.
Ancestors(g) ==
  {a \in grants :
     \A S \in SUBSET grants :
       (g \in S /\ \A x \in S : x.parent # Direct => x.parent \in S) => a \in S}

\* An approver never has more than everyone the authority came through: as long as
\* a grant of the registry in force covers an action, every grant it was delegated
\* from, over any number of links, is in force too and covers the same action at
\* that instant, and each of them was one its holder might pass on.  A grant taken
\* out of the bundle takes all that was delegated from it along.
\* (_validate_grant looks at one link at a time, and authorize_approver at the one
\* grant of the approver.)
AuthorityIsInherited ==
  \A g \in bundle : \A a \in Ancestors(g) :
    /\ a \in bundle
    /\ a # g => a.can_delegate
    /\ \A tool \in g.scope.tools, risk \in 0 .. g.scope.max_risk,
          t \in g.scope.from .. g.scope.until :
         Covers(g, tool, risk, t) => Covers(a, tool, risk, t)
=============================================================================
