-------------------------- MODULE MCGovernedAction --------------------------
(* One request of one requester, one approver, one worker and one resolver: *)
(* the whole path from evaluation to redemption, in any order.  What stands *)
(* behind it, the delegation of authority and the policy of the decision,   *)
(* shares no variable with it: a behaviour here runs one of the three.      *)
EXTENDS GovernedAction, ApprovalDelegation, PolicyDecision, TLC

CONSTANTS srv, toolname, alice, carol, Risks, agent, readtool, sendtool

Requests == {[id |-> 1, tool |-> <<srv, toolname>>, risk |-> k,
              owner |-> carol] : k \in Risks}
Grants == {[subject |-> p, tools |-> {<<srv, toolname>>},
            max_risk |-> "critical", from |-> 0, until |-> 9] : p \in Principal}
Keys == {[principal |-> p, from |-> 0, until |-> 9] : p \in Principal}

\* A wide scope, and three that each narrow it in one respect.
Scopes ==
  LET scope(T, k, u) == [tools |-> T, max_risk |-> k, from |-> 0, until |-> u]
  IN {scope({readtool, sendtool}, 1, 2), scope({readtool}, 1, 2),
      scope({readtool, sendtool}, 0, 2), scope({readtool, sendtool}, 1, 1)}

\* One agent with an owner before and after a change of model, or disabled.
Descriptors == {[agent |-> agent, owner |-> carol, model |-> m, enabled |-> e] :
                  m \in {1, 2}, e \in BOOLEAN}
ToolActions == {[tool |-> readtool, classes |-> C, production |-> p, enabled |-> TRUE] :
                  C \in {{"internal"}, {"internal", "restricted"}}, p \in BOOLEAN}
Identities == {[agent |-> agent, owner |-> carol, descriptor |-> d, from |-> 0,
                until |-> 1] : d \in {x \in Descriptors : x.model = 1}}
PolicyRequests == {[agent |-> agent, owner |-> carol, model |-> 1, tool |-> readtool,
                    class |-> c, environment |-> e] :
                     c \in {"internal", "restricted"}, e \in {"test", "production"}}

\* Rules of every effect, some for restricted data only, so that any two effects
\* meet; two rules contend for one id.
Rules ==
  LET rule(n, e, C, K) ==
        [id |-> n, agent |-> agent, tool |-> readtool, classes |-> C,
         environments |-> {"test", "production"}, effect |-> e, constraints |-> K]
      all == {"internal", "restricted"}
  IN {rule(1, "ALLOW", all, {}), rule(2, "ALLOW_WITH_CONSTRAINTS", all, {"read"}),
      rule(3, "ALLOW_WITH_CONSTRAINTS", {"restricted"}, {"redact"}),
      rule(4, "REQUIRE_HUMAN_APPROVAL", all, {}), rule(4, "DENY", {"restricted"}, {}),
      rule(5, "DENY", {"restricted"}, {})}

MCActionInit == ActionInit /\ DelegationInit /\ PolicyInit
MCActionNext ==
  \/ ActionNext /\ DelegationInit /\ PolicyInit
     /\ UNCHANGED <<delegationVars, policyVars>>
  \/ DelegationNext /\ ActionInit /\ PolicyInit
     /\ UNCHANGED <<actionVars, policyVars>>
  \/ PolicyNext /\ ActionInit /\ DelegationInit
     /\ UNCHANGED <<actionVars, delegationVars>>
MCActionSpec ==
  MCActionInit /\ [][MCActionNext]_<<actionVars, delegationVars, policyVars>>
=============================================================================
