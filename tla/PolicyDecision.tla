---------------------------- MODULE PolicyDecision ----------------------------
(***************************************************************************)
(* What the policy layer says of a request: PolicyEngine and PolicyBundle  *)
(* (regagentops/policy.py) behind the identity checks of                   *)
(* AuthenticatedPolicyEngine (authenticated_policy.py).                    *)
(*                                                                         *)
(* Registries and bundles are immutable values: who changes the            *)
(* configuration builds another one.  The variables are the ones in use.   *)
(* One institution; a signed identity is genuine and its key valid;        *)
(* provider and model of an agent are one model; purposes and risk tiers   *)
(* of a rule, matched like environments, are left out.                     *)
(***************************************************************************)
EXTENDS Integers, FiniteSets

CONSTANTS AgentDescriptor, \* [agent, owner, model, enabled]
          ToolActionDescriptor, \* [tool, classes, production, enabled]
          PolicyRule,    \* [id, agent, tool, environments, classes, effect,
                         \*  constraints]
          AgentIdentity, \* [agent, owner, descriptor, from, until]
          PolicyRequest, \* [agent, owner, model, tool, class, environment]
          PolicyTime     \* timestamps callers use

Effect == {"ALLOW", "ALLOW_WITH_CONSTRAINTS", "REQUIRE_HUMAN_APPROVAL", "DENY"}

\* A rule with constraints is one that allows with constraints, and the other way
\* round.
ASSUME PolicyAssumption ==
  /\ PolicyTime \subseteq Nat
  /\ \A r \in PolicyRule : /\ r.effect \in Effect
                     /\ r.effect = "ALLOW_WITH_CONSTRAINTS" <=> r.constraints # {}

VARIABLES agents, tools, rules

policyVars == <<agents, tools, rules>>

-----------------------------------------------------------------------------
(* Configuration *)

\* Another registry of agents: with d for its agent, or without it.
ConfigureAgent(d) ==
  LET others == {x \in agents : x.agent # d.agent}
  IN agents' \in {others, others \cup {d}} /\ UNCHANGED <<tools, rules>>

ConfigureTool(a) ==
  LET others == {x \in tools : x.tool # a.tool}
  IN tools' \in {others, others \cup {a}} /\ UNCHANGED <<agents, rules>>

\* Another bundle: rule ids are unique in it.
AddRule(r) ==
  /\ \A x \in rules : x.id # r.id
  /\ rules' = rules \cup {r}
  /\ UNCHANGED <<agents, tools>>

RemoveRule(r) == rules' = rules \ {r} /\ UNCHANGED <<agents, tools>>

-----------------------------------------------------------------------------
(* Decision *)

Matches(r, q) ==
  /\ r.agent = q.agent /\ r.tool = q.tool
  /\ q.environment \in r.environments /\ q.class \in r.classes

Matched(q) == {r \in rules : Matches(r, q)}

\* Agent and tool are registered, enabled and what the request says they are.
Admitted(q) ==
  /\ \E d \in agents : /\ d.agent = q.agent /\ d.enabled
                        /\ d.owner = q.owner /\ d.model = q.model
  /\ \E a \in tools : /\ a.tool = q.tool /\ a.enabled /\ q.class \in a.classes
                      /\ q.environment = "production" => a.production

Says(d, c) == [decision |-> d, constraints |-> c]

\* Mutant: a rule that allows with constraints is as good as an approval.
ConstraintsFirst(M) ==
  LET effects == {r.effect : r \in M}
      constraints == UNION {r.constraints : r \in M}
  IN CASE M = {} \/ "DENY" \in effects -> Says("DENY", {})
       [] OTHER ->
            IF constraints # {} THEN Says("ALLOW_WITH_CONSTRAINTS", constraints)
            ELSE IF "REQUIRE_HUMAN_APPROVAL" \in effects
                 THEN Says("REQUIRE_HUMAN_APPROVAL", {})
                 ELSE Says("ALLOW", {})

\* Default deny; then the effects in the order the code asks for them.
Combined(M) ==
  LET effects == {r.effect : r \in M}
      constraints == UNION {r.constraints : r \in M}
  IN IF M = {} \/ "DENY" \in effects THEN Says("DENY", {})
     ELSE IF "REQUIRE_HUMAN_APPROVAL" \in effects
     THEN Says("REQUIRE_HUMAN_APPROVAL", {})
     ELSE IF constraints # {} THEN Says("ALLOW_WITH_CONSTRAINTS", constraints)
     ELSE Says("ALLOW", {})

\* The identity is the request's, is valid at t, and was established for the very
\* registration of the agent that is in use.
IdentityHolds(q, i, t) ==
  /\ i.agent = q.agent /\ i.owner = q.owner
  /\ i.from <= t /\ t < i.until
  /\ \E d \in agents : d.agent = q.agent /\ d.enabled /\ d = i.descriptor

\* AuthenticatedPolicyEngine.evaluate.
Authorization(q, i, t) ==
  IF IdentityHolds(q, i, t) /\ Admitted(q) THEN Combined(Matched(q))
  ELSE Says("DENY", {})

PolicyInit == agents = {} /\ tools = {} /\ rules = {}

PolicyNext ==
  \/ \E d \in AgentDescriptor : ConfigureAgent(d)
  \/ \E a \in ToolActionDescriptor : ConfigureTool(a)
  \/ \E r \in PolicyRule : AddRule(r)
  \/ \E r \in rules : RemoveRule(r)

PolicySpec == PolicyInit /\ [][PolicyNext]_policyVars

-----------------------------------------------------------------------------
(* Properties *)

Strictness == [ALLOW |-> 0, ALLOW_WITH_CONSTRAINTS |-> 1,
               REQUIRE_HUMAN_APPROVAL |-> 2, DENY |-> 3]

\* A verdict is at least as strict as another: a higher effect, or the same one
\* with all of its constraints.
AtLeast(v, w) ==
  /\ Strictness[v.decision] >= Strictness[w.decision]
  /\ v.decision = w.decision => w.constraints \subseteq v.constraints

\* Configuration loosens only where someone takes something away: while agents and
\* tools stay and rules are only added, no request that some rule already covered
\* gets a looser verdict, with whatever identity and at whatever time it is made.
\* (README.md:77, "DENY > REQUIRE_HUMAN_APPROVAL > ALLOW_WITH_CONSTRAINTS > ALLOW";
\* the code never compares two effects, it asks for them one after the other.)
RulesOnlyTighten ==
  [][UNCHANGED <<agents, tools>> /\ rules \subseteq rules'
     => \A q \in PolicyRequest, i \in AgentIdentity, t \in PolicyTime :
          Matched(q) # {} => AtLeast(Authorization(q, i, t)', Authorization(q, i, t))]_policyVars
=============================================================================
