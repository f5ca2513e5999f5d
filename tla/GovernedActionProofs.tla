------------------------ MODULE GovernedActionProofs ------------------------
(***************************************************************************)
(* From grants and rules to a redemption.  Before the gates: authority     *)
(* only shrinks along a chain of delegations of any length, and rules only *)
(* tighten a policy.  The execution boundary and the approval gate         *)
(* together: no redemption without the humans it needs, for any number of  *)
(* workers and resolvers, any policy and any grants, with restarts of the  *)
(* boundary and deaths of resolvers at any moment.                         *)
(***************************************************************************)
EXTENDS GovernedAction, ApprovalDelegation, PolicyDecision, ExecutionProofs,
        ApprovalProofs

-----------------------------------------------------------------------------
(* Before the gates: delegated authority *)

\* The registry in force holds written grants, and each of its links holds in it.
DelegationInv ==
  /\ bundle \subseteq grants
  /\ \A g \in grants : g.scope \in GrantScope
  /\ \A g \in bundle :
       g.parent # Direct => g.parent \in bundle /\ Links(g, g.parent)

LEMMA DelegationStepInv ==
  ASSUME DelegationInv, [DelegationNext]_delegationVars
  PROVE  DelegationInv'
<1>1. ASSUME NEW p \in GrantSubject, NEW s \in GrantScope, NEW d \in BOOLEAN,
             GrantDirectly(p, s, d)
      PROVE  DelegationInv'
  BY <1>1 DEF GrantDirectly, DelegationInv, Links
<1>2. ASSUME NEW p \in GrantSubject, NEW s \in GrantScope, NEW d \in BOOLEAN,
             NEW i \in GrantSubject, NEW parent \in grants,
             Delegate(i, p, s, d, parent)
      PROVE  DelegationInv'
  BY <1>2 DEF Delegate, DelegationInv, Links
<1>3. ASSUME NEW B \in SUBSET grants, BuildRegistry(B)
      PROVE  DelegationInv'
  <2>1. bundle' = B /\ grants' = grants BY <1>3 DEF BuildRegistry
  <2>2. \A g \in B : g.parent = Direct \/ (g.parent \in B /\ Links(g, g.parent))
    BY <1>3 DEF BuildRegistry
  <2> QED BY <2>1, <2>2 DEF DelegationInv, Links
<1>4. CASE UNCHANGED delegationVars
  BY <1>4 DEF delegationVars, DelegationInv, Links
<1> QED BY <1>1, <1>2, <1>3, <1>4 DEF DelegationNext

\* g has at most the scope of x.
Narrows(g, x) ==
  /\ g.scope.tools \subseteq x.scope.tools
  /\ g.scope.max_risk <= x.scope.max_risk
  /\ x.scope.from <= g.scope.from /\ g.scope.until <= x.scope.until

\* Along a link the scope shrinks once more.
LEMMA LinksNarrow ==
  ASSUME DelegationInv, NEW g \in bundle, NEW x \in bundle, Narrows(g, x),
         x.parent # Direct
  PROVE  /\ x.parent \in bundle /\ x.parent.can_delegate
         /\ Narrows(g, x.parent)
<1>1. x.parent \in bundle /\ Links(x, x.parent) BY DEF DelegationInv
<1>2. {g.scope, x.scope, x.parent.scope} \subseteq GrantScope
  BY <1>1 DEF DelegationInv
<1>3. \A s \in GrantScope : s.max_risk \in Nat /\ s.from \in Nat /\ s.until \in Nat
  BY DelegationAssumption
<1>4. /\ x.scope.tools \subseteq x.parent.scope.tools
      /\ x.scope.max_risk <= x.parent.scope.max_risk
      /\ x.parent.scope.from <= x.scope.from
      /\ x.scope.until <= x.parent.scope.until
      /\ x.parent.can_delegate
  BY <1>1 DEF Links
<1> QED BY <1>1, <1>2, <1>3, <1>4 DEF Narrows

\* The grants that g is a part of, and that were passed on, are closed under
\* parents; so all of its ancestors are among them.
LEMMA AncestorsAreWider ==
  ASSUME DelegationInv, NEW g \in bundle, NEW a \in Ancestors(g)
  PROVE  a \in bundle /\ Narrows(g, a) /\ (a # g => a.can_delegate)
<1> DEFINE S == {x \in bundle : Narrows(g, x) /\ (x # g => x.can_delegate)}
<1>1. S \in SUBSET grants BY DEF DelegationInv
<1>2. g \in S
  <2>1. g.scope \in GrantScope BY DEF DelegationInv
  <2> QED BY <2>1, DelegationAssumption DEF Narrows
<1>3. \A x \in S : x.parent # Direct => x.parent \in S BY LinksNarrow
<1>4. a \in S
  <2> HIDE DEF S
  <2> QED BY <1>1, <1>2, <1>3 DEF Ancestors
<1> QED BY <1>4

\* AuthorityIsInherited: over any number of links, no grant of a registry in force
\* covers what one of those it was delegated from does not.
THEOREM AuthorityOnlyShrinks == DelegationSpec => []AuthorityIsInherited
<1>1. DelegationInit => DelegationInv BY DEF DelegationInit, DelegationInv
<1>2. DelegationInv /\ [DelegationNext]_delegationVars => DelegationInv'
  BY DelegationStepInv
<1>3. DelegationInv => AuthorityIsInherited
  <2> SUFFICES ASSUME DelegationInv, NEW g \in bundle, NEW a \in Ancestors(g)
               PROVE  /\ a \in bundle
                      /\ a # g => a.can_delegate
                      /\ \A tool \in g.scope.tools, risk \in 0 .. g.scope.max_risk,
                            t \in g.scope.from .. g.scope.until :
                           Covers(g, tool, risk, t) => Covers(a, tool, risk, t)
    BY DEF AuthorityIsInherited
  <2>1. a \in bundle /\ Narrows(g, a) /\ (a # g => a.can_delegate)
    BY AncestorsAreWider
  <2>2. g.scope \in GrantScope /\ a.scope \in GrantScope
    BY <2>1 DEF DelegationInv
  <2>3. ASSUME NEW tool \in g.scope.tools, NEW risk \in 0 .. g.scope.max_risk,
               NEW t \in g.scope.from .. g.scope.until, Covers(g, tool, risk, t)
        PROVE  Covers(a, tool, risk, t)
    <3>1. {g.scope.max_risk, a.scope.max_risk, g.scope.from, a.scope.from,
           g.scope.until, a.scope.until} \subseteq Nat
      BY <2>2, DelegationAssumption
    <3>2. t \in Int /\ risk \in Int BY <3>1
    <3>3. /\ g.scope.tools \subseteq a.scope.tools
          /\ g.scope.max_risk <= a.scope.max_risk
          /\ a.scope.from <= g.scope.from /\ g.scope.until <= a.scope.until
      BY <2>1 DEF Narrows
    <3>4. g.scope.from <= t /\ t < g.scope.until /\ risk <= g.scope.max_risk
      BY <2>3 DEF Covers
    <3>5. a.scope.from <= t /\ t < a.scope.until /\ risk <= a.scope.max_risk
      BY <3>1, <3>2, <3>3, <3>4
    <3> QED BY <3>3, <3>5 DEF Covers
  <2> QED BY <2>1, <2>3
<1> QED BY <1>1, <1>2, <1>3, PTL DEF DelegationSpec

-----------------------------------------------------------------------------
(* Before the gates: policy *)

\* More rules, at least one of them before: the verdict is at least as strict.
LEMMA CombinedTightens ==
  ASSUME NEW M \in SUBSET PolicyRule, NEW N \in SUBSET PolicyRule,
         M # {}, M \subseteq N
  PROVE  AtLeast(Combined(N), Combined(M))
<1> DEFINE EM == {r.effect : r \in M}
           EN == {r.effect : r \in N}
           CM == UNION {r.constraints : r \in M}
           CN == UNION {r.constraints : r \in N}
<1>1. EM \subseteq EN /\ CM \subseteq CN /\ N # {} OBVIOUS
<1>2. Combined(M) = IF "DENY" \in EM THEN Says("DENY", {})
                    ELSE IF "REQUIRE_HUMAN_APPROVAL" \in EM
                    THEN Says("REQUIRE_HUMAN_APPROVAL", {})
                    ELSE IF CM # {} THEN Says("ALLOW_WITH_CONSTRAINTS", CM)
                    ELSE Says("ALLOW", {})
  BY DEF Combined
<1>3. Combined(N) = IF "DENY" \in EN THEN Says("DENY", {})
                    ELSE IF "REQUIRE_HUMAN_APPROVAL" \in EN
                    THEN Says("REQUIRE_HUMAN_APPROVAL", {})
                    ELSE IF CN # {} THEN Says("ALLOW_WITH_CONSTRAINTS", CN)
                    ELSE Says("ALLOW", {})
  BY <1>1 DEF Combined
<1> HIDE DEF EM, EN, CM, CN
<1>4. \A d, c : Says(d, c).decision = d /\ Says(d, c).constraints = c BY DEF Says
<1>5. /\ Strictness["ALLOW"] = 0 /\ Strictness["ALLOW_WITH_CONSTRAINTS"] = 1
      /\ Strictness["REQUIRE_HUMAN_APPROVAL"] = 2 /\ Strictness["DENY"] = 3
  BY DEF Strictness
<1>6. CASE "DENY" \in EN BY <1>1, <1>2, <1>3, <1>4, <1>5, <1>6 DEF AtLeast
<1>7. CASE "DENY" \notin EN /\ "REQUIRE_HUMAN_APPROVAL" \in EN
  BY <1>1, <1>2, <1>3, <1>4, <1>5, <1>7 DEF AtLeast
<1>8. CASE "DENY" \notin EN /\ "REQUIRE_HUMAN_APPROVAL" \notin EN /\ CN # {}
  BY <1>1, <1>2, <1>3, <1>4, <1>5, <1>8 DEF AtLeast
<1>9. CASE "DENY" \notin EN /\ "REQUIRE_HUMAN_APPROVAL" \notin EN /\ CN = {}
  BY <1>1, <1>2, <1>3, <1>4, <1>5, <1>9 DEF AtLeast
<1> QED BY <1>6, <1>7, <1>8, <1>9

LEMMA RulesAreRules == PolicySpec => [](rules \subseteq PolicyRule)
<1>1. PolicyInit => rules \subseteq PolicyRule BY DEF PolicyInit
<1>2. rules \subseteq PolicyRule /\ [PolicyNext]_policyVars => (rules \subseteq PolicyRule)'
  BY DEF PolicyNext, policyVars, ConfigureAgent, ConfigureTool, AddRule, RemoveRule
<1> QED BY <1>1, <1>2, PTL DEF PolicySpec

\* RulesOnlyTighten: whatever the rules, agents, tools, identities and requests.
THEOREM AddedRulesTighten == PolicySpec => RulesOnlyTighten
<1>1. ASSUME rules' \subseteq PolicyRule, UNCHANGED <<agents, tools>>,
             rules \subseteq rules',
             NEW q \in PolicyRequest, NEW i \in AgentIdentity, NEW t \in PolicyTime,
             Matched(q) # {}
      PROVE  AtLeast(Authorization(q, i, t)', Authorization(q, i, t))
  <2>1. /\ Matched(q) \in SUBSET PolicyRule /\ Matched(q)' \in SUBSET PolicyRule
        /\ Matched(q) \subseteq Matched(q)'
    BY <1>1 DEF Matched, Matches
  <2>2. (IdentityHolds(q, i, t) /\ Admitted(q))'
          <=> IdentityHolds(q, i, t) /\ Admitted(q)
    BY <1>1 DEF IdentityHolds, Admitted
  <2>3. CASE IdentityHolds(q, i, t) /\ Admitted(q)
    <3>1. Authorization(q, i, t) = Combined(Matched(q)) BY <2>3 DEF Authorization
    <3>2. Authorization(q, i, t)' = Combined(Matched(q)')
      BY <2>2, <2>3 DEF Authorization, Combined, Says
    <3> QED BY <1>1, <2>1, <3>1, <3>2, CombinedTightens
  <2>4. CASE ~(IdentityHolds(q, i, t) /\ Admitted(q))
    <3>1. Authorization(q, i, t) = Says("DENY", {}) BY <2>4 DEF Authorization
    <3>2. Authorization(q, i, t)' = Says("DENY", {})
      BY <2>2, <2>4 DEF Authorization
    <3> QED BY <3>1, <3>2 DEF AtLeast, Says, Strictness
  <2> QED BY <2>3, <2>4
<1>2. (rules \subseteq PolicyRule)' =>
        [UNCHANGED <<agents, tools>> /\ rules \subseteq rules'
          => \A q \in PolicyRequest, i \in AgentIdentity, t \in PolicyTime :
               Matched(q) # {}
               => AtLeast(Authorization(q, i, t)', Authorization(q, i, t))]_policyVars
  BY <1>1
<1> QED BY <1>2, RulesAreRules, PTL DEF RulesOnlyTighten

-----------------------------------------------------------------------------
(* The composition implements the gate under its policy layer *)

\* Outcomes are kept, so what the gate sees of them only grows.
LEMMA OutcomesGrow ==
  ASSUME ExecInv, BoundaryNext
  PROVE  outcomes \subseteq outcomes'
<1>1. CASE Operate \/ Receipt \/ Restart
  BY <1>1 DEF Operate, Receipt, BuildReceipt, Restart, gateVars
<1>2. CASE \E w \in Worker : GateStep(w)
  BY <1>2 DEF GateStep, Evaluate, RedeemStep, EvaluateStart, EvaluateFinish,
         EvaluateBind, EvaluateUngoverned, IssueStart, IssueAssert, RedeemAssert,
         RedeemStart, RedeemStop, RedeemReread, RedeemCommit, RedeemReturn,
         CallRaises
<1>3. CASE \E w \in Worker : IssueWithApproval(w)
  BY <1>3 DEF IssueWithApproval, Issue, IssueLease
<1> QED BY <1>1, <1>2, <1>3 DEF BoundaryNext

\* What the boundary does is, to the gate, a step of its policy layer.
LEMMA BoundaryIsPolicyLayer ==
  ASSUME ExecInv, authorizations = AuthorizationsOf(outcomes), [ActionNext]_actionVars
  PROVE  /\ authorizations' = AuthorizationsOf(outcomes')
         /\ [GateNext \/ (/\ authorizations \subseteq authorizations'
                          /\ UNCHANGED gateOwn)]_approvalVars
<1>1. CASE BoundaryNext /\ authorizations' = AuthorizationsOf(outcomes')
           /\ UNCHANGED gateOwn
  BY <1>1, OutcomesGrow DEF AuthorizationsOf
<1>2. CASE GateNext /\ UNCHANGED execVars
  <2>1. outcomes' = outcomes BY <1>2 DEF execVars, gateVars
  <2>2. authorizations' = authorizations
    BY <1>2 DEF GateNext, BuildRequirement, SignStatement, ResolverStep, ResolveStart,
                ReplayConsume, ReplayRefuse, ResolveReturn, ResolverDies
  <2> QED BY <1>2, <2>1, <2>2 DEF AuthorizationsOf
<1>3. CASE UNCHANGED actionVars
  BY <1>3 DEF actionVars, execVars, gateVars, approvalVars, AuthorizationsOf
<1> QED BY <1>1, <1>2, <1>3 DEF ActionNext

-----------------------------------------------------------------------------
(* The invariant of the composition *)

\* The approval a lease was issued on, if any: a pair of artifacts that the gate
\* returned, linked to the outcome and live when the lease was issued.
LeaseApproved(l) ==
  /\ ApprovalChain(l.outcome, l.requirement, l.resolution, l.issued_at)
  /\ l.resolution # None =>
       l.requirement \in requirements /\ l.resolution \in resolutions

\* The inductive invariant.
ActionInv ==
  /\ ExecInv /\ ApprovalInv
  /\ authorizations = AuthorizationsOf(outcomes)
  /\ \A l \in leases : LeaseApproved(l)

\* The artifacts of the gate are kept.
LEMMA ApprovalsGrow ==
  ASSUME [GateNext \/ (/\ authorizations \subseteq authorizations'
                       /\ UNCHANGED gateOwn)]_approvalVars
  PROVE  requirements \subseteq requirements' /\ resolutions \subseteq resolutions'
<1>1. CASE GateNext
  BY <1>1 DEF GateNext, BuildRequirement, SignStatement, ResolverStep, ResolveStart,
              ReplayConsume, ReplayRefuse, ResolveReturn, ResolverDies
<1>2. CASE UNCHANGED gateOwn BY <1>2 DEF gateOwn
<1> QED BY <1>1, <1>2 DEF approvalVars, gateOwn

\* A lease is approved by what is on the table when it is issued.
LEMMA IssuedLeaseApproved ==
  ASSUME \A l \in leases : LeaseApproved(l), NEW w \in Worker, NEW req, NEW res,
         Issue(w, req, res),
         res # None => req \in requirements /\ res \in resolutions
  PROVE  \A l \in leases' : LeaseApproved(l)
<1>1. PICK id \in LeaseId, x \in Executor, t \in Time, life \in 1 .. LeaseMaxLife :
             IssueLease(w, id, x, t, t + life, req, res)
  BY DEF Issue
<1> DEFINE o == work[w].outcome
           lease(s) == [lease_id |-> id, executor |-> x, outcome |-> o,
                        requirement |-> req, resolution |-> res, stop |-> s,
                        issued_at |-> t, expires_at |-> t + life]
<1>2. ApprovalChain(o, req, res, t) BY <1>1 DEF IssueLease
<1>3. PICK s : leases' = leases \cup {lease(s)} BY <1>1 DEF IssueLease
<1>4. /\ lease(s).outcome = o /\ lease(s).requirement = req
      /\ lease(s).resolution = res /\ lease(s).issued_at = t
  OBVIOUS
<1>5. LeaseApproved(lease(s)) BY <1>2, <1>4 DEF LeaseApproved
<1> HIDE DEF lease
<1> QED BY <1>3, <1>5

LEMMA LeasesOutsideIssue ==
  ASSUME Operate \/ Receipt \/ Restart \/ (\E w \in Worker : GateStep(w))
  PROVE  leases' = leases
<1>1. CASE Operate \/ Receipt \/ Restart
  BY <1>1 DEF Operate, Receipt, BuildReceipt, Restart, gateVars
<1>2. CASE \E w \in Worker : GateStep(w)
  BY <1>2 DEF GateStep, Evaluate, RedeemStep, EvaluateStart, EvaluateFinish,
         EvaluateBind, EvaluateUngoverned, IssueStart, IssueAssert, RedeemAssert,
         RedeemStart, RedeemStop, RedeemReread, RedeemCommit, RedeemReturn,
         CallRaises
<1> QED BY <1>1, <1>2

LEMMA ActionInitInv == ActionInit => ActionInv
<1> SUFFICES ASSUME ActionInit PROVE ActionInv OBVIOUS
<1>1. ExecInv /\ ApprovalInv BY ExecInitInv, ApprovalInitInv DEF ActionInit
<1> QED BY <1>1 DEF ActionInit, ExecInit, ApprovalInit, AuthorizationsOf, ActionInv

LEMMA BoundaryKeepsExecInv ==
  ASSUME ExecInv, BoundaryNext
  PROVE  ExecInv'
<1>1. CASE Operate BY <1>1, OperateInv
<1>2. CASE Receipt BY <1>2, ReceiptInv
<1>3. CASE Restart BY <1>3, RestartInv
<1>4. CASE \E w \in Worker : GateStep(w) BY <1>4, GateStepInv
<1>5. CASE \E w \in Worker : IssueWithApproval(w)
  BY <1>5, IssueInv DEF IssueWithApproval
<1> QED BY <1>1, <1>2, <1>3, <1>4, <1>5 DEF BoundaryNext

LEMMA ActionStepInv == ActionInv /\ [ActionNext]_actionVars => ActionInv'
<1> SUFFICES ASSUME ActionInv, [ActionNext]_actionVars PROVE ActionInv' OBVIOUS
<1>1. /\ authorizations' = AuthorizationsOf(outcomes')
      /\ [GateNext \/ (/\ authorizations \subseteq authorizations'
                       /\ UNCHANGED gateOwn)]_approvalVars
  BY BoundaryIsPolicyLayer DEF ActionInv
<1>2. ApprovalInv' BY <1>1, ApprovalStepInv DEF ActionInv
<1>3. requirements \subseteq requirements' /\ resolutions \subseteq resolutions'
  BY <1>1, ApprovalsGrow
<1>4. CASE BoundaryNext /\ UNCHANGED gateOwn
  <2>1. ExecInv' BY <1>4, BoundaryKeepsExecInv DEF ActionInv
  <2>2. \A l \in leases' : LeaseApproved(l)
    <3>1. CASE \E w \in Worker : IssueWithApproval(w)
      BY <3>1, IssuedLeaseApproved DEF IssueWithApproval, ActionInv
    <3>2. CASE Operate \/ Receipt \/ Restart \/ (\E w \in Worker : GateStep(w))
      BY <3>2, LeasesOutsideIssue DEF ActionInv
    <3> QED BY <1>4, <3>1, <3>2 DEF BoundaryNext
  <2>3. \A l \in leases' : LeaseApproved(l)'
    BY <1>3, <2>2 DEF LeaseApproved
  <2> QED BY <1>1, <1>2, <2>1, <2>3 DEF ActionInv
<1>5. CASE UNCHANGED execVars
  <2>1. ExecInv' BY <1>5, UnchangedInv DEF ActionInv
  <2>2. leases' = leases BY <1>5 DEF execVars, gateVars
  <2>3. \A l \in leases' : LeaseApproved(l)'
    BY <1>3, <2>2 DEF ActionInv, LeaseApproved
  <2> QED BY <1>1, <1>2, <2>1, <2>3 DEF ActionInv
<1> QED BY <1>4, <1>5 DEF ActionNext, actionVars

LEMMA AlwaysActionInv == ActionSpec => []ActionInv
BY ActionInitInv, ActionStepInv, PTL DEF ActionSpec

-----------------------------------------------------------------------------
(* What it implies *)

\* To the approval gate, the execution boundary is one of the policy layers it is
\* safe under: what ApprovalProofs shows of the gate holds of the composition.
THEOREM ActionImplementsGate == ActionSpec => ApprovalSpec
<1>1. ActionInit => ApprovalInit BY DEF ActionInit
<1>2. ActionInv /\ [ActionNext]_actionVars =>
        [GateNext \/ (/\ authorizations \subseteq authorizations'
                      /\ UNCHANGED gateOwn)]_approvalVars
  BY BoundaryIsPolicyLayer DEF ActionInv
<1> QED BY <1>1, <1>2, AlwaysActionInv, PTL DEF ActionSpec, ApprovalSpec

\* What ExecutionProofs shows without approvals holds with them: leases that rest
\* on a human's resolution are redeemed once, by a complete chain, within the two
\* windows, and their rows can be receipted.
THEOREM ApprovedRowsAreGoverned ==
  ActionSpec => [](OneRedemptionPerLease /\ RowsAreGoverned /\ AuthorityIsBounded
                   /\ AlwaysReceiptable)
<1>1. ActionInv => OneRedemptionPerLease /\ RowsAreGoverned /\ AuthorityIsBounded
                   /\ AlwaysReceiptable
  BY RedeemedOnce, RowGoverned, AuthorityBounded, RowReceiptable DEF ActionInv
<1> QED BY <1>1, AlwaysActionInv, PTL

\* Both ledgers stay one-time ledgers when they run together: a lease and a
\* requirement are each handed out once, with restarts and deaths of resolvers.
THEOREM BothLedgersAreOneTime ==
  ActionSpec => LeasesAreOneTime /\ RequirementsAreOneTime
<1>1. ActionInit => LeaseLedger!OneTimeInit
  BY DEF ActionInit, ExecInit, LeaseLedger!OneTimeInit, leaseRows, leaseAnswers
<1>2. ActionInv /\ [ActionNext]_actionVars
        => [LeaseLedger!OneTimeNext]_<<leaseRows, leaseAnswers>>
  BY LedgerStep DEF ActionInv, ActionNext, actionVars, BoundaryNext, IssueWithApproval
<1>3. ActionSpec => LeaseLedger!OneTimeSpec
  BY <1>1, <1>2, AlwaysActionInv, PTL DEF ActionSpec, LeaseLedger!OneTimeSpec
<1>4. ActionSpec => LeasesAreOneTime BY <1>3 DEF LeasesAreOneTime
<1>5. ActionSpec => RequirementsAreOneTime
  BY ActionImplementsGate, ReplayLedgerIsOneTime, PTL
<1> QED BY <1>4, <1>5

\* An emergency stop outranks every approval: once it is drained, no resolution,
\* old or new, gets another row written.
THEOREM HaltOutranksApproval == ActionSpec => HaltHolds
<1> DEFINE A == Drained => ledger' = ledger /\ (Drained' \/ stops' # stops)
<1>1. ExecInv /\ BoundaryNext => A
  BY DrainedStep DEF BoundaryNext, IssueWithApproval
<1>2. ActionInv /\ [ActionNext]_actionVars => [A]_execVars
  BY <1>1 DEF ActionInv, ActionNext, actionVars
<1>3. ActionSpec => [][A]_execVars BY <1>2, AlwaysActionInv, PTL DEF ActionSpec
<1> QED BY <1>3 DEF HaltHolds

\* No row of the boundary's ledger lacks its humans: whoever races, dies, restarts
\* or hands in the artifacts of another request, the row of an approval-gated
\* outcome rests on a recorded resolution of a requirement for that outcome's own
\* authorization, with its quorum and without its requester.
THEOREM EveryRedemptionIsApproved == ActionSpec => []RedemptionsAreApproved
<1>1. ActionInv => RedemptionsAreApproved
  <2> SUFFICES ASSUME ActionInv, NEW c \in ledger
               PROVE  LET l == c.lease
                          o == l.outcome
                          x == l.resolution
                      IN IF ApprovalRequired(o)
                         THEN /\ x \in resolutions /\ l.requirement \in requirements
                              /\ x.requirement = l.requirement
                              /\ l.requirement.authorization = AuthorizationOf(o)
                              /\ \E row \in redeemed :
                                   row.requirement = x.requirement
                                   /\ row.package = x.package
                              /\ x.denied_by = {} /\ o.request.owner \notin x.approved_by
                              /\ Cardinality(x.approved_by) >= l.requirement.min_approvals
                              /\ x.at <= l.issued_at /\ l.issued_at <= c.at
                         ELSE x = None /\ o.decision = "ALLOW"
    BY DEF RedemptionsAreApproved
  <2> DEFINE l == c.lease
             o == l.outcome
             x == l.resolution
  <2>1. l \in leases /\ RowSound(c)
    BY DEF ActionInv, ExecInv, ExecTypeOK, ArtifactsSound
  <2>2. LeaseApproved(l) BY <2>1 DEF ActionInv
  <2>3. CASE ApprovalRequired(o)
    <3>1. /\ x # None /\ x.requirement = l.requirement
          /\ l.requirement.authorization = AuthorizationOf(o)
          /\ x.at <= l.issued_at /\ ContinuationPermitted(x)
      BY <2>2, <2>3 DEF LeaseApproved, ApprovalChain
    <3>2. x \in resolutions /\ l.requirement \in requirements
      BY <2>2, <3>1 DEF LeaseApproved
    <3>3. Continues(x) BY <3>1 DEF ContinuationPermitted, Continues
    <3>4. Cardinality(x.approved_by) >= l.requirement.min_approvals
      BY <3>1, <3>2, <3>3, ContinuationChecked DEF ActionInv
    <3>5. o.request.owner \notin x.approved_by
      BY <3>1, <3>2, <3>3, ContinuationEarned DEF ActionInv, ContinuationIsEarned, AuthorizationOf
    <3>6. \E row \in redeemed : row.requirement = x.requirement
                                /\ row.package = x.package
      BY <3>2, <3>3 DEF ActionInv, ApprovalInv, RowHeldOnce, Continues
    <3> QED BY <2>1, <2>3, <3>1, <3>2, <3>3, <3>4, <3>5, <3>6
            DEF RowSound, LeaseLive, Continues
  <2>4. CASE ~ApprovalRequired(o)
    BY <2>2, <2>4 DEF LeaseApproved, ApprovalChain, ExecutionPermitted
  <2> QED BY <2>3, <2>4
<1> QED BY <1>1, AlwaysActionInv, PTL

\* The two notions of needing a human agree, for any policy minimums.
THEOREM NoOutcomeIsStranded == ActionSpec => []NoStrandedOutcome
<1>1. ActionInv => NoStrandedOutcome
  BY DEF NoStrandedOutcome, ApprovalRequired, ValidOutcome, HighImpact,
         AuthorizationOf, Minimums
<1> QED BY <1>1, AlwaysActionInv, PTL

\* However long a requirement lives and a resolution is kept, it lets nothing be
\* leased later than the evaluation it was asked for allows.
THEOREM ApprovalExtendsNothing == ActionSpec => []ApprovalDoesNotExtend
<1>1. ActionInv => ApprovalDoesNotExtend
  <2> SUFFICES ASSUME ActionInv, NEW l \in leases, l.resolution # None
               PROVE  /\ l.issued_at < l.requirement.expires_at
                      /\ l.resolution.at <= l.issued_at
                      /\ l.requirement.issued_at <= l.issued_at
                      /\ l.issued_at <= l.requirement.authorization.at + AuthMaxAge
    BY DEF ApprovalDoesNotExtend
  <2>1. LeaseSound(l) BY DEF ActionInv, ExecInv, ArtifactsSound
  <2>2. ApprovalRequired(l.outcome) BY <2>1 DEF LeaseSound
  <2>3. ApprovalChain(l.outcome, l.requirement, l.resolution, l.issued_at)
    BY DEF ActionInv, LeaseApproved
  <2>4. l.requirement.authorization.at = l.outcome.at
    BY <2>2, <2>3 DEF ApprovalChain, AuthorizationOf
  <2> QED BY <2>1, <2>2, <2>3, <2>4 DEF LeaseSound, ApprovalChain
<1> QED BY <1>1, AlwaysActionInv, PTL
=============================================================================
