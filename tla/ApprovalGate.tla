---------------------------- MODULE ApprovalGate ----------------------------
(***************************************************************************)
(* Human approval: ApprovalGate (regagentops/approval_engine.py) with      *)
(* ApprovalReplayLedger (approval_replay.py), the check of an approver's   *)
(* authority (approval_authority.py) and of a signed statement             *)
(* (approval_signature.py).                                                *)
(*                                                                         *)
(* The variable authorizations belongs to the policy layer; resolvers are  *)
(* threads or processes that run resolve over the same replay ledger.      *)
(* Times are the callers' arguments.  Signatures are genuine: a statement  *)
(* exists only if its approver signed it.                                  *)
(***************************************************************************)
EXTENDS Integers, FiniteSets

CONSTANTS Principal,       \* human principals
          Grant,           \* registered authority grants [subject, tools,
                           \*   max_risk, from, until]
          TrustedKey,      \* active keys of the trust bundle [principal,
                           \*   from, until]
          PolicyMinimum, HighMinimum, CriticalMinimum, \* escalation policy
          RequirementLife, \* max_requirement_lifetime_seconds
          StatementLife,   \* longest validity of a statement
          MaxPackage,      \* statements in a signed package
          ApprovalTime,    \* timestamps callers use
          Resolver,        \* concurrent callers of resolve
          MaxRequirements, \* bound: requirements built
          MaxStatements    \* bound: statements signed

ASSUME ApprovalAssumption ==
  /\ PolicyMinimum \in 1 .. 5 /\ HighMinimum \in 1 .. 5
  /\ CriticalMinimum \in 1 .. 5 /\ HighMinimum <= CriticalMinimum
  /\ RequirementLife \in Nat \ {0} /\ StatementLife \in Nat \ {0}
  /\ ApprovalTime \subseteq Nat /\ IsFiniteSet(Principal)
  /\ MaxPackage \in Nat /\ MaxRequirements \in Nat /\ MaxStatements \in Nat
  /\ \A g \in Grant : g.from \in Nat /\ g.until \in Nat /\ g.from < g.until
  /\ \A k \in TrustedKey : k.from \in Nat /\ k.until \in Nat /\ k.from < k.until

VARIABLES authorizations, \* authenticated authorizations issued so far
          requirements,   \* requirements returned by build_requirement
          statements,     \* approval statements signed so far
          resolving,      \* what each resolver is in the middle of
          redeemed,       \* committed rows of approval_redemptions
          resolutions     \* resolutions returned after reaching the ledger

gateOwn == <<requirements, statements, resolving, redeemed, resolutions>>
approvalVars == <<authorizations, gateOwn>>

Waiting == [step |-> "waiting"]
RiskOrder == [low |-> 0, high |-> 2, critical |-> 3]

-----------------------------------------------------------------------------
(* Requirements *)

\* The minimums that apply to a; with none of them a needs no approval.
Minimums(a) ==
  (IF a.decision = "REQUIRE_HUMAN_APPROVAL" THEN {PolicyMinimum} ELSE {})
    \cup (IF a.request.risk = "high" THEN {HighMinimum} ELSE {})
    \cup (IF a.request.risk = "critical" THEN {CriticalMinimum} ELSE {})

\* Mutant: the weakest of the minimums.
WeakestMinimum(a, m) == m \in Minimums(a) /\ \A n \in Minimums(a) : m <= n

\* max(minimum, ...) over the minimums that apply.
RequiredMinimum(a, m) == m \in Minimums(a) /\ \A n \in Minimums(a) : n <= m

\* Mutant: the requirement expires a lifetime after the evaluation.
LifeFromEvaluation(a, t) == a.at + RequirementLife

ExpiryOf(a, t) == t + RequirementLife

BuildRequirement(a, t) ==
  /\ Cardinality(requirements) < MaxRequirements
  /\ a.verified /\ a.decision # "DENY"
  /\ \E m \in Minimums(a) :
       /\ RequiredMinimum(a, m)
       /\ requirements' = requirements \cup
            {[authorization |-> a, min_approvals |-> m, separated |-> TRUE,
              issued_at |-> t, expires_at |-> ExpiryOf(a, t)]}
  /\ UNCHANGED <<authorizations, statements, resolving, redeemed, resolutions>>

SignStatement(r, p, g, vote, t, e) ==
  /\ Cardinality(statements) < MaxStatements
  /\ t < e /\ e <= t + StatementLife
  /\ statements' = statements \cup
       {[requirement |-> r, approver |-> p, grant |-> g, vote |-> vote,
         issued_at |-> t, expires_at |-> e]}
  /\ UNCHANGED <<authorizations, requirements, resolving, redeemed, resolutions>>

-----------------------------------------------------------------------------
(* Resolution *)

\* Mutant: the key is checked, the statement's own expiry is not.
KeyValid(st, now) ==
  \E k \in TrustedKey : /\ k.principal = st.approver
                        /\ k.from <= st.issued_at /\ st.issued_at < k.until
                        /\ k.from <= now /\ now < k.until

\* verify_signed_approval: the statement is live and its key was and is valid.
SignatureValid(st, now) ==
  /\ st.issued_at <= now /\ now < st.expires_at
  /\ \E k \in TrustedKey :
       /\ k.principal = st.approver
       /\ k.from <= st.issued_at /\ st.issued_at < k.until
       /\ k.from <= now /\ now < k.until

\* authorize_approver: the grant is the approver's, is valid now, covers the
\* request, and the approver is not the one who asks.
ApproverAuthorized(st, r, now) ==
  LET q == r.authorization.request
      g == st.grant
  IN /\ g \in Grant
     /\ g.subject = st.approver
     /\ g.from <= now /\ now < g.until
     /\ q.tool \in g.tools
     /\ RiskOrder[q.risk] <= RiskOrder[g.max_risk]
     /\ r.separated => st.approver # q.owner

\* Every statement of the package counts, or the whole package is rejected.
PackageValid(r, P, now) ==
  /\ \A st \in P : /\ SignatureValid(st, now)
                   /\ st.requirement = r
                   /\ ApproverAuthorized(st, r, now)
  /\ \A s, t \in P : s.approver = t.approver => s = t

Voters(P, vote) == {st.approver : st \in {s \in P : s.vote = vote}}

Terminal(r, P) == \/ Voters(P, "DENY") # {}
                  \/ Cardinality(Voters(P, "APPROVE")) >= r.min_approvals

\* resolve up to the ledger.  A package that is not valid or not terminal is
\* answered with a resolution that consumes nothing and permits nothing.  The code
\* takes any requirement it is handed; the model, those build_requirement returned.
ResolveStart(w, r, P, t) ==
  LET a == r.authorization
  IN /\ resolving[w] = Waiting
     /\ Cardinality(P) <= MaxPackage
     /\ a \in authorizations
     /\ a.verified /\ a.decision # "DENY"
     /\ r.issued_at <= t /\ t < r.expires_at
     /\ PackageValid(r, P, t)
     /\ Terminal(r, P)
     /\ resolving' = [resolving EXCEPT ![w] =
          [step |-> "terminal", requirement |-> r, package |-> P, at |-> t]]
     /\ UNCHANGED <<authorizations, requirements, statements, redeemed, resolutions>>

\* Mutant: the approval package is the key, the requirement is not.
NewPackage(w) == \A row \in redeemed : row.package # resolving[w].package

\* requirement_digest is the primary key; approval_package_digest is UNIQUE, which
\* adds nothing, since a package contains its requirement.
Redeemable(w) == \A row \in redeemed : row.requirement # resolving[w].requirement

\* The INSERT commits.
ReplayConsume(w) ==
  /\ resolving[w].step = "terminal"
  /\ Redeemable(w)
  /\ redeemed' = redeemed \cup {[requirement |-> resolving[w].requirement,
                                 package |-> resolving[w].package,
                                 at |-> resolving[w].at]}
  /\ resolving' = [resolving EXCEPT ![w].step = "consumed"]
  /\ UNCHANGED <<authorizations, requirements, statements, resolutions>>

\* The ApprovalResolution for what w holds.
ResolutionOf(w, consumed) ==
  LET P == resolving[w].package
  IN [requirement |-> resolving[w].requirement, package |-> P,
      satisfied |-> consumed /\ Voters(P, "DENY") = {}, consumed |-> consumed,
      approved_by |-> Voters(P, "APPROVE"), denied_by |-> Voters(P, "DENY"),
      at |-> resolving[w].at]

\* The INSERT fails on a key: approval_requirement_already_redeemed.
ReplayRefuse(w) ==
  /\ resolving[w].step = "terminal"
  /\ ~Redeemable(w)
  /\ resolutions' = resolutions \cup {ResolutionOf(w, FALSE)}
  /\ resolving' = [resolving EXCEPT ![w] = Waiting]
  /\ UNCHANGED <<authorizations, requirements, statements, redeemed>>

ResolveReturn(w) ==
  /\ resolving[w].step = "consumed"
  /\ resolutions' = resolutions \cup {ResolutionOf(w, TRUE)}
  /\ resolving' = [resolving EXCEPT ![w] = Waiting]
  /\ UNCHANGED <<authorizations, requirements, statements, redeemed>>

\* The resolver's process dies, or the database stays locked and consume raises:
\* the call never returns, and a committed row stays.
ResolverDies(w) ==
  /\ resolving[w] # Waiting
  /\ resolving' = [resolving EXCEPT ![w] = Waiting]
  /\ UNCHANGED <<authorizations, requirements, statements, redeemed, resolutions>>

-----------------------------------------------------------------------------
ApprovalInit ==
  /\ authorizations = {} /\ requirements = {} /\ statements = {}
  /\ redeemed = {} /\ resolutions = {}
  /\ resolving = [w \in Resolver |-> Waiting]

ResolverStep(w) ==
  \/ \E r \in requirements, P \in SUBSET statements, t \in ApprovalTime :
        ResolveStart(w, r, P, t)
  \/ ReplayConsume(w) \/ ReplayRefuse(w) \/ ResolveReturn(w) \/ ResolverDies(w)

\* Every step of the gate, its callers and its approvers.
GateNext ==
  \/ \E a \in authorizations, t \in ApprovalTime : BuildRequirement(a, t)
  \/ \E r \in requirements, p \in Principal, g \in Grant,
        vote \in {"APPROVE", "DENY"}, t, e \in ApprovalTime :
        SignStatement(r, p, g, vote, t, e)
  \/ \E w \in Resolver : ResolverStep(w)

\* The policy layer issues authorizations in steps of its own.
PolicyIssues(A) == \E a \in A : /\ authorizations' = authorizations \cup {a}
                                /\ UNCHANGED gateOwn

\* What the gate guarantees whatever the policy layer does: authorizations only
\* grows, and never in a step of the gate.
ApprovalSpec ==
  ApprovalInit /\ [][GateNext \/ (/\ authorizations \subseteq authorizations'
                                  /\ UNCHANGED gateOwn)]_approvalVars

-----------------------------------------------------------------------------
(* Properties *)

Continues(res) == res.satisfied /\ res.consumed /\ res.denied_by = {}

\* Artifacts refer to artifacts that exist, and a resolver that works on a
\* package holds a requirement the gate built.
ApprovalTypeOK ==
  /\ \A r \in requirements : /\ r.authorization \in authorizations
                             /\ r.min_approvals \in 1 .. 5
                             /\ r.issued_at \in ApprovalTime
                             /\ r.expires_at = r.issued_at + RequirementLife
  /\ \A st \in statements : /\ st.requirement \in requirements
                            /\ st.approver \in Principal /\ st.grant \in Grant
                            /\ st.vote \in {"APPROVE", "DENY"}
  /\ DOMAIN resolving = Resolver
  /\ \A w \in Resolver :
       \/ resolving[w] = Waiting
       \/ resolving[w] \in [step : {"terminal", "consumed"},
                            requirement : requirements,
                            package : SUBSET statements, at : ApprovalTime]
  /\ \A row \in redeemed : row.requirement \in requirements
                           /\ row.package \subseteq statements
  /\ \A res \in resolutions : res.requirement \in requirements
                              /\ res.package \subseteq statements

\* A requirement is resolved once and for all: of all the resolutions of one
\* requirement, from any resolvers, packages and times, at most one consumed it,
\* it is the one the ledger recorded, and if it is a denial no other resolution
\* of the requirement ever permits the action.
OneVerdictPerRequirement ==
  /\ \A x, y \in resolutions :
       x.requirement = y.requirement /\ x.consumed /\ y.consumed => x = y
  /\ \A x \in resolutions : x.consumed =>
       \E row \in redeemed : row.requirement = x.requirement
                             /\ row.package = x.package /\ row.at = x.at
  /\ \A x \in resolutions : Continues(x) => x.consumed
  /\ \A row, row2 \in redeemed : row.requirement = row2.requirement => row = row2

\* A requirement is a token of the replay ledger, the package and time recorded for
\* it the entry, a resolution that consumed it the answer.
EntryOf(v) == [package |-> v.package, at |-> v.at]
replayRows == {[token |-> row.requirement, entry |-> EntryOf(row)] : row \in redeemed}
replayAnswers == {[token |-> x.requirement, entry |-> EntryOf(x), answer |-> x] :
                    x \in {y \in resolutions : y.consumed}}

ReplayLedger == INSTANCE OneTimeLedger WITH spent <- replayRows, told <- replayAnswers

\* The replay ledger is a one-time ledger: the package that was recorded for a
\* requirement, and no other, is answered as the one that consumed it, once.
RequirementsAreOneTime == ReplayLedger!OneTimeSpec

\* A resolution that permits the action has been earned: enough distinct people
\* with authority over this tool and risk, none of them the requester and none
\* of them voting against, signed for this very requirement, inside its window,
\* and their keys and grants were valid when it was resolved.
ContinuationIsEarned ==
  \A x \in resolutions : Continues(x) =>
    LET r == x.requirement
        q == r.authorization.request
    IN /\ r.issued_at <= x.at /\ x.at < r.expires_at
       /\ r.authorization.verified /\ r.authorization.decision # "DENY"
       /\ Cardinality(x.approved_by) >= r.min_approvals
       /\ q.owner \notin x.approved_by
       /\ \A p \in x.approved_by :
            \E st \in statements :
              /\ st.requirement = r /\ st.approver = p /\ st.vote = "APPROVE"
              /\ st.issued_at <= x.at /\ x.at < st.expires_at
              /\ st.grant.from <= x.at /\ x.at < st.grant.until
              /\ q.tool \in st.grant.tools
              /\ RiskOrder[q.risk] <= RiskOrder[st.grant.max_risk]
              /\ \E k \in TrustedKey : /\ k.principal = p
                                      /\ k.from <= x.at /\ x.at < k.until

\* The weight of the approval follows the risk: a critical request never
\* continues on fewer approvals than the critical minimum, a high one on fewer
\* than the high minimum, whatever the policy decision.
QuorumFollowsRisk ==
  \A x \in resolutions : Continues(x) =>
    LET a == x.requirement.authorization
        n == Cardinality(x.approved_by)
    IN /\ a.request.risk = "critical" => n >= CriticalMinimum
       /\ a.request.risk = "high" => n >= HighMinimum
       /\ a.decision = "REQUIRE_HUMAN_APPROVAL" => n >= PolicyMinimum

\* What docs/APPROVALS.md:114 says: "To retry after a denial, the caller must
\* obtain a new approval requirement through a new governed decision flow."
\* build_requirement asks for no new decision: a second requirement on the same
\* authorization, issued at another second, can still be approved.
DenialEndsTheDecision ==
  \A x, y \in resolutions :
    x.requirement.authorization = y.requirement.authorization
      /\ x.consumed /\ x.denied_by # {} /\ x.at <= y.requirement.issued_at
      => ~Continues(y)
=============================================================================
