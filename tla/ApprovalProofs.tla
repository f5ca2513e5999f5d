--------------------------- MODULE ApprovalProofs ---------------------------
(***************************************************************************)
(* The approval gate is safe for any people, grants, keys, minimums and    *)
(* number of concurrent resolvers, some of which die, and whatever the     *)
(* policy layer authorizes meanwhile.                                      *)
(***************************************************************************)
EXTENDS ApprovalGate, FiniteSetTheorems, TLAPS

\* A requirement asks for every minimum that applies and keeps the requester out.
RequirementSound(r) ==
  /\ r.authorization.verified /\ r.authorization.decision # "DENY"
  /\ \A n \in Minimums(r.authorization) : n <= r.min_approvals
  /\ r.separated

\* What resolve established about a package before it went to the ledger.
PackageChecked(r, P, at) ==
  /\ r.issued_at <= at /\ at < r.expires_at
  /\ PackageValid(r, P, at)
  /\ Terminal(r, P)

\* What a resolution says of itself.
ResolutionSound(x) ==
  /\ x.consumed \in BOOLEAN
  /\ x.satisfied => x.consumed
  /\ x.approved_by = Voters(x.package, "APPROVE")
  /\ x.denied_by = Voters(x.package, "DENY")
  /\ PackageChecked(x.requirement, x.package, x.at)

\* The row of a requirement is held by the resolver that committed it or by the
\* resolution that was returned for it, or by nobody if the resolver died.
RowHeldOnce ==
  /\ \A row, row2 \in redeemed : row.requirement = row2.requirement => row = row2
  /\ \A x, y \in resolutions :
       x.requirement = y.requirement /\ x.consumed /\ y.consumed => x = y
  /\ \A x \in resolutions : x.consumed =>
       \E row \in redeemed : row.requirement = x.requirement
                             /\ row.package = x.package /\ row.at = x.at
  /\ \A w \in Resolver : resolving[w].step = "consumed" =>
       /\ \E row \in redeemed : row.requirement = resolving[w].requirement
                                /\ row.package = resolving[w].package
                                /\ row.at = resolving[w].at
       /\ \A x \in resolutions :
            x.consumed => x.requirement # resolving[w].requirement
       /\ \A v \in Resolver : resolving[v].step = "consumed" /\ v # w =>
            resolving[v].requirement # resolving[w].requirement

\* The inductive invariant.
ApprovalInv ==
  /\ ApprovalTypeOK
  /\ \A r \in requirements : RequirementSound(r)
  /\ \A x \in resolutions : ResolutionSound(x)
  /\ \A w \in Resolver : resolving[w].step # "waiting" =>
       PackageChecked(resolving[w].requirement, resolving[w].package, resolving[w].at)
  /\ RowHeldOnce

-----------------------------------------------------------------------------
LEMMA ResolvingStep ==
  ASSUME DOMAIN resolving = Resolver, NEW w \in Resolver, NEW x,
         resolving' = [resolving EXCEPT ![w] = x]
  PROVE  /\ DOMAIN resolving' = Resolver
         /\ resolving'[w] = x
         /\ \A v \in Resolver : v # w => resolving'[v] = resolving[v]
OBVIOUS

LEMMA ApprovalInitInv == ApprovalInit => ApprovalInv
BY DEF ApprovalInit, Waiting, ApprovalInv, ApprovalTypeOK, RowHeldOnce

LEMMA BuildRequirementInv ==
  ASSUME ApprovalInv, NEW a \in authorizations, NEW t \in ApprovalTime,
         BuildRequirement(a, t)
  PROVE  ApprovalInv'
<1>1. PICK m \in Minimums(a) :
        /\ \A n \in Minimums(a) : n <= m
        /\ requirements' = requirements \cup
             {[authorization |-> a, min_approvals |-> m, separated |-> TRUE,
               issued_at |-> t, expires_at |-> t + RequirementLife]}
  BY DEF BuildRequirement, RequiredMinimum, ExpiryOf
<1> DEFINE r == [authorization |-> a, min_approvals |-> m, separated |-> TRUE,
                 issued_at |-> t, expires_at |-> t + RequirementLife]
<1>2. UNCHANGED <<authorizations, statements, resolving, redeemed, resolutions>>
      /\ a.verified /\ a.decision # "DENY"
  BY DEF BuildRequirement
<1>3. m \in 1 .. 5 BY ApprovalAssumption DEF Minimums
<1>4. /\ r.authorization = a /\ r.min_approvals = m /\ r.separated
      /\ r.issued_at = t /\ r.expires_at = t + RequirementLife
  OBVIOUS
<1>5. requirements' = requirements \cup {r} BY <1>1
<1> HIDE DEF r
<1>6. RequirementSound(r) BY <1>1, <1>2, <1>4 DEF RequirementSound
<1>7. ApprovalTypeOK' BY <1>2, <1>3, <1>4, <1>5 DEF ApprovalInv, ApprovalTypeOK
<1>8. RowHeldOnce' BY <1>2 DEF ApprovalInv, RowHeldOnce
<1> QED BY <1>2, <1>5, <1>6, <1>7, <1>8 DEF ApprovalInv

LEMMA SignStatementInv ==
  ASSUME ApprovalInv, NEW r \in requirements, NEW p \in Principal, NEW g \in Grant,
         NEW vote \in {"APPROVE", "DENY"}, NEW t \in ApprovalTime,
         NEW e \in ApprovalTime, SignStatement(r, p, g, vote, t, e)
  PROVE  ApprovalInv'
<1> DEFINE st == [requirement |-> r, approver |-> p, grant |-> g, vote |-> vote,
                  issued_at |-> t, expires_at |-> e]
<1>1. /\ statements' = statements \cup {st}
      /\ UNCHANGED <<authorizations, requirements, resolving, redeemed, resolutions>>
  BY DEF SignStatement
<1>2. ApprovalTypeOK' BY <1>1 DEF ApprovalInv, ApprovalTypeOK
<1>3. RowHeldOnce' BY <1>1 DEF ApprovalInv, RowHeldOnce
<1> QED BY <1>1, <1>2, <1>3 DEF ApprovalInv

LEMMA ResolveStartInv ==
  ASSUME ApprovalInv, NEW w \in Resolver, NEW r \in requirements,
         NEW P \in SUBSET statements, NEW t \in ApprovalTime,
         ResolveStart(w, r, P, t)
  PROVE  ApprovalInv'
<1> DEFINE x == [step |-> "terminal", requirement |-> r, package |-> P, at |-> t]
<1>1. /\ resolving' = [resolving EXCEPT ![w] = x]
      /\ UNCHANGED <<authorizations, requirements, statements, redeemed, resolutions>>
  BY DEF ResolveStart
<1>2. PackageChecked(r, P, t) BY DEF ResolveStart, PackageChecked
<1>3. /\ x.step = "terminal" /\ x.requirement = r /\ x.package = P /\ x.at = t
      /\ x \in [step : {"terminal", "consumed"}, requirement : requirements,
                package : SUBSET statements, at : ApprovalTime]
  OBVIOUS
<1> HIDE DEF x
<1>4. /\ DOMAIN resolving' = Resolver /\ resolving'[w] = x
      /\ \A v \in Resolver : v # w => resolving'[v] = resolving[v]
  BY <1>1, ResolvingStep DEF ApprovalInv, ApprovalTypeOK
<1>5. ApprovalTypeOK' BY <1>1, <1>3, <1>4 DEF ApprovalInv, ApprovalTypeOK
<1>6. RowHeldOnce' BY <1>1, <1>3, <1>4 DEF ApprovalInv, RowHeldOnce
<1> QED BY <1>1, <1>2, <1>3, <1>4, <1>5, <1>6 DEF ApprovalInv

LEMMA ReplayConsumeInv ==
  ASSUME ApprovalInv, NEW w \in Resolver, ReplayConsume(w)
  PROVE  ApprovalInv'
<1> DEFINE x == [resolving[w] EXCEPT !.step = "consumed"]
           row == [requirement |-> resolving[w].requirement,
                   package |-> resolving[w].package, at |-> resolving[w].at]
<1>1. /\ resolving[w].step = "terminal"
      /\ \A old \in redeemed : old.requirement # resolving[w].requirement
      /\ redeemed' = redeemed \cup {row}
      /\ resolving' = [resolving EXCEPT ![w] = x]
      /\ UNCHANGED <<authorizations, requirements, statements, resolutions>>
  BY DEF ReplayConsume, Redeemable
<1>2. resolving[w] \in [step : {"terminal", "consumed"}, requirement : requirements,
                        package : SUBSET statements, at : ApprovalTime]
  BY <1>1 DEF ApprovalInv, ApprovalTypeOK, Waiting
<1>3. /\ x.step = "consumed" /\ x.requirement = resolving[w].requirement
      /\ x.package = resolving[w].package /\ x.at = resolving[w].at
      /\ x \in [step : {"terminal", "consumed"}, requirement : requirements,
                package : SUBSET statements, at : ApprovalTime]
  BY <1>2
<1>4. /\ row.requirement = x.requirement /\ row.package = x.package
      /\ row.at = x.at /\ row.requirement \in requirements
      /\ row.package \subseteq statements
  BY <1>2, <1>3
<1> HIDE DEF x, row
<1>5. /\ DOMAIN resolving' = Resolver /\ resolving'[w] = x
      /\ \A v \in Resolver : v # w => resolving'[v] = resolving[v]
  BY <1>1, ResolvingStep DEF ApprovalInv, ApprovalTypeOK
<1>6. ApprovalTypeOK' BY <1>1, <1>3, <1>4, <1>5 DEF ApprovalInv, ApprovalTypeOK
<1>7. RowHeldOnce'
  <2>1. \A y \in resolutions : y.consumed => y.requirement # x.requirement
    BY <1>1, <1>3 DEF ApprovalInv, RowHeldOnce
  <2>2. \A v \in Resolver : resolving[v].step = "consumed" =>
          resolving[v].requirement # x.requirement
    BY <1>1, <1>3 DEF ApprovalInv, RowHeldOnce
  <2>3. \A a, b \in redeemed' : a.requirement = b.requirement => a = b
    BY <1>1, <1>3, <1>4 DEF ApprovalInv, RowHeldOnce
  <2>4. \A y \in resolutions' : y.consumed =>
          \E a \in redeemed' : a.requirement = y.requirement
                               /\ a.package = y.package /\ a.at = y.at
    BY <1>1 DEF ApprovalInv, RowHeldOnce
  <2>5. ASSUME NEW v \in Resolver, resolving'[v].step = "consumed"
        PROVE  /\ \E a \in redeemed' : a.requirement = resolving'[v].requirement
                                       /\ a.package = resolving'[v].package
                                       /\ a.at = resolving'[v].at
               /\ \A y \in resolutions' :
                    y.consumed => y.requirement # resolving'[v].requirement
               /\ \A u \in Resolver : resolving'[u].step = "consumed" /\ u # v =>
                    resolving'[u].requirement # resolving'[v].requirement
    <3>1. CASE v = w BY <1>1, <1>4, <1>5, <2>1, <2>2, <3>1
    <3>2. CASE v # w
      BY <1>1, <1>3, <1>5, <2>2, <2>5, <3>2 DEF ApprovalInv, RowHeldOnce
    <3> QED BY <3>1, <3>2
  <2> QED BY <1>1, <2>3, <2>4, <2>5 DEF ApprovalInv, RowHeldOnce
<1> QED BY <1>1, <1>3, <1>5, <1>6, <1>7 DEF ApprovalInv

\* A resolver that returns, or dies, leaves the others as they were.
LEMMA ResolverLeaves ==
  ASSUME DOMAIN resolving = Resolver, NEW w \in Resolver,
         resolving' = [resolving EXCEPT ![w] = Waiting]
  PROVE  /\ DOMAIN resolving' = Resolver
         /\ resolving'[w] = Waiting /\ resolving'[w].step = "waiting"
         /\ \A v \in Resolver : v # w => resolving'[v] = resolving[v]
BY ResolvingStep DEF Waiting

LEMMA ReplayRefuseInv ==
  ASSUME ApprovalInv, NEW w \in Resolver, ReplayRefuse(w)
  PROVE  ApprovalInv'
<1> DEFINE x == ResolutionOf(w, FALSE)
<1>1. /\ resolving[w].step = "terminal" /\ resolutions' = resolutions \cup {x}
      /\ resolving' = [resolving EXCEPT ![w] = Waiting]
      /\ UNCHANGED <<authorizations, requirements, statements, redeemed>>
  BY DEF ReplayRefuse
<1>2. resolving[w] \in [step : {"terminal", "consumed"}, requirement : requirements,
                        package : SUBSET statements, at : ApprovalTime]
  BY <1>1 DEF ApprovalInv, ApprovalTypeOK, Waiting
<1>3. /\ x.consumed = FALSE /\ x.satisfied = FALSE
      /\ x.requirement = resolving[w].requirement
      /\ x.package = resolving[w].package /\ x.at = resolving[w].at
      /\ x.approved_by = Voters(x.package, "APPROVE")
      /\ x.denied_by = Voters(x.package, "DENY")
  BY DEF ResolutionOf
<1> HIDE DEF x
<1>4. ResolutionSound(x) BY <1>1, <1>3 DEF ApprovalInv, ResolutionSound
<1>5. /\ DOMAIN resolving' = Resolver
      /\ resolving'[w] = Waiting /\ resolving'[w].step = "waiting"
      /\ \A v \in Resolver : v # w => resolving'[v] = resolving[v]
  BY <1>1, ResolverLeaves DEF ApprovalInv, ApprovalTypeOK
<1>6. ApprovalTypeOK' BY <1>1, <1>2, <1>3, <1>5 DEF ApprovalInv, ApprovalTypeOK
<1>7. RowHeldOnce' BY <1>1, <1>3, <1>5 DEF ApprovalInv, RowHeldOnce
<1> QED BY <1>1, <1>4, <1>5, <1>6, <1>7 DEF ApprovalInv

LEMMA ResolveReturnInv ==
  ASSUME ApprovalInv, NEW w \in Resolver, ResolveReturn(w)
  PROVE  ApprovalInv'
<1> DEFINE x == ResolutionOf(w, TRUE)
<1>1. /\ resolving[w].step = "consumed" /\ resolutions' = resolutions \cup {x}
      /\ resolving' = [resolving EXCEPT ![w] = Waiting]
      /\ UNCHANGED <<authorizations, requirements, statements, redeemed>>
  BY DEF ResolveReturn
<1>2. resolving[w] \in [step : {"terminal", "consumed"}, requirement : requirements,
                        package : SUBSET statements, at : ApprovalTime]
  BY <1>1 DEF ApprovalInv, ApprovalTypeOK, Waiting
<1>3. /\ x.consumed = TRUE
      /\ x.requirement = resolving[w].requirement
      /\ x.package = resolving[w].package /\ x.at = resolving[w].at
      /\ x.approved_by = Voters(x.package, "APPROVE")
      /\ x.denied_by = Voters(x.package, "DENY")
  BY DEF ResolutionOf
<1> HIDE DEF x
<1>4. ResolutionSound(x) BY <1>1, <1>3 DEF ApprovalInv, ResolutionSound
<1>5. /\ DOMAIN resolving' = Resolver
      /\ resolving'[w] = Waiting /\ resolving'[w].step = "waiting"
      /\ \A v \in Resolver : v # w => resolving'[v] = resolving[v]
  BY <1>1, ResolverLeaves DEF ApprovalInv, ApprovalTypeOK
<1>6. ApprovalTypeOK' BY <1>1, <1>2, <1>3, <1>5 DEF ApprovalInv, ApprovalTypeOK
<1>7. RowHeldOnce'
  <2>1. /\ \A y \in resolutions : y.consumed => y.requirement # x.requirement
        /\ \A v \in Resolver : resolving[v].step = "consumed" /\ v # w =>
             resolving[v].requirement # x.requirement
        /\ \E row \in redeemed : row.requirement = x.requirement
                                 /\ row.package = x.package /\ row.at = x.at
    BY <1>1, <1>3 DEF ApprovalInv, RowHeldOnce
  <2>2. \A y, z \in resolutions' :
          y.requirement = z.requirement /\ y.consumed /\ z.consumed => y = z
    BY <1>1, <2>1 DEF ApprovalInv, RowHeldOnce
  <2>3. \A y \in resolutions' : y.consumed =>
          \E row \in redeemed' : row.requirement = y.requirement
                                 /\ row.package = y.package /\ row.at = y.at
    BY <1>1, <2>1 DEF ApprovalInv, RowHeldOnce
  <2>4. ASSUME NEW v \in Resolver, resolving'[v].step = "consumed"
        PROVE  v # w /\ resolving'[v] = resolving[v]
    BY <1>5, <2>4
  <2>5. \A v \in Resolver : resolving'[v].step = "consumed" =>
          /\ \E row \in redeemed' : row.requirement = resolving'[v].requirement
                                    /\ row.package = resolving'[v].package
                                    /\ row.at = resolving'[v].at
          /\ \A y \in resolutions' :
               y.consumed => y.requirement # resolving'[v].requirement
          /\ \A u \in Resolver : resolving'[u].step = "consumed" /\ u # v =>
               resolving'[u].requirement # resolving'[v].requirement
    BY <1>1, <2>1, <2>4 DEF ApprovalInv, RowHeldOnce
  <2> QED BY <1>1, <2>2, <2>3, <2>5 DEF ApprovalInv, RowHeldOnce
<1> QED BY <1>1, <1>4, <1>5, <1>6, <1>7 DEF ApprovalInv

LEMMA ResolverDiesInv ==
  ASSUME ApprovalInv, NEW w \in Resolver, ResolverDies(w)
  PROVE  ApprovalInv'
<1>1. /\ resolving' = [resolving EXCEPT ![w] = Waiting]
      /\ UNCHANGED <<authorizations, requirements, statements, redeemed, resolutions>>
  BY DEF ResolverDies
<1>2. /\ DOMAIN resolving' = Resolver
      /\ resolving'[w] = Waiting /\ resolving'[w].step = "waiting"
      /\ \A v \in Resolver : v # w => resolving'[v] = resolving[v]
  BY <1>1, ResolverLeaves DEF ApprovalInv, ApprovalTypeOK
<1>3. ApprovalTypeOK' BY <1>1, <1>2 DEF ApprovalInv, ApprovalTypeOK
<1>4. RowHeldOnce' BY <1>1, <1>2 DEF ApprovalInv, RowHeldOnce
<1> QED BY <1>1, <1>2, <1>3, <1>4 DEF ApprovalInv

LEMMA PolicyStepInv ==
  ASSUME ApprovalInv, authorizations \subseteq authorizations', UNCHANGED gateOwn
  PROVE  ApprovalInv'
<1>1. ApprovalTypeOK' BY DEF gateOwn, ApprovalInv, ApprovalTypeOK
<1>2. RowHeldOnce' BY DEF gateOwn, ApprovalInv, RowHeldOnce
<1> QED BY <1>1, <1>2 DEF gateOwn, ApprovalInv

LEMMA ApprovalStepInv ==
  ApprovalInv /\ [GateNext \/ (/\ authorizations \subseteq authorizations'
                               /\ UNCHANGED gateOwn)]_approvalVars
    => ApprovalInv'
<1> SUFFICES ASSUME ApprovalInv,
                    [GateNext \/ (/\ authorizations \subseteq authorizations'
                                  /\ UNCHANGED gateOwn)]_approvalVars
             PROVE  ApprovalInv'
  OBVIOUS
<1>1. CASE \E a \in authorizations, t \in ApprovalTime : BuildRequirement(a, t)
  BY <1>1, BuildRequirementInv
<1>2. CASE \E r \in requirements, p \in Principal, g \in Grant,
             vote \in {"APPROVE", "DENY"}, t, e \in ApprovalTime :
             SignStatement(r, p, g, vote, t, e)
  BY <1>2, SignStatementInv
<1>3. CASE \E w \in Resolver : ResolverStep(w)
  BY <1>3, ResolveStartInv, ReplayConsumeInv, ReplayRefuseInv, ResolveReturnInv,
     ResolverDiesInv DEF ResolverStep
<1>4. CASE authorizations \subseteq authorizations' /\ UNCHANGED gateOwn
  BY <1>4, PolicyStepInv
<1>5. CASE UNCHANGED approvalVars BY <1>5, PolicyStepInv DEF approvalVars
<1> QED BY <1>1, <1>2, <1>3, <1>4, <1>5 DEF GateNext

LEMMA AlwaysApprovalInv == ApprovalSpec => []ApprovalInv
BY ApprovalInitInv, ApprovalStepInv, PTL DEF ApprovalSpec

-----------------------------------------------------------------------------
\* Type correctness of the gate.
THEOREM ApprovalTypeCorrect == ApprovalSpec => []ApprovalTypeOK
<1>1. ApprovalInv => ApprovalTypeOK BY DEF ApprovalInv
<1> QED BY <1>1, AlwaysApprovalInv, PTL

\* A requirement is resolved once, however many resolvers race and die.
THEOREM OneVerdict == ApprovalSpec => []OneVerdictPerRequirement
<1>1. ApprovalInv => OneVerdictPerRequirement
  BY DEF ApprovalInv, RowHeldOnce, OneVerdictPerRequirement, Continues
<1> QED BY <1>1, AlwaysApprovalInv, PTL

-----------------------------------------------------------------------------
(* The replay ledger is a one-time ledger *)

LEMMA ReplayStutters ==
  ASSUME UNCHANGED <<redeemed, resolutions>>
  PROVE  UNCHANGED <<replayRows, replayAnswers>>
BY DEF replayRows, replayAnswers

\* The INSERT spends a requirement that no row names yet.
LEMMA ConsumeSpends ==
  ASSUME NEW w \in Resolver, ReplayConsume(w)
  PROVE  ReplayLedger!OneTimeNext
<1> DEFINE new == [requirement |-> resolving[w].requirement,
                   package |-> resolving[w].package, at |-> resolving[w].at]
           x == [token |-> new.requirement, entry |-> EntryOf(new)]
<1>1. /\ \A row \in redeemed : row.requirement # new.requirement
      /\ redeemed' = redeemed \cup {new} /\ resolutions' = resolutions
  BY DEF ReplayConsume, Redeemable
<1> HIDE DEF new
<1>2. replayRows' = replayRows \cup {x} /\ replayAnswers' = replayAnswers
  BY <1>1 DEF replayRows, replayAnswers
<1>3. \A y \in replayRows : y.token # x.token BY <1>1 DEF replayRows
<1>4. x \in replayRows' BY <1>2
<1> HIDE DEF x
<1>5. ReplayLedger!Spend(x) BY <1>2, <1>3 DEF ReplayLedger!Spend
<1> QED BY <1>4, <1>5 DEF ReplayLedger!OneTimeNext

\* resolve returns the package that was recorded, to the resolver that recorded it.
LEMMA ResolveTells ==
  ASSUME ApprovalInv, NEW w \in Resolver, ResolveReturn(w)
  PROVE  ReplayLedger!OneTimeNext
<1> DEFINE x == ResolutionOf(w, TRUE)
           a == [token |-> x.requirement, entry |-> EntryOf(x), answer |-> x]
<1>1. /\ resolving[w].step = "consumed" /\ resolutions' = resolutions \cup {x}
      /\ redeemed' = redeemed
  BY DEF ResolveReturn
<1>2. /\ x.consumed /\ x.requirement = resolving[w].requirement
      /\ x.package = resolving[w].package /\ x.at = resolving[w].at
  BY DEF ResolutionOf
<1> HIDE DEF x
<1>3. PICK row \in redeemed : row.requirement = x.requirement
                              /\ row.package = x.package /\ row.at = x.at
  BY <1>1, <1>2 DEF ApprovalInv, RowHeldOnce
<1>4. \A y \in resolutions : y.consumed => y.requirement # x.requirement
  BY <1>1, <1>2 DEF ApprovalInv, RowHeldOnce
<1>5. replayAnswers' = replayAnswers \cup {a} /\ replayRows' = replayRows
  BY <1>1, <1>2 DEF replayAnswers, replayRows
<1>6. \A b \in replayAnswers : b.token # a.token BY <1>4 DEF replayAnswers
<1>7. \E y \in replayRows : y.token = a.token /\ y.entry = a.entry
  <2>1. [token |-> row.requirement, entry |-> EntryOf(row)] \in replayRows
    BY DEF replayRows
  <2>2. EntryOf(row) = EntryOf(x) BY <1>3 DEF EntryOf
  <2> QED BY <1>3, <2>1, <2>2
<1>8. a \in replayAnswers' BY <1>5
<1> HIDE DEF a
<1>9. ReplayLedger!Tell(a) BY <1>5, <1>6, <1>7 DEF ReplayLedger!Tell
<1> QED BY <1>8, <1>9 DEF ReplayLedger!OneTimeNext

LEMMA ReplayStep ==
  ASSUME ApprovalInv, [GateNext \/ (/\ authorizations \subseteq authorizations'
                                    /\ UNCHANGED gateOwn)]_approvalVars
  PROVE  [ReplayLedger!OneTimeNext]_<<replayRows, replayAnswers>>
<1>1. ASSUME NEW w \in Resolver, ReplayRefuse(w)
      PROVE  UNCHANGED <<replayRows, replayAnswers>>
  <2>1. /\ resolutions' = resolutions \cup {ResolutionOf(w, FALSE)}
        /\ redeemed' = redeemed /\ ~ResolutionOf(w, FALSE).consumed
    BY <1>1 DEF ReplayRefuse, ResolutionOf
  <2> QED BY <2>1 DEF replayRows, replayAnswers
<1>2. ASSUME NEW w \in Resolver, ResolverStep(w)
      PROVE  [ReplayLedger!OneTimeNext]_<<replayRows, replayAnswers>>
  <2>1. CASE ReplayConsume(w) BY <2>1, ConsumeSpends
  <2>2. CASE ReplayRefuse(w) BY <1>1, <2>2
  <2>3. CASE ResolveReturn(w) BY <2>3, ResolveTells
  <2>4. CASE ResolverDies(w) BY <2>4, ReplayStutters DEF ResolverDies
  <2>5. CASE \E r \in requirements, P \in SUBSET statements, t \in ApprovalTime :
               ResolveStart(w, r, P, t)
    BY <2>5, ReplayStutters DEF ResolveStart
  <2> QED BY <1>2, <2>1, <2>2, <2>3, <2>4, <2>5 DEF ResolverStep
<1>3. ASSUME \/ \E b \in authorizations, t \in ApprovalTime : BuildRequirement(b, t)
             \/ \E r \in requirements, p \in Principal, g \in Grant,
                   vote \in {"APPROVE", "DENY"}, t, e \in ApprovalTime :
                   SignStatement(r, p, g, vote, t, e)
             \/ UNCHANGED gateOwn
             \/ UNCHANGED approvalVars
      PROVE  UNCHANGED <<replayRows, replayAnswers>>
  BY <1>3, ReplayStutters DEF BuildRequirement, SignStatement, gateOwn, approvalVars
<1> QED BY <1>2, <1>3 DEF GateNext

\* RequirementsAreOneTime: however many resolvers race for a requirement and die on
\* the way, the replay ledger hands it out once.
THEOREM ReplayLedgerIsOneTime == ApprovalSpec => RequirementsAreOneTime
<1>1. ApprovalInit => ReplayLedger!OneTimeInit
  BY DEF ApprovalInit, ReplayLedger!OneTimeInit, replayRows, replayAnswers
<1>2. ApprovalInv /\ [GateNext \/ (/\ authorizations \subseteq authorizations'
                                   /\ UNCHANGED gateOwn)]_approvalVars
        => [ReplayLedger!OneTimeNext]_<<replayRows, replayAnswers>>
  BY ReplayStep
<1>3. ApprovalSpec => ReplayLedger!OneTimeSpec
  BY <1>1, <1>2, AlwaysApprovalInv, PTL DEF ApprovalSpec, ReplayLedger!OneTimeSpec
<1> QED BY <1>3 DEF RequirementsAreOneTime

-----------------------------------------------------------------------------
(* Permission is earned *)

\* The votes that count are of principals, so there are finitely many.
LEMMA VotersAreFinite ==
  ASSUME ApprovalTypeOK, NEW x \in resolutions, NEW vote
  PROVE  Cardinality(Voters(x.package, vote)) \in Nat
<1>1. x.package \subseteq statements BY DEF ApprovalTypeOK
<1>2. Voters(x.package, vote) \subseteq Principal
  BY <1>1 DEF Voters, ApprovalTypeOK
<1>3. IsFiniteSet(Voters(x.package, vote))
  BY <1>2, ApprovalAssumption, FS_Subset
<1> QED BY <1>3, FS_CardinalityType

\* A resolution that continues has a quorum and no denial in a checked package.
LEMMA ContinuationChecked ==
  ASSUME ApprovalInv, NEW x \in resolutions, Continues(x)
  PROVE  /\ x.requirement \in requirements
         /\ PackageChecked(x.requirement, x.package, x.at)
         /\ x.approved_by = Voters(x.package, "APPROVE")
         /\ Cardinality(x.approved_by) \in Nat
         /\ x.requirement.min_approvals \in 1 .. 5
         /\ Cardinality(x.approved_by) >= x.requirement.min_approvals
<1>1. ResolutionSound(x) /\ x.requirement \in requirements
      /\ x.requirement.min_approvals \in 1 .. 5
  BY DEF ApprovalInv, ApprovalTypeOK
<1>2. Voters(x.package, "DENY") = {} BY <1>1 DEF Continues, ResolutionSound
<1>3. Cardinality(Voters(x.package, "APPROVE")) >= x.requirement.min_approvals
  BY <1>1, <1>2 DEF ResolutionSound, PackageChecked, Terminal
<1>4. Cardinality(Voters(x.package, "APPROVE")) \in Nat
  BY VotersAreFinite DEF ApprovalInv
<1> QED BY <1>1, <1>3, <1>4 DEF ResolutionSound

LEMMA ContinuationEarned == ApprovalInv => ContinuationIsEarned
<1> SUFFICES ASSUME ApprovalInv, NEW x \in resolutions, Continues(x)
             PROVE  LET r == x.requirement
                        q == r.authorization.request
                    IN /\ r.issued_at <= x.at /\ x.at < r.expires_at
                       /\ r.authorization.verified
                       /\ r.authorization.decision # "DENY"
                       /\ Cardinality(x.approved_by) >= r.min_approvals
                       /\ q.owner \notin x.approved_by
                       /\ \A p \in x.approved_by :
                            \E st \in statements :
                              /\ st.requirement = r /\ st.approver = p
                              /\ st.vote = "APPROVE"
                              /\ st.issued_at <= x.at /\ x.at < st.expires_at
                              /\ st.grant.from <= x.at /\ x.at < st.grant.until
                              /\ q.tool \in st.grant.tools
                              /\ RiskOrder[q.risk] <= RiskOrder[st.grant.max_risk]
                              /\ \E k \in TrustedKey : /\ k.principal = p
                                                      /\ k.from <= x.at /\ x.at < k.until
  BY DEF ContinuationIsEarned
<1> DEFINE r == x.requirement
           q == r.authorization.request
<1>1. /\ r \in requirements /\ PackageChecked(r, x.package, x.at)
      /\ x.approved_by = Voters(x.package, "APPROVE")
      /\ Cardinality(x.approved_by) >= r.min_approvals
  BY ContinuationChecked
<1>2. RequirementSound(r) BY <1>1 DEF ApprovalInv
<1>3. x.package \subseteq statements BY DEF ApprovalInv, ApprovalTypeOK
<1>4. PackageValid(r, x.package, x.at) BY <1>1 DEF PackageChecked
<1>5. ASSUME NEW p \in x.approved_by
      PROVE  \E st \in statements :
               /\ st.requirement = r /\ st.approver = p /\ st.vote = "APPROVE"
               /\ SignatureValid(st, x.at) /\ ApproverAuthorized(st, r, x.at)
  BY <1>1, <1>3, <1>4 DEF Voters, PackageValid
<1>6. q.owner \notin x.approved_by
  BY <1>2, <1>5 DEF ApproverAuthorized, RequirementSound
<1>7. \A p \in x.approved_by :
        \E st \in statements :
          /\ st.requirement = r /\ st.approver = p /\ st.vote = "APPROVE"
          /\ st.issued_at <= x.at /\ x.at < st.expires_at
          /\ st.grant.from <= x.at /\ x.at < st.grant.until
          /\ q.tool \in st.grant.tools
          /\ RiskOrder[q.risk] <= RiskOrder[st.grant.max_risk]
          /\ \E k \in TrustedKey : /\ k.principal = p
                                  /\ k.from <= x.at /\ x.at < k.until
  BY <1>5 DEF SignatureValid, ApproverAuthorized
<1> QED BY <1>1, <1>2, <1>6, <1>7 DEF PackageChecked, RequirementSound

\* Whoever grants, signs and resolves: a permitted action was approved by enough
\* distinct people entitled to, of whom the requester is none.
THEOREM ContinuationsAreEarned == ApprovalSpec => []ContinuationIsEarned
BY ContinuationEarned, AlwaysApprovalInv, PTL

\* No minimum of the escalation policy is ever undercut.
THEOREM QuorumsFollowRisk == ApprovalSpec => []QuorumFollowsRisk
<1>1. ApprovalInv => QuorumFollowsRisk
  <2> SUFFICES ASSUME ApprovalInv, NEW x \in resolutions, Continues(x),
                      NEW m \in Minimums(x.requirement.authorization)
               PROVE  Cardinality(x.approved_by) >= m
    BY DEF QuorumFollowsRisk, Minimums
  <2>1. /\ x.requirement \in requirements
        /\ Cardinality(x.approved_by) \in Nat
        /\ x.requirement.min_approvals \in 1 .. 5
        /\ Cardinality(x.approved_by) >= x.requirement.min_approvals
    BY ContinuationChecked
  <2>2. m <= x.requirement.min_approvals
    BY <2>1 DEF ApprovalInv, RequirementSound
  <2>3. m \in 1 .. 5 BY ApprovalAssumption DEF Minimums
  <2> QED BY <2>1, <2>2, <2>3
<1> QED BY <1>1, AlwaysApprovalInv, PTL
=============================================================================
