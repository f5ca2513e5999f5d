------------------------- MODULE DataGovernedProofs -------------------------
(***************************************************************************)
(* The execution boundary behind the data-purpose wrapper, for any number  *)
(* of workers, resources, profiles and declarations: no row without a      *)
(* decision on one state of the data registry, although the wrapper reads  *)
(* it without a lock, and no row for an outcome that the registry has left *)
(* behind.                                                                 *)
(***************************************************************************)
EXTENDS DataGovernedExecution, ExecutionProofs

\* The declared use u and the profile x fit the outcome o.
Fits(o, u, x) ==
  /\ u \in DataUse
  /\ x.resource = o.request.resource
  /\ DeclarationFits(o.request, u, o.at)
  /\ TermsAdmit(x.terms, o.request, u)

\* The evidence an outcome carries is a part of the data registry, fits the
\* outcome, and binds what the profile says.
EvidenceSound(o) == IsDataGoverned(o) =>
  /\ o.data.snapshot \subseteq profiles /\ o.data.profile \in o.data.snapshot
  /\ Fits(o, o.data.use, o.data.profile)
  /\ o.data.handling = HandlingFor(o.data.profile.terms, o.data.use)
  /\ o.data.secondary = (o.data.use.purpose \in o.data.profile.terms.secondary)

\* What the wrapper has established when it lets a call through: the profile and
\* the snapshot, which evaluate read one after the other, belong together.
Decided(o) ==
  /\ IsDataGoverned(o)
  /\ IsCurrentProfile(o.data.snapshot, o.request.resource, o.data.profile)

\* What a call has established so far.
CallGoverned(w) ==
  /\ guarding[w] # Outside => work[w] = Idle
  /\ \/ guarding[w] = Outside
     \/ /\ guarding[w] \in [step : {"deciding"}, outcome : outcomes,
                            use : DataUse, profile : profiles]
        /\ IsBaseOutcome(guarding[w].outcome)
        /\ Fits(guarding[w].outcome, guarding[w].use, guarding[w].profile)
     \/ /\ guarding[w] \in [step : {"compared", "passed"}, outcome : outcomes,
                            kind : {"issue", "redeem", "receipt"}]
        /\ IsDataGoverned(guarding[w].outcome)
        /\ guarding[w].step = "passed" => Decided(guarding[w].outcome)
  /\ work[w].step \in {"requested", "issuing"} => Decided(work[w].outcome)

\* The inductive invariant.
DataInv ==
  /\ ExecInv
  /\ profiles \subseteq Profile
  /\ DOMAIN guarding = Worker
  /\ \A w \in Worker : CallGoverned(w)
  /\ \A o \in outcomes : EvidenceSound(o)
  /\ \A l \in leases : Decided(l.outcome) /\ l.outcome.decision = "ALLOW"

-----------------------------------------------------------------------------
(* Steps, by what they leave alone *)

LEMMA DataInitInv == GovernedInit => DataInv
<1> SUFFICES ASSUME GovernedInit PROVE DataInv OBVIOUS
<1>1. ExecInv BY ExecInitInv DEF GovernedInit
<1>2. \A w \in Worker : guarding[w] = Outside /\ work[w].step = "idle"
  BY DEF GovernedInit, ExecInit, Idle
<1> QED BY <1>1, <1>2 DEF GovernedInit, ExecInit, DataInit, DataInv, CallGoverned

LEMMA GuardingStep ==
  ASSUME DOMAIN guarding = Worker, NEW w \in Worker, NEW x,
         guarding' = [guarding EXCEPT ![w] = x]
  PROVE  /\ DOMAIN guarding' = Worker
         /\ guarding'[w] = x
         /\ \A v \in Worker : v # w => guarding'[v] = guarding[v]
OBVIOUS

\* The wrapper moves on with one call, and nothing else happens.
LEMMA WrapperStepInv ==
  ASSUME DataInv, NEW w \in Worker, NEW x, guarding' = [guarding EXCEPT ![w] = x],
         UNCHANGED <<execVars, profiles>>,
         x # Outside => work[w] = Idle,
         \/ x = Outside
         \/ /\ x \in [step : {"deciding"}, outcome : outcomes, use : DataUse,
                      profile : profiles]
            /\ IsBaseOutcome(x.outcome) /\ Fits(x.outcome, x.use, x.profile)
         \/ /\ x \in [step : {"compared", "passed"}, outcome : outcomes,
                      kind : {"issue", "redeem", "receipt"}]
            /\ IsDataGoverned(x.outcome)
            /\ x.step = "passed" => Decided(x.outcome)
  PROVE  DataInv'
<1>1. /\ DOMAIN guarding' = Worker /\ guarding'[w] = x
      /\ \A v \in Worker : v # w => guarding'[v] = guarding[v]
  BY GuardingStep DEF DataInv
<1>2. /\ profiles' = profiles /\ outcomes' = outcomes /\ work' = work
      /\ leases' = leases
  BY DEF execVars, gateVars
<1>3. ExecInv' BY UnchangedInv DEF DataInv
<1>4. ASSUME NEW v \in Worker PROVE CallGoverned(v)'
  <2>1. CASE v = w BY <1>1, <1>2, <2>1 DEF DataInv, CallGoverned
  <2>2. CASE v # w BY <1>1, <1>2, <2>2 DEF DataInv, CallGoverned
  <2> QED BY <2>1, <2>2
<1> QED BY <1>1, <1>2, <1>3, <1>4 DEF DataInv, EvidenceSound

\* A worker is, or returns to be, outside the wrapper: it works on what was
\* decided, and adds what was decided.
LEMMA WorkerStepInv ==
  ASSUME DataInv, ExecInv', NEW w \in Worker, profiles' = profiles,
         DOMAIN guarding' = Worker, guarding'[w] = Outside,
         \A v \in Worker : v # w => guarding'[v] = guarding[v] /\ work'[v] = work[v],
         work'[w].step \in {"requested", "issuing"} => Decided(work'[w].outcome),
         outcomes \subseteq outcomes',
         \A o \in outcomes' : o \in outcomes \/ EvidenceSound(o),
         \A l \in leases' : \/ l \in leases
                            \/ Decided(l.outcome) /\ l.outcome.decision = "ALLOW"
  PROVE  DataInv'
<1>1. ASSUME NEW v \in Worker PROVE CallGoverned(v)'
  <2>1. CASE v = w BY <2>1 DEF CallGoverned
  <2>2. CASE v # w BY <2>2 DEF DataInv, CallGoverned
  <2> QED BY <2>1, <2>2
<1>2. \A o \in outcomes' : EvidenceSound(o)' BY DEF DataInv, EvidenceSound
<1> QED BY <1>1, <1>2 DEF DataInv

\* The same for a step of the wrapped objects that a worker outside the wrapper
\* takes without adding an outcome or a lease.
LEMMA InnerCallInv ==
  ASSUME DataInv, ExecInv', NEW w \in Worker, NEW x, UNCHANGED dataVars,
         guarding[w] = Outside, work' = [work EXCEPT ![w] = x],
         x.step \in {"requested", "issuing"} => Decided(x.outcome),
         UNCHANGED <<outcomes, leases>>
  PROVE  DataInv'
<1>1. /\ work'[w] = x
      /\ \A v \in Worker : v # w => work'[v] = work[v]
  BY WorkStep DEF DataInv, ExecInv, ExecTypeOK
<1> QED BY <1>1, WorkerStepInv DEF dataVars, DataInv

-----------------------------------------------------------------------------
(* Evaluation *)

\* An outcome of the wrapped enforcement point carries no data evidence.
LEMMA BaseOutcomeSound ==
  ASSUME NEW call, NEW b, NEW d, NEW v, NEW t
  PROVE  EvidenceSound(OutcomeOf(call, b, d, v, t))
BY DEF OutcomeOf, EvidenceSound, IsDataGoverned

LEMMA EvaluateDataInv ==
  ASSUME DataInv, NEW w \in Worker, guarding[w] = Outside, Evaluate(w),
         UNCHANGED dataVars
  PROVE  DataInv'
<1>1. ExecInv' BY GateStepInv DEF GateStep, DataInv
<1>2. CASE \E q \in Request : EvaluateStart(w, q)
  <2>1. PICK q \in Request : EvaluateStart(w, q) BY <1>2
  <2>2. [step |-> "evaluating", request |-> q, registry |-> registry].step
          = "evaluating"
    OBVIOUS
  <2> QED BY <1>1, <2>1, <2>2, InnerCallInv DEF EvaluateStart
<1>3. CASE EvaluateBind(w)
  <2>1. PICK b : work' = [work EXCEPT ![w] =
                   [step |-> "bound", request |-> work[w].request,
                    registry |-> work[w].registry, binding |-> b]]
    BY <1>3 DEF EvaluateBind
  <2>2. [step |-> "bound", request |-> work[w].request,
         registry |-> work[w].registry, binding |-> b].step = "bound"
    OBVIOUS
  <2> QED BY <1>1, <1>3, <2>1, <2>2, InnerCallInv DEF EvaluateBind
<1>4. ASSUME NEW o, EvidenceSound(o), outcomes' = outcomes \cup {o},
             work' = [work EXCEPT ![w] = Idle], leases' = leases
      PROVE  DataInv'
  <2>1. /\ work'[w] = Idle
        /\ \A v \in Worker : v # w => work'[v] = work[v]
    BY <1>4, WorkStep DEF DataInv, ExecInv, ExecTypeOK
  <2>2. work'[w].step = "idle" BY <2>1 DEF Idle
  <2> QED BY <1>1, <1>4, <2>1, <2>2, WorkerStepInv DEF dataVars, DataInv
<1>5. CASE \E d \in Decision, v \in BOOLEAN, t \in Time : EvaluateFinish(w, d, v, t)
  <2>1. PICK d \in Decision, v \in BOOLEAN, t \in Time : EvaluateFinish(w, d, v, t)
    BY <1>5
  <2>2. EvidenceSound(OutcomeOf(work[w], work[w].binding, d, v, t))
    BY BaseOutcomeSound
  <2> QED BY <1>4, <2>1, <2>2 DEF EvaluateFinish
<1>6. CASE \E t \in Time : EvaluateUngoverned(w, t)
  <2>1. PICK t \in Time : EvaluateUngoverned(w, t) BY <1>6
  <2>2. EvidenceSound(OutcomeOf(work[w], None, "DENY", FALSE, t))
    BY BaseOutcomeSound
  <2> QED BY <1>4, <2>1, <2>2 DEF EvaluateUngoverned
<1> QED BY <1>2, <1>3, <1>5, <1>6 DEF Evaluate

LEMMA GovernStartInv ==
  ASSUME DataInv, NEW w \in Worker, NEW o \in outcomes, NEW u \in DataUse,
         GovernStart(w, o, u)
  PROVE  DataInv'
<1>1. PICK x \in profiles :
        /\ IsCurrentProfile(profiles, o.request.resource, x)
        /\ TermsAdmit(x.terms, o.request, u)
        /\ guarding' = [guarding EXCEPT ![w] =
             [step |-> "deciding", outcome |-> o, use |-> u, profile |-> x]]
  BY DEF GovernStart
<1> DEFINE g == [step |-> "deciding", outcome |-> o, use |-> u, profile |-> x]
<1>2. x.resource = o.request.resource
  BY <1>1 DEF IsCurrentProfile, IsLatest, ProfileHistory
<1>3. Fits(o, u, x) BY <1>1, <1>2 DEF GovernStart, Fits
<1>4. /\ g \in [step : {"deciding"}, outcome : outcomes, use : DataUse,
                profile : profiles]
      /\ IsBaseOutcome(g.outcome) /\ Fits(g.outcome, g.use, g.profile)
  BY <1>3 DEF GovernStart
<1>5. guarding' = [guarding EXCEPT ![w] = g] BY <1>1
<1> HIDE DEF g
<1> QED BY <1>4, <1>5, WrapperStepInv DEF GovernStart

\* The wrapper returns an outcome: what the boundary knows stays as it was.
LEMMA NewOutcomeInv ==
  ASSUME ExecInv, NEW o, outcomes' = outcomes \cup {o},
         o.request \in Request, o.decision \in Decision, o.verified \in BOOLEAN,
         o.at \in Time,
         UNCHANGED <<registry, stops, leases, work, ledger, redemptions, receipts>>
  PROVE  ExecInv'
<1>1. McpTypeOK' /\ McpInv' /\ StopsWellFormed'
  BY GovernanceUnchanged DEF ExecInv, ExecTypeOK
<1>2. CallStates' BY DEF ExecInv, ExecTypeOK, CallStates
<1>3. ExecTypeOK' BY <1>1, <1>2 DEF ExecInv, ExecTypeOK
<1>4. \A w \in Worker : CallSound(w)'
  BY DEF ExecInv, ArtifactsSound, CallSound, Within
<1>5. ArtifactsSound' BY <1>4 DEF ExecInv, ArtifactsSound
<1>6. OneHolder' BY DEF ExecInv, OneHolder
<1> QED BY <1>1, <1>3, <1>5, <1>6 DEF ExecInv

LEMMA GovernFinishInv ==
  ASSUME DataInv, NEW w \in Worker, GovernFinish(w)
  PROVE  DataInv'
<1> DEFINE g == guarding[w]
           data == Granted(g.profile, g.use, profiles)
           o == WithEvidence(g.outcome, g.outcome.decision, data)
<1>1. /\ g.step = "deciding" /\ outcomes' = outcomes \cup {o}
      /\ guarding' = [guarding EXCEPT ![w] = Outside]
      /\ UNCHANGED <<registry, stops, leases, work, ledger, redemptions,
                     receipts, profiles>>
  BY DEF GovernFinish
<1>2. /\ g \in [step : {"deciding"}, outcome : outcomes, use : DataUse,
                profile : profiles]
      /\ Fits(g.outcome, g.use, g.profile)
      /\ work[w] = Idle
  BY <1>1 DEF DataInv, CallGoverned, Outside
<1>3. /\ o.request = g.outcome.request /\ o.decision = g.outcome.decision
      /\ o.verified = g.outcome.verified /\ o.at = g.outcome.at /\ o.data = data
  BY DEF WithEvidence
<1>4. /\ data.profile = g.profile /\ data.use = g.use /\ data.snapshot = profiles
      /\ data.handling = HandlingFor(g.profile.terms, g.use)
      /\ data.secondary = (g.use.purpose \in g.profile.terms.secondary)
  BY DEF Granted
<1> HIDE DEF o, data
<1>5. ExecInv'
  <2>1. /\ o.request \in Request /\ o.decision \in Decision
        /\ o.verified \in BOOLEAN /\ o.at \in Time
    BY <1>2, <1>3 DEF DataInv, ExecInv, ExecTypeOK
  <2> QED BY <1>1, <2>1, NewOutcomeInv DEF DataInv
<1>6. Fits(o, o.data.use, o.data.profile) BY <1>2, <1>3, <1>4 DEF Fits
<1>7. EvidenceSound(o) BY <1>2, <1>3, <1>4, <1>6 DEF EvidenceSound
<1>8. /\ DOMAIN guarding' = Worker /\ guarding'[w] = Outside
      /\ \A v \in Worker : v # w => guarding'[v] = guarding[v]
  BY <1>1, GuardingStep DEF DataInv
<1>9. work'[w].step = "idle" BY <1>1, <1>2 DEF Idle
<1> HIDE DEF g
<1> QED BY <1>1, <1>5, <1>7, <1>8, <1>9, WorkerStepInv

LEMMA GovernDenyInv ==
  ASSUME DataInv, NEW w \in Worker, NEW o \in outcomes, NEW u,
         GovernDeny(w, o, u)
  PROVE  DataInv'
<1> DEFINE n == WithEvidence(o, "DENY", None)
<1>1. /\ guarding[w] = Outside /\ work[w] = Idle
      /\ outcomes' = outcomes \cup {n}
      /\ UNCHANGED <<registry, stops, leases, work, ledger, redemptions, receipts>>
      /\ profiles' = profiles /\ guarding' = guarding
  BY DEF GovernDeny, dataVars
<1>2. /\ n.request = o.request /\ n.decision = "DENY" /\ n.verified = o.verified
      /\ n.at = o.at /\ n.data = None
  BY DEF WithEvidence
<1> HIDE DEF n
<1>3. ExecInv'
  <2>1. /\ n.request \in Request /\ n.decision \in Decision
        /\ n.verified \in BOOLEAN /\ n.at \in Time
    BY <1>2 DEF DataInv, ExecInv, ExecTypeOK, Decision
  <2> QED BY <1>1, <2>1, NewOutcomeInv DEF DataInv
<1>4. EvidenceSound(n) BY <1>2 DEF EvidenceSound, IsDataGoverned
<1>5. work'[w].step = "idle" BY <1>1 DEF Idle
<1> QED BY <1>1, <1>3, <1>4, <1>5, WorkerStepInv DEF DataInv

-----------------------------------------------------------------------------
(* The guard of a call, and the call *)

LEMMA GuardStartInv ==
  ASSUME DataInv, NEW w \in Worker, NEW kind \in {"issue", "redeem", "receipt"},
         NEW o \in outcomes, GuardStart(w, kind, o)
  PROVE  DataInv'
<1> DEFINE g == [step |-> "compared", kind |-> kind, outcome |-> o]
<1>1. /\ g \in [step : {"compared", "passed"}, outcome : outcomes,
                kind : {"issue", "redeem", "receipt"}]
      /\ IsDataGoverned(g.outcome) /\ g.step = "compared"
  BY DEF GuardStart
<1>2. guarding' = [guarding EXCEPT ![w] = g] BY DEF GuardStart
<1> HIDE DEF g
<1> QED BY <1>1, <1>2, WrapperStepInv DEF GuardStart

\* The current profile of the registry, if the decision's snapshot holds it, is
\* the current one of that snapshot: the registry has only grown since.
LEMMA CurrentNowCurrentThen ==
  ASSUME NEW P, NEW Q, P \subseteq Q, NEW r, NEW x \in P, IsCurrentProfile(Q, r, x)
  PROVE  IsCurrentProfile(P, r, x)
BY DEF IsCurrentProfile, ProfileHistory, IsLatest

LEMMA GuardProfileInv ==
  ASSUME DataInv, NEW w \in Worker, GuardProfile(w)
  PROVE  DataInv'
<1> DEFINE g == guarding[w]
           x == [g EXCEPT !.step = "passed"]
           o == g.outcome
<1>1. /\ g.step = "compared" /\ guarding' = [guarding EXCEPT ![w] = x]
      /\ UNCHANGED <<execVars, profiles>>
      /\ IsCurrentProfile(profiles, o.data.profile.resource, o.data.profile)
  BY DEF GuardProfile
<1>2. /\ g \in [step : {"compared", "passed"}, outcome : outcomes,
                kind : {"issue", "redeem", "receipt"}]
      /\ IsDataGoverned(o) /\ work[w] = Idle
  BY <1>1 DEF DataInv, CallGoverned, Outside
<1>3. EvidenceSound(o) BY <1>2 DEF DataInv
<1>4. /\ o.data.snapshot \subseteq profiles /\ o.data.profile \in o.data.snapshot
      /\ o.data.profile.resource = o.request.resource
  BY <1>2, <1>3 DEF EvidenceSound, Fits
<1>5. IsCurrentProfile(o.data.snapshot, o.request.resource, o.data.profile)
  BY <1>1, <1>4, CurrentNowCurrentThen
<1>6. /\ x \in [step : {"compared", "passed"}, outcome : outcomes,
                kind : {"issue", "redeem", "receipt"}]
      /\ x.outcome = o
  BY <1>2
<1>7. Decided(o) BY <1>2, <1>5 DEF Decided
<1> HIDE DEF x, g, o
<1> QED BY <1>1, <1>2, <1>6, <1>7, WrapperStepInv

LEMMA GuardRaisesInv ==
  ASSUME DataInv, NEW w \in Worker, GuardRaises(w)
  PROVE  DataInv'
BY WrapperStepInv DEF GuardRaises

\* Whoever enters the wrapped gate has passed the guard, on that outcome.
LEMMA EnterPassed ==
  ASSUME DataInv, NEW w \in Worker, NEW kind, NEW o, Enter(w, kind, o)
  PROVE  /\ Decided(o) /\ work[w] = Idle
         /\ guarding[w].step = "passed" /\ guarding[w].kind = kind
         /\ guarding[w].outcome = o
         /\ profiles' = profiles
         /\ DOMAIN guarding' = Worker /\ guarding'[w] = Outside
         /\ \A v \in Worker : v # w => guarding'[v] = guarding[v]
<1>1. /\ guarding[w] = [step |-> "passed", kind |-> kind, outcome |-> o]
      /\ guarding' = [guarding EXCEPT ![w] = Outside] /\ profiles' = profiles
  BY DEF Enter
<1>2. guarding[w].step = "passed" /\ guarding[w].outcome = o /\ guarding[w].kind = kind
  BY <1>1
<1>3. Decided(o) /\ work[w] = Idle
  BY <1>2 DEF DataInv, CallGoverned, Outside
<1>4. /\ DOMAIN guarding' = Worker /\ guarding'[w] = Outside
      /\ \A v \in Worker : v # w => guarding'[v] = guarding[v]
  BY <1>1, GuardingStep DEF DataInv
<1> QED BY <1>1, <1>2, <1>3, <1>4

LEMMA GovernedIssueInv ==
  ASSUME DataInv, NEW w \in Worker, NEW o \in outcomes, GovernedIssue(w, o)
  PROVE  DataInv'
<1>1. Enter(w, "issue", o) /\ IssueStart(w, o) BY DEF GovernedIssue
<1>2. ExecInv' BY <1>1, GateStepInv DEF GateStep, DataInv
<1> DEFINE x == [step |-> "requested", outcome |-> o]
<1>3. /\ work' = [work EXCEPT ![w] = x] /\ UNCHANGED <<outcomes, leases>>
  BY <1>1 DEF IssueStart
<1>4. x.outcome = o OBVIOUS
<1> HIDE DEF x
<1>5. /\ work'[w] = x
      /\ \A v \in Worker : v # w => work'[v] = work[v]
  BY <1>3, WorkStep DEF DataInv, ExecInv, ExecTypeOK
<1> QED BY <1>1, <1>2, <1>3, <1>4, <1>5, EnterPassed, WorkerStepInv

LEMMA GovernedRedeemInv ==
  ASSUME DataInv, NEW w \in Worker, NEW l \in leases, NEW e \in Executor,
         NEW t \in Time, GovernedRedeem(w, l, e, t)
  PROVE  DataInv'
<1>1. Enter(w, "redeem", l.outcome) /\ RedeemStart(w, l, e, t)
  BY DEF GovernedRedeem
<1>2. ExecInv' BY <1>1, GateStepInv DEF GateStep, DataInv
<1> DEFINE x == [step |-> "redeeming", lease |-> l, at |-> t]
<1>3. /\ work' = [work EXCEPT ![w] = x] /\ UNCHANGED <<outcomes, leases>>
  BY <1>1 DEF RedeemStart
<1>4. x.step = "redeeming" OBVIOUS
<1> HIDE DEF x
<1>5. /\ work'[w] = x
      /\ \A v \in Worker : v # w => work'[v] = work[v]
  BY <1>3, WorkStep DEF DataInv, ExecInv, ExecTypeOK
<1> QED BY <1>1, <1>2, <1>3, <1>4, <1>5, EnterPassed, WorkerStepInv

LEMMA GovernedReceiptInv ==
  ASSUME DataInv, NEW w \in Worker, NEW l \in leases, NEW id \in ReceiptId, NEW res,
         NEW t \in Time, NEW started \in Time, NEW completed \in Time,
         GovernedReceipt(w, id, l, t, res, started, completed)
  PROVE  DataInv'
<1>1. /\ Enter(w, "receipt", l.outcome)
      /\ BuildReceipt(id, l, t, res, started, completed)
  BY DEF GovernedReceipt
<1>2. ExecInv' BY <1>1, BuildReceiptInv DEF DataInv
<1>3. UNCHANGED <<outcomes, leases, work>> BY <1>1 DEF BuildReceipt
<1>4. work[w].step = "idle" BY <1>1, EnterPassed DEF Idle
<1> QED BY <1>1, <1>2, <1>3, <1>4, EnterPassed, WorkerStepInv

-----------------------------------------------------------------------------
(* Steps inside a call of the wrapped gate *)

\* Whoever works is outside the wrapper.
LEMMA WorkingOutside ==
  ASSUME DataInv, NEW w \in Worker, work[w].step # "idle"
  PROVE  guarding[w] = Outside
BY DEF DataInv, CallGoverned, Idle

LEMMA IssueDataInv ==
  ASSUME DataInv, NEW w \in Worker, UNCHANGED dataVars,
         IssueAssert(w) \/ Issue(w, None, None)
  PROVE  DataInv'
<1>1. ExecInv' BY GateStepInv, IssueInv DEF GateStep, DataInv
<1>2. CASE IssueAssert(w)
  <2> DEFINE x == [step |-> "issuing", outcome |-> work[w].outcome]
  <2>1. /\ work[w].step = "requested" /\ work' = [work EXCEPT ![w] = x]
        /\ UNCHANGED <<outcomes, leases>>
    BY <1>2 DEF IssueAssert
  <2>2. Decided(work[w].outcome) BY <2>1 DEF DataInv, CallGoverned
  <2>3. Decided(x.outcome) BY <2>2
  <2> HIDE DEF x
  <2> QED BY <1>1, <2>1, <2>3, WorkingOutside, InnerCallInv
<1>3. CASE Issue(w, None, None)
  <2>1. PICK id \in LeaseId, e \in Executor, t \in Time, life \in 1 .. LeaseMaxLife :
               IssueLease(w, id, e, t, t + life, None, None)
    BY <1>3 DEF Issue
  <2> DEFINE o == work[w].outcome
             lease(s) == [lease_id |-> id, executor |-> e, outcome |-> o,
                          requirement |-> None, resolution |-> None, stop |-> s,
                          issued_at |-> t, expires_at |-> t + life]
  <2>2. /\ work[w].step = "issuing" /\ ApprovalChain(o, None, None, t)
        /\ work' = [work EXCEPT ![w] = Idle] /\ outcomes' = outcomes
    BY <2>1 DEF IssueLease
  <2>3. PICK s : leases' = leases \cup {lease(s)} BY <2>1 DEF IssueLease
  <2>4. Decided(o) /\ guarding[w] = Outside
    BY <2>2, WorkingOutside DEF DataInv, CallGoverned
  <2>5. o.decision = "ALLOW" BY <2>2 DEF ApprovalChain, ExecutionPermitted
  <2>6. lease(s).outcome = o OBVIOUS
  <2> HIDE DEF lease, o
  <2>7. /\ work'[w] = Idle
        /\ \A v \in Worker : v # w => work'[v] = work[v]
    BY <2>2, WorkStep DEF DataInv, ExecInv, ExecTypeOK
  <2>8. work'[w].step = "idle" BY <2>7 DEF Idle
  <2>9. profiles' = profiles /\ guarding' = guarding BY DEF dataVars
  <2> QED BY <1>1, <2>2, <2>3, <2>4, <2>5, <2>6, <2>7, <2>8, <2>9, WorkerStepInv
          DEF DataInv
<1> QED BY <1>2, <1>3

LEMMA RedeemDataInv ==
  ASSUME DataInv, NEW w \in Worker, UNCHANGED dataVars, RedeemStep(w)
  PROVE  DataInv'
<1>1. ExecInv' BY GateStepInv DEF GateStep, DataInv
<1>2. UNCHANGED <<outcomes, leases>>
  BY DEF RedeemStep, RedeemAssert, RedeemStop, RedeemReread, RedeemCommit,
         RedeemReturn, CallRaises
<1>3. guarding[w] = Outside
  BY WorkingOutside DEF RedeemStep, RedeemAssert, RedeemStop, RedeemReread,
         RedeemCommit, RedeemReturn, CallRaises
<1>4. PICK x : /\ work' = [work EXCEPT ![w] = x]
               /\ x.step \notin {"requested", "issuing"}
  <2>1. CASE RedeemAssert(w)
    <3>1. [step |-> "governed", lease |-> work[w].lease, at |-> work[w].at].step
            = "governed"
      OBVIOUS
    <3> QED BY <2>1, <3>1 DEF RedeemAssert
  <2>2. CASE RedeemStop(w)
    <3>1. PICK s \in stops : work' = [work EXCEPT ![w] = [step |-> "stopread",
            lease |-> work[w].lease, stop |-> s, at |-> work[w].at]]
      BY <2>2 DEF RedeemStop
    <3>2. [step |-> "stopread", lease |-> work[w].lease, stop |-> s,
           at |-> work[w].at].step = "stopread"
      OBVIOUS
    <3> QED BY <3>1, <3>2
  <2>3. CASE RedeemReread(w)
    <3> DEFINE x == [step |-> "ready",
                     consumption |-> [lease |-> work[w].lease, registry |-> registry,
                                      stop |-> work[w].stop, at |-> work[w].at]]
    <3>1. x.step = "ready" OBVIOUS
    <3>2. work' = [work EXCEPT ![w] = x] BY <2>3 DEF RedeemReread
    <3> HIDE DEF x
    <3> QED BY <3>1, <3>2
  <2>4. CASE RedeemCommit(w)
    <3>1. [step |-> "committed", consumption |-> work[w].consumption].step
            = "committed"
      OBVIOUS
    <3> QED BY <2>4, <3>1 DEF RedeemCommit
  <2>5. CASE RedeemReturn(w) \/ CallRaises(w)
    BY <2>5 DEF RedeemReturn, CallRaises, Idle
  <2> QED BY <2>1, <2>2, <2>3, <2>4, <2>5 DEF RedeemStep
<1> QED BY <1>1, <1>2, <1>3, <1>4, InnerCallInv

-----------------------------------------------------------------------------
(* The invariant of the specification *)

\* Operators change the registry, the stop state or the profiles, and profiles
\* are only added.
LEMMA ProfilesGrow ==
  ASSUME profiles \subseteq Profile, DataRegistryNext
  PROVE  profiles \subseteq profiles' /\ profiles' \subseteq Profile
<1>1. PICK r \in Resource, v \in 1 .. MaxProfileVersion, terms \in ProfileTerms,
             t \in ProfileTime : RegisterProfile(r, v, terms, t)
  BY DEF DataRegistryNext
<1> QED BY <1>1 DEF RegisterProfile, Profile

LEMMA OperatorsDataInv ==
  ASSUME DataInv, ExecInv', UNCHANGED gateVars, guarding' = guarding,
         profiles \subseteq profiles', profiles' \subseteq Profile
  PROVE  DataInv'
<1>1. ASSUME NEW w \in Worker PROVE CallGoverned(w)'
  BY DEF gateVars, DataInv, CallGoverned
<1>2. \A o \in outcomes' : EvidenceSound(o)' BY DEF gateVars, DataInv, EvidenceSound
<1> QED BY <1>1, <1>2 DEF gateVars, DataInv

LEMMA DataStepInv == DataInv /\ [GovernedNext]_governedVars => DataInv'
<1> SUFFICES ASSUME DataInv, [GovernedNext]_governedVars PROVE DataInv' OBVIOUS
<1>1. CASE Operate /\ UNCHANGED dataVars
  <2>1. ExecInv' BY <1>1, OperateInv DEF DataInv
  <2>2. UNCHANGED gateVars BY <1>1, GovernanceGrows DEF DataInv
  <2> QED BY <1>1, <2>1, <2>2, OperatorsDataInv DEF dataVars, DataInv
<1>2. CASE DataRegistryNext /\ UNCHANGED <<execVars, guarding>>
  <2>1. ExecInv' BY <1>2, UnchangedInv DEF DataInv
  <2> QED BY <1>2, <2>1, ProfilesGrow, OperatorsDataInv DEF execVars, DataInv
<1>3. CASE \E w \in Worker : GovernedStep(w)
  BY <1>3, GovernStartInv, GovernDenyInv, GovernFinishInv, GuardStartInv,
     GuardProfileInv, GuardRaisesInv, GovernedIssueInv, GovernedRedeemInv,
     GovernedReceiptInv DEF GovernedStep
<1>4. CASE \E w \in Worker : InnerStep(w) /\ UNCHANGED dataVars
  BY <1>4, EvaluateDataInv, IssueDataInv, RedeemDataInv DEF InnerStep
<1>5. CASE UNCHANGED governedVars
  <2>1. ExecInv' BY <1>5, UnchangedInv DEF governedVars, DataInv
  <2> QED BY <1>5, <2>1, OperatorsDataInv DEF governedVars, execVars, dataVars, DataInv
<1> QED BY <1>1, <1>2, <1>3, <1>4, <1>5 DEF GovernedNext

LEMMA AlwaysDataInv == GovernedSpec => []DataInv
BY DataInitInv, DataStepInv, PTL DEF GovernedSpec

-----------------------------------------------------------------------------
(* What it implies *)

\* Type correctness, and that evidence is a part of the registry as it is now.
THEOREM DataTypeCorrect == GovernedSpec => []DataTypeOK
<1>1. DataInv => DataTypeOK
  <2> SUFFICES ASSUME DataInv PROVE DataTypeOK OBVIOUS
  <2>1. ASSUME NEW w \in Worker
        PROVE  /\ guarding[w].step \in {"outside", "deciding", "compared", "passed"}
               /\ guarding[w] # Outside =>
                    work[w] = Idle /\ guarding[w].outcome \in outcomes
    BY DEF DataInv, CallGoverned, Outside
  <2> QED BY <2>1 DEF DataInv, EvidenceSound, DataTypeOK
<1> QED BY <1>1, AlwaysDataInv, PTL

\* Behind the wrapper the boundary keeps what it promises on its own.
THEOREM DataGovernedRowsAreGoverned ==
  GovernedSpec => [](OneRedemptionPerLease /\ RowsAreGoverned /\ AuthorityIsBounded
                     /\ AlwaysReceiptable)
<1>1. DataInv => OneRedemptionPerLease /\ RowsAreGoverned /\ AuthorityIsBounded
                 /\ AlwaysReceiptable
  BY RedeemedOnce, RowGoverned, AuthorityBounded, RowReceiptable DEF DataInv
<1> QED BY <1>1, AlwaysDataInv, PTL

\* Profile and snapshot are read one after the other and without a lock, when the
\* decision is made and again when it is guarded; a row is nevertheless the row of
\* a decision that one state of the data registry gives.
THEOREM EveryRowIsDataGoverned == GovernedSpec => []RowsAreDataGoverned
<1>1. DataInv => RowsAreDataGoverned
  <2> SUFFICES ASSUME DataInv, NEW c \in ledger
               PROVE  LET o == c.lease.outcome
                          d == o.data
                          q == o.request
                      IN /\ IsDataGoverned(o) /\ o.decision = "ALLOW"
                         /\ IsCurrentProfile(d.snapshot, q.resource, d.profile)
                         /\ q.classification = d.profile.terms.classification
                         /\ d.use.categories = d.profile.terms.categories
                         /\ d.use.purpose = q.purpose
                         /\ q.purpose \in d.profile.terms.primary
                              \/ (d.secondary /\ q.purpose \in d.profile.terms.secondary)
                         /\ d.use.retention <= d.profile.terms.max_retention
                         /\ q.requested_at <= d.use.declared_at
                         /\ d.use.declared_at <= o.at
    BY DEF RowsAreDataGoverned
  <2> DEFINE o == c.lease.outcome
  <2>1. c.lease \in leases /\ o \in outcomes BY DEF DataInv, ExecInv, ExecTypeOK
  <2>2. Decided(o) /\ o.decision = "ALLOW" /\ EvidenceSound(o)
    BY <2>1 DEF DataInv
  <2>3. /\ Fits(o, o.data.use, o.data.profile)
        /\ o.data.secondary = (o.data.use.purpose \in o.data.profile.terms.secondary)
    BY <2>2 DEF Decided, EvidenceSound
  <2> HIDE DEF o
  <2>4. /\ IsDataGoverned(o) /\ o.decision = "ALLOW"
        /\ IsCurrentProfile(o.data.snapshot, o.request.resource, o.data.profile)
    BY <2>2 DEF Decided
  <2>5. /\ o.request.classification = o.data.profile.terms.classification
        /\ o.data.use.categories = o.data.profile.terms.categories
        /\ o.data.use.purpose = o.request.purpose
        /\ o.data.use.retention <= o.data.profile.terms.max_retention
        /\ o.request.requested_at <= o.data.use.declared_at
        /\ o.data.use.declared_at <= o.at
    BY <2>3 DEF Fits, DeclarationFits, TermsAdmit
  <2>6. o.request.purpose \in o.data.profile.terms.primary
          \/ (o.data.secondary /\ o.request.purpose \in o.data.profile.terms.secondary)
    BY <2>3, <2>5 DEF Fits, TermsAdmit
  <2> QED BY <2>4, <2>5, <2>6 DEF o
<1> QED BY <1>1, AlwaysDataInv, PTL

\* Where raw output has to be transformed, the first safe mode that the profile
\* permits exists and is what HandlingFor chooses.
LEMMA FirstSafeHandling ==
  ASSUME NEW x, WellFormedTerms(x), NEW u, u.handling \in Handling, MustTransform(x, u)
  PROVE  LET h == HandlingFor(x, u)
         IN \/ h = "redacted" /\ "redacted" \in x.permitted
            \/ h = "aggregated" /\ "aggregated" \in x.permitted
               /\ "redacted" \notin x.permitted
            \/ h = "metadata_only" /\ "metadata_only" \in x.permitted
               /\ "redacted" \notin x.permitted /\ "aggregated" \notin x.permitted
<1> DEFINE First(i) == /\ SafeHandling[i] \in x.permitted
                       /\ \A j \in 1 .. i - 1 : SafeHandling[j] \notin x.permitted
           first == CHOOSE i \in 1 .. 3 : First(i)
<1>1. /\ SafeHandling[1] = "redacted" /\ SafeHandling[2] = "aggregated"
      /\ SafeHandling[3] = "metadata_only"
  BY DEF SafeHandling
<1>2. "redacted" \in x.permitted \/ "aggregated" \in x.permitted
        \/ "metadata_only" \in x.permitted
  BY DEF WellFormedTerms, MustTransform, Handling
<1>3. /\ First(1) <=> "redacted" \in x.permitted
      /\ First(2) <=> "aggregated" \in x.permitted /\ "redacted" \notin x.permitted
      /\ First(3) <=> "metadata_only" \in x.permitted
                      /\ "redacted" \notin x.permitted /\ "aggregated" \notin x.permitted
  BY <1>1
<1>4. HandlingFor(x, u) = SafeHandling[first] BY DEF HandlingFor
<1> HIDE DEF First
<1>5. \E i \in 1 .. 3 : First(i) BY <1>2, <1>3
<1>6. first \in 1 .. 3 /\ First(first) BY <1>5
<1> HIDE DEF first
<1>7. first = 1 \/ first = 2 \/ first = 3 BY <1>6
<1> QED BY <1>1, <1>3, <1>4, <1>6, <1>7

\* HandlingIsSafe: for any terms a profile can have.
THEOREM HandlingStaysSafe == GovernedSpec => []HandlingIsSafe
<1>1. DataInv => HandlingIsSafe
  <2> SUFFICES ASSUME DataInv, NEW o \in outcomes, IsDataGoverned(o)
               PROVE  LET x == o.data.profile.terms
                          h == o.data.handling
                      IN /\ h \in x.permitted
                         /\ x.redact # {} => h # "raw"
                         /\ h # o.data.use.handling =>
                              /\ o.data.use.handling = "raw" /\ x.redact # {}
                              /\ h = "aggregated" => "redacted" \notin x.permitted
                              /\ h = "metadata_only" =>
                                   x.permitted \cap {"redacted", "aggregated"} = {}
    BY DEF HandlingIsSafe
  <2> DEFINE x == o.data.profile.terms
             u == o.data.use
             h == o.data.handling
  <2>1. EvidenceSound(o) BY DEF DataInv
  <2>2. o.data.profile \in Profile BY <2>1 DEF DataInv, EvidenceSound
  <2>3. WellFormedTerms(x) /\ u.handling \in Handling
    BY <2>1, <2>2, DataAssumption DEF Profile, EvidenceSound, Fits
  <2>4. h = HandlingFor(x, u) /\ h \in x.permitted
    BY <2>1 DEF EvidenceSound, Fits, TermsAdmit
  <2> HIDE DEF x, u, h
  <2>5. CASE MustTransform(x, u)
    BY <2>3, <2>4, <2>5, FirstSafeHandling DEF MustTransform, x, u, h
  <2>6. CASE ~MustTransform(x, u)
    <3>1. h = u.handling BY <2>4, <2>6 DEF HandlingFor
    <3> QED BY <2>4, <2>6, <3>1 DEF MustTransform, x, u, h
  <2> QED BY <2>5, <2>6
<1> QED BY <1>1, AlwaysDataInv, PTL

-----------------------------------------------------------------------------
(* Drift of the data registry is final *)

\* A worker that redeems on nothing that drifted does not begin to.
Aloof(w, o) == ~RedeemsOn(w, o)

\* An outcome stays stranded if the worker that moves stays aloof of it.
LEMMA StaysStranded ==
  ASSUME DataInv, NEW o \in outcomes, IsDataGoverned(o), DataStranded(o),
         profiles \subseteq profiles',
         NEW w \in Worker, Aloof(w, o)',
         \A v \in Worker : v # w => guarding'[v] = guarding[v] /\ work'[v] = work[v]
  PROVE  DataStranded(o)'
<1>1. o.data.snapshot \subseteq profiles /\ profiles # o.data.snapshot
  BY DEF DataInv, EvidenceSound, DataStranded
<1>2. profiles' # o.data.snapshot BY <1>1
<1>3. ASSUME NEW v \in Worker PROVE ~RedeemsOn(v, o)'
  BY DEF Aloof, DataStranded, RedeemsOn
<1> QED BY <1>2, <1>3 DEF DataStranded

\* What the wrapper does with a call: only a call on another outcome, or one that
\* does not redeem, gets past the comparison of snapshots.
LEMMA WrapperKeepsAloof ==
  ASSUME DataInv, NEW w \in Worker, NEW o \in outcomes, IsDataGoverned(o),
         DataStranded(o), GovernedStep(w)
  PROVE  /\ Aloof(w, o)' /\ profiles' = profiles /\ ledger' = ledger
         /\ \A v \in Worker : v # w => guarding'[v] = guarding[v] /\ work'[v] = work[v]
<1>1. ~RedeemsOn(w, o) /\ profiles # o.data.snapshot BY DEF DataStranded
<1>2. ASSUME NEW x, guarding' = [guarding EXCEPT ![w] = x],
             UNCHANGED <<work, profiles, ledger>>,
             x.step \in {"compared", "passed"} /\ x.kind = "redeem" => x.outcome # o
      PROVE  /\ Aloof(w, o)' /\ profiles' = profiles /\ ledger' = ledger
             /\ \A v \in Worker : v # w => guarding'[v] = guarding[v] /\ work'[v] = work[v]
  BY <1>1, <1>2, GuardingStep DEF DataInv, Aloof, RedeemsOn
<1>3. CASE \E a \in outcomes, u \in DataUse : GovernStart(w, a, u)
  <2>1. PICK a \in outcomes, u \in DataUse : GovernStart(w, a, u) BY <1>3
  <2>2. PICK x : guarding' = [guarding EXCEPT ![w] =
                   [step |-> "deciding", outcome |-> a, use |-> u, profile |-> x]]
    BY <2>1 DEF GovernStart
  <2>3. [step |-> "deciding", outcome |-> a, use |-> u, profile |-> x].step = "deciding"
    OBVIOUS
  <2>4. UNCHANGED <<work, profiles, ledger>>
    BY <2>1 DEF GovernStart, execVars, gateVars
  <2> QED BY <1>2, <2>2, <2>3, <2>4
<1>4. CASE \E a \in outcomes, u \in DataUse \cup {None} : GovernDeny(w, a, u)
  BY <1>1, <1>4 DEF GovernDeny, dataVars, Aloof, RedeemsOn
<1>5. CASE GovernFinish(w) BY <1>2, <1>5 DEF GovernFinish, Outside
<1>6. CASE \E kind \in {"issue", "redeem", "receipt"}, a \in outcomes :
             GuardStart(w, kind, a)
  <2>1. PICK kind \in {"issue", "redeem", "receipt"}, a \in outcomes :
               GuardStart(w, kind, a)
    BY <1>6
  <2>2. a # o BY <1>1, <2>1 DEF GuardStart, DataUnchanged
  <2>3. [step |-> "compared", kind |-> kind, outcome |-> a].outcome # o BY <2>2
  <2>4. UNCHANGED <<work, profiles, ledger>>
    BY <2>1 DEF GuardStart, execVars, gateVars
  <2> QED BY <1>2, <2>1, <2>3, <2>4 DEF GuardStart
<1>7. CASE GuardProfile(w)
  <2>1. /\ guarding[w].step = "compared"
        /\ guarding' = [guarding EXCEPT ![w] = [guarding[w] EXCEPT !.step = "passed"]]
        /\ UNCHANGED <<work, profiles, ledger>>
    BY <1>7 DEF GuardProfile, execVars, gateVars
  <2>2. guarding[w] \in [step : {"compared", "passed"}, outcome : outcomes,
                         kind : {"issue", "redeem", "receipt"}]
    BY <2>1 DEF DataInv, CallGoverned, Outside
  <2>3. guarding[w].kind = "redeem" => guarding[w].outcome # o
    BY <1>1, <2>1 DEF RedeemsOn
  <2>4. /\ [guarding[w] EXCEPT !.step = "passed"].kind = guarding[w].kind
        /\ [guarding[w] EXCEPT !.step = "passed"].outcome = guarding[w].outcome
    BY <2>2
  <2> QED BY <1>2, <2>1, <2>3, <2>4
<1>8. CASE GuardRaises(w)
  BY <1>2, <1>8 DEF GuardRaises, Outside, execVars, gateVars
<1>9. CASE \E a \in outcomes : GovernedIssue(w, a)
  <2>1. PICK a \in outcomes : Enter(w, "issue", a) /\ IssueStart(w, a)
    BY <1>9 DEF GovernedIssue
  <2>2. [step |-> "requested", outcome |-> a].step = "requested" OBVIOUS
  <2>3. /\ work'[w].step = "requested" /\ ledger' = ledger
        /\ \A v \in Worker : v # w => work'[v] = work[v]
    BY <2>1, <2>2, WorkStep DEF IssueStart, DataInv, ExecInv, ExecTypeOK
  <2> QED BY <2>1, <2>3, EnterPassed DEF Aloof, RedeemsOn, Outside
<1>10. CASE \E l \in leases, x \in Executor, t \in Time : GovernedRedeem(w, l, x, t)
  <2>1. PICK l \in leases, x \in Executor, t \in Time :
               Enter(w, "redeem", l.outcome) /\ RedeemStart(w, l, x, t)
    BY <1>10 DEF GovernedRedeem
  <2>2. l.outcome # o BY <1>1, <2>1, EnterPassed DEF RedeemsOn
  <2> DEFINE y == [step |-> "redeeming", lease |-> l, at |-> t]
  <2>3. work' = [work EXCEPT ![w] = y] /\ ledger' = ledger
    BY <2>1 DEF RedeemStart
  <2>4. y.step = "redeeming" /\ y.lease = l OBVIOUS
  <2> HIDE DEF y
  <2>5. work'[w] = y /\ \A v \in Worker : v # w => work'[v] = work[v]
    BY <2>3, WorkStep DEF DataInv, ExecInv, ExecTypeOK
  <2> QED BY <2>1, <2>2, <2>3, <2>4, <2>5, EnterPassed DEF Aloof, RedeemsOn, Outside
<1>11. CASE \E l \in leases, id \in ReceiptId, res \in {"SUCCEEDED", "FAILED"},
              at, started, completed \in Time :
              GovernedReceipt(w, id, l, at, res, started, completed)
  BY <1>2, <1>11 DEF GovernedReceipt, Enter, BuildReceipt, Outside
<1> QED BY <1>3, <1>4, <1>5, <1>6, <1>7, <1>8, <1>9, <1>10, <1>11 DEF GovernedStep

\* What the wrapped objects do for a worker that is aloof of o.
LEMMA InnerKeepsAloof ==
  ASSUME DataInv, NEW w \in Worker, NEW o, ~RedeemsOn(w, o), InnerStep(w),
         UNCHANGED dataVars
  PROVE  /\ Aloof(w, o)'
         /\ \A v \in Worker : v # w => guarding'[v] = guarding[v] /\ work'[v] = work[v]
         /\ \A c \in ledger' \ ledger : c.lease.outcome # o
<1>1. guarding' = guarding BY DEF dataVars
<1>2. ASSUME NEW x, work' = [work EXCEPT ![w] = x], ledger' = ledger,
             x.step \in {"redeeming", "governed", "stopread"} => x.lease.outcome # o,
             x.step = "ready" => x.consumption.lease.outcome # o
      PROVE  /\ Aloof(w, o)'
             /\ \A v \in Worker : v # w => guarding'[v] = guarding[v] /\ work'[v] = work[v]
             /\ \A c \in ledger' \ ledger : c.lease.outcome # o
  BY <1>1, <1>2, WorkStep DEF DataInv, ExecInv, ExecTypeOK, Aloof, RedeemsOn
<1>3. CASE Evaluate(w)
  <2>1. CASE \E q \in Request : EvaluateStart(w, q)
    <3>1. PICK q \in Request : EvaluateStart(w, q) BY <2>1
    <3>2. [step |-> "evaluating", request |-> q, registry |-> registry].step
            = "evaluating"
      OBVIOUS
    <3> QED BY <1>2, <3>1, <3>2 DEF EvaluateStart
  <2>2. CASE EvaluateBind(w)
    <3>1. PICK b : work' = [work EXCEPT ![w] =
                     [step |-> "bound", request |-> work[w].request,
                      registry |-> work[w].registry, binding |-> b]]
      BY <2>2 DEF EvaluateBind
    <3>2. [step |-> "bound", request |-> work[w].request,
           registry |-> work[w].registry, binding |-> b].step = "bound"
      OBVIOUS
    <3> QED BY <1>2, <2>2, <3>1, <3>2 DEF EvaluateBind
  <2>3. CASE (\E d \in Decision, v \in BOOLEAN, t \in Time : EvaluateFinish(w, d, v, t))
             \/ (\E t \in Time : EvaluateUngoverned(w, t))
    BY <1>2, <2>3 DEF EvaluateFinish, EvaluateUngoverned, Idle
  <2> QED BY <1>3, <2>1, <2>2, <2>3 DEF Evaluate
<1>4. CASE IssueAssert(w)
  <2>1. [step |-> "issuing", outcome |-> work[w].outcome].step = "issuing" OBVIOUS
  <2> QED BY <1>2, <1>4, <2>1 DEF IssueAssert
<1>5. CASE Issue(w, None, None) BY <1>2, <1>5 DEF Issue, IssueLease, Idle
<1>6. CASE RedeemAssert(w)
  <2> DEFINE x == [step |-> "governed", lease |-> work[w].lease, at |-> work[w].at]
  <2>1. x.step = "governed" /\ x.lease = work[w].lease OBVIOUS
  <2>2. /\ work[w].step = "redeeming" /\ work' = [work EXCEPT ![w] = x]
        /\ ledger' = ledger
    BY <1>6 DEF RedeemAssert
  <2>3. work[w].lease.outcome # o BY <2>2 DEF RedeemsOn
  <2> HIDE DEF x
  <2> QED BY <1>2, <2>1, <2>2, <2>3
<1>7. CASE RedeemStop(w)
  <2>1. PICK s : work' = [work EXCEPT ![w] = [step |-> "stopread",
                   lease |-> work[w].lease, stop |-> s, at |-> work[w].at]]
    BY <1>7 DEF RedeemStop
  <2> DEFINE x == [step |-> "stopread", lease |-> work[w].lease, stop |-> s,
                   at |-> work[w].at]
  <2>2. x.step = "stopread" /\ x.lease = work[w].lease OBVIOUS
  <2>3. work[w].step = "governed" /\ ledger' = ledger BY <1>7 DEF RedeemStop
  <2>4. work[w].lease.outcome # o BY <2>3 DEF RedeemsOn
  <2>5. work' = [work EXCEPT ![w] = x] BY <2>1
  <2> HIDE DEF x
  <2> QED BY <1>2, <2>2, <2>3, <2>4, <2>5
<1>8. CASE RedeemReread(w)
  <2> DEFINE x == [step |-> "ready",
                   consumption |-> [lease |-> work[w].lease, registry |-> registry,
                                    stop |-> work[w].stop, at |-> work[w].at]]
  <2>1. x.step = "ready" /\ x.consumption.lease = work[w].lease OBVIOUS
  <2>2. /\ work[w].step = "stopread" /\ work' = [work EXCEPT ![w] = x]
        /\ ledger' = ledger
    BY <1>8 DEF RedeemReread
  <2>3. work[w].lease.outcome # o BY <2>2 DEF RedeemsOn
  <2> HIDE DEF x
  <2> QED BY <1>2, <2>1, <2>2, <2>3
<1>9. CASE RedeemCommit(w)
  <2> DEFINE x == [step |-> "committed", consumption |-> work[w].consumption]
  <2>1. x.step = "committed" OBVIOUS
  <2>2. /\ work[w].step = "ready" /\ work' = [work EXCEPT ![w] = x]
        /\ ledger' = ledger \cup {work[w].consumption}
    BY <1>9 DEF RedeemCommit
  <2>3. work[w].consumption.lease.outcome # o BY <2>2 DEF RedeemsOn
  <2> HIDE DEF x
  <2>4. work'[w] = x /\ \A v \in Worker : v # w => work'[v] = work[v]
    BY <2>2, WorkStep DEF DataInv, ExecInv, ExecTypeOK
  <2>5. Aloof(w, o)' BY <1>1, <2>1, <2>4 DEF Aloof, RedeemsOn
  <2> QED BY <1>1, <2>2, <2>3, <2>4, <2>5
<1>10. CASE RedeemReturn(w) \/ CallRaises(w)
  BY <1>2, <1>10 DEF RedeemReturn, CallRaises, Idle
<1> QED BY <1>3, <1>4, <1>5, <1>6, <1>7, <1>8, <1>9, <1>10 DEF InnerStep, RedeemStep

LEMMA DataDriftStep ==
  ASSUME DataInv, GovernedNext, NEW o \in outcomes, IsDataGoverned(o), DataStranded(o)
  PROVE  DataStranded(o)' /\ \A c \in ledger' \ ledger : c.lease.outcome # o
<1>1. CASE UNCHANGED gateVars /\ guarding' = guarding /\ profiles \subseteq profiles'
  <2>1. o.data.snapshot \subseteq profiles /\ profiles # o.data.snapshot
    BY DEF DataInv, EvidenceSound, DataStranded
  <2>2. profiles' # o.data.snapshot BY <1>1, <2>1
  <2> QED BY <1>1, <2>2 DEF gateVars, DataStranded, RedeemsOn
<1>2. CASE Operate /\ UNCHANGED dataVars
  BY <1>1, <1>2, GovernanceGrows DEF dataVars, DataInv
<1>3. CASE DataRegistryNext /\ UNCHANGED <<execVars, guarding>>
  BY <1>1, <1>3, ProfilesGrow DEF execVars, DataInv
<1>4. CASE \E w \in Worker : GovernedStep(w)
  BY <1>4, WrapperKeepsAloof, StaysStranded
<1>5. CASE \E w \in Worker : InnerStep(w) /\ UNCHANGED dataVars
  BY <1>5, InnerKeepsAloof, StaysStranded DEF DataStranded, dataVars
<1> QED BY <1>2, <1>3, <1>4, <1>5 DEF GovernedNext

\* Any number of workers and registrations later, a drifted decision still adds no
\* row.
THEOREM DataDriftIsFinal == GovernedSpec => DataDriftHolds
<1> DEFINE A == \A o \in outcomes : IsDataGoverned(o) /\ DataStranded(o) =>
                  /\ DataStranded(o)'
                  /\ \A c \in ledger' \ ledger : c.lease.outcome # o
<1>1. DataInv /\ GovernedNext => A BY DataDriftStep
<1>2. DataInv /\ [GovernedNext]_governedVars => [A]_governedVars BY <1>1
<1>3. GovernedSpec => [][A]_governedVars BY <1>2, AlwaysDataInv, PTL DEF GovernedSpec
<1> QED BY <1>3 DEF DataDriftHolds

-----------------------------------------------------------------------------
(* The emergency stop behind the wrapper *)

\* The guard of a call may have passed before the stop: the call that enters has
\* still to read the stop state.
LEMMA DrainedGovernedStep ==
  ASSUME DataInv, Drained, GovernedNext
  PROVE  ledger' = ledger /\ (Drained' \/ stops' # stops)
<1>1. ExecInv BY DEF DataInv
<1>2. CASE UNCHANGED <<stops, work, ledger>>
  BY <1>2 DEF Drained, Halted, InFlight, IsCurrentStop
<1>3. CASE Operate BY <1>1, <1>3, DrainedStep
<1>4. CASE DataRegistryNext /\ UNCHANGED <<execVars, guarding>>
  BY <1>2, <1>4 DEF execVars, gateVars
<1>5. CASE \E w \in Worker : GovernedStep(w)
  <2>1. PICK w \in Worker : GovernedStep(w) BY <1>5
  <2>2. UNCHANGED <<stops, work, ledger>> \/ GateStep(w)
    BY <2>1 DEF GovernedStep, GovernStart, GovernDeny, GovernFinish, GuardStart,
                GuardProfile, GuardRaises, GovernedIssue, GovernedRedeem,
                GovernedReceipt, BuildReceipt, GateStep, execVars, gateVars
  <2> QED BY <1>1, <1>2, <2>2, DrainedStep
<1>6. CASE \E w \in Worker : InnerStep(w)
  BY <1>1, <1>6, DrainedStep DEF InnerStep, GateStep
<1> QED BY <1>3, <1>4, <1>5, <1>6 DEF GovernedNext

\* An emergency stop, once drained, holds behind the wrapper too.
THEOREM HaltHoldsBehindWrapper == GovernedSpec => HaltHolds
<1> DEFINE A == Drained => ledger' = ledger /\ (Drained' \/ stops' # stops)
<1>1. DataInv /\ GovernedNext => A BY DrainedGovernedStep
<1>2. DataInv /\ [GovernedNext]_governedVars => [A]_execVars
  BY <1>1 DEF governedVars
<1>3. GovernedSpec => [][A]_execVars BY <1>2, AlwaysDataInv, PTL DEF GovernedSpec
<1> QED BY <1>3 DEF HaltHolds

-----------------------------------------------------------------------------
(* The lease ledger behind the wrapper *)

\* The wrapper's own steps write no row and return no consumption; what it hands
\* to the gate is a step of the gate.
LEMMA GovernedLedgerStep ==
  ASSUME DataInv, GovernedNext
  PROVE  [LeaseLedger!OneTimeNext]_<<leaseRows, leaseAnswers>>
<1>1. ExecInv BY DEF DataInv
<1>2. CASE Operate BY <1>1, <1>2, LedgerStep
<1>3. CASE DataRegistryNext /\ UNCHANGED <<execVars, guarding>>
  BY <1>3, LedgerStutters DEF execVars, gateVars
<1>4. CASE \E w \in Worker : GovernedStep(w)
  <2>1. PICK w \in Worker : GovernedStep(w) BY <1>4
  <2>2. UNCHANGED <<ledger, redemptions>>
    BY <2>1 DEF GovernedStep, GovernStart, GovernDeny, GovernFinish, GuardStart,
                GuardProfile, GuardRaises, GovernedIssue, GovernedRedeem,
                GovernedReceipt, BuildReceipt, IssueStart, RedeemStart, execVars, gateVars
  <2> QED BY <2>2, LedgerStutters
<1>5. CASE \E w \in Worker : InnerStep(w)
  BY <1>1, <1>5, LedgerStep DEF InnerStep, GateStep
<1> QED BY <1>2, <1>3, <1>4, <1>5 DEF GovernedNext

\* LeasesAreOneTime: behind the wrapper, too, the ledger cannot be told from one
\* that hands out each lease once.
THEOREM WrappedLedgerIsOneTime == GovernedSpec => LeasesAreOneTime
<1>1. GovernedInit => LeaseLedger!OneTimeInit
  BY DEF GovernedInit, ExecInit, LeaseLedger!OneTimeInit, leaseRows, leaseAnswers
<1>2. DataInv /\ [GovernedNext]_governedVars
        => [LeaseLedger!OneTimeNext]_<<leaseRows, leaseAnswers>>
  <2>1. CASE UNCHANGED governedVars
    BY <2>1, LedgerStutters DEF governedVars, execVars, gateVars
  <2> QED BY <2>1, GovernedLedgerStep
<1>3. GovernedSpec => LeaseLedger!OneTimeSpec
  BY <1>1, <1>2, AlwaysDataInv, PTL DEF GovernedSpec, LeaseLedger!OneTimeSpec
<1> QED BY <1>3 DEF LeasesAreOneTime
=============================================================================
