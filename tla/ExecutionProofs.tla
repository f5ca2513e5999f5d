-------------------------- MODULE ExecutionProofs --------------------------
(***************************************************************************)
(* The safety of the execution boundary, for any number of workers, any    *)
(* registry and any bounds, with restarts of the process at any moment;    *)
(* and, without restarts, what a step may never do: redeem anything once   *)
(* an emergency stop is drained, and revive a lease that drift made stale. *)
(***************************************************************************)
EXTENDS ExecutionBoundary, McpRegistryProofs

\* r holds nothing the registry does not hold.
Within(r) == /\ r.servers \subseteq registry.servers
             /\ r.snapshots \subseteq registry.snapshots
             /\ r.bindings \subseteq registry.bindings

LeaseSound(l) ==
  /\ ValidOutcome(l.outcome)
  /\ ApprovalRequired(l.outcome) = (l.resolution # None)
  /\ ~l.stop.halted /\ l.stop.at <= l.issued_at
  /\ l.outcome.at <= l.issued_at
  /\ l.issued_at <= l.outcome.at + AuthMaxAge
  /\ l.expires_at <= l.issued_at + LeaseMaxLife

RowSound(c) == /\ c.registry = c.lease.outcome.registry
               /\ Supports(c.registry, c.lease.outcome)
               /\ c.stop = c.lease.stop
               /\ LeaseLive(c.lease, c.at)

ReceiptSound(r) == /\ r.consumption.at <= r.started_at
                   /\ r.started_at < r.consumption.lease.expires_at
                   /\ r.started_at <= r.completed_at
                   /\ r.started_at \in Time

\* What a call has established so far.  The evidence a redemption read is not
\* that of the registry it read first: only if the registry is still the same
\* one, which RedeemReread looks at, was it the same all along.
CallSound(w) ==
  /\ work[w].step \in {"requested", "issuing"} => ValidOutcome(work[w].outcome)
  /\ work[w].step \in {"redeeming", "governed", "stopread"} =>
       /\ LeaseLive(work[w].lease, work[w].at)
       /\ Within(work[w].lease.outcome.registry)
  /\ work[w].step \in {"governed", "stopread"} =>
       (registry = work[w].lease.outcome.registry =>
          Supports(registry, work[w].lease.outcome))
  /\ work[w].step = "stopread" => work[w].stop = work[w].lease.stop
  /\ work[w].step \in {"ready", "committed"} => RowSound(work[w].consumption)

ArtifactsSound ==
  /\ \A l \in leases : LeaseSound(l)
  /\ \A c \in ledger : RowSound(c)
  /\ \A r \in receipts : ReceiptSound(r)
  /\ \A w \in Worker : CallSound(w)

\* A row is held by the call that committed it or by the caller it returned to,
\* and by nobody else.
OneHolder ==
  /\ \A c, d \in ledger : c.lease = d.lease => c = d
  /\ \A a, b \in redemptions : a.consumption = b.consumption => a = b
  /\ \A w \in Worker : work[w].step = "committed" =>
       /\ work[w].consumption \in ledger
       /\ \A a \in redemptions : a.consumption # work[w].consumption
       /\ \A v \in Worker : work[v].step = "committed" /\ v # w =>
            work[v].consumption # work[w].consumption

\* The inductive invariant.
ExecInv == ExecTypeOK /\ McpInv /\ StopsWellFormed /\ ArtifactsSound /\ OneHolder

-----------------------------------------------------------------------------
LEMMA WorkStep ==
  ASSUME DOMAIN work = Worker, NEW w \in Worker, NEW x,
         work' = [work EXCEPT ![w] = x]
  PROVE  /\ DOMAIN work' = Worker
         /\ work'[w] = x
         /\ \A v \in Worker : v # w => work'[v] = work[v]
OBVIOUS

LEMMA ExecInitInv == ExecInit => ExecInv
<1> SUFFICES ASSUME ExecInit PROVE ExecInv OBVIOUS
<1>1. McpTypeOK BY InitInv DEF ExecInit, McpInv
<1>2. \A w \in Worker : work[w] = [step |-> "idle"] BY DEF ExecInit, Idle
<1>3. ExecTypeOK BY <1>1, <1>2 DEF ExecInit, StopInit, ExecTypeOK, CallStates
<1>4. ArtifactsSound BY <1>2 DEF ExecInit, ArtifactsSound, CallSound
<1>5. OneHolder BY <1>2 DEF ExecInit, OneHolder
<1>6. McpInv BY InitInv DEF ExecInit
<1>7. StopsWellFormed
  BY DEF ExecInit, StopInit, StopsWellFormed, WellFormedHistory
<1> QED BY <1>3, <1>4, <1>5, <1>6, <1>7 DEF ExecInv

LEMMA GovernanceUnchanged ==
  ASSUME UNCHANGED <<registry, stops>>
  PROVE  /\ McpTypeOK' = McpTypeOK
         /\ McpInv' = McpInv
         /\ StopsWellFormed' = StopsWellFormed
BY DEF McpTypeOK, McpInv, StopsWellFormed, HistoriesWellFormed, SnapshotsArePinned,
       BindingsArePinned, BindingNeverMoves, ServerHistory, BindingHistory

\* A step that changes only what one worker is doing keeps the invariant if the
\* worker's new state is sound and it holds no row.
LEMMA CallStepKeepsInv ==
  ASSUME ExecInv, NEW w \in Worker, NEW x, work' = [work EXCEPT ![w] = x],
         UNCHANGED <<registry, stops, outcomes, leases, ledger, redemptions, receipts>>,
         x.step \in {"idle", "evaluating", "bound", "requested", "issuing",
                     "redeeming", "governed", "stopread", "ready"},
         x.step \in {"evaluating", "bound"} => x.request \in Request,
         x.step \in {"requested", "issuing"} =>
            x.outcome \in outcomes /\ ValidOutcome(x.outcome),
         x.step \in {"redeeming", "governed", "stopread"} =>
            /\ x.lease \in leases /\ x.at \in Time /\ LeaseLive(x.lease, x.at)
            /\ Within(x.lease.outcome.registry),
         x.step \in {"governed", "stopread"} =>
            (registry = x.lease.outcome.registry => Supports(registry, x.lease.outcome)),
         x.step = "stopread" => x.stop = x.lease.stop,
         x.step = "ready" => /\ x.consumption.lease \in leases
                             /\ x.consumption.at \in Time
                             /\ RowSound(x.consumption)
  PROVE  ExecInv'
<1>1. /\ DOMAIN work' = Worker /\ work'[w] = x
      /\ \A v \in Worker : v # w => work'[v] = work[v]
  BY WorkStep DEF ExecInv, ExecTypeOK
<1>2. McpTypeOK' /\ McpInv' /\ StopsWellFormed'
  BY GovernanceUnchanged DEF ExecInv, ExecTypeOK
<1>3. CallStates' BY <1>1 DEF ExecInv, ExecTypeOK, CallStates
<1>4. ExecTypeOK' BY <1>1, <1>2, <1>3 DEF ExecInv, ExecTypeOK
<1>5. \A v \in Worker : CallSound(v)'
  BY <1>1 DEF ExecInv, ArtifactsSound, CallSound, Within
<1>6. ArtifactsSound' BY <1>5 DEF ExecInv, ArtifactsSound
<1>7. OneHolder' BY <1>1 DEF ExecInv, OneHolder
<1> QED BY <1>2, <1>4, <1>6, <1>7 DEF ExecInv

-----------------------------------------------------------------------------
(* Steps that change only what one worker is doing *)

LEMMA EvaluateStartInv ==
  ASSUME ExecInv, NEW w \in Worker, NEW q \in Request, EvaluateStart(w, q)
  PROVE  ExecInv'
<1> DEFINE x == [step |-> "evaluating", request |-> q, registry |-> registry]
<1>1. work' = [work EXCEPT ![w] = x] BY DEF EvaluateStart
<1>2. x.step = "evaluating" /\ x.request \in Request OBVIOUS
<1> HIDE DEF x
<1> QED BY <1>1, <1>2, CallStepKeepsInv DEF EvaluateStart

LEMMA EvaluateBindInv ==
  ASSUME ExecInv, NEW w \in Worker, EvaluateBind(w)
  PROVE  ExecInv'
<1>1. PICK b : work' = [work EXCEPT ![w] =
                 [step |-> "bound", request |-> work[w].request,
                  registry |-> work[w].registry, binding |-> b]]
  BY DEF EvaluateBind
<1> DEFINE x == [step |-> "bound", request |-> work[w].request,
                 registry |-> work[w].registry, binding |-> b]
<1>2. work[w].request \in Request
  BY DEF EvaluateBind, ExecInv, ExecTypeOK, CallStates
<1>3. x.step = "bound" /\ x.request \in Request BY <1>2
<1>4. work' = [work EXCEPT ![w] = x] BY <1>1
<1> HIDE DEF x
<1> QED BY <1>3, <1>4, CallStepKeepsInv DEF EvaluateBind

LEMMA IssueStartInv ==
  ASSUME ExecInv, NEW w \in Worker, NEW o \in outcomes, IssueStart(w, o)
  PROVE  ExecInv'
<1> DEFINE x == [step |-> "requested", outcome |-> o]
<1>1. work' = [work EXCEPT ![w] = x] /\ ValidOutcome(o) BY DEF IssueStart
<1>2. x.step = "requested" /\ x.outcome \in outcomes /\ ValidOutcome(x.outcome)
  BY <1>1
<1> HIDE DEF x
<1> QED BY <1>1, <1>2, CallStepKeepsInv DEF IssueStart

LEMMA IssueAssertInv ==
  ASSUME ExecInv, NEW w \in Worker, IssueAssert(w)
  PROVE  ExecInv'
<1> DEFINE x == [step |-> "issuing", outcome |-> work[w].outcome]
<1>1. work' = [work EXCEPT ![w] = x] BY DEF IssueAssert
<1>2. work[w].outcome \in outcomes
  BY DEF IssueAssert, ExecInv, ExecTypeOK, CallStates
<1>3. ValidOutcome(work[w].outcome)
  BY DEF IssueAssert, ExecInv, ArtifactsSound, CallSound
<1>4. x.step = "issuing" /\ x.outcome \in outcomes /\ ValidOutcome(x.outcome)
  BY <1>2, <1>3
<1> HIDE DEF x
<1> QED BY <1>1, <1>4, CallStepKeepsInv DEF IssueAssert

LEMMA RedeemStartInv ==
  ASSUME ExecInv, NEW w \in Worker, NEW l \in leases, NEW e \in Executor,
         NEW t \in Time, RedeemStart(w, l, e, t)
  PROVE  ExecInv'
<1> DEFINE x == [step |-> "redeeming", lease |-> l, at |-> t]
<1>1. work' = [work EXCEPT ![w] = x] BY DEF RedeemStart
<1>2. LeaseLive(l, t) /\ Within(l.outcome.registry)
  BY DEF RedeemStart, Within
<1>3. x.step = "redeeming" /\ x.lease \in leases /\ x.at \in Time
      /\ LeaseLive(x.lease, x.at) /\ Within(x.lease.outcome.registry)
  BY <1>2
<1> HIDE DEF x
<1> QED BY <1>1, <1>3, CallStepKeepsInv DEF RedeemStart

LEMMA RedeemAssertInv ==
  ASSUME ExecInv, NEW w \in Worker, RedeemAssert(w)
  PROVE  ExecInv'
<1> DEFINE x == [step |-> "governed", lease |-> work[w].lease, at |-> work[w].at]
<1>1. work' = [work EXCEPT ![w] = x] /\ Supports(registry, work[w].lease.outcome)
  BY DEF RedeemAssert
<1>2. work[w].lease \in leases /\ work[w].at \in Time
  BY DEF RedeemAssert, ExecInv, ExecTypeOK, CallStates
<1>3. LeaseLive(work[w].lease, work[w].at) /\ Within(work[w].lease.outcome.registry)
  BY DEF RedeemAssert, ExecInv, ArtifactsSound, CallSound
<1>4. /\ x.step = "governed" /\ x.lease \in leases /\ x.at \in Time
      /\ LeaseLive(x.lease, x.at) /\ Within(x.lease.outcome.registry)
      /\ Supports(registry, x.lease.outcome)
  BY <1>1, <1>2, <1>3
<1> HIDE DEF x
<1> QED BY <1>1, <1>4, CallStepKeepsInv DEF RedeemAssert

LEMMA RedeemStopInv ==
  ASSUME ExecInv, NEW w \in Worker, RedeemStop(w)
  PROVE  ExecInv'
<1>1. PICK s \in stops :
        /\ s = work[w].lease.stop
        /\ work' = [work EXCEPT ![w] = [step |-> "stopread",
                      lease |-> work[w].lease, stop |-> s, at |-> work[w].at]]
  BY DEF RedeemStop
<1> DEFINE x == [step |-> "stopread", lease |-> work[w].lease, stop |-> s,
                 at |-> work[w].at]
<1>2. work[w].step = "governed" BY DEF RedeemStop
<1>3. work[w].lease \in leases /\ work[w].at \in Time
  BY <1>2 DEF ExecInv, ExecTypeOK, CallStates
<1>4. /\ LeaseLive(work[w].lease, work[w].at)
      /\ Within(work[w].lease.outcome.registry)
      /\ registry = work[w].lease.outcome.registry =>
           Supports(registry, work[w].lease.outcome)
  BY <1>2 DEF ExecInv, ArtifactsSound, CallSound
<1>5. /\ x.step = "stopread" /\ x.lease \in leases /\ x.at \in Time
      /\ LeaseLive(x.lease, x.at) /\ Within(x.lease.outcome.registry)
      /\ registry = x.lease.outcome.registry => Supports(registry, x.lease.outcome)
      /\ x.stop = x.lease.stop
  BY <1>1, <1>3, <1>4
<1>6. work' = [work EXCEPT ![w] = x] BY <1>1
<1> HIDE DEF x
<1> QED BY <1>5, <1>6, CallStepKeepsInv DEF RedeemStop

LEMMA RedeemRereadInv ==
  ASSUME ExecInv, NEW w \in Worker, RedeemReread(w)
  PROVE  ExecInv'
<1> DEFINE c == [lease |-> work[w].lease, registry |-> registry,
                 stop |-> work[w].stop, at |-> work[w].at]
           x == [step |-> "ready", consumption |-> c]
<1>1. work' = [work EXCEPT ![w] = x] BY DEF RedeemReread
<1>2. work[w].step = "stopread" BY DEF RedeemReread
<1>3. work[w].lease \in leases /\ work[w].at \in Time
  BY <1>2 DEF ExecInv, ExecTypeOK, CallStates
<1>4. /\ LeaseLive(work[w].lease, work[w].at)
      /\ work[w].stop = work[w].lease.stop
      /\ Supports(registry, work[w].lease.outcome)
  BY <1>2 DEF RedeemReread, ExecInv, ArtifactsSound, CallSound
<1>5. RowSound(c) BY <1>4 DEF RedeemReread, RowSound
<1>6. x.step = "ready" /\ x.consumption.lease \in leases
      /\ x.consumption.at \in Time /\ RowSound(x.consumption)
  BY <1>3, <1>5
<1> HIDE DEF x
<1> QED BY <1>1, <1>6, CallStepKeepsInv DEF RedeemReread

LEMMA CallRaisesInv ==
  ASSUME ExecInv, NEW w \in Worker, CallRaises(w)
  PROVE  ExecInv'
<1>1. work' = [work EXCEPT ![w] = Idle] BY DEF CallRaises
<1>2. Idle.step = "idle" BY DEF Idle
<1> QED BY <1>1, <1>2, CallStepKeepsInv DEF CallRaises

-----------------------------------------------------------------------------
(* Steps that add an artifact, and steps that change governance *)

\* A worker that returns leaves the calls of the others as they were.
LEMMA ReturnKeepsCalls ==
  ASSUME ExecInv, NEW w \in Worker, work' = [work EXCEPT ![w] = Idle],
         outcomes \subseteq outcomes', leases \subseteq leases', registry' = registry
  PROVE  /\ DOMAIN work' = Worker
         /\ CallStates'
         /\ \A v \in Worker : CallSound(v)'
         /\ work'[w].step = "idle"
         /\ \A v \in Worker : v # w => work'[v] = work[v]
<1>1. /\ DOMAIN work' = Worker /\ work'[w] = Idle
      /\ \A v \in Worker : v # w => work'[v] = work[v]
  BY WorkStep DEF ExecInv, ExecTypeOK
<1>2. work'[w].step = "idle" BY <1>1 DEF Idle
<1>3. CallStates' BY <1>1, <1>2 DEF ExecInv, ExecTypeOK, CallStates
<1>4. \A v \in Worker : CallSound(v)'
  BY <1>1, <1>2 DEF ExecInv, ArtifactsSound, CallSound, Within
<1> QED BY <1>1, <1>2, <1>3, <1>4

LEMMA OutcomeInv ==
  ASSUME ExecInv, NEW w \in Worker, NEW o, outcomes' = outcomes \cup {o},
         o.request \in Request, o.decision \in Decision, o.verified \in BOOLEAN,
         o.at \in Time, work' = [work EXCEPT ![w] = Idle],
         UNCHANGED <<registry, stops, leases, ledger, redemptions, receipts>>
  PROVE  ExecInv'
<1>1. McpTypeOK' /\ McpInv' /\ StopsWellFormed'
  BY GovernanceUnchanged DEF ExecInv, ExecTypeOK
<1>2. /\ DOMAIN work' = Worker /\ CallStates'
      /\ \A u \in Worker : CallSound(u)'
      /\ work'[w].step = "idle"
      /\ \A u \in Worker : u # w => work'[u] = work[u]
  BY ReturnKeepsCalls
<1>3. ExecTypeOK' BY <1>1, <1>2 DEF ExecInv, ExecTypeOK
<1>4. ArtifactsSound' BY <1>2 DEF ExecInv, ArtifactsSound
<1>5. OneHolder' BY <1>2 DEF ExecInv, OneHolder
<1> QED BY <1>1, <1>3, <1>4, <1>5 DEF ExecInv

LEMMA EvaluateFinishInv ==
  ASSUME ExecInv, NEW w \in Worker, NEW d \in Decision, NEW v \in BOOLEAN,
         NEW t \in Time, EvaluateFinish(w, d, v, t)
  PROVE  ExecInv'
<1> DEFINE o == OutcomeOf(work[w], work[w].binding, d, v, t)
<1>1. work[w].request \in Request
  BY DEF EvaluateFinish, ExecInv, ExecTypeOK, CallStates
<1>2. /\ o.request \in Request /\ o.decision \in Decision
      /\ o.verified \in BOOLEAN /\ o.at \in Time
  BY <1>1 DEF OutcomeOf
<1>3. outcomes' = outcomes \cup {o} BY DEF EvaluateFinish
<1> HIDE DEF o
<1> QED BY <1>2, <1>3, OutcomeInv DEF EvaluateFinish

LEMMA EvaluateUngovernedInv ==
  ASSUME ExecInv, NEW w \in Worker, NEW t \in Time, EvaluateUngoverned(w, t)
  PROVE  ExecInv'
<1> DEFINE o == OutcomeOf(work[w], None, "DENY", FALSE, t)
<1>1. work[w].request \in Request
  BY DEF EvaluateUngoverned, ExecInv, ExecTypeOK, CallStates
<1>2. /\ o.request \in Request /\ o.decision \in Decision
      /\ o.verified \in BOOLEAN /\ o.at \in Time
  BY <1>1 DEF OutcomeOf, Decision
<1>3. outcomes' = outcomes \cup {o} BY DEF EvaluateUngoverned
<1> HIDE DEF o
<1> QED BY <1>2, <1>3, OutcomeInv DEF EvaluateUngoverned

LEMMA IssueLeaseInv ==
  ASSUME ExecInv, NEW w \in Worker, NEW id \in LeaseId, NEW e \in Executor,
         NEW t \in Time, NEW u \in Nat, NEW req, NEW res,
         IssueLease(w, id, e, t, u, req, res)
  PROVE  ExecInv'
<1> DEFINE o == work[w].outcome
<1>1. /\ work[w].step = "issuing" /\ work' = [work EXCEPT ![w] = Idle]
      /\ UNCHANGED <<registry, stops, outcomes, ledger, redemptions, receipts>>
      /\ o.at <= t /\ t <= o.at + AuthMaxAge /\ u <= t + LeaseMaxLife
      /\ ApprovalChain(o, req, res, t)
  BY DEF IssueLease, Timely
<1>2. PICK s \in stops :
        /\ s.at <= t /\ ~s.halted
        /\ leases' = leases \cup
             {[lease_id |-> id, executor |-> e, outcome |-> o,
               requirement |-> req, resolution |-> res, stop |-> s,
               issued_at |-> t, expires_at |-> u]}
  BY DEF IssueLease, StopPasses
<1> DEFINE l == [lease_id |-> id, executor |-> e, outcome |-> o,
                 requirement |-> req, resolution |-> res, stop |-> s,
                 issued_at |-> t, expires_at |-> u]
<1>3. McpTypeOK' /\ McpInv' /\ StopsWellFormed'
  BY <1>1, GovernanceUnchanged DEF ExecInv, ExecTypeOK
<1>4. /\ DOMAIN work' = Worker /\ CallStates'
      /\ \A v \in Worker : CallSound(v)'
      /\ work'[w].step = "idle"
      /\ \A v \in Worker : v # w => work'[v] = work[v]
  BY <1>1, <1>2, ReturnKeepsCalls
<1>5. o \in outcomes BY <1>1 DEF ExecInv, ExecTypeOK, CallStates
<1>6. /\ l.lease_id \in LeaseId /\ l.executor \in Executor
      /\ l.outcome \in outcomes /\ l.stop \in StopState
      /\ l.issued_at \in Time /\ l.expires_at \in Nat
  BY <1>5 DEF ExecInv, ExecTypeOK
<1>7. ExecTypeOK' BY <1>1, <1>2, <1>3, <1>4, <1>6 DEF ExecInv, ExecTypeOK
<1>8. LeaseSound(l)
  <2>1. ValidOutcome(o) BY <1>1 DEF ExecInv, ArtifactsSound, CallSound
  <2>2. ApprovalRequired(o) = (res # None)
    BY <1>1 DEF ApprovalChain, ApprovalRequired
  <2> QED BY <1>1, <1>2, <2>1, <2>2 DEF LeaseSound
<1>9. ArtifactsSound' BY <1>1, <1>2, <1>4, <1>8 DEF ExecInv, ArtifactsSound
<1>10. OneHolder' BY <1>1, <1>4 DEF ExecInv, OneHolder
<1> QED BY <1>3, <1>7, <1>9, <1>10 DEF ExecInv

LEMMA RedeemCommitInv ==
  ASSUME ExecInv, NEW w \in Worker, RedeemCommit(w)
  PROVE  ExecInv'
<1> DEFINE c == work[w].consumption
           x == [step |-> "committed", consumption |-> c]
<1>1. /\ work[w].step = "ready" /\ work' = [work EXCEPT ![w] = x]
      /\ \A row \in ledger : row.lease # c.lease
      /\ ledger' = ledger \cup {c}
      /\ UNCHANGED <<registry, stops, outcomes, leases, redemptions, receipts>>
  BY DEF RedeemCommit, Insertable
<1>2. /\ DOMAIN work' = Worker /\ work'[w] = x
      /\ \A v \in Worker : v # w => work'[v] = work[v]
  BY <1>1, WorkStep DEF ExecInv, ExecTypeOK
<1>3. McpTypeOK' /\ McpInv' /\ StopsWellFormed'
  BY <1>1, GovernanceUnchanged DEF ExecInv, ExecTypeOK
<1>4. c.lease \in leases /\ c.at \in Time
  BY <1>1 DEF ExecInv, ExecTypeOK, CallStates
<1>5. RowSound(c) BY <1>1 DEF ExecInv, ArtifactsSound, CallSound
<1>6. x.step = "committed" /\ x.consumption = c OBVIOUS
<1>7. CallStates' BY <1>1, <1>2, <1>4, <1>6 DEF ExecInv, ExecTypeOK, CallStates
<1>8. ExecTypeOK' BY <1>1, <1>2, <1>3, <1>4, <1>7 DEF ExecInv, ExecTypeOK
<1>9. \A v \in Worker : CallSound(v)'
  BY <1>1, <1>2, <1>5, <1>6 DEF ExecInv, ArtifactsSound, CallSound, Within
<1>10. ArtifactsSound' BY <1>1, <1>5, <1>9 DEF ExecInv, ArtifactsSound
<1>11. OneHolder'
  <2>1. c \notin ledger BY <1>1
  <2>2. \A a \in redemptions : a.consumption # c
    BY <2>1 DEF ExecInv, ExecTypeOK
  <2>3. \A v \in Worker : work[v].step = "committed" => work[v].consumption # c
    BY <2>1 DEF ExecInv, OneHolder
  <2>4. \A d, f \in ledger' : d.lease = f.lease => d = f
    BY <1>1 DEF ExecInv, OneHolder
  <2>5. ASSUME NEW v \in Worker, work'[v].step = "committed"
        PROVE  /\ work'[v].consumption \in ledger'
               /\ \A a \in redemptions' : a.consumption # work'[v].consumption
               /\ \A u \in Worker : work'[u].step = "committed" /\ u # v =>
                    work'[u].consumption # work'[v].consumption
    <3>1. CASE v = w BY <1>1, <1>2, <1>6, <2>2, <2>3, <3>1
    <3>2. CASE v # w
      BY <1>1, <1>2, <1>6, <2>3, <2>5, <3>2 DEF ExecInv, OneHolder
    <3> QED BY <3>1, <3>2
  <2>6. \A a, b \in redemptions' : a.consumption = b.consumption => a = b
    BY <1>1 DEF ExecInv, OneHolder
  <2> QED BY <2>4, <2>5, <2>6 DEF OneHolder
<1> QED BY <1>3, <1>8, <1>10, <1>11 DEF ExecInv

LEMMA RedeemReturnInv ==
  ASSUME ExecInv, NEW w \in Worker, RedeemReturn(w)
  PROVE  ExecInv'
<1> DEFINE d == [by |-> w, consumption |-> work[w].consumption]
<1>1. /\ work[w].step = "committed" /\ work' = [work EXCEPT ![w] = Idle]
      /\ redemptions' = redemptions \cup {d}
      /\ UNCHANGED <<registry, stops, outcomes, leases, ledger, receipts>>
  BY DEF RedeemReturn
<1>2. McpTypeOK' /\ McpInv' /\ StopsWellFormed'
  BY <1>1, GovernanceUnchanged DEF ExecInv, ExecTypeOK
<1>3. /\ DOMAIN work' = Worker /\ CallStates'
      /\ \A v \in Worker : CallSound(v)'
      /\ work'[w].step = "idle"
      /\ \A v \in Worker : v # w => work'[v] = work[v]
  BY <1>1, ReturnKeepsCalls
<1>4. /\ d.by = w /\ d.consumption \in ledger
      /\ \A a \in redemptions : a.consumption # d.consumption
      /\ \A v \in Worker : work[v].step = "committed" /\ v # w =>
           work[v].consumption # d.consumption
  BY <1>1 DEF ExecInv, OneHolder
<1> HIDE DEF d
<1>5. ExecTypeOK' BY <1>1, <1>2, <1>3, <1>4 DEF ExecInv, ExecTypeOK
<1>6. ArtifactsSound' BY <1>1, <1>3 DEF ExecInv, ArtifactsSound
<1>7. OneHolder'
  <2>1. \A a, b \in redemptions' : a.consumption = b.consumption => a = b
    BY <1>1, <1>4 DEF ExecInv, OneHolder
  <2>2. ASSUME NEW v \in Worker, work'[v].step = "committed"
        PROVE  /\ v # w /\ work[v].step = "committed"
               /\ work'[v].consumption = work[v].consumption
    BY <1>3, <2>2
  <2> QED BY <1>1, <1>4, <2>1, <2>2 DEF ExecInv, OneHolder
<1> QED BY <1>2, <1>5, <1>6, <1>7 DEF ExecInv

LEMMA BuildReceiptInv ==
  ASSUME ExecInv, NEW id \in ReceiptId, NEW l \in leases, NEW t \in Time, NEW res,
         NEW started \in Time, NEW completed \in Time,
         BuildReceipt(id, l, t, res, started, completed)
  PROVE  ExecInv'
<1> DEFINE c == [lease |-> l, registry |-> l.outcome.registry, stop |-> l.stop,
                 at |-> t]
           r == [receipt_id |-> id, consumption |-> c, result |-> res,
                 started_at |-> started, completed_at |-> completed]
<1>1. /\ ReceiptAllowed(c, started, completed)
      /\ receipts' = receipts \cup {r}
      /\ UNCHANGED <<registry, stops, outcomes, leases, work, ledger, redemptions>>
  BY DEF BuildReceipt
<1>2. McpTypeOK' /\ McpInv' /\ StopsWellFormed'
  BY <1>1, GovernanceUnchanged DEF ExecInv, ExecTypeOK
<1>3. r.receipt_id \in ReceiptId /\ r.consumption \in ledger
  BY <1>1 DEF ReceiptAllowed
<1>4. ReceiptSound(r) BY <1>1 DEF ReceiptAllowed, ReceiptSound
<1> HIDE DEF r
<1>5. CallStates' BY <1>1 DEF ExecInv, ExecTypeOK, CallStates
<1>6. ExecTypeOK' BY <1>1, <1>2, <1>3, <1>5 DEF ExecInv, ExecTypeOK
<1>7. \A w \in Worker : CallSound(w)'
  BY <1>1 DEF ExecInv, ArtifactsSound, CallSound, Within
<1>8. ArtifactsSound' BY <1>1, <1>4, <1>7 DEF ExecInv, ArtifactsSound
<1>9. OneHolder' BY <1>1 DEF ExecInv, OneHolder
<1> QED BY <1>2, <1>6, <1>8, <1>9 DEF ExecInv

\* A registry that grows into one of its past has not grown.
LEMMA GrownIntoPast ==
  ASSUME McpTypeOK, McpTypeOK', Within(registry'),
         registry.servers \subseteq registry'.servers,
         registry.snapshots \subseteq registry'.snapshots,
         registry.bindings \subseteq registry'.bindings
  PROVE  registry' = registry
<1>1. /\ registry.servers = registry'.servers
      /\ registry.snapshots = registry'.snapshots
      /\ registry.bindings = registry'.bindings
  BY DEF Within
<1> QED BY <1>1 DEF McpTypeOK

\* What operators do concerns no artifact, and no call but for the evidence that
\* a redemption has read.
LEMMA GovernanceChangeInv ==
  ASSUME ExecInv, UNCHANGED gateVars, McpInv', StopsWellFormed',
         stops' \subseteq StopState,
         registry.servers \subseteq registry'.servers,
         registry.snapshots \subseteq registry'.snapshots,
         registry.bindings \subseteq registry'.bindings
  PROVE  ExecInv'
<1>1. McpTypeOK /\ McpTypeOK' BY DEF McpInv, ExecInv, ExecTypeOK
<1>2. ExecTypeOK' BY <1>1 DEF gateVars, ExecInv, ExecTypeOK, CallStates
<1>3. \A r : Within(r) => Within(r)' BY DEF Within
<1>4. \A r : Within(r) /\ registry' = r => registry' = registry
  BY <1>1, GrownIntoPast
<1>5. \A w \in Worker : CallSound(w)'
  BY <1>3, <1>4 DEF gateVars, ExecInv, ArtifactsSound, CallSound
<1>6. ArtifactsSound' BY <1>5 DEF gateVars, ExecInv, ArtifactsSound
<1>7. OneHolder' BY DEF gateVars, ExecInv, OneHolder
<1> QED BY <1>2, <1>6, <1>7 DEF ExecInv

LEMMA StopStepWellFormed ==
  ASSUME stops \subseteq StopState, StopsWellFormed, StopNext
  PROVE  StopsWellFormed' /\ stops' \subseteq StopState /\ stops \subseteq stops'
<1>1. PICK x \in StopState : Appendable(stops, x) /\ stops' = stops \cup {x}
  BY DEF StopNext, RegisterStop, StopState
<1>2. Dated(stops) BY StopAssumption DEF Dated, StopState
<1>3. x.at \in Nat BY StopAssumption DEF StopState
<1>4. WellFormedHistory(stops \cup {x})
  BY <1>1, <1>2, <1>3, AppendKeepsWellFormed DEF StopsWellFormed
<1> QED BY <1>1, <1>4 DEF StopsWellFormed

LEMMA GovernanceGrows ==
  ASSUME ExecInv, Operate
  PROVE  /\ registry.servers \subseteq registry'.servers
         /\ registry.snapshots \subseteq registry'.snapshots
         /\ registry.bindings \subseteq registry'.bindings
         /\ stops \subseteq stops'
         /\ UNCHANGED gateVars
<1>1. CASE McpNext /\ UNCHANGED <<stops, gateVars>>
  BY <1>1, StepGrows DEF ExecInv, ExecTypeOK
<1>2. CASE StopNext /\ UNCHANGED <<registry, gateVars>>
  BY <1>2, StopStepWellFormed DEF ExecInv, ExecTypeOK
<1> QED BY <1>1, <1>2 DEF Operate

LEMMA OperateInv ==
  ASSUME ExecInv, Operate
  PROVE  ExecInv'
<1>1. McpInv'
  BY StepKeepsInv DEF Operate, ExecInv
<1>2. StopsWellFormed' /\ stops' \subseteq StopState
  <2>1. CASE UNCHANGED stops
    BY <2>1 DEF ExecInv, ExecTypeOK, StopsWellFormed
  <2>2. CASE StopNext
    BY <2>2, StopStepWellFormed DEF ExecInv, ExecTypeOK
  <2> QED BY <2>1, <2>2 DEF Operate
<1> QED BY <1>1, <1>2, GovernanceGrows, GovernanceChangeInv

LEMMA RestartInv ==
  ASSUME ExecInv, Restart
  PROVE  ExecInv'
<1>1. /\ stops' = {} /\ registry' = EmptyRegistry
      /\ \A w \in Worker : work'[w].step = "idle"
      /\ DOMAIN work' = Worker
      /\ UNCHANGED <<outcomes, leases, ledger, redemptions, receipts>>
  BY DEF Restart, Idle
<1>2. McpInv' /\ McpTypeOK'
  BY <1>1 DEF EmptyRegistry, McpInv, McpTypeOK, HistoriesWellFormed,
              SnapshotsArePinned, BindingsArePinned, BindingNeverMoves,
              WellFormedHistory, ServerHistory, BindingHistory
<1>3. StopsWellFormed' BY <1>1 DEF StopsWellFormed, WellFormedHistory
<1>4. CallStates' BY <1>1 DEF CallStates
<1>5. ExecTypeOK' BY <1>1, <1>2, <1>4 DEF ExecInv, ExecTypeOK
<1>6. ArtifactsSound' BY <1>1 DEF ExecInv, ArtifactsSound, CallSound
<1>7. OneHolder' BY <1>1 DEF ExecInv, OneHolder
<1> QED BY <1>2, <1>3, <1>5, <1>6, <1>7 DEF ExecInv

-----------------------------------------------------------------------------
(* The invariant of the specification *)

LEMMA GateStepInv ==
  ASSUME ExecInv, NEW w \in Worker, GateStep(w)
  PROVE  ExecInv'
<1>1. CASE Evaluate(w)
  BY <1>1, EvaluateStartInv, EvaluateBindInv, EvaluateFinishInv, EvaluateUngovernedInv
     DEF Evaluate
<1>2. CASE (\E o \in outcomes : IssueStart(w, o)) \/ IssueAssert(w)
  BY <1>2, IssueStartInv, IssueAssertInv
<1>3. CASE \E l \in leases, x \in Executor, t \in Time : RedeemStart(w, l, x, t)
  BY <1>3, RedeemStartInv
<1>4. CASE RedeemStep(w)
  BY <1>4, RedeemAssertInv, RedeemStopInv, RedeemRereadInv, RedeemCommitInv, RedeemReturnInv,
     CallRaisesInv DEF RedeemStep
<1> QED BY <1>1, <1>2, <1>3, <1>4 DEF GateStep

LEMMA ReceiptInv ==
  ASSUME ExecInv, Receipt
  PROVE  ExecInv'
BY BuildReceiptInv DEF Receipt

\* Whatever approval artifacts come with it: the composition with the approval
\* gate takes the same steps.
LEMMA IssueInv ==
  ASSUME ExecInv, NEW w \in Worker, NEW req, NEW res, Issue(w, req, res)
  PROVE  ExecInv'
<1>1. PICK id \in LeaseId, x \in Executor, t \in Time, life \in 1 .. LeaseMaxLife :
             IssueLease(w, id, x, t, t + life, req, res)
  BY DEF Issue
<1>2. t + life \in Nat BY ExecutionAssumption
<1> QED BY <1>1, <1>2, IssueLeaseInv

LEMMA UnchangedInv ==
  ASSUME ExecInv, UNCHANGED execVars
  PROVE  ExecInv'
<1>1. /\ UNCHANGED <<registry, stops>>
      /\ UNCHANGED <<outcomes, leases, work, ledger, redemptions, receipts>>
  BY DEF execVars, gateVars
<1>2. McpInv' /\ StopsWellFormed' /\ stops' \subseteq StopState
  BY <1>1, GovernanceUnchanged DEF ExecInv, ExecTypeOK
<1> QED BY <1>1, <1>2, GovernanceChangeInv DEF gateVars

LEMMA ExecStepInv == ExecInv /\ [ExecNext \/ Restart]_execVars => ExecInv'
<1> SUFFICES ASSUME ExecInv, [ExecNext \/ Restart]_execVars PROVE ExecInv' OBVIOUS
<1>1. CASE Operate BY <1>1, OperateInv
<1>2. CASE Receipt BY <1>2, ReceiptInv
<1>3. CASE \E w \in Worker : GateStep(w) \/ Issue(w, None, None)
  BY <1>3, GateStepInv, IssueInv
<1>4. CASE Restart BY <1>4, RestartInv
<1>5. CASE UNCHANGED execVars BY <1>5, UnchangedInv
<1> QED BY <1>1, <1>2, <1>3, <1>4, <1>5 DEF ExecNext

LEMMA AlwaysExecInv == RestartSpec => []ExecInv
<1>1. ExecInit => ExecInv BY ExecInitInv
<1>2. ExecInv /\ [ExecNext \/ Restart]_execVars => ExecInv' BY ExecStepInv
<1> QED BY <1>1, <1>2, PTL DEF RestartSpec

-----------------------------------------------------------------------------
(* What it implies.  RestartSpec allows every behaviour of ExecSpec. *)

\* Type correctness, restarts included.
THEOREM ExecTypeCorrect == RestartSpec => []ExecTypeOK
<1>1. ExecInv => ExecTypeOK BY DEF ExecInv
<1> QED BY <1>1, AlwaysExecInv, PTL

LEMMA RedeemedOnce == ExecInv => OneRedemptionPerLease
<1> SUFFICES ASSUME ExecInv PROVE OneRedemptionPerLease OBVIOUS
<1>1. \A a \in redemptions : a.consumption \in ledger
  BY DEF ExecInv, ExecTypeOK
<1> QED BY <1>1 DEF ExecInv, OneHolder, OneRedemptionPerLease

\* However many workers race for a lease, and however often the process dies in
\* between, one of them at most is told that it redeemed it.
THEOREM LeasesAreRedeemedOnce == RestartSpec => []OneRedemptionPerLease
BY RedeemedOnce, AlwaysExecInv, PTL

LEMMA RowGoverned == ExecInv => RowsAreGoverned
<1> SUFFICES ASSUME ExecInv, NEW c \in ledger
             PROVE  LET l == c.lease
                        o == l.outcome
                    IN /\ l \in leases /\ o \in outcomes
                       /\ o.verified /\ o.decision # "DENY"
                       /\ c.registry = o.registry
                       /\ Supports(o.registry, o)
                       /\ c.stop = l.stop
                       /\ ~c.stop.halted /\ c.stop.at <= l.issued_at
                       /\ o.at <= l.issued_at /\ l.issued_at <= c.at
                       /\ c.at < l.expires_at
  BY DEF RowsAreGoverned
<1>1. c.lease \in leases /\ c.lease.outcome \in outcomes
  BY DEF ExecInv, ExecTypeOK
<1>2. LeaseSound(c.lease) /\ RowSound(c)
  BY <1>1 DEF ExecInv, ArtifactsSound
<1> QED BY <1>1, <1>2 DEF LeaseSound, RowSound, ValidOutcome, LeaseLive

\* No row of the ledger lacks a link of its chain.
THEOREM EveryRowIsGoverned == RestartSpec => []RowsAreGoverned
BY RowGoverned, AlwaysExecInv, PTL

LEMMA AuthorityBounded == ExecInv => AuthorityIsBounded
<1> SUFFICES ASSUME ExecInv, NEW r \in receipts
             PROVE  LET c == r.consumption
                        o == c.lease.outcome
                    IN /\ c \in ledger
                       /\ o.decision # "DENY"
                       /\ c.at <= r.started_at /\ r.started_at <= r.completed_at
                       /\ o.at <= r.started_at
                       /\ r.started_at < o.at + AuthMaxAge + LeaseMaxLife
  BY DEF AuthorityIsBounded
<1> DEFINE c == r.consumption
           l == c.lease
           o == l.outcome
<1>1. c \in ledger /\ l \in leases /\ o \in outcomes
  BY DEF ExecInv, ExecTypeOK
<1>2. LeaseSound(l) /\ RowSound(c) /\ ReceiptSound(r)
  BY <1>1 DEF ExecInv, ArtifactsSound
<1>3. /\ o.at <= l.issued_at /\ l.issued_at <= o.at + AuthMaxAge
      /\ l.expires_at <= l.issued_at + LeaseMaxLife
      /\ o.decision # "DENY"
  BY <1>2 DEF LeaseSound, ValidOutcome
<1>4. l.issued_at <= c.at BY <1>2 DEF RowSound, LeaseLive
<1>5. /\ c.at <= r.started_at /\ r.started_at < l.expires_at
      /\ r.started_at <= r.completed_at /\ r.started_at \in Time
  BY <1>2 DEF ReceiptSound
<1>6. /\ o.at \in Nat /\ l.issued_at \in Nat /\ l.expires_at \in Nat
      /\ c.at \in Nat /\ r.started_at \in Nat
      /\ AuthMaxAge \in Nat /\ LeaseMaxLife \in Nat
  BY <1>1, <1>5, ExecutionAssumption DEF ExecInv, ExecTypeOK
<1> HIDE DEF c, l, o
<1>7. o.at <= r.started_at /\ r.started_at < o.at + AuthMaxAge + LeaseMaxLife
  BY <1>3, <1>4, <1>5, <1>6
<1> QED BY <1>1, <1>3, <1>5, <1>7 DEF c, l, o

\* The two windows add up and nothing stretches them.
THEOREM AuthorityStaysBounded == RestartSpec => []AuthorityIsBounded
BY AuthorityBounded, AlwaysExecInv, PTL

LEMMA RowReceiptable == ExecInv => AlwaysReceiptable
<1> SUFFICES ASSUME ExecInv, NEW c \in ledger PROVE ReceiptAllowed(c, c.at, c.at)
  BY DEF AlwaysReceiptable
<1>1. c.lease \in leases /\ c.at \in Nat
  BY ExecutionAssumption DEF ExecInv, ExecTypeOK
<1>2. LeaseSound(c.lease) /\ RowSound(c)
  BY <1>1 DEF ExecInv, ArtifactsSound
<1>3. LeaseLinked(c.lease)
  BY <1>2 DEF LeaseSound, LeaseLinked
<1> QED BY <1>1, <1>2, <1>3 DEF RowSound, LeaseLive, ReceiptAllowed

\* Nothing that happens after a redemption makes its evidence impossible.
THEOREM RowsStayReceiptable == RestartSpec => []AlwaysReceiptable
BY RowReceiptable, AlwaysExecInv, PTL

-----------------------------------------------------------------------------
(* The lease ledger is a one-time ledger *)

\* A step that writes no row and returns no consumption is a stutter to the ledger.
LEMMA LedgerStutters ==
  ASSUME UNCHANGED <<ledger, redemptions>>
  PROVE  UNCHANGED <<leaseRows, leaseAnswers>>
BY DEF leaseRows, leaseAnswers

\* COMMIT spends a lease that no row names yet.
LEMMA CommitSpends ==
  ASSUME NEW w \in Worker, RedeemCommit(w)
  PROVE  LeaseLedger!OneTimeNext
<1> DEFINE c == work[w].consumption
           x == [token |-> c.lease, entry |-> c]
<1>1. /\ \A row \in ledger : row.lease # c.lease
      /\ ledger' = ledger \cup {c} /\ redemptions' = redemptions
  BY DEF RedeemCommit, Insertable
<1>2. leaseRows' = leaseRows \cup {x} /\ leaseAnswers' = leaseAnswers
  BY <1>1 DEF leaseRows, leaseAnswers
<1>3. \A y \in leaseRows : y.token # x.token BY <1>1 DEF leaseRows
<1>4. x \in leaseRows' BY <1>2
<1> HIDE DEF x
<1>5. LeaseLedger!Spend(x) BY <1>2, <1>3 DEF LeaseLedger!Spend
<1> QED BY <1>4, <1>5 DEF LeaseLedger!OneTimeNext

\* redeem_lease returns a row that is there and that nobody was returned before.
LEMMA ReturnTells ==
  ASSUME ExecInv, NEW w \in Worker, RedeemReturn(w)
  PROVE  LeaseLedger!OneTimeNext
<1> DEFINE c == work[w].consumption
           d == [by |-> w, consumption |-> c]
           a == [token |-> c.lease, entry |-> c, answer |-> d]
<1>1. /\ work[w].step = "committed" /\ redemptions' = redemptions \cup {d}
      /\ ledger' = ledger
  BY DEF RedeemReturn
<1>2. c \in ledger /\ \A e \in redemptions : e.consumption # c
  BY <1>1 DEF ExecInv, OneHolder
<1>3. \A e \in redemptions : e.consumption.lease # c.lease
  BY <1>2 DEF ExecInv, ExecTypeOK, OneHolder
<1>4. leaseAnswers' = leaseAnswers \cup {a} /\ leaseRows' = leaseRows
  BY <1>1 DEF leaseRows, leaseAnswers
<1>5. \A b \in leaseAnswers : b.token # a.token BY <1>3 DEF leaseAnswers
<1>6. \E x \in leaseRows : x.token = a.token /\ x.entry = a.entry
  <2>1. [token |-> c.lease, entry |-> c] \in leaseRows BY <1>2 DEF leaseRows
  <2> QED BY <2>1
<1>7. a \in leaseAnswers' BY <1>4
<1> HIDE DEF a
<1>8. LeaseLedger!Tell(a) BY <1>4, <1>5, <1>6 DEF LeaseLedger!Tell
<1> QED BY <1>7, <1>8 DEF LeaseLedger!OneTimeNext

\* Every step of the boundary is a step of the one-time ledger or none, with any
\* approval artifacts.
LEMMA LedgerStep ==
  ASSUME ExecInv,
         \/ Operate \/ Receipt \/ Restart
         \/ \E w \in Worker : GateStep(w) \/ \E req, res : Issue(w, req, res)
         \/ UNCHANGED execVars
  PROVE  [LeaseLedger!OneTimeNext]_<<leaseRows, leaseAnswers>>
<1>1. CASE Operate \/ Receipt \/ Restart \/ UNCHANGED execVars
  <2>1. UNCHANGED <<ledger, redemptions>>
    BY <1>1 DEF Operate, Receipt, BuildReceipt, Restart, gateVars, execVars
  <2> QED BY <2>1, LedgerStutters
<1>2. ASSUME NEW w \in Worker, RedeemStep(w)
      PROVE  [LeaseLedger!OneTimeNext]_<<leaseRows, leaseAnswers>>
  <2>1. CASE RedeemCommit(w) BY <2>1, CommitSpends
  <2>2. CASE RedeemReturn(w) BY <2>2, ReturnTells
  <2>3. CASE RedeemAssert(w) \/ RedeemStop(w) \/ RedeemReread(w) \/ CallRaises(w)
    BY <2>3, LedgerStutters DEF RedeemAssert, RedeemStop, RedeemReread, CallRaises
  <2> QED BY <1>2, <2>1, <2>2, <2>3 DEF RedeemStep
<1>3. ASSUME NEW w \in Worker, GateStep(w), ~RedeemStep(w)
      PROVE  UNCHANGED <<ledger, redemptions>>
  BY <1>3 DEF GateStep, Evaluate, EvaluateStart, EvaluateBind, EvaluateFinish,
              EvaluateUngoverned, IssueStart, IssueAssert, RedeemStart
<1>4. ASSUME NEW w \in Worker, NEW req, NEW res, Issue(w, req, res)
      PROVE  UNCHANGED <<ledger, redemptions>>
  BY <1>4 DEF Issue, IssueLease
<1> QED BY <1>1, <1>2, <1>3, <1>4, LedgerStutters

\* LeasesAreOneTime: races, failed calls and restarts are nothing a caller of the
\* ledger could tell from a ledger that hands out each lease once.
THEOREM LeaseLedgerIsOneTime == RestartSpec => LeasesAreOneTime
<1>1. ExecInit => LeaseLedger!OneTimeInit
  BY DEF ExecInit, LeaseLedger!OneTimeInit, leaseRows, leaseAnswers
<1>2. ExecInv /\ [ExecNext \/ Restart]_execVars
        => [LeaseLedger!OneTimeNext]_<<leaseRows, leaseAnswers>>
  BY LedgerStep DEF ExecNext
<1>3. RestartSpec => LeaseLedger!OneTimeSpec
  BY <1>1, <1>2, AlwaysExecInv, PTL DEF RestartSpec, LeaseLedger!OneTimeSpec
<1> QED BY <1>3 DEF LeasesAreOneTime

-----------------------------------------------------------------------------
(* A drained halt holds *)

\* The current stop state is one state: a halted one leaves no other to pass
\* the check with.
LEMMA HaltedBlocksCheck ==
  ASSUME ExecInv, Halted, NEW s \in stops, IsCurrentStop(s)
  PROVE  s.halted
<1>1. PICK h \in stops : IsCurrentStop(h) /\ h.halted BY DEF Halted
<1>2. h = s BY <1>1, LatestIsUnique DEF ExecInv, StopsWellFormed, IsCurrentStop
<1> QED BY <1>1, <1>2

\* A worker that is not in flight before a step under a drained halt is not in
\* flight after it.
LEMMA DrainedCall ==
  ASSUME ExecInv, Drained, NEW w \in Worker, NEW req, NEW res,
         GateStep(w) \/ Issue(w, req, res)
  PROVE  ledger' = ledger /\ stops' = stops /\ \A v \in Worker : ~InFlight(v)'
<1>1. \A v \in Worker : ~InFlight(v) BY DEF Drained
<1>2. ~RedeemStop(w) BY HaltedBlocksCheck DEF Drained, RedeemStop, StopPasses
<1>3. ~RedeemReread(w) /\ ~RedeemCommit(w)
  BY <1>1 DEF InFlight, RedeemReread, RedeemCommit
<1>4. ASSUME NEW x, work' = [work EXCEPT ![w] = x],
             x.step \notin {"stopread", "ready"}
      PROVE  \A v \in Worker : ~InFlight(v)'
  BY <1>1, <1>4, WorkStep DEF InFlight, ExecInv, ExecTypeOK
<1>5. CASE Evaluate(w)
  <2>1. CASE \E q \in Request : EvaluateStart(w, q)
    <3>1. PICK q \in Request : EvaluateStart(w, q) BY <2>1
    <3>2. [step |-> "evaluating", request |-> q, registry |-> registry].step
            = "evaluating"
      OBVIOUS
    <3> QED BY <1>4, <3>1, <3>2 DEF EvaluateStart
  <2>2. CASE \E d \in Decision, v \in BOOLEAN, t \in Time : EvaluateFinish(w, d, v, t)
    BY <1>4, <2>2 DEF EvaluateFinish, Idle
  <2>3. CASE EvaluateBind(w)
    <3>1. PICK b : work' = [work EXCEPT ![w] =
                     [step |-> "bound", request |-> work[w].request,
                      registry |-> work[w].registry, binding |-> b]]
      BY <2>3 DEF EvaluateBind
    <3>2. [step |-> "bound", request |-> work[w].request,
           registry |-> work[w].registry, binding |-> b].step = "bound"
      OBVIOUS
    <3> QED BY <1>4, <2>3, <3>1, <3>2 DEF EvaluateBind
  <2>4. CASE \E t \in Time : EvaluateUngoverned(w, t)
    BY <1>4, <2>4 DEF EvaluateUngoverned, Idle
  <2> QED BY <1>5, <2>1, <2>2, <2>3, <2>4 DEF Evaluate
<1>6. CASE \E o \in outcomes : IssueStart(w, o)
  <2>1. PICK o \in outcomes : IssueStart(w, o) BY <1>6
  <2>2. [step |-> "requested", outcome |-> o].step = "requested" OBVIOUS
  <2> QED BY <1>4, <2>1, <2>2 DEF IssueStart
<1>7. CASE IssueAssert(w)
  <2>1. [step |-> "issuing", outcome |-> work[w].outcome].step = "issuing" OBVIOUS
  <2> QED BY <1>4, <1>7, <2>1 DEF IssueAssert
<1>8. CASE RedeemAssert(w)
  <2>1. [step |-> "governed", lease |-> work[w].lease, at |-> work[w].at].step
          = "governed"
    OBVIOUS
  <2> QED BY <1>4, <1>8, <2>1 DEF RedeemAssert
<1>9. CASE \E l \in leases, x \in Executor, t \in Time : RedeemStart(w, l, x, t)
  <2>1. PICK l \in leases, x \in Executor, t \in Time : RedeemStart(w, l, x, t)
    BY <1>9
  <2>2. [step |-> "redeeming", lease |-> l, at |-> t].step = "redeeming" OBVIOUS
  <2> QED BY <1>4, <2>1, <2>2 DEF RedeemStart
<1>10. CASE RedeemReturn(w) \/ CallRaises(w)
  BY <1>4, <1>10 DEF RedeemReturn, CallRaises, Idle
<1>11. CASE Issue(w, req, res)
  BY <1>4, <1>11 DEF Issue, IssueLease, Idle
<1> QED BY <1>2, <1>3, <1>5, <1>6, <1>7, <1>8, <1>9, <1>10, <1>11
        DEF GateStep, RedeemStep

\* Under a drained halt no step adds a row, or leaves the drained halt but for
\* another stop state; whatever approval artifacts issue_lease is given.
LEMMA DrainedStep ==
  ASSUME ExecInv, Drained,
         \/ Operate \/ Receipt \/ Restart
         \/ \E w \in Worker : GateStep(w) \/ \E req, res : Issue(w, req, res)
  PROVE  ledger' = ledger /\ (Drained' \/ stops' # stops)
<1>1. ASSUME stops' = stops, \A w \in Worker : ~InFlight(w)'
      PROVE  Drained'
  BY <1>1 DEF Drained, Halted, IsCurrentStop
<1>2. CASE Restart
  <2>1. stops # {} BY DEF Drained, Halted
  <2> QED BY <1>2, <2>1 DEF Restart
<1>3. CASE Operate \/ Receipt
  <2>1. ledger' = ledger /\ work' = work
    BY <1>3 DEF Operate, Receipt, BuildReceipt, gateVars
  <2> QED BY <1>1, <2>1 DEF Drained, InFlight
<1>4. CASE \E w \in Worker : GateStep(w) \/ \E req, res : Issue(w, req, res)
  BY <1>1, <1>4, DrainedCall
<1> QED BY <1>2, <1>3, <1>4

\* With any number of workers in any state, and with restarts: after a drained
\* halt the ledger gains no row until an operator registers another state.
THEOREM DrainedHaltHolds == RestartSpec => HaltHolds
<1> DEFINE A == Drained => ledger' = ledger /\ (Drained' \/ stops' # stops)
<1>1. ExecInv /\ (ExecNext \/ Restart) => A BY DrainedStep DEF ExecNext
<1>2. ExecInv /\ [ExecNext \/ Restart]_execVars => [A]_execVars BY <1>1
<1>3. RestartSpec => [][A]_execVars BY <1>2, AlwaysExecInv, PTL DEF RestartSpec
<1> QED BY <1>3 DEF HaltHolds

-----------------------------------------------------------------------------
(* Drift is final *)

\* Every registry that a call or an outcome remembers is a past of the present
\* one, and every stop state a lease names is in the history.  A restart, which
\* empties both, breaks this.
Remembered ==
  /\ \A o \in outcomes : Within(o.registry)
  /\ \A w \in Worker :
       work[w].step \in {"evaluating", "bound"} => Within(work[w].registry)
  /\ \A l \in leases : l.stop \in stops

LEMMA RememberedInit == ExecInit => Remembered
BY DEF ExecInit, Idle, Remembered

\* Outside Operate the governance stays, and what a worker or an artifact takes
\* up is the governance of the moment.
LEMMA WorkerRemembers ==
  ASSUME ExecInv, Remembered, NEW w \in Worker, GateStep(w) \/ Issue(w, None, None)
  PROVE  Remembered' /\ UNCHANGED <<registry, stops>>
<1>1. ASSUME UNCHANGED <<registry, stops, outcomes, leases>>,
             NEW x, work' = [work EXCEPT ![w] = x],
             x.step \in {"evaluating", "bound"} => Within(x.registry)
      PROVE  Remembered'
  BY <1>1, WorkStep DEF Remembered, Within, ExecInv, ExecTypeOK
<1>2. ASSUME UNCHANGED <<registry, stops, leases>>,
              NEW o, outcomes' = outcomes \cup {o}, Within(o.registry),
              work' = [work EXCEPT ![w] = Idle]
       PROVE  Remembered'
  BY <1>2, WorkStep DEF Idle, Remembered, Within, ExecInv, ExecTypeOK
<1>3. CASE \E q \in Request : EvaluateStart(w, q)
  <2>1. PICK q \in Request : EvaluateStart(w, q) BY <1>3
  <2>2. Within([step |-> "evaluating", request |-> q, registry |-> registry].registry)
    BY DEF Within
  <2> QED BY <1>1, <2>1, <2>2 DEF EvaluateStart
<1>4. CASE EvaluateBind(w)
  <2>1. PICK b : work' = [work EXCEPT ![w] =
                   [step |-> "bound", request |-> work[w].request,
                    registry |-> work[w].registry, binding |-> b]]
    BY <1>4 DEF EvaluateBind
  <2> DEFINE x == [step |-> "bound", request |-> work[w].request,
                   registry |-> work[w].registry, binding |-> b]
  <2>2. Within(work[w].registry) BY <1>4 DEF EvaluateBind, Remembered
  <2>3. Within(x.registry) BY <2>2
  <2>4. work' = [work EXCEPT ![w] = x] BY <2>1
  <2> HIDE DEF x
  <2> QED BY <1>1, <1>4, <2>3, <2>4 DEF EvaluateBind
<1>5. CASE \E d \in Decision, v \in BOOLEAN, t \in Time : EvaluateFinish(w, d, v, t)
  <2>1. PICK d \in Decision, v \in BOOLEAN, t \in Time : EvaluateFinish(w, d, v, t)
    BY <1>5
  <2>2. Within(OutcomeOf(work[w], work[w].binding, d, v, t).registry)
    BY <2>1 DEF EvaluateFinish, OutcomeOf, Remembered
  <2> QED BY <1>2, <2>1, <2>2 DEF EvaluateFinish
<1>6. CASE \E t \in Time : EvaluateUngoverned(w, t)
  <2>1. PICK t \in Time : EvaluateUngoverned(w, t) BY <1>6
  <2>2. Within(OutcomeOf(work[w], None, "DENY", FALSE, t).registry)
    BY <2>1 DEF EvaluateUngoverned, OutcomeOf, Remembered
  <2> QED BY <1>2, <2>1, <2>2 DEF EvaluateUngoverned
<1>7. CASE \E o \in outcomes : IssueStart(w, o)
  <2>1. PICK o \in outcomes : IssueStart(w, o) BY <1>7
  <2>2. [step |-> "requested", outcome |-> o].step = "requested" OBVIOUS
  <2> QED BY <1>1, <2>1, <2>2 DEF IssueStart
<1>8. CASE IssueAssert(w)
  <2>1. [step |-> "issuing", outcome |-> work[w].outcome].step = "issuing" OBVIOUS
  <2> QED BY <1>1, <1>8, <2>1 DEF IssueAssert
<1>9. CASE RedeemAssert(w)
  <2>1. [step |-> "governed", lease |-> work[w].lease, at |-> work[w].at].step
          = "governed"
    OBVIOUS
  <2> QED BY <1>1, <1>9, <2>1 DEF RedeemAssert
<1>10. CASE \E l \in leases, x \in Executor, t \in Time : RedeemStart(w, l, x, t)
  <2>1. PICK l \in leases, x \in Executor, t \in Time : RedeemStart(w, l, x, t)
    BY <1>10
  <2>2. [step |-> "redeeming", lease |-> l, at |-> t].step = "redeeming" OBVIOUS
  <2> QED BY <1>1, <2>1, <2>2 DEF RedeemStart
<1>11. CASE RedeemStop(w)
  <2>1. PICK s \in stops : work' = [work EXCEPT ![w] = [step |-> "stopread",
          lease |-> work[w].lease, stop |-> s, at |-> work[w].at]]
    BY <1>11 DEF RedeemStop
  <2>2. [step |-> "stopread", lease |-> work[w].lease, stop |-> s,
         at |-> work[w].at].step = "stopread"
    OBVIOUS
  <2> QED BY <1>1, <1>11, <2>1, <2>2 DEF RedeemStop
<1>12. CASE RedeemReread(w)
  <2> DEFINE x == [step |-> "ready",
                   consumption |-> [lease |-> work[w].lease, registry |-> registry,
                                    stop |-> work[w].stop, at |-> work[w].at]]
  <2>1. x.step = "ready" OBVIOUS
  <2>2. work' = [work EXCEPT ![w] = x] BY <1>12 DEF RedeemReread
  <2> HIDE DEF x
  <2> QED BY <1>1, <1>12, <2>1, <2>2 DEF RedeemReread
<1>13. CASE RedeemCommit(w)
  <2> DEFINE x == [step |-> "committed", consumption |-> work[w].consumption]
  <2>1. x.step = "committed" OBVIOUS
  <2>2. work' = [work EXCEPT ![w] = x] BY <1>13 DEF RedeemCommit
  <2> HIDE DEF x
  <2> QED BY <1>1, <1>13, <2>1, <2>2 DEF RedeemCommit
<1>14. CASE RedeemReturn(w) \/ CallRaises(w)
  BY <1>1, <1>14 DEF RedeemReturn, CallRaises, Idle
<1>15. CASE Issue(w, None, None)
  <2>1. PICK id \in LeaseId, x \in Executor, t \in Time,
               life \in 1 .. LeaseMaxLife : IssueLease(w, id, x, t, t + life, None, None)
    BY <1>15 DEF Issue
  <2>2. PICK s \in stops : leases' = leases \cup
          {[lease_id |-> id, executor |-> x, outcome |-> work[w].outcome,
            requirement |-> None, resolution |-> None, stop |-> s,
            issued_at |-> t, expires_at |-> t + life]}
    BY <2>1 DEF IssueLease
  <2>3. \A l \in leases' : l.stop \in stops BY <2>2 DEF Remembered
  <2>4. /\ UNCHANGED <<registry, stops, outcomes>>
        /\ work' = [work EXCEPT ![w] = Idle]
    BY <2>1 DEF IssueLease
  <2> QED BY <2>3, <2>4, WorkStep DEF Idle, Remembered, Within, ExecInv, ExecTypeOK
<1>16. UNCHANGED <<registry, stops>>
  BY DEF GateStep, Evaluate, RedeemStep, EvaluateStart, EvaluateFinish, IssueStart,
         EvaluateBind, EvaluateUngoverned, IssueAssert, RedeemAssert,
         RedeemStart, RedeemStop, RedeemReread, RedeemCommit, RedeemReturn,
         CallRaises, Issue, IssueLease
<1> QED BY <1>3, <1>4, <1>5, <1>6, <1>7, <1>8, <1>9, <1>10, <1>11, <1>12, <1>13,
           <1>14, <1>15, <1>16 DEF GateStep, Evaluate, RedeemStep

LEMMA RememberedStep ==
  ASSUME ExecInv, Remembered, [ExecNext]_execVars
  PROVE  Remembered'
<1>1. CASE Operate
  BY <1>1, GovernanceGrows DEF gateVars, Remembered, Within
<1>2. CASE Receipt
  BY <1>2 DEF Receipt, BuildReceipt, Remembered, Within
<1>3. CASE \E w \in Worker : GateStep(w) \/ Issue(w, None, None)
  BY <1>3, WorkerRemembers
<1>4. CASE UNCHANGED execVars
  BY <1>4 DEF execVars, gateVars, Remembered, Within
<1> QED BY <1>1, <1>2, <1>3, <1>4 DEF ExecNext

\* A lease that is fresh after a step was fresh before it: the registry cannot
\* grow into the one its outcome was evaluated under, nor the history make its
\* stop state the latest again.
LEMMA FreshWasFresh ==
  ASSUME ExecInv, Remembered, ExecNext, NEW l \in leases, Fresh(l)'
  PROVE  Fresh(l)
<1>1. CASE UNCHANGED <<registry, stops>>
  BY <1>1 DEF Fresh, IsCurrentStop
<1>2. CASE Operate
  <2>1. /\ registry.servers \subseteq registry'.servers
        /\ registry.snapshots \subseteq registry'.snapshots
        /\ registry.bindings \subseteq registry'.bindings
        /\ stops \subseteq stops'
    BY <1>2, GovernanceGrows
  <2>2. l.outcome \in outcomes BY DEF ExecInv, ExecTypeOK
  <2>3. registry' = l.outcome.registry BY DEF Fresh
  <2>4. Within(registry') BY <2>2, <2>3 DEF Remembered
  <2>5. ExecInv' BY <1>2, OperateInv
  <2>6. registry' = registry
    BY <2>1, <2>4, <2>5, GrownIntoPast DEF ExecInv, ExecTypeOK
  <2>7. registry = l.outcome.registry /\ Supports(registry, l.outcome)
    BY <2>3, <2>6 DEF Fresh
  <2>8. IsLatest(stops', l.stop) BY DEF Fresh, IsCurrentStop
  <2>9. IsLatest(stops, l.stop)
    BY <2>1, <2>8, OldStaysOld DEF Remembered
  <2> QED BY <2>7, <2>9 DEF Fresh, IsCurrentStop
<1>3. CASE Receipt BY <1>1, <1>3 DEF Receipt, BuildReceipt
<1>4. CASE \E w \in Worker : GateStep(w) \/ Issue(w, None, None)
  BY <1>1, <1>4, WorkerRemembers
<1> QED BY <1>2, <1>3, <1>4 DEF ExecNext

LEMMA AlwaysRemembered == ExecSpec => [](ExecInv /\ Remembered)
<1>1. ExecInit => ExecInv /\ Remembered BY ExecInitInv, RememberedInit
<1>2. ExecInv /\ Remembered /\ [ExecNext]_execVars => (ExecInv /\ Remembered)'
  BY ExecStepInv, RememberedStep
<1> QED BY <1>1, <1>2, PTL DEF ExecSpec

\* While the process runs, a lease that governance or the stop state has left
\* behind is dead for ever: no sequence of registrations makes redeem_lease
\* accept it again.  (A restart can: see Remembered.)
THEOREM LeaseDriftHolds == ExecSpec => LeaseDriftIsFinal
<1> DEFINE A == \A l \in leases : ~Fresh(l) => ~Fresh(l)'
<1>1. ExecInv /\ Remembered /\ ExecNext => A BY FreshWasFresh
<1>2. ExecInv /\ Remembered /\ [ExecNext]_execVars => [A]_execVars
  BY <1>1
<1>3. ExecSpec => [][A]_execVars BY <1>2, AlwaysRemembered, PTL DEF ExecSpec
<1> QED BY <1>3 DEF LeaseDriftIsFinal
=============================================================================
