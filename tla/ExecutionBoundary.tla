------------------------- MODULE ExecutionBoundary -------------------------
(***************************************************************************)
(* From a policy evaluation to a tool-execution receipt:                   *)
(* McpPolicyEnforcementPoint.evaluate (regagentops/mcp.py), ExecutionGate  *)
(* and ExecutionLeaseLedger (regagentops/execution.py), over the MCP       *)
(* registry and the emergency stop.                                        *)
(*                                                                         *)
(* Workers are threads or processes that run the gate's methods over the   *)
(* same registries and the same ledger file, each with a connection of its *)
(* own.  The registries are read without a lock, so a method that reads    *)
(* twice is several steps here; the SQLite transaction is one step.  The   *)
(* code has no clock: every time is the caller's argument.                 *)
(*                                                                         *)
(* An artifact stands for its digest, so an artifact that carries another  *)
(* one's digest contains it.  Outcomes, leases and receipts are immutable  *)
(* values that callers keep: the variables hold all that were returned.    *)
(***************************************************************************)
EXTENDS McpRegistry, EmergencyStop

CONSTANTS Request,       \* [id, tool, risk, owner]: exact action envelopes
          Worker,        \* concurrent callers of the gate
          Executor,      \* executor identities a lease can name
          LeaseId,       \* caller-chosen lease identities
          ReceiptId,     \* caller-chosen receipt identities
          Time,          \* timestamps callers pass to the gate
          AuthMaxAge,    \* EXECUTION_AUTHORIZATION_MAX_AGE_SECONDS
          LeaseMaxLife,  \* EXECUTION_LEASE_MAX_SECONDS
          MaxOutcomes,   \* bound: policy evaluations
          MaxLeases,     \* bound: leases
          MaxReceipts    \* bound: receipts

ASSUME ExecutionAssumption ==
  /\ Time \subseteq Nat
  /\ AuthMaxAge \in Nat /\ LeaseMaxLife \in Nat
  /\ MaxOutcomes \in Nat /\ MaxLeases \in Nat /\ MaxReceipts \in Nat
  /\ \A q \in Request : q.risk \in {"low", "high", "critical"}

VARIABLES outcomes,    \* policy-enforcement outcomes returned
          leases,      \* execution leases returned
          work,        \* what each worker is in the middle of
          ledger,      \* committed rows of execution_lease_consumptions
          redemptions, \* consumptions returned by redeem_lease, and to whom
          receipts     \* tool-execution receipts returned

gateVars == <<outcomes, leases, work, ledger, redemptions, receipts>>
execVars == <<registry, stops, gateVars>>

\* None: an approval digest or a binding that is null.
None == [none |-> TRUE]
Idle == [step |-> "idle"]

-----------------------------------------------------------------------------
(* Policy-enforcement outcomes *)

\* LOW and MODERATE behave alike, as do ALLOW and ALLOW_WITH_CONSTRAINTS.
Decision == {"DENY", "REQUIRE_HUMAN_APPROVAL", "ALLOW"}
HighImpact == {"high", "critical"}

\* Mutant: the risk tier does not count.
ApprovalAsked(o) == o.decision = "REQUIRE_HUMAN_APPROVAL"

ApprovalRequired(o) ==
  /\ o.decision # "DENY"
  /\ o.decision = "REQUIRE_HUMAN_APPROVAL" \/ o.request.risk \in HighImpact

ExecutionPermitted(o) == o.decision = "ALLOW" /\ ~ApprovalRequired(o)

\* The authenticated authorization inside an outcome: it digests the request,
\* the decision and the evaluation time, and not the MCP evidence.
AuthorizationOf(o) ==
  [request |-> o.request, decision |-> o.decision, verified |-> o.verified,
   at |-> o.at]

\* evaluate reads snapshot_digest first ...
EvaluateStart(w, q) ==
  /\ work[w] = Idle
  /\ Cardinality(outcomes) < MaxOutcomes
  /\ work' = [work EXCEPT ![w] =
                [step |-> "evaluating", request |-> q, registry |-> registry]]
  /\ UNCHANGED <<registry, stops, outcomes, leases, ledger, redemptions, receipts>>

\* ... then the binding of the tool ...
EvaluateBind(w) ==
  /\ work[w].step = "evaluating"
  /\ \E b \in registry.bindings :
       /\ ResolvesTo(registry, work[w].request.tool, b)
       /\ work' = [work EXCEPT ![w] =
                     [step |-> "bound", request |-> work[w].request,
                      registry |-> work[w].registry, binding |-> b]]
  /\ UNCHANGED <<registry, stops, outcomes, leases, ledger, redemptions, receipts>>

\* What a worker that read a digest and a binding would return.
OutcomeOf(call, b, d, v, t) ==
  [request |-> call.request, registry |-> call.registry, binding |-> b,
   decision |-> d, verified |-> v, at |-> t]

\* The tool registry lets a tool pass the policy engine at all.
ToolEnabled(g) == \E b \in registry.bindings : ResolvesTo(registry, g, b) /\ b.enabled

\* ... then the tool registry.  Policy and identity are the caller's: any verdict
\* d is possible where the tool lets one pass.  Without tools there is no verdict.
EvaluateFinish(w, d, v, t) ==
  LET call == work[w]
  IN /\ call.step = "bound"
     /\ v => ToolsUnambiguous(registry)
     /\ ~v => d = "DENY"
     /\ ~ToolEnabled(call.request.tool) => d = "DENY"
     /\ outcomes' = outcomes \cup {OutcomeOf(call, call.binding, d, v, t)}
     /\ work' = [work EXCEPT ![w] = Idle]
     /\ UNCHANGED <<registry, stops, leases, ledger, redemptions, receipts>>

\* A tool nothing governs is denied without a binding.
EvaluateUngoverned(w, t) ==
  LET call == work[w]
  IN /\ call.step = "evaluating"
     /\ \A b \in registry.bindings : ~ResolvesTo(registry, call.request.tool, b)
     /\ outcomes' = outcomes \cup {OutcomeOf(call, None, "DENY", FALSE, t)}
     /\ work' = [work EXCEPT ![w] = Idle]
     /\ UNCHANGED <<registry, stops, leases, ledger, redemptions, receipts>>

-----------------------------------------------------------------------------
(* Leases *)

ValidOutcome(o) == o.verified /\ o.decision # "DENY" /\ o.binding # None

\* r resolves the tool to the very evidence of o.
Supports(r, o) ==
  \E b \in r.bindings : /\ ResolvesTo(r, o.request.tool, b)
                        /\ b.snapshot = o.binding.snapshot
                        /\ b.tool = o.binding.tool

\* Mutant: that the requirement was consumed is enough.
ReplayConsumed(res) == res.consumed

\* ApprovalResolution.authorization_continuation_permitted
ContinuationPermitted(res) == res.satisfied /\ res.consumed /\ res.denied_by = {}

\* _validate_approval_chain: all or nothing, and every link exact.
ApprovalChain(o, req, res, t) ==
  IF ApprovalRequired(o)
  THEN /\ req # None /\ res # None
       /\ req.authorization = AuthorizationOf(o)
       /\ req.issued_at <= t /\ t < req.expires_at
       /\ req.issued_at <= res.at /\ res.at < req.expires_at
       /\ res.at <= t
       /\ res.requirement = req
       /\ ContinuationPermitted(res)
  ELSE req = None /\ res = None /\ ExecutionPermitted(o)

\* Mutant: a halted state passes.
StopEffective(s, t) == IsCurrentStop(s) /\ s.at <= t

\* The stop state that lets issue_lease and redeem_lease pass at time t.
StopPasses(s, t) == IsCurrentStop(s) /\ s.at <= t /\ ~s.halted

\* issue_lease reads the registry digest ...
IssueStart(w, o) ==
  /\ work[w] = Idle
  /\ Cardinality(leases) < MaxLeases
  /\ ValidOutcome(o)
  /\ registry = o.registry
  /\ work' = [work EXCEPT ![w] = [step |-> "requested", outcome |-> o]]
  /\ UNCHANGED <<registry, stops, outcomes, leases, ledger, redemptions, receipts>>

\* ... then the binding ...
IssueAssert(w) ==
  /\ work[w].step = "requested"
  /\ Supports(registry, work[w].outcome)
  /\ work' = [work EXCEPT ![w] = [step |-> "issuing", outcome |-> work[w].outcome]]
  /\ UNCHANGED <<registry, stops, outcomes, leases, ledger, redemptions, receipts>>

\* Mutant: an authorization does not age.
TimelyForever(o, t, e) == o.at <= t /\ t < e /\ e <= t + LeaseMaxLife

\* The windows of a lease of o, issued at t and expiring at e: the age of the
\* authorization (issue_lease), the lifetime (ExecutionLease.__post_init__).
Timely(o, t, e) ==
  /\ o.at <= t /\ t <= o.at + AuthMaxAge
  /\ t < e /\ e <= t + LeaseMaxLife

\* ... then the stop state.
IssueLease(w, id, x, t, e, req, res) ==
  LET o == work[w].outcome
  IN /\ work[w].step = "issuing"
     /\ Timely(o, t, e)
     /\ ApprovalChain(o, req, res, t)
     /\ \E s \in stops :
          /\ StopPasses(s, t)
          /\ leases' = leases \cup
               {[lease_id |-> id, executor |-> x, outcome |-> o,
                 requirement |-> req, resolution |-> res, stop |-> s,
                 issued_at |-> t, expires_at |-> e]}
     /\ work' = [work EXCEPT ![w] = Idle]
     /\ UNCHANGED <<registry, stops, outcomes, ledger, redemptions, receipts>>

-----------------------------------------------------------------------------
(* Redemption: four reads of shared state, one transaction, one return *)

\* Mutant: a lease is linked while its stop state is the current one.
LeaseLinkedNow(l) == ValidOutcome(l.outcome) /\ IsCurrentStop(l.stop)

LeaseLinked(l) ==
  /\ ValidOutcome(l.outcome)
  /\ ApprovalRequired(l.outcome) = (l.resolution # None)

LeaseLive(l, t) == l.issued_at <= t /\ t < l.expires_at

\* The digest of the registry; the checks of the call's own arguments are pulled
\* forward to here, since nothing can change them.
RedeemStart(w, l, x, t) ==
  /\ work[w] = Idle
  /\ LeaseLinked(l)
  /\ x = l.executor
  /\ LeaseLive(l, t)
  /\ registry = l.outcome.registry
  /\ work' = [work EXCEPT ![w] = [step |-> "redeeming", lease |-> l, at |-> t]]
  /\ UNCHANGED <<registry, stops, outcomes, leases, ledger, redemptions, receipts>>

RedeemAssert(w) ==
  /\ work[w].step = "redeeming"
  /\ Supports(registry, work[w].lease.outcome)
  /\ work' = [work EXCEPT ![w] = [step |-> "governed", lease |-> work[w].lease,
                                  at |-> work[w].at]]
  /\ UNCHANGED <<registry, stops, outcomes, leases, ledger, redemptions, receipts>>

RedeemStop(w) ==
  /\ work[w].step = "governed"
  /\ \E s \in stops :
       /\ StopPasses(s, work[w].at)
       /\ s = work[w].lease.stop
       /\ work' = [work EXCEPT ![w] =
                     [step |-> "stopread", lease |-> work[w].lease,
                      stop |-> s, at |-> work[w].at]]
  /\ UNCHANGED <<registry, stops, outcomes, leases, ledger, redemptions, receipts>>

\* Mutant: the registry is not compared again.
RedeemUnread(w) ==
  /\ work[w].step = "stopread"
  /\ work' = [work EXCEPT ![w] =
                [step |-> "ready",
                 consumption |-> [lease |-> work[w].lease, registry |-> registry,
                                  stop |-> work[w].stop, at |-> work[w].at]]]
  /\ UNCHANGED <<registry, stops, outcomes, leases, ledger, redemptions, receipts>>

RedeemReread(w) ==
  /\ work[w].step = "stopread"
  /\ registry = work[w].lease.outcome.registry
  /\ work' = [work EXCEPT ![w] =
                [step |-> "ready",
                 consumption |-> [lease |-> work[w].lease, registry |-> registry,
                                  stop |-> work[w].stop, at |-> work[w].at]]]
  /\ UNCHANGED <<registry, stops, outcomes, leases, ledger, redemptions, receipts>>

\* Mutant: INSERT OR REPLACE.
InsertOrReplace(c) == TRUE

\* lease_digest is the primary key: whose consumption makes no difference.
Insertable(c) == \A row \in ledger : row.lease # c.lease

\* Mutant: the transaction is not committed.
RedeemForgotten(w) ==
  LET c == work[w].consumption
  IN /\ work[w].step = "ready"
     /\ Insertable(c)
     /\ work' = [work EXCEPT ![w] = [step |-> "committed", consumption |-> c]]
     /\ UNCHANGED <<registry, stops, outcomes, leases, ledger, redemptions, receipts>>

\* BEGIN IMMEDIATE; INSERT; COMMIT.
RedeemCommit(w) ==
  LET c == work[w].consumption
  IN /\ work[w].step = "ready"
     /\ Insertable(c)
     /\ ledger' = ledger \cup {c}
     /\ work' = [work EXCEPT ![w] = [step |-> "committed", consumption |-> c]]
     /\ UNCHANGED <<registry, stops, outcomes, leases, redemptions, receipts>>

RedeemReturn(w) ==
  /\ work[w].step = "committed"
  /\ redemptions' = redemptions \cup
       {[by |-> w, consumption |-> work[w].consumption]}
  /\ work' = [work EXCEPT ![w] = Idle]
  /\ UNCHANGED <<registry, stops, outcomes, leases, ledger, receipts>>

\* Mutant: a call that fails tries the failed check again, for ever.
CallSpins(w) == work[w].step \in {"redeeming", "governed", "stopread", "ready"}
                /\ UNCHANGED execVars

\* A call that raises before it has committed: a check failed at its step, the
\* arguments of issue_lease did not fit, the row exists (IntegrityError, after
\* ROLLBACK), or another connection held the database (OperationalError).
CallRaises(w) ==
  /\ work[w].step \in {"requested", "issuing", "redeeming", "governed", "stopread",
                      "ready"}
  /\ work[w].step = "requested" => ~Supports(registry, work[w].outcome)
  /\ work[w].step = "redeeming" => ~Supports(registry, work[w].lease.outcome)
  /\ work[w].step = "governed" =>
       \A s \in stops : StopPasses(s, work[w].at) => s # work[w].lease.stop
  /\ work[w].step = "stopread" => registry # work[w].lease.outcome.registry
  /\ work' = [work EXCEPT ![w] = Idle]
  /\ UNCHANGED <<registry, stops, outcomes, leases, ledger, redemptions, receipts>>

-----------------------------------------------------------------------------
(* Receipts *)

\* Mutant: an execution may start at the very end of its lease.
ReceiptAllowedAtExpiry(c, started, completed) ==
  /\ LeaseLinked(c.lease) /\ c \in ledger
  /\ c.at <= started /\ started <= c.lease.expires_at /\ started <= completed

\* build_receipt accepts the consumption c, whoever made the value.
ReceiptAllowed(c, started, completed) ==
  /\ LeaseLinked(c.lease)
  /\ c.registry = c.lease.outcome.registry
  /\ c.stop = c.lease.stop
  /\ c \in ledger
  /\ c.at <= started /\ started < c.lease.expires_at
  /\ started <= completed

BuildReceipt(id, l, at, res, started, completed) ==
  LET c == [lease |-> l, registry |-> l.outcome.registry, stop |-> l.stop,
            at |-> at]
  IN /\ Cardinality(receipts) < MaxReceipts
     /\ ReceiptAllowed(c, started, completed)
     /\ receipts' = receipts \cup
          {[receipt_id |-> id, consumption |-> c, result |-> res,
            started_at |-> started, completed_at |-> completed]}
     /\ UNCHANGED <<registry, stops, outcomes, leases, work, ledger, redemptions>>

-----------------------------------------------------------------------------
ExecInit ==
  /\ McpInit /\ StopInit
  /\ outcomes = {} /\ leases = {} /\ ledger = {} /\ redemptions = {}
  /\ receipts = {}
  /\ work = [w \in Worker |-> Idle]

\* An operator changes governance while workers are anywhere in their calls.
Operate == \/ McpNext /\ UNCHANGED <<stops, gateVars>>
           \/ StopNext /\ UNCHANGED <<registry, gateVars>>

Evaluate(w) ==
  \/ \E q \in Request : EvaluateStart(w, q)
  \/ EvaluateBind(w)
  \/ \E d \in Decision, v \in BOOLEAN, t \in Time : EvaluateFinish(w, d, v, t)
  \/ \E t \in Time : EvaluateUngoverned(w, t)

\* The steps of a redemption that is under way.
RedeemStep(w) == \/ RedeemAssert(w) \/ RedeemStop(w) \/ RedeemReread(w)
                 \/ RedeemCommit(w) \/ RedeemReturn(w) \/ CallRaises(w)

Receipt == \E id \in ReceiptId, l \in leases, res \in {"SUCCEEDED", "FAILED"},
              at, started, completed \in Time :
              BuildReceipt(id, l, at, res, started, completed)

\* All of the gate except issue_lease's last step, whose approval artifacts come
\* from elsewhere.
GateStep(w) ==
  \/ Evaluate(w)
  \/ \E o \in outcomes : IssueStart(w, o)
  \/ IssueAssert(w)
  \/ \E l \in leases, x \in Executor, t \in Time : RedeemStart(w, l, x, t)
  \/ RedeemStep(w)

Issue(w, req, res) ==
  \E id \in LeaseId, x \in Executor, t \in Time, life \in 1 .. LeaseMaxLife :
    IssueLease(w, id, x, t, t + life, req, res)

\* Without an approval gate: only outcomes that need no approval get a lease.
ExecNext == \/ Operate
            \/ Receipt
            \/ \E w \in Worker : GateStep(w) \/ Issue(w, None, None)

ExecSpec == ExecInit /\ [][ExecNext]_execVars

\* Mutant: the ledger is in memory too.
RestartForgets ==
  /\ registry' = EmptyRegistry /\ stops' = {} /\ ledger' = {}
  /\ work' = [w \in Worker |-> Idle]
  /\ UNCHANGED <<outcomes, leases, redemptions, receipts>>

\* The process restarts: the registries are in memory and the calls are lost;
\* the ledger is a file, and callers keep the artifacts they hold.
Restart ==
  /\ registry' = EmptyRegistry /\ stops' = {}
  /\ work' = [w \in Worker |-> Idle]
  /\ UNCHANGED <<outcomes, leases, ledger, redemptions, receipts>>

RestartSpec == ExecInit /\ [][ExecNext \/ Restart]_execVars

\* A started redemption is a running call: it does not stop by itself.
FairExecSpec == ExecSpec /\ \A w \in Worker : WF_execVars(RedeemStep(w))

-----------------------------------------------------------------------------
(* Properties *)

\* What a call may be in the middle of, and what it has read so far.
CallStates ==
  \A w \in Worker :
    /\ work[w].step \in {"idle", "evaluating", "bound", "requested", "issuing",
                         "redeeming", "governed", "stopread", "ready", "committed"}
    /\ work[w].step \in {"evaluating", "bound"} => work[w].request \in Request
    /\ work[w].step \in {"requested", "issuing"} => work[w].outcome \in outcomes
    /\ work[w].step \in {"redeeming", "governed", "stopread"} =>
         work[w].lease \in leases /\ work[w].at \in Time
    /\ work[w].step \in {"ready", "committed"} =>
         work[w].consumption.lease \in leases /\ work[w].consumption.at \in Time

\* Every variable holds artifacts of its kind, and every artifact a call or a
\* record refers to was returned before.
ExecTypeOK ==
  /\ McpTypeOK
  /\ stops \subseteq StopState
  /\ \A o \in outcomes : o.request \in Request /\ o.decision \in Decision
                         /\ o.verified \in BOOLEAN /\ o.at \in Time
  /\ \A l \in leases : /\ l.lease_id \in LeaseId /\ l.executor \in Executor
                       /\ l.outcome \in outcomes /\ l.stop \in StopState
                       /\ l.issued_at \in Time /\ l.expires_at \in Nat
  /\ DOMAIN work = Worker /\ CallStates
  /\ \A c \in ledger : c.lease \in leases /\ c.at \in Time
  /\ \A d \in redemptions : d.by \in Worker /\ d.consumption \in ledger
  /\ \A r \in receipts : r.receipt_id \in ReceiptId /\ r.consumption \in ledger

\* One redemption per lease, whichever workers race for it with whatever times:
\* redeem_lease returns a consumption of a lease to one caller only, and the
\* ledger has one row for it.
OneRedemptionPerLease ==
  /\ \A a, b \in redemptions :
       a.consumption.lease = b.consumption.lease => a = b
  /\ \A c, d \in ledger : c.lease = d.lease => c = d
  /\ \A a \in redemptions : a.consumption \in ledger

\* A lease is a token of the ledger, a row its entry, a consumption that redeem_lease
\* returned the answer.
leaseRows == {[token |-> c.lease, entry |-> c] : c \in ledger}
leaseAnswers == {[token |-> d.consumption.lease, entry |-> d.consumption, answer |-> d] :
                   d \in redemptions}

LeaseLedger == INSTANCE OneTimeLedger WITH spent <- leaseRows, told <- leaseAnswers

\* The lease ledger is a one-time ledger, restarts included: a row comes before its
\* answer, once per lease, and neither is taken back.
LeasesAreOneTime == LeaseLedger!OneTimeSpec

\* Every row of the ledger is the end of a complete chain: a verified non-DENY
\* outcome, whose tool the very registry that was evaluated resolves to the
\* evaluated descriptor, and which was still that registry at the last read,
\* however the registry moved between the reads of the calls in between; a
\* stop state that was effective and not halted; a lease of that outcome,
\* issued in time and redeemed inside its window.
RowsAreGoverned ==
  \A c \in ledger :
    LET l == c.lease
        o == l.outcome
    IN /\ l \in leases /\ o \in outcomes
       /\ o.verified /\ o.decision # "DENY"
       /\ c.registry = o.registry
       /\ Supports(o.registry, o)
       /\ c.stop = l.stop
       /\ ~c.stop.halted /\ c.stop.at <= l.issued_at
       /\ o.at <= l.issued_at /\ l.issued_at <= c.at /\ c.at < l.expires_at

\* An evaluation authorises nothing for longer than the two windows together:
\* whatever was retried or delayed, a receipted execution started less than
\* AuthMaxAge + LeaseMaxLife after the policy evaluation it rests on, after
\* its row in the ledger, and under an evaluation that allowed it.
AuthorityIsBounded ==
  \A r \in receipts :
    LET c == r.consumption
        o == c.lease.outcome
    IN /\ c \in ledger
       /\ o.decision # "DENY"
       /\ c.at <= r.started_at /\ r.started_at <= r.completed_at
       /\ o.at <= r.started_at
       /\ r.started_at < o.at + AuthMaxAge + LeaseMaxLife

\* A redeemed execution can always be evidenced: no drift of the registry, no
\* emergency stop and no later call makes build_receipt refuse a recorded
\* consumption that starts in its lease's window.
AlwaysReceiptable ==
  \A c \in ledger : ReceiptAllowed(c, c.at, c.at)

\* The lease would pass the checks of redeem_lease on shared state.
Fresh(l) == /\ registry = l.outcome.registry /\ Supports(registry, l.outcome)
            /\ IsCurrentStop(l.stop) /\ ~l.stop.halted

\* Drift is final for a lease too: once governance or the stop state moved on,
\* no later registration lets it be redeemed again.
LeaseDriftIsFinal == [][\A l \in leases : ~Fresh(l) => ~Fresh(l)']_execVars

Halted == \E s \in stops : IsCurrentStop(s) /\ s.halted
InFlight(w) == work[w].step \in {"stopread", "ready"}

\* No redemption is past its check of the stop state.
Drained == Halted /\ \A w \in Worker : ~InFlight(w)

\* Once an emergency stop is drained nothing more is redeemed, and no call gets
\* past the check again, until an operator registers another stop state.
HaltHolds ==
  [][Drained => ledger' = ledger /\ (Drained' \/ stops' # stops)]_execVars

\* A halt takes effect: the redemptions that had read the stop state before it
\* finish or raise, and none joins them.
HaltDrains == Halted ~> (Drained \/ ~Halted)

\* What docs/EXECUTION_RECEIPTS.md:63 says: "A halted state blocks lease
\* issuance and redemption."  Read as a promise about the moment the row is
\* written, the code breaks it: the stop state is read before the commit.
HaltBlocksRedemption == [][Halted => ledger' = ledger]_execVars

\* What docs/EXECUTION_RECEIPTS.md:85 says: "Completion may follow start,
\* including a failed execution, but the same lease cannot be retried."  Two
\* receipts of one lease where an execution starts after a failed one completed
\* evidence a retry; build_receipt accepts them.
NoRetryUnderOneLease ==
  \A r, s \in receipts :
    ~ /\ r.consumption.lease = s.consumption.lease
      /\ r.result = "FAILED"
      /\ r.completed_at < s.started_at
=============================================================================
