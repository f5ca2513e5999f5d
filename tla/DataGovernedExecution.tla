----------------------- MODULE DataGovernedExecution -----------------------
(***************************************************************************)
(* DataPurposeMcpPolicyEnforcementPoint and DataGovernedExecutionGate      *)
(* (regagentops/data_governance.py): the data decision is laid over an     *)
(* outcome of the enforcement point, and each call of the gate first       *)
(* asserts that the decision is current.  The wrapper reads the profiles,  *)
(* without a lock, before the wrapped gate reads anything.                 *)
(***************************************************************************)
EXTENDS ExecutionBoundary, DataGovernance

VARIABLE guarding  \* what each worker's wrapper call is in the middle of

dataVars == <<profiles, guarding>>
governedVars == <<execVars, dataVars>>

Outside == [step |-> "outside"]

-----------------------------------------------------------------------------
(* Evaluation *)

\* An outcome of the wrapped enforcement point that data governance looks at.
IsBaseOutcome(o) ==
  "data" \notin DOMAIN o /\ o.verified /\ o.decision # "DENY"

\* The data decision ANDs into the verdict: a denial overrides, nothing widens.
WithEvidence(o, verdict, data) ==
  [request |-> o.request, registry |-> o.registry, binding |-> o.binding,
   decision |-> verdict, verified |-> o.verified, at |-> o.at, data |-> data]

\* evaluate reads the current profile ...
GovernStart(w, o, u) ==
  /\ guarding[w] = Outside /\ work[w] = Idle
  /\ IsBaseOutcome(o)
  /\ Cardinality(outcomes) < MaxOutcomes
  /\ DeclarationFits(o.request, u, o.at)
  /\ \E x \in profiles :
       /\ IsCurrentProfile(profiles, o.request.resource, x)
       /\ TermsAdmit(x.terms, o.request, u)
       /\ guarding' = [guarding EXCEPT ![w] =
            [step |-> "deciding", outcome |-> o, use |-> u, profile |-> x]]
  /\ UNCHANGED <<execVars, profiles>>

\* ... then digests the registry.
GovernFinish(w) ==
  LET g == guarding[w]
  IN /\ g.step = "deciding"
     /\ outcomes' = outcomes \cup
          {WithEvidence(g.outcome, g.outcome.decision,
                        Granted(g.profile, g.use, profiles))}
     /\ guarding' = [guarding EXCEPT ![w] = Outside]
     /\ UNCHANGED <<registry, stops, leases, work, ledger, redemptions,
                    receipts, profiles>>

\* No declaration, or one that does not fit the request, the profile or its
\* terms: the outcome is DENY, whose evidence cannot authorise anything.
GovernDeny(w, o, u) ==
  /\ guarding[w] = Outside /\ work[w] = Idle
  /\ IsBaseOutcome(o)
  /\ Cardinality(outcomes) < MaxOutcomes
  /\ u # None /\ DeclarationFits(o.request, u, o.at) =>
       \A x \in profiles : IsCurrentProfile(profiles, o.request.resource, x)
                             => ~TermsAdmit(x.terms, o.request, u)
  /\ outcomes' = outcomes \cup {WithEvidence(o, "DENY", None)}
  /\ UNCHANGED <<registry, stops, leases, work, ledger, redemptions, receipts,
                 dataVars>>

-----------------------------------------------------------------------------
(* _assert_current, before every call of the gate *)

IsDataGoverned(o) == "data" \in DOMAIN o /\ o.data # None

\* Mutant: the profile is still there, whatever else was registered.
ProfileKnown(o) == o.data.profile \in profiles

\* snapshot_digest is the one the decision binds.
DataUnchanged(o) == profiles = o.data.snapshot

\* assert_decision_current compares the snapshot ...
GuardStart(w, kind, o) ==
  /\ guarding[w] = Outside /\ work[w] = Idle
  /\ IsDataGoverned(o) /\ DataUnchanged(o)
  /\ guarding' = [guarding EXCEPT ![w] =
                    [step |-> "compared", kind |-> kind, outcome |-> o]]
  /\ UNCHANGED <<execVars, profiles>>

\* Mutant: the snapshot says it all.
GuardSkips(w) ==
  LET g == guarding[w]
  IN /\ g.step = "compared"
     /\ guarding' = [guarding EXCEPT ![w].step = "passed"]
     /\ UNCHANGED <<execVars, profiles>>

\* ... then the current profile of the decision's resource.
GuardProfile(w) ==
  LET g == guarding[w]
  IN /\ g.step = "compared"
     /\ IsCurrentProfile(profiles, g.outcome.data.profile.resource,
                         g.outcome.data.profile)
     /\ guarding' = [guarding EXCEPT ![w].step = "passed"]
     /\ UNCHANGED <<execVars, profiles>>

\* The check of the profile fails, or the wrapped call refuses at once.
GuardRaises(w) ==
  /\ guarding[w].step \in {"compared", "passed"}
  /\ guarding' = [guarding EXCEPT ![w] = Outside]
  /\ UNCHANGED <<execVars, profiles>>

\* The wrapped call begins, on the outcome the wrapper has checked.
Enter(w, kind, o) ==
  /\ guarding[w] = [step |-> "passed", kind |-> kind, outcome |-> o]
  /\ guarding' = [guarding EXCEPT ![w] = Outside]
  /\ UNCHANGED profiles

GovernedIssue(w, o) == Enter(w, "issue", o) /\ IssueStart(w, o)

GovernedRedeem(w, l, x, t) ==
  Enter(w, "redeem", l.outcome) /\ RedeemStart(w, l, x, t)

GovernedReceipt(w, id, l, at, res, started, completed) ==
  /\ Enter(w, "receipt", l.outcome)
  /\ BuildReceipt(id, l, at, res, started, completed)

-----------------------------------------------------------------------------
GovernedInit == ExecInit /\ DataInit /\ guarding = [w \in Worker |-> Outside]

GovernedStep(w) ==
  \/ \E o \in outcomes, u \in DataUse : GovernStart(w, o, u)
  \/ \E o \in outcomes, u \in DataUse \cup {None} : GovernDeny(w, o, u)
  \/ GovernFinish(w)
  \/ \E kind \in {"issue", "redeem", "receipt"}, o \in outcomes :
       GuardStart(w, kind, o)
  \/ GuardProfile(w)
  \/ GuardRaises(w)
  \/ \E o \in outcomes : GovernedIssue(w, o)
  \/ \E l \in leases, x \in Executor, t \in Time : GovernedRedeem(w, l, x, t)
  \/ \E l \in leases, id \in ReceiptId, res \in {"SUCCEEDED", "FAILED"},
        at, started, completed \in Time :
        GovernedReceipt(w, id, l, at, res, started, completed)

\* The steps inside a call of the wrapped objects.
InnerStep(w) ==
  \/ guarding[w] = Outside /\ Evaluate(w)
  \/ IssueAssert(w) \/ Issue(w, None, None)
  \/ RedeemStep(w)

GovernedNext ==
  \/ Operate /\ UNCHANGED dataVars
  \/ DataRegistryNext /\ UNCHANGED <<execVars, guarding>>
  \/ \E w \in Worker : GovernedStep(w) \/ (InnerStep(w) /\ UNCHANGED dataVars)

GovernedSpec == GovernedInit /\ [][GovernedNext]_governedVars

-----------------------------------------------------------------------------
(* Properties *)

\* A worker is in one call at a time, and whatever a decision digested is a part
\* of the registry as it is now: a profile is never replaced.
DataTypeOK ==
  /\ profiles \subseteq Profile
  /\ \A w \in Worker :
       /\ guarding[w].step \in {"outside", "deciding", "compared", "passed"}
       /\ guarding[w] # Outside => work[w] = Idle /\ guarding[w].outcome \in outcomes
  /\ \A o \in outcomes : IsDataGoverned(o) =>
       o.data.snapshot \subseteq profiles /\ o.data.profile \in o.data.snapshot

\* Every row of the ledger was decided on one state of the data registry: the
\* profile it was decided by is the current one in the very snapshot that was
\* digested, although the two were read at different moments, and the declared
\* use fits that profile in classification, categories, purpose, retention.
RowsAreDataGoverned ==
  \A c \in ledger :
    LET o == c.lease.outcome
        d == o.data
        q == o.request
    IN /\ IsDataGoverned(o) /\ o.decision = "ALLOW"
       /\ IsCurrentProfile(d.snapshot, q.resource, d.profile)
       /\ q.classification = d.profile.terms.classification
       /\ d.use.categories = d.profile.terms.categories
       /\ d.use.purpose = q.purpose
       /\ q.purpose \in d.profile.terms.primary
            \/ (d.secondary /\ q.purpose \in d.profile.terms.secondary)
       /\ d.use.retention <= d.profile.terms.max_retention
       /\ q.requested_at <= d.use.declared_at /\ d.use.declared_at <= o.at

\* The output handling a decision binds is one the profile permits and is never
\* raw where the profile wants redaction; it differs from what was asked only
\* for that reason, and then no preferred safe mode was permitted.
HandlingIsSafe ==
  \A o \in outcomes : IsDataGoverned(o) =>
    LET x == o.data.profile.terms
        h == o.data.handling
    IN /\ h \in x.permitted
       /\ x.redact # {} => h # "raw"
       /\ h # o.data.use.handling =>
            /\ o.data.use.handling = "raw" /\ x.redact # {}
            /\ h = "aggregated" => "redacted" \notin x.permitted
            /\ h = "metadata_only" => x.permitted \cap {"redacted", "aggregated"} = {}

\* A call that may still redeem on outcome o, past the comparison of snapshots.
RedeemsOn(w, o) ==
  \/ /\ guarding[w].step \in {"compared", "passed"}
     /\ guarding[w].kind = "redeem" /\ guarding[w].outcome = o
  \/ /\ work[w].step \in {"redeeming", "governed", "stopread"}
     /\ work[w].lease.outcome = o
  \/ work[w].step = "ready" /\ work[w].consumption.lease.outcome = o

\* The data registry moved on, and no redemption had been let in before.
DataStranded(o) == profiles # o.data.snapshot /\ \A w \in Worker : ~RedeemsOn(w, o)

\* "Any profile or registry drift invalidates the old execution path"
\* (DATA_PURPOSE_GOVERNANCE.md): from the moment the redemptions that had been
\* let in are over, a drifted outcome never adds a row again, whatever is
\* registered later.
DataDriftHolds ==
  [][\A o \in outcomes : IsDataGoverned(o) /\ DataStranded(o) =>
       /\ DataStranded(o)'
       /\ \A c \in ledger' \ ledger : c.lease.outcome # o]_governedVars
=============================================================================
