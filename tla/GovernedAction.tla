--------------------------- MODULE GovernedAction ---------------------------
(***************************************************************************)
(* The execution boundary and the approval gate together: outcomes that    *)
(* need a human carry their authorization to the gate, and its resolutions *)
(* come back into issue_lease.  Nothing but immutable artifacts passes     *)
(* between the two; each keeps its own SQLite ledger.                      *)
(***************************************************************************)
EXTENDS ExecutionBoundary, ApprovalGate

actionVars == <<execVars, approvalVars>>

\* What the gate sees of the policy layer: the authorizations inside outcomes.
AuthorizationsOf(O) == {AuthorizationOf(o) : o \in O}

ActionInit == ExecInit /\ ApprovalInit

\* issue_lease with no approval artifacts, or with any pair the caller holds.
IssueWithApproval(w) ==
  \/ Issue(w, None, None)
  \/ \E req \in requirements, res \in resolutions : Issue(w, req, res)

BoundaryNext == \/ Operate
                \/ Receipt
                \/ Restart
                \/ \E w \in Worker : GateStep(w) \/ IssueWithApproval(w)

ActionNext == \/ /\ BoundaryNext
                 /\ authorizations' = AuthorizationsOf(outcomes')
                 /\ UNCHANGED gateOwn
              \/ GateNext /\ UNCHANGED execVars

ActionSpec == ActionInit /\ [][ActionNext]_actionVars

-----------------------------------------------------------------------------
(* Properties *)

\* No approval-gated outcome is ever redeemed without its humans: its row rests
\* on a resolution the gate returned for this very authorization, the one the
\* replay ledger recorded, with a quorum of people other than the requester and
\* no denial, no later than the lease; and an outcome that needs no approval
\* carries none.
RedemptionsAreApproved ==
  \A c \in ledger :
    LET l == c.lease
        o == l.outcome
        x == l.resolution
    IN IF ApprovalRequired(o)
       THEN /\ x \in resolutions /\ l.requirement \in requirements
            /\ x.requirement = l.requirement
            /\ l.requirement.authorization = AuthorizationOf(o)
            /\ \E row \in redeemed : row.requirement = x.requirement
                                     /\ row.package = x.package
            /\ x.denied_by = {} /\ o.request.owner \notin x.approved_by
            /\ Cardinality(x.approved_by) >= l.requirement.min_approvals
            /\ x.at <= l.issued_at /\ l.issued_at <= c.at
       ELSE x = None /\ o.decision = "ALLOW"

\* The two modules that decide whether a human is needed agree: an outcome the
\* enforcement point marks human_approval_required is one build_requirement
\* makes a requirement for, and for no other.  Otherwise an outcome would be
\* stranded: refused a lease without approval, refused a requirement to get it.
NoStrandedOutcome ==
  \A o \in outcomes : ValidOutcome(o) =>
    (ApprovalRequired(o) <=> Minimums(AuthorizationOf(o)) # {})

\* A human's verdict is spent on the evaluation it was asked for: every lease
\* that rests on a resolution was issued inside the requirement's window and
\* within the authorization's maximum age, however long the requirement lives.
ApprovalDoesNotExtend ==
  \A l \in leases : l.resolution # None =>
    /\ l.issued_at < l.requirement.expires_at
    /\ l.resolution.at <= l.issued_at
    /\ l.requirement.issued_at <= l.issued_at
    /\ l.issued_at <= l.requirement.authorization.at + AuthMaxAge
=============================================================================
