----------------------------- MODULE MCApproval -----------------------------
(* ApprovalGate over fixed requests: the policy layer may issue any of the *)
(* authorizations below, at any moment.                                    *)
EXTENDS ApprovalGate, TLC

CONSTANTS alice, bob, carol, tool, Risks, Decisions, GrantUntil, KeyUntil

\* Everyone has a grant and a key, the requester carol included.
Grants == {[subject |-> p, tools |-> {tool}, max_risk |-> "critical",
            from |-> 0, until |-> GrantUntil] : p \in Principal}
Keys == {[principal |-> p, from |-> 0, until |-> KeyUntil] : p \in Principal}

Authorizations ==
  {[request |-> [id |-> 1, tool |-> tool, risk |-> k, owner |-> carol],
    decision |-> d, verified |-> d # "DENY", at |-> 0] :
     k \in Risks, d \in Decisions}

MCApprovalSpec ==
  ApprovalInit /\ [][GateNext \/ PolicyIssues(Authorizations)]_approvalVars

TwoResolvers == Permutations(Resolver)
=============================================================================
