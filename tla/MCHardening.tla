----------------------------- MODULE MCHardening -----------------------------
(* Keys, changes and envelopes of one tenant, and its audit anchors.  The   *)
(* two share no variable: a behaviour here runs the one or the other.       *)
EXTENDS TenantHardening, TLC

CONSTANTS c1, c2

Interchangeable == Permutations(KeyId)

Windows == {[from |-> 0, until |-> 2]}

\* A first change, two that compete to follow it, and one of another object.
Requests ==
  LET change(n, o, from, to) ==
        [sequence |-> n, object |-> o, previous |-> from, proposed |-> to,
         requested_at |-> 0, effective_at |-> 1]
  IN {change(1, "policy", NoDigest, c1), change(2, "policy", c1, c2),
      change(2, "policy", NoDigest, c2), change(2, "tools", NoDigest, c2)}

OneSideNext == \/ CryptoNext /\ batches = {} /\ UNCHANGED anchorVars
               \/ AnchorNext /\ keys = {} /\ UNCHANGED cryptoVars
OneSideSpec == HardeningInit /\ [][OneSideNext]_hardeningVars
=============================================================================
