------------------------- MODULE VersionedHistory -------------------------
(***************************************************************************)
(* RegAgentOps keeps every governed object (an MCP server registration, a  *)
(* tool binding, an emergency-stop state, ...) as an append-only history   *)
(* of immutable records with contiguous versions.  The registries hold     *)
(* them in a dict keyed by (institution, identity, version); here one      *)
(* history is the SET of its records.  A record has a field version        *)
(* (server_version, binding_version, state_version) and a field at         *)
(* (registered_at, effective_at); it stands for its own artifact digest,   *)
(* the SHA-256 of its canonical JSON.                                      *)
(***************************************************************************)
EXTENDS Integers

\* history[-1]: the record of the highest version.
IsLatest(H, x) == x \in H /\ \A y \in H : y.version <= x.version

-----------------------------------------------------------------------------
(* Mutants *)

\* The order of time is not checked.
AppendableUndated(H, x) ==
  IF H = {} THEN x.version = 1
  ELSE \E l \in H : IsLatest(H, l) /\ x.version = l.version + 1

\* Versions grow, and may skip.
AppendableWithGaps(H, x) ==
  \A y \in H : y.version < x.version /\ y.at <= x.at

-----------------------------------------------------------------------------
\* Registering x stores it: its version is new, contiguous, and does not
\* predate the previous one.  (An exact retry and a rejected call change
\* nothing: they are stuttering steps of the specifications.)
Appendable(H, x) ==
  /\ \A y \in H : y.version # x.version
  /\ IF H = {} THEN x.version = 1
     ELSE \E l \in H : /\ IsLatest(H, l)
                       /\ x.version = l.version + 1
                       /\ l.at <= x.at

\* What every history is, whatever was registered: versions 1..n, one record
\* each, in an order of time that agrees with the order of versions.
WellFormedHistory(H) ==
  /\ \A x, y \in H : x.version = y.version => x = y
  /\ \A x \in H : /\ x.version \in Nat \ {0}
                  /\ \A v \in 1 .. x.version : \E y \in H : y.version = v
  /\ \A x, y \in H : x.version <= y.version => x.at <= y.at
=============================================================================
