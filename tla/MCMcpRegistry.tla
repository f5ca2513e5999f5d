--------------------------- MODULE MCMcpRegistry ---------------------------
(* McpRegistry with one server, two captures and two binding identities:  *)
(* enough for a re-registration, a tie of captures, a stale binding and a *)
(* conflict of two bindings for one tool.                                 *)
EXTENDS McpLogs, TLC

Interchangeable == Permutations(SnapshotId) \cup Permutations(BindingId)
=============================================================================
