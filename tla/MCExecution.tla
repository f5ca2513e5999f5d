---------------------------- MODULE MCExecution ----------------------------
(* ExecutionBoundary with a single request for a single tool, no approval  *)
(* gate, and workers that race for one or two leases.                      *)
EXTENDS ExecutionBoundary, TLC

CONSTANTS srv, toolname, owner

Requests == {[id |-> 1, tool |-> <<srv, toolname>>, risk |-> "low",
              owner |-> owner]}

Interchangeable == Permutations(Worker) \cup Permutations(LeaseId)
                     \cup Permutations(SnapshotId)
=============================================================================
