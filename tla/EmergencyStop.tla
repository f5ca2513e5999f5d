--------------------------- MODULE EmergencyStop ---------------------------
(***************************************************************************)
(* EmergencyStopRegistry (regagentops/execution.py): the append-only,      *)
(* versioned stop state of one institution, in memory.  An institution     *)
(* without a state cannot execute anything.                                *)
(***************************************************************************)
EXTENDS VersionedHistory, FiniteSets

CONSTANTS MaxStopVersion,  \* bound: versions of the stop state
          StopTime         \* effective_at timestamps callers use

ASSUME StopAssumption == MaxStopVersion \in Nat /\ StopTime \subseteq Nat

VARIABLE stops

StopState == [version : 1 .. MaxStopVersion, halted : BOOLEAN, at : StopTime]

\* current(...) returns x.
IsCurrentStop(x) == IsLatest(stops, x)

\* Mutant: the state of a version is overwritten.
RegisterStopAgain(v, h, t) ==
  LET x == [version |-> v, halted |-> h, at |-> t]
  IN stops' = {y \in stops : y.version # v} \cup {x}

RegisterStop(v, h, t) ==
  LET x == [version |-> v, halted |-> h, at |-> t]
  IN Appendable(stops, x) /\ stops' = stops \cup {x}

StopInit == stops = {}
StopNext == \E v \in 1 .. MaxStopVersion, h \in BOOLEAN, t \in StopTime :
              RegisterStop(v, h, t)

-----------------------------------------------------------------------------
\* The stop history is versions 1..n, one state each, in order of effective_at.
StopsWellFormed == WellFormedHistory(stops)
=============================================================================
