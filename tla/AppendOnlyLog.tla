--------------------------- MODULE AppendOnlyLog ---------------------------
(***************************************************************************)
(* What the registries of RegAgentOps promise their readers: for every     *)
(* identity a log that is only ever extended at its end, one entry at a    *)
(* time, in an order of time.  A reader that saw entry i of a log will     *)
(* find the same entry i for ever.                                         *)
(***************************************************************************)
EXTENDS Integers, Sequences

CONSTANT Key
VARIABLE log

LogInit == log = [k \in Key |-> <<>>]

Extend(k) ==
  /\ Len(log'[k]) = Len(log[k]) + 1
  /\ \A i \in 1 .. Len(log[k]) : log'[k][i] = log[k][i]
  /\ log[k] # <<>> => log[k][Len(log[k])].at <= log'[k][Len(log[k]) + 1].at
  /\ \A j \in Key \ {k} : log'[j] = log[j]

LogNext == \E k \in Key : Extend(k)

LogSpec == LogInit /\ [][LogNext]_log
=============================================================================
