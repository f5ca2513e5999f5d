----------------------------- MODULE AuditAnchor -----------------------------
(***************************************************************************)
(* AuditAnchorRegistry (regagentops/hardening.py): a hash chain of audit   *)
(* batches, each of them bound to a receipt of an external anchoring       *)
(* service.  Operators assemble batches and send them; the service answers *)
(* late, out of order, more than once or never, and any operator may hand  *)
(* any batch with any receipt to register.  One tenant, in memory.         *)
(***************************************************************************)
EXTENDS Integers, Sequences, FiniteSets

CONSTANTS BatchId,        \* caller-chosen batch identities
          AnchorId,       \* anchor identities the service gives
          AnchorTime,     \* timestamps of operators and of the service
          MaxBatches,     \* bound: batches assembled
          MaxAnswers      \* bound: receipts of the service

ASSUME AnchorAssumption == /\ AnchorTime \subseteq Nat
                           /\ MaxBatches \in Nat /\ MaxAnswers \in Nat

VARIABLES batches,  \* batches assembled so far
          answers,  \* receipts the service has given
          anchors   \* the records of the registry, in order of sequence

anchorVars == <<batches, answers, anchors>>

\* previous_anchor_record_digest of the batch of sequence 1.
NoRecord == [none |-> TRUE]
LastRecord == IF anchors = <<>> THEN NoRecord ELSE anchors[Len(anchors)]

\* The AuditAnchorRecord that registering b with answer a at time t makes.
RecordOf(b, a, t) == [sequence |-> b.sequence, batch |-> b, receipt |-> a,
                      previous |-> b.previous, at |-> t]

\* An operator assembles a batch on the record it takes for the last one: it may
\* have read it from the registry, or be preparing it in a call of its own whose
\* answer is lost or still to come.
Assemble(id, previous, t) ==
  /\ Cardinality(batches) < MaxBatches
  /\ batches' = batches \cup
       {[batch_id |-> id, previous |-> previous, assembled_at |-> t,
         sequence |-> IF previous = NoRecord THEN 1 ELSE previous.sequence + 1]}
  /\ UNCHANGED <<answers, anchors>>

\* The service anchors a batch it was sent, once or again.
ServiceAnswers(b, id, t) ==
  /\ Cardinality(answers) < MaxAnswers
  /\ answers' = answers \cup {[batch |-> b, anchor_id |-> id, anchored_at |-> t]}
  /\ UNCHANGED <<batches, anchors>>

\* Mutant: the sequence alone places a batch.
BatchNumbered(b) == b.sequence = Len(anchors) + 1

BatchExtends(b) == b.sequence = Len(anchors) + 1 /\ b.previous = LastRecord

\* Mutant: the record may be dated before the one it follows.
DatedAlone(b, a, t) == b.assembled_at <= a.anchored_at /\ a.anchored_at <= t

RecordDated(b, a, t) ==
  /\ b.assembled_at <= a.anchored_at /\ a.anchored_at <= t
  /\ anchors # <<>> => LastRecord.at <= t

\* register.  For a sequence that is taken it returns the stored record on an exact
\* retry, and refuses anything else: neither changes the chain.
RegisterAnchor(b, a, t) ==
  /\ BatchExtends(b)
  /\ a.batch = b
  /\ RecordDated(b, a, t)
  /\ anchors' = Append(anchors, RecordOf(b, a, t))
  /\ UNCHANGED <<batches, answers>>

AnchorInit == batches = {} /\ answers = {} /\ anchors = <<>>

AnchorNext ==
  \/ \E id \in BatchId, t \in AnchorTime : Assemble(id, NoRecord, t)
  \/ \E id \in BatchId, a \in answers, u, t \in AnchorTime :
        Assemble(id, RecordOf(a.batch, a, u), t)
  \/ \E b \in batches, id \in AnchorId, t \in AnchorTime : ServiceAnswers(b, id, t)
  \/ \E b \in batches, a \in answers, t \in AnchorTime : RegisterAnchor(b, a, t)

AnchorSpec == AnchorInit /\ [][AnchorNext]_anchorVars

-----------------------------------------------------------------------------
(* Properties *)

\* One record per sequence, each linked to the record before it and bound to an
\* answer of the service for the very batch it records, in an order of time:
\* however many batches and answers compete for a sequence number.
AnchorsAreLinked ==
  \A i \in DOMAIN anchors :
    LET r == anchors[i]
    IN /\ r.sequence = i /\ r.batch.sequence = i
       /\ r.batch \in batches /\ r.receipt \in answers /\ r.receipt.batch = r.batch
       /\ r.previous = (IF i = 1 THEN NoRecord ELSE anchors[i - 1])
       /\ r.batch.previous = r.previous
       /\ r.batch.assembled_at <= r.receipt.anchored_at
       /\ r.receipt.anchored_at <= r.at
       /\ i > 1 => anchors[i - 1].at <= r.at
=============================================================================
