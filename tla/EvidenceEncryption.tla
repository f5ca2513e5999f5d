------------------------- MODULE EvidenceEncryption -------------------------
(***************************************************************************)
(* encrypt_governance_evidence and decrypt_and_verify_governance_evidence  *)
(* (regagentops/hardening.py): envelopes that callers keep and open later. *)
(* The cipher is left out: an envelope is what it says of its subject, its *)
(* key and its time.                                                       *)
(***************************************************************************)
EXTENDS KeyLifecycle

CONSTANTS Subject,      \* governance artifacts whose evidence is encrypted
          MaxEnvelopes  \* bound: envelopes

VARIABLE envelopes

EncryptEvidence(subject, k, t) ==
  /\ Cardinality(envelopes) < MaxEnvelopes
  /\ k.purpose = "evidence_encryption"
  /\ NewOperationAllowed(k, t)
  /\ envelopes' = envelopes \cup [subject : {subject}, key : {k}, encrypted_at : {t}]
  /\ UNCHANGED keyVars

\* decrypt_and_verify_governance_evidence returns the plaintext.
Decrypts(e, now) == StillUsable(e.key, e.encrypted_at, now)

EnvelopeInit == envelopes = {}
EnvelopeNext == \E subject \in Subject, k \in keys, t \in KeyTime :
                  EncryptEvidence(subject, k, t)
=============================================================================
