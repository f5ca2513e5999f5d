---------------------------- MODULE TenantCrypto ----------------------------
(***************************************************************************)
(* The keys of a tenant with the two kinds of artifacts made with them:    *)
(* signed configuration changes and encrypted evidence.                    *)
(***************************************************************************)
EXTENDS ConfigurationChain, EvidenceEncryption

cryptoVars == <<keyVars, chainVars, envelopes>>

CryptoInit == KeyInit /\ ChainInit /\ EnvelopeInit

CryptoNext == \/ KeyNext /\ UNCHANGED <<chainVars, envelopes>>
              \/ ChainNext /\ UNCHANGED envelopes
              \/ EnvelopeNext /\ UNCHANGED chainVars

CryptoSpec == CryptoInit /\ [][CryptoNext]_cryptoVars

-----------------------------------------------------------------------------
(* Properties *)

\* References, states and artifacts are of their kinds; every key has a first
\* state, its states follow the versions, and only registered keys made
\* anything.  Histories are well formed.
CryptoTypeOK ==
  /\ keys \subseteq KeyReference /\ keyStates \subseteq KeyState
  /\ \A x \in keyStates : x.key \in keys
  /\ \A k \in keys : StateHistory(k) # {} /\ WellFormedHistory(StateHistory(k))
  /\ \A p \in Purpose : WellFormedHistory(KeyHistory(p))
  /\ \A j, k \in keys : j.purpose = k.purpose /\ j.key_id = k.key_id => j = k
  /\ \A s \in signedChanges : /\ s.request \in ChangeRequest /\ s.key \in keys
                              /\ s.signed_at \in KeyTime
  /\ \A e \in envelopes : /\ e.subject \in Subject /\ e.key \in keys
                          /\ e.encrypted_at \in KeyTime
  /\ \A i \in DOMAIN chain : chain[i] \in signedChanges

\* The artifacts made so far: the key, and the time it was used.
Made == {[key |-> s.key, at |-> s.signed_at] : s \in signedChanges}
          \cup {[key |-> e.key, at |-> e.encrypted_at] : e \in envelopes}

\* A refusal is final: a signature that does not verify at some time, or an
\* envelope that does not open at it, never will at that time again, whatever
\* states and keys are registered later.
RefusalIsFinal ==
  [][\A a \in Made, now \in KeyTime :
       a.at <= now /\ ~StillUsable(a.key, a.at, now)
         => ~StillUsable(a.key, a.at, now)']_cryptoVars

\* Retirement spares the past ("Historical signature verification and evidence
\* decryption may use a key that has become RETIRED", TENANT_CRYPTO_HARDENING.md):
\* an artifact stops being good only by a state that disables its key at a time
\* not after the one asked about, or one dated back to when it was made or before.
RetirementSparesThePast ==
  [][\A a \in Made, now \in KeyTime :
       StillUsable(a.key, a.at, now) /\ ~StillUsable(a.key, a.at, now)' =>
         \E x \in keyStates' \ keyStates :
           /\ x.key = a.key
           /\ (x.status = "DISABLED" /\ x.at <= now) \/ x.at <= a.at]_cryptoVars
=============================================================================
