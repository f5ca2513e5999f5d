-------------------------- MODULE HardeningProofs --------------------------
(* Keys, configuration changes and audit anchors of a tenant, for any keys, *)
(* requests, batches, bounds and times.                                     *)
EXTENDS TenantHardening, VersionedHistoryProofs, SequenceTheorems

\* The change chain is a sequence, and every object has a configuration or none.
ChainTyped ==
  /\ chain \in Seq(signedChanges)
  /\ DOMAIN configured = ChangeObject

CryptoInv == CryptoTypeOK /\ ChainTyped /\ ChainIsIntact

-----------------------------------------------------------------------------
(* Key states *)

LEMMA StateTimes ==
  ASSUME CryptoTypeOK, NEW x \in keyStates
  PROVE  /\ x.at \in KeyTime /\ x.at \in Nat /\ x.version \in Nat
         /\ x.status \in Status /\ x.key \in keys
<1>1. x \in KeyState /\ x.key \in keys BY DEF CryptoTypeOK
<1>2. x.version \in 1 .. MaxStateVersion /\ x.at \in KeyTime /\ x.status \in Status
  BY <1>1 DEF KeyState
<1>3. x.version \in Nat BY <1>2, KeyAssumption
<1>4. x.at \in Nat BY <1>2, KeyAssumption
<1> QED BY <1>1, <1>2, <1>3, <1>4

\* No key is registered twice: the version of a new reference is new.
LEMMA NewKeyHasNoStates ==
  ASSUME CryptoTypeOK, NEW k, Appendable(KeyHistory(k.purpose), k)
  PROVE  k \notin keys /\ StateHistory(k) = {}
<1>1. k \notin keys BY DEF Appendable, KeyHistory
<1> QED BY <1>1 DEF CryptoTypeOK, StateHistory

\* What a step does to the states of a key that is already registered: nothing, or
\* it appends one that the latest state may turn into.
LEMMA StatesOfAKey ==
  ASSUME CryptoTypeOK, [CryptoNext]_cryptoVars, NEW k \in keys
  PROVE  \/ StateHistory(k)' = StateHistory(k)
         \/ \E y, last \in keyStates' :
              /\ StateHistory(k)' = StateHistory(k) \cup {y}
              /\ y \notin keyStates /\ y.key = k /\ y.at \in Nat
              /\ IsLatest(StateHistory(k), last)
              /\ y.version = last.version + 1 /\ last.at <= y.at
              /\ TransitionAllowed(last.status, y.status)
<1>1. CASE UNCHANGED keyStates
  BY <1>1 DEF StateHistory
<1>2. ASSUME NEW purpose \in Purpose, NEW v \in 1 .. MaxKeys, NEW id \in KeyId,
             NEW st \in FirstStatus, NEW w \in KeyWindow, NEW t \in KeyTime,
             RegisterKey(purpose, v, id, st, w, t)
      PROVE  StateHistory(k)' = StateHistory(k)
  <2> DEFINE j == [purpose |-> purpose, version |-> v, key_id |-> id, status |-> st,
                   window |-> w, at |-> t]
             seed == [key |-> j, version |-> 1, status |-> st, at |-> t]
  <2>1. Appendable(KeyHistory(j.purpose), j) /\ keyStates' = keyStates \cup {seed}
    BY <1>2 DEF RegisterKey
  <2>2. j # k BY <2>1, NewKeyHasNoStates
  <2>3. seed.key # k BY <2>2
  <2> QED BY <2>1, <2>3 DEF StateHistory
<1>3. ASSUME NEW j \in keys, NEW v \in 1 .. MaxStateVersion, NEW st \in Status,
             NEW t \in KeyTime, RegisterKeyState(j, v, st, t)
      PROVE  \/ StateHistory(k)' = StateHistory(k)
             \/ \E y, last \in keyStates' :
                  /\ StateHistory(k)' = StateHistory(k) \cup {y}
                  /\ y \notin keyStates /\ y.key = k /\ y.at \in Nat
                  /\ IsLatest(StateHistory(k), last)
                  /\ y.version = last.version + 1 /\ last.at <= y.at
                  /\ TransitionAllowed(last.status, y.status)
  <2> DEFINE y == [key |-> j, version |-> v, status |-> st, at |-> t]
  <2>1. /\ Appendable(StateHistory(j), y) /\ keyStates' = keyStates \cup {y}
        /\ t \in Nat
    BY <1>3, KeyAssumption DEF RegisterKeyState
  <2>2. CASE j # k BY <2>1, <2>2 DEF StateHistory
  <2>3. CASE j = k
    <3>1. PICK last \in StateHistory(k) :
            IsLatest(StateHistory(k), last) /\ TransitionAllowed(last.status, st)
      BY <1>3, <2>3 DEF RegisterKeyState
    <3>2. PICK l \in StateHistory(k) :
            /\ IsLatest(StateHistory(k), l)
            /\ y.version = l.version + 1 /\ l.at <= y.at
      BY <2>1, <2>3, <3>1 DEF Appendable
    <3>3. WellFormedHistory(StateHistory(k)) BY DEF CryptoTypeOK
    <3>4. l = last BY <3>1, <3>2, <3>3, LatestIsUnique
    <3>5. StateHistory(k)' = StateHistory(k) \cup {y} BY <2>1, <2>3 DEF StateHistory
    <3>6. y \notin keyStates BY <2>1 DEF Appendable, StateHistory
    <3>7. last \in keyStates' /\ y \in keyStates' BY <2>1, <3>1 DEF StateHistory
    <3> QED BY <2>1, <2>3, <3>1, <3>2, <3>4, <3>5, <3>6, <3>7
  <2> QED BY <2>2, <2>3
<1>4. \/ UNCHANGED keyStates
      \/ \E purpose \in Purpose, v \in 1 .. MaxKeys, id \in KeyId, st \in FirstStatus,
            w \in KeyWindow, t \in KeyTime : RegisterKey(purpose, v, id, st, w, t)
      \/ \E j \in keys, v \in 1 .. MaxStateVersion, st \in Status, t \in KeyTime :
            RegisterKeyState(j, v, st, t)
  <2>1. ChainNext => UNCHANGED keyStates
    BY DEF ChainNext, SignChange, AppendChange, keyVars
  <2>2. EnvelopeNext => UNCHANGED keyStates
    BY DEF EnvelopeNext, EncryptEvidence, keyVars
  <2>3. UNCHANGED cryptoVars => UNCHANGED keyStates BY DEF cryptoVars, keyVars
  <2> QED BY <2>1, <2>2, <2>3 DEF CryptoNext, KeyNext
<1> QED BY <1>1, <1>2, <1>3, <1>4

\* A new state is the last one effective at a time exactly if it is effective then.
LEMMA StatusAfter ==
  ASSUME CryptoTypeOK, NEW k \in keys, NEW t \in Nat, NEW st,
         NEW y, NEW last \in StateHistory(k),
         StateHistory(k)' = StateHistory(k) \cup {y}, y.at \in Nat,
         IsLatest(StateHistory(k), last), y.version = last.version + 1,
         last.at <= y.at
  PROVE  /\ y.at <= t => (StatusAt(k, t, st)' <=> y.status = st)
         /\ ~(y.at <= t) => (StatusAt(k, t, st)' <=> StatusAt(k, t, st))
<1> DEFINE H == StateHistory(k)
           Then(S) == {x \in S : x.at <= t}
<1>1. \A x \in H : x.version \in Nat /\ x.version <= last.version
  BY StateTimes DEF IsLatest, StateHistory
<1>2. \A x \in H : x.version < y.version BY <1>1
<1>3. StatusAt(k, t, st)' <=> \E x \in H \cup {y} :
                                IsLatest(Then(H \cup {y}), x) /\ x.status = st
  BY DEF StatusAt
<1>4. StatusAt(k, t, st) <=> \E x \in H : IsLatest(Then(H), x) /\ x.status = st
  BY DEF StatusAt
<1>5. CASE y.at <= t
  <2>1. \A x : IsLatest(Then(H \cup {y}), x) <=> x = y
    <3>1. IsLatest(Then(H \cup {y}), y) BY <1>1, <1>2, <1>5 DEF IsLatest
    <3>2. ASSUME NEW x, IsLatest(Then(H \cup {y}), x) PROVE x = y
      BY <1>1, <1>2, <1>5, <3>2 DEF IsLatest
    <3> QED BY <3>1, <3>2
  <2> QED BY <1>3, <1>5, <2>1
<1>6. CASE ~(y.at <= t)
  <2>1. Then(H \cup {y}) = Then(H) BY <1>6
  <2>2. \A x : IsLatest(Then(H), x) => x \in H BY DEF IsLatest
  <2> QED BY <1>3, <1>4, <1>6, <2>1, <2>2
<1> QED BY <1>5, <1>6

LEMMA MadeByRegisteredKeys ==
  ASSUME CryptoTypeOK, NEW a \in Made
  PROVE  a.key \in keys /\ a.at \in KeyTime /\ a.at \in Nat
<1>1. \A s \in signedChanges : s.key \in keys /\ s.signed_at \in KeyTime
  BY DEF CryptoTypeOK
<1>2. \A e \in envelopes : e.key \in keys /\ e.encrypted_at \in KeyTime
  BY DEF CryptoTypeOK
<1>3. a.key \in keys /\ a.at \in KeyTime BY <1>1, <1>2 DEF Made
<1> QED BY <1>3, KeyAssumption

\* Whatever is usable after a step was usable before it.
LEMMA UsableWasUsable ==
  ASSUME CryptoTypeOK, [CryptoNext]_cryptoVars, NEW k \in keys,
         NEW made \in Nat, NEW now \in Nat, StillUsable(k, made, now)'
  PROVE  StillUsable(k, made, now)
<1>1. CASE StateHistory(k)' = StateHistory(k)
  BY <1>1 DEF StillUsable, StatusAt
<1>2. CASE ~(StateHistory(k)' = StateHistory(k))
  <2>1. PICK y, last \in keyStates' :
              /\ StateHistory(k)' = StateHistory(k) \cup {y}
              /\ y \notin keyStates /\ y.key = k /\ y.at \in Nat
              /\ IsLatest(StateHistory(k), last)
              /\ y.version = last.version + 1 /\ last.at <= y.at
              /\ TransitionAllowed(last.status, y.status)
    BY <1>2, StatesOfAKey
  <2>2. last \in StateHistory(k) BY <2>1 DEF IsLatest
  <2>3. StatusAt(k, made, "ACTIVE")' /\ ~StatusAt(k, now, "DISABLED")'
    BY DEF StillUsable
  <2>4. y.status # "ACTIVE" BY <2>1 DEF TransitionAllowed
  <2>5. StatusAt(k, made, "ACTIVE") BY <2>1, <2>2, <2>3, <2>4, StatusAfter
  <2>6. ~StatusAt(k, now, "DISABLED")
    <3>1. CASE ~(y.at <= now) BY <2>1, <2>2, <2>3, <3>1, StatusAfter
    <3>2. CASE y.at <= now
      <4> SUFFICES ASSUME StatusAt(k, now, "DISABLED") PROVE FALSE
        OBVIOUS
      <4>1. PICK x \in StateHistory(k) :
              /\ IsLatest({z \in StateHistory(k) : z.at <= now}, x)
              /\ x.status = "DISABLED"
        BY DEF StatusAt
      <4>2. last.at \in Nat BY <2>2, StateTimes DEF StateHistory
      <4>3. last \in {z \in StateHistory(k) : z.at <= now}
        BY <2>1, <2>2, <3>2, <4>2
      <4>4. last.version <= x.version BY <4>1, <4>3 DEF IsLatest
      <4>5. x.version <= last.version BY <2>1 DEF IsLatest
      <4>6. x.version \in Nat /\ last.version \in Nat
        BY <2>2, StateTimes DEF StateHistory
      <4>7. x = last
        BY <2>2, <4>4, <4>5, <4>6 DEF CryptoTypeOK, WellFormedHistory
      <4> QED BY <2>1, <4>1, <4>7 DEF TransitionAllowed
    <3> QED BY <3>1, <3>2
  <2> QED BY <2>5, <2>6 DEF StillUsable
<1> QED BY <1>1, <1>2

\* What a step makes unusable, it makes so by a new state of the key.
LEMMA UnusableByAState ==
  ASSUME CryptoTypeOK, [CryptoNext]_cryptoVars, NEW k \in keys,
         NEW made \in Nat, NEW now \in Nat,
         StillUsable(k, made, now), ~StillUsable(k, made, now)'
  PROVE  \E x \in keyStates' \ keyStates :
           /\ x.key = k
           /\ (x.status = "DISABLED" /\ x.at <= now) \/ x.at <= made
<1>1. CASE StateHistory(k)' = StateHistory(k)
  BY <1>1 DEF StillUsable, StatusAt
<1>2. CASE ~(StateHistory(k)' = StateHistory(k))
  <2>1. PICK y, last \in keyStates' :
              /\ StateHistory(k)' = StateHistory(k) \cup {y}
              /\ y \notin keyStates /\ y.key = k /\ y.at \in Nat
              /\ IsLatest(StateHistory(k), last)
              /\ y.version = last.version + 1 /\ last.at <= y.at
              /\ TransitionAllowed(last.status, y.status)
    BY <1>2, StatesOfAKey
  <2>2. last \in StateHistory(k) BY <2>1 DEF IsLatest
  <2>3. \/ StatusAt(k, made, "ACTIVE") /\ ~StatusAt(k, made, "ACTIVE")'
        \/ ~StatusAt(k, now, "DISABLED") /\ StatusAt(k, now, "DISABLED")'
    BY DEF StillUsable
  <2>4. CASE StatusAt(k, made, "ACTIVE") /\ ~StatusAt(k, made, "ACTIVE")'
    <3>1. y.at <= made BY <2>1, <2>2, <2>4, StatusAfter
    <3> QED BY <2>1, <3>1
  <2>5. CASE ~StatusAt(k, now, "DISABLED") /\ StatusAt(k, now, "DISABLED")'
    <3>1. y.at <= now BY <2>1, <2>2, <2>5, StatusAfter
    <3>2. y.status = "DISABLED" BY <2>1, <2>2, <2>5, <3>1, StatusAfter
    <3> QED BY <2>1, <3>1, <3>2
  <2> QED BY <2>3, <2>4, <2>5
<1> QED BY <1>1, <1>2

-----------------------------------------------------------------------------
(* Type correctness of keys, changes and envelopes *)

LEMMA CryptoInitInv ==
  ASSUME CryptoInit
  PROVE  CryptoInv
<1> USE DEF CryptoInit, KeyInit, ChainInit, EnvelopeInit
<1>1. CryptoTypeOK
  BY DEF CryptoTypeOK, StateHistory, KeyHistory, WellFormedHistory
<1>2. ChainTyped BY DEF ChainTyped
<1>3. ChainIsIntact BY DEF ChainIsIntact
<1> QED BY <1>1, <1>2, <1>3 DEF CryptoInv

LEMMA RegisterKeyKeeps ==
  ASSUME CryptoInv, NEW purpose \in Purpose, NEW v \in 1 .. MaxKeys, NEW id \in KeyId,
         NEW st \in FirstStatus, NEW w \in KeyWindow, NEW t \in KeyTime,
         RegisterKey(purpose, v, id, st, w, t), UNCHANGED <<chainVars, envelopes>>
  PROVE  CryptoInv'
<1> DEFINE j == [purpose |-> purpose, version |-> v, key_id |-> id, status |-> st,
                 window |-> w, at |-> t]
           seed == [key |-> j, version |-> 1, status |-> st, at |-> t]
<1> USE DEF CryptoInv
<1>1. /\ Appendable(KeyHistory(purpose), j)
      /\ \A y \in KeyHistory(purpose) : y.key_id # id
      /\ keys' = keys \cup {j} /\ keyStates' = keyStates \cup {seed}
      /\ UNCHANGED <<signedChanges, chain, configured, envelopes>>
  BY DEF RegisterKey, chainVars
<1>2. t \in Nat /\ st \in Status BY KeyAssumption
<1>3. j \in KeyReference BY DEF KeyReference
<1>4. j \notin keys /\ StateHistory(j) = {}
  <2>1. Appendable(KeyHistory(j.purpose), j) BY <1>1
  <2> QED BY <2>1, NewKeyHasNoStates
<1>5. seed \in KeyState
  <2>1. 1 \in 1 .. MaxStateVersion BY KeyAssumption
  <2> QED BY <1>2, <1>3, <2>1 DEF KeyState
<1>6. \A k \in keys' : StateHistory(k)' # {} /\ WellFormedHistory(StateHistory(k)')
  <2> SUFFICES ASSUME NEW k \in keys'
               PROVE  StateHistory(k)' # {} /\ WellFormedHistory(StateHistory(k)')
    OBVIOUS
  <2>1. CASE k = j
    <3>1. StateHistory(k)' = {seed} BY <1>1, <1>4, <2>1 DEF StateHistory
    <3> QED BY <1>2, <3>1 DEF WellFormedHistory
  <2>2. CASE k \in keys
    <3>1. StateHistory(k)' = StateHistory(k) BY <1>1, <1>4, <2>2 DEF StateHistory
    <3> QED BY <2>2, <3>1 DEF CryptoTypeOK
  <2> QED BY <1>1, <2>1, <2>2
<1>7. \A p \in Purpose : WellFormedHistory(KeyHistory(p)')
  <2> SUFFICES ASSUME NEW p \in Purpose PROVE WellFormedHistory(KeyHistory(p)')
    OBVIOUS
  <2>1. CASE p = purpose
    <3>1. KeyHistory(p)' = KeyHistory(purpose) \cup {j} BY <1>1, <2>1 DEF KeyHistory
    <3>2. WellFormedHistory(KeyHistory(purpose)) BY DEF CryptoTypeOK
    <3>3. \A y \in keys : y.at \in KeyTime BY DEF CryptoTypeOK, KeyReference
    <3>4. Dated(KeyHistory(purpose)) BY <3>3, KeyAssumption DEF Dated, KeyHistory
    <3> QED BY <1>1, <1>2, <3>1, <3>2, <3>4, AppendKeepsWellFormed
  <2>2. CASE p # purpose
    <3>1. KeyHistory(p)' = KeyHistory(p) BY <1>1, <2>2 DEF KeyHistory
    <3> QED BY <3>1 DEF CryptoTypeOK
  <2> QED BY <2>1, <2>2
<1>8. \A i, k \in keys' : i.purpose = k.purpose /\ i.key_id = k.key_id => i = k
  BY <1>1 DEF CryptoTypeOK, KeyHistory
<1>9. /\ keys' \subseteq KeyReference /\ keyStates' \subseteq KeyState
      /\ \A x \in keyStates' : x.key \in keys'
  BY <1>1, <1>3, <1>5 DEF CryptoTypeOK
<1>10. CryptoTypeOK'
  <2>1. /\ \A s \in signedChanges' : /\ s.request \in ChangeRequest /\ s.key \in keys'
                                     /\ s.signed_at \in KeyTime
        /\ \A e \in envelopes' : /\ e.subject \in Subject /\ e.key \in keys'
                                 /\ e.encrypted_at \in KeyTime
        /\ \A i \in DOMAIN chain' : chain'[i] \in signedChanges'
    BY <1>1 DEF CryptoTypeOK
  <2> QED BY <1>6, <1>7, <1>8, <1>9, <2>1 DEF CryptoTypeOK
<1>11. ChainTyped' /\ ChainIsIntact' BY <1>1 DEF ChainTyped, ChainIsIntact
<1> QED BY <1>10, <1>11

LEMMA KeyStateKeeps ==
  ASSUME CryptoInv, NEW j \in keys, NEW v \in 1 .. MaxStateVersion, NEW st \in Status,
         NEW t \in KeyTime, RegisterKeyState(j, v, st, t),
         UNCHANGED <<chainVars, envelopes>>
  PROVE  CryptoInv'
<1> DEFINE y == [key |-> j, version |-> v, status |-> st, at |-> t]
<1> USE DEF CryptoInv
<1>1. /\ Appendable(StateHistory(j), y) /\ keyStates' = keyStates \cup {y}
      /\ UNCHANGED <<keys, signedChanges, chain, configured, envelopes>>
  BY DEF RegisterKeyState, chainVars
<1>2. t \in Nat BY KeyAssumption
<1>3. y \in KeyState BY DEF KeyState, CryptoTypeOK
<1>4. \A k \in keys : StateHistory(k)' # {} /\ WellFormedHistory(StateHistory(k)')
  <2> SUFFICES ASSUME NEW k \in keys
               PROVE  StateHistory(k)' # {} /\ WellFormedHistory(StateHistory(k)')
    OBVIOUS
  <2>1. StateHistory(k) # {} /\ WellFormedHistory(StateHistory(k)) BY DEF CryptoTypeOK
  <2>2. CASE k = j
    <3>1. StateHistory(k)' = StateHistory(j) \cup {y} BY <1>1, <2>2 DEF StateHistory
    <3>2. Dated(StateHistory(j)) BY StateTimes DEF Dated, StateHistory
    <3> QED BY <1>1, <1>2, <2>1, <2>2, <3>1, <3>2, AppendKeepsWellFormed
  <2>3. CASE k # j
    <3>1. StateHistory(k)' = StateHistory(k) BY <1>1, <2>3 DEF StateHistory
    <3> QED BY <2>1, <3>1
  <2> QED BY <2>2, <2>3
<1>5. \A p \in Purpose : WellFormedHistory(KeyHistory(p)')
  <2>1. \A p \in Purpose : KeyHistory(p)' = KeyHistory(p) BY <1>1 DEF KeyHistory
  <2> QED BY <2>1 DEF CryptoTypeOK
<1>6. CryptoTypeOK' BY <1>1, <1>3, <1>4, <1>5 DEF CryptoTypeOK
<1>7. ChainTyped' /\ ChainIsIntact' BY <1>1 DEF ChainTyped, ChainIsIntact
<1> QED BY <1>6, <1>7

\* Calls that make artifacts leave the histories of keys and states alone.
LEMMA KeysOfTheRest ==
  ASSUME CryptoTypeOK, UNCHANGED keyVars,
         \A s \in signedChanges' : /\ s.request \in ChangeRequest /\ s.key \in keys
                                   /\ s.signed_at \in KeyTime,
         \A e \in envelopes' : /\ e.subject \in Subject /\ e.key \in keys
                               /\ e.encrypted_at \in KeyTime,
         \A i \in DOMAIN chain' : chain'[i] \in signedChanges'
  PROVE  CryptoTypeOK'
<1>1. keys' = keys /\ keyStates' = keyStates BY DEF keyVars
<1>2. \A k : StateHistory(k)' = StateHistory(k) BY <1>1 DEF StateHistory
<1>3. \A p : KeyHistory(p)' = KeyHistory(p) BY <1>1 DEF KeyHistory
<1> QED BY <1>1, <1>2, <1>3 DEF CryptoTypeOK

LEMMA SignKeeps ==
  ASSUME CryptoInv, NEW r \in ChangeRequest, NEW k \in keys, NEW t \in KeyTime,
         NEW previous, SignChange(r, previous, k, t), UNCHANGED envelopes
  PROVE  CryptoInv'
<1> DEFINE s == [request |-> r, previous_change |-> previous, key |-> k, signed_at |-> t]
<1> USE DEF CryptoInv
<1>1. /\ signedChanges' = signedChanges \cup {s}
      /\ UNCHANGED <<chain, configured, keyVars, envelopes>>
  BY DEF SignChange
<1>2. CryptoTypeOK'
  <2>1. \A x \in signedChanges' : /\ x.request \in ChangeRequest /\ x.key \in keys
                                  /\ x.signed_at \in KeyTime
    BY <1>1 DEF CryptoTypeOK
  <2>2. /\ \A e \in envelopes' : /\ e.subject \in Subject /\ e.key \in keys
                                /\ e.encrypted_at \in KeyTime
        /\ \A i \in DOMAIN chain' : chain'[i] \in signedChanges'
    BY <1>1 DEF CryptoTypeOK
  <2> QED BY <1>1, <2>1, <2>2, KeysOfTheRest
<1>3. ChainTyped'
  <2>1. chain \in Seq(signedChanges') BY <1>1, SeqMonotonic DEF ChainTyped
  <2> QED BY <1>1, <2>1 DEF ChainTyped
<1>4. ChainIsIntact' BY <1>1 DEF ChainIsIntact
<1> QED BY <1>2, <1>3, <1>4

\* append: the checks against the head of the chain and against one object's
\* configuration keep the chain a line, and the changes of every object one too.
LEMMA AppendKeeps ==
  ASSUME CryptoInv, NEW s \in signedChanges, NEW now \in KeyTime,
         AppendChange(s, now), UNCHANGED envelopes
  PROVE  CryptoInv'
<1> DEFINE r == s.request
           n == Len(chain)
<1> USE DEF CryptoInv
<1>1. /\ ExtendsChain(s) /\ FitsObject(r)
      /\ chain' = Append(chain, s)
      /\ configured' = [configured EXCEPT ![r.object] = r.proposed]
      /\ UNCHANGED <<signedChanges, keyVars, envelopes>>
  BY DEF AppendChange
<1>2. /\ n \in Nat /\ DOMAIN chain = 1 .. n
      /\ DOMAIN chain' = 1 .. n + 1 /\ Len(chain') = n + 1
      /\ \A i \in 1 .. n : chain'[i] = chain[i]
      /\ chain'[n + 1] = s
      /\ chain' \in Seq(signedChanges)
  <2>1. chain \in Seq(signedChanges) BY DEF ChainTyped
  <2>2. chain' \in Seq(signedChanges) BY <1>1, <2>1, AppendProperties
  <2> QED BY <1>1, <2>1, <2>2, AppendProperties, LenProperties
<1>3. /\ r \in ChangeRequest /\ r.object \in ChangeObject
      /\ r.proposed # NoDigest
  BY ChangeAssumption DEF CryptoTypeOK
<1>4. \A i \in 1 .. n : /\ chain[i].request.object \in ChangeObject
                        /\ chain[i].request.proposed # NoDigest
  BY <1>2, ChangeAssumption DEF CryptoTypeOK
<1>5. /\ configured'[r.object] = r.proposed
      /\ \A o \in ChangeObject : o # r.object => configured'[o] = configured[o]
  BY <1>1, <1>3 DEF ChainTyped
<1>6. CryptoTypeOK'
  <2>1. \A i \in DOMAIN chain' : chain'[i] \in signedChanges'
    BY <1>1, <1>2 DEF CryptoTypeOK
  <2>2. /\ \A x \in signedChanges' : /\ x.request \in ChangeRequest /\ x.key \in keys
                                     /\ x.signed_at \in KeyTime
        /\ \A e \in envelopes' : /\ e.subject \in Subject /\ e.key \in keys
                                 /\ e.encrypted_at \in KeyTime
    BY <1>1 DEF CryptoTypeOK
  <2> QED BY <1>1, <2>1, <2>2, KeysOfTheRest
<1>7. ChainTyped' BY <1>1, <1>2 DEF ChainTyped
<1>8. ASSUME NEW i \in 1 .. n + 1
      PROVE  /\ chain'[i].request.sequence = i
             /\ chain'[i].previous_change = (IF i = 1 THEN NoChange ELSE chain'[i - 1])
             /\ i > 1 => chain'[i - 1].signed_at <= chain'[i].signed_at
  <2>1. CASE i \in 1 .. n
    <3>1. i > 1 => i - 1 \in 1 .. n BY <1>2, <2>1
    <3> QED BY <1>2, <2>1, <3>1 DEF ChainIsIntact
  <2>2. CASE i = n + 1
    <3>1. chain = <<>> <=> n = 0 BY EmptySeq DEF ChainTyped
    <3>2. n # 0 => n \in 1 .. n /\ ChainHead(chain) = chain'[n]
      BY <1>2, <3>1 DEF ChainHead
    <3>3. n = 0 => ChainHead(chain) = NoChange BY <3>1 DEF ChainHead
    <3>4. /\ r.sequence = n + 1 /\ s.previous_change = ChainHead(chain)
          /\ chain # <<>> => ChainHead(chain).signed_at <= s.signed_at
      BY <1>1 DEF ExtendsChain
    <3>5. CASE n = 0 BY <1>2, <2>2, <3>3, <3>4, <3>5
    <3>6. CASE n # 0
      <4>1. i # 1 /\ i - 1 = n /\ chain'[i] = s BY <1>2, <2>2, <3>6
      <4> QED BY <2>2, <3>1, <3>2, <3>4, <3>6, <4>1
    <3> QED BY <3>5, <3>6
  <2> QED BY <1>2, <2>1, <2>2
<1>9. ASSUME NEW i \in 1 .. n + 1, NEW j \in 1 .. n + 1,
             i < j, chain'[i].request.object = chain'[j].request.object,
             \A m \in i + 1 .. j - 1 :
               chain'[m].request.object # chain'[j].request.object
      PROVE  chain'[j].request.previous = chain'[i].request.proposed
  <2>1. CASE j \in 1 .. n
    <3>1. i \in 1 .. n /\ \A m \in i + 1 .. j - 1 : m \in 1 .. n BY <1>2, <1>9, <2>1
    <3>2. /\ chain[i].request.object = chain[j].request.object
          /\ \A m \in i + 1 .. j - 1 :
                chain[m].request.object # chain[j].request.object
      BY <1>2, <1>9, <2>1, <3>1
    <3>3. i \in DOMAIN chain /\ j \in DOMAIN chain BY <1>2, <2>1, <3>1
    <3>4. chain[j].request.previous = chain[i].request.proposed
      BY <1>9, <3>2, <3>3 DEF ChainIsIntact
    <3> QED BY <1>2, <2>1, <3>1, <3>4
  <2>2. CASE j = n + 1
    <3>1. i \in 1 .. n /\ \A m \in i + 1 .. n : m \in i + 1 .. j - 1 /\ m \in 1 .. n
      BY <1>2, <1>9, <2>2
    <3>2. /\ chain[i].request.object = r.object
          /\ \A m \in i + 1 .. n : chain[m].request.object # r.object
      BY <1>2, <1>9, <2>2, <3>1
    <3>3. configured[r.object] = chain[i].request.proposed
      <4>1. i \in DOMAIN chain BY <1>2, <3>1
      <4>2. \A m \in i + 1 .. Len(chain) :
              chain[m].request.object # chain[i].request.object
        BY <3>2
      <4> QED BY <3>2, <4>1, <4>2 DEF ChainIsIntact
    <3>4. configured[r.object] # NoDigest BY <1>4, <3>1, <3>3
    <3> QED BY <1>1, <1>2, <2>2, <3>1, <3>3, <3>4 DEF FitsObject
  <2> QED BY <1>2, <2>1, <2>2
<1>10. ASSUME NEW j \in 1 .. n + 1,
              \A m \in j + 1 .. n + 1 :
                chain'[m].request.object # chain'[j].request.object
       PROVE  configured'[chain'[j].request.object] = chain'[j].request.proposed
  <2>1. CASE j = n + 1 BY <1>2, <1>5, <2>1
  <2>2. CASE j \in 1 .. n
    <3>1. n + 1 \in j + 1 .. n + 1 /\ \A m \in j + 1 .. n : m \in j + 1 .. n + 1 /\ m \in 1 .. n
      BY <1>2, <2>2
    <3>2. /\ r.object # chain[j].request.object
          /\ \A m \in j + 1 .. n : chain[m].request.object # chain[j].request.object
      BY <1>2, <1>10, <2>2, <3>1
    <3>3. configured[chain[j].request.object] = chain[j].request.proposed
      <4>1. j \in DOMAIN chain BY <1>2, <2>2
      <4> QED BY <3>2, <4>1 DEF ChainIsIntact
    <3> QED BY <1>2, <1>4, <1>5, <2>2, <3>2, <3>3
  <2> QED BY <1>2, <2>1, <2>2
<1>11. ChainIsIntact'
  <2>1. DOMAIN chain' = 1 .. n + 1 /\ Len(chain') = n + 1 BY <1>2
  <2>2. \A i \in DOMAIN chain' :
          /\ chain'[i].request.sequence = i
          /\ chain'[i].previous_change = (IF i = 1 THEN NoChange ELSE chain'[i - 1])
          /\ i > 1 => chain'[i - 1].signed_at <= chain'[i].signed_at
    BY <1>8, <2>1
  <2>3. \A i, j \in DOMAIN chain' :
          (/\ i < j /\ chain'[i].request.object = chain'[j].request.object
           /\ \A m \in i + 1 .. j - 1 :
                chain'[m].request.object # chain'[j].request.object)
            => chain'[j].request.previous = chain'[i].request.proposed
    BY <1>9, <2>1
  <2>4. \A j \in DOMAIN chain' :
          (\A m \in j + 1 .. Len(chain') :
             chain'[m].request.object # chain'[j].request.object)
            => configured'[chain'[j].request.object] = chain'[j].request.proposed
    BY <1>10, <2>1
  <2> QED BY <2>2, <2>3, <2>4 DEF ChainIsIntact
<1> QED BY <1>6, <1>7, <1>11

LEMMA EncryptKeeps ==
  ASSUME CryptoInv, NEW subject \in Subject, NEW k \in keys, NEW t \in KeyTime,
         EncryptEvidence(subject, k, t), UNCHANGED chainVars
  PROVE  CryptoInv'
<1> USE DEF CryptoInv
<1>1. /\ envelopes' = envelopes \cup [subject : {subject}, key : {k}, encrypted_at : {t}]
      /\ UNCHANGED <<signedChanges, chain, configured, keyVars>>
  BY DEF EncryptEvidence, chainVars
<1>2. CryptoTypeOK'
  <2>1. \A e \in envelopes' : /\ e.subject \in Subject /\ e.key \in keys
                              /\ e.encrypted_at \in KeyTime
    BY <1>1 DEF CryptoTypeOK
  <2>2. /\ \A x \in signedChanges' : /\ x.request \in ChangeRequest /\ x.key \in keys
                                     /\ x.signed_at \in KeyTime
        /\ \A i \in DOMAIN chain' : chain'[i] \in signedChanges'
    BY <1>1 DEF CryptoTypeOK
  <2> QED BY <1>1, <2>1, <2>2, KeysOfTheRest
<1>3. chain' = chain /\ configured' = configured BY <1>1
<1>4. ChainTyped' BY <1>1 DEF ChainTyped
<1>5. ChainIsIntact' BY <1>3 DEF ChainIsIntact
<1> QED BY <1>2, <1>4, <1>5

LEMMA CryptoStepInv ==
  ASSUME CryptoInv, [CryptoNext]_cryptoVars
  PROVE  CryptoInv'
<1>1. CASE KeyNext /\ UNCHANGED <<chainVars, envelopes>>
  BY <1>1, RegisterKeyKeeps, KeyStateKeeps DEF KeyNext
<1>2. CASE ChainNext /\ UNCHANGED envelopes
  BY <1>2, SignKeeps, AppendKeeps DEF ChainNext
<1>3. CASE EnvelopeNext /\ UNCHANGED chainVars
  BY <1>3, EncryptKeeps DEF EnvelopeNext
<1>4. CASE UNCHANGED cryptoVars
  <2>1. UNCHANGED <<keyVars, signedChanges, chain, configured, envelopes>>
    BY <1>4 DEF cryptoVars, chainVars
  <2>2. CryptoTypeOK'
    BY <2>1, KeysOfTheRest DEF CryptoInv, CryptoTypeOK
  <2> QED BY <2>1, <2>2 DEF CryptoInv, ChainTyped, ChainIsIntact
<1> QED BY <1>1, <1>2, <1>3, <1>4 DEF CryptoNext

-----------------------------------------------------------------------------
(* Audit anchors *)

\* Every record is one that register makes of a batch and an answer.
Records == {RecordOf(b, a, t) : b \in batches, a \in answers, t \in AnchorTime}

AnchorInv == anchors \in Seq(Records) /\ AnchorsAreLinked

LEMMA BatchesKeep ==
  ASSUME AnchorInv, batches \subseteq batches', answers \subseteq answers',
         anchors' = anchors
  PROVE  AnchorInv'
<1>1. Records \subseteq Records' BY DEF Records
<1>2. anchors' \in Seq(Records') BY <1>1, SeqMonotonic DEF AnchorInv
<1>3. AnchorsAreLinked' BY DEF AnchorInv, AnchorsAreLinked
<1> QED BY <1>2, <1>3 DEF AnchorInv

LEMMA AnchorKeeps ==
  ASSUME AnchorInv, NEW b \in batches, NEW a \in answers, NEW t \in AnchorTime,
         RegisterAnchor(b, a, t)
  PROVE  AnchorInv'
<1> DEFINE n == Len(anchors)
           r == RecordOf(b, a, t)
<1> USE DEF AnchorInv
<1>1. /\ b.sequence = n + 1 /\ b.previous = LastRecord /\ a.batch = b
      /\ b.assembled_at <= a.anchored_at /\ a.anchored_at <= t
      /\ anchors # <<>> => LastRecord.at <= t
      /\ anchors' = Append(anchors, r) /\ batches' = batches /\ answers' = answers
  BY DEF RegisterAnchor, BatchExtends, RecordDated
<1>2. r \in Records BY DEF Records
<1>3. /\ n \in Nat /\ DOMAIN anchors = 1 .. n
      /\ DOMAIN anchors' = 1 .. n + 1
      /\ \A i \in 1 .. n : anchors'[i] = anchors[i]
      /\ anchors'[n + 1] = r
      /\ anchors' \in Seq(Records)
  <2>1. anchors' \in Seq(Records) BY <1>1, <1>2, AppendProperties
  <2> QED BY <1>1, <1>2, <2>1, AppendProperties, LenProperties
<1>4. /\ r.sequence = n + 1 /\ r.batch = b /\ r.receipt = a /\ r.at = t
      /\ r.previous = b.previous
  BY <1>1 DEF RecordOf
<1>5. ASSUME NEW i \in 1 .. n + 1
      PROVE  LET x == anchors'[i]
             IN /\ x.sequence = i /\ x.batch.sequence = i
                /\ x.batch \in batches /\ x.receipt \in answers
                /\ x.receipt.batch = x.batch
                /\ x.previous = (IF i = 1 THEN NoRecord ELSE anchors'[i - 1])
                /\ x.batch.previous = x.previous
                /\ x.batch.assembled_at <= x.receipt.anchored_at
                /\ x.receipt.anchored_at <= x.at
                /\ i > 1 => anchors'[i - 1].at <= x.at
  <2>1. CASE i \in 1 .. n
    <3>1. i > 1 => i - 1 \in 1 .. n BY <1>3, <2>1
    <3> QED BY <1>3, <2>1, <3>1 DEF AnchorsAreLinked
  <2>2. CASE i = n + 1
    <3>1. anchors = <<>> <=> n = 0 BY EmptySeq
    <3>2. CASE n = 0
      <4>1. LastRecord = NoRecord BY <3>1, <3>2 DEF LastRecord
      <4> QED BY <1>1, <1>3, <1>4, <2>2, <3>2, <4>1
    <3>3. CASE n # 0
      <4>1. i # 1 /\ i - 1 = n /\ n \in 1 .. n BY <1>3, <2>2, <3>3
      <4>2. LastRecord = anchors'[n] BY <1>3, <3>1, <3>3, <4>1 DEF LastRecord
      <4> QED BY <1>1, <1>3, <1>4, <2>2, <3>1, <3>3, <4>1, <4>2
    <3> QED BY <3>2, <3>3
  <2> QED BY <1>3, <2>1, <2>2
<1>6. AnchorsAreLinked' BY <1>1, <1>3, <1>5 DEF AnchorsAreLinked
<1>7. Records' = Records BY <1>1 DEF Records
<1> QED BY <1>3, <1>6, <1>7

LEMMA AnchorInitInv ==
  ASSUME AnchorInit
  PROVE  AnchorInv
<1>1. anchors \in Seq(Records) BY EmptySeq DEF AnchorInit
<1>2. AnchorsAreLinked BY DEF AnchorInit, AnchorsAreLinked
<1> QED BY <1>1, <1>2 DEF AnchorInv

LEMMA AnchorStepInv ==
  ASSUME AnchorInv, [AnchorNext]_anchorVars
  PROVE  AnchorInv'
<1>1. ASSUME NEW id \in BatchId, NEW previous, NEW t \in AnchorTime,
             Assemble(id, previous, t)
      PROVE  AnchorInv'
  BY <1>1, BatchesKeep DEF Assemble
<1>2. ASSUME NEW b \in batches, NEW id \in AnchorId, NEW t \in AnchorTime,
             ServiceAnswers(b, id, t)
      PROVE  AnchorInv'
  BY <1>2, BatchesKeep DEF ServiceAnswers
<1>3. CASE UNCHANGED anchorVars BY <1>3, BatchesKeep DEF anchorVars
<1> QED BY <1>1, <1>2, <1>3, AnchorKeeps DEF AnchorNext

-----------------------------------------------------------------------------
(* The chains as append-only logs *)

\* A log of changes has the length of the chain, and one entry per change.
LEMMA ChangeLogEntries ==
  ASSUME NEW S, NEW c \in Seq(S)
  PROVE  /\ Len(ChangeLog(c)) = Len(c)
         /\ \A i \in 1 .. Len(c) : ChangeLog(c)[i] = [change |-> c[i], at |-> c[i].signed_at]
         /\ (ChangeLog(c) = <<>>) <=> (Len(c) = 0)
<1>1. Len(c) \in Nat BY LenProperties
<1> QED BY <1>1 DEF ChangeLog

\* append extends the change log, in an order of time, and no other.
LEMMA AppendExtendsLog ==
  ASSUME CryptoInv, NEW s \in signedChanges, NEW now \in KeyTime, AppendChange(s, now),
         UNCHANGED anchors
  PROVE  Chains!Extend("changes")
<1> DEFINE n == Len(chain)
           old == ChangeLog(chain)
           new == ChangeLog(chain')
<1>1. /\ chain' = Append(chain, s)
      /\ chain # <<>> => ChainHead(chain).signed_at <= s.signed_at
  BY DEF AppendChange, ExtendsChain
<1>2. chain \in Seq(signedChanges) BY DEF CryptoInv, ChainTyped
<1>3. /\ n \in Nat /\ chain' \in Seq(signedChanges) /\ Len(chain') = n + 1
      /\ \A i \in 1 .. n : chain'[i] = chain[i]
      /\ chain'[n + 1] = s
  BY <1>1, <1>2, AppendProperties, LenProperties
<1>4. /\ Len(old) = n /\ (old = <<>> <=> n = 0)
      /\ \A i \in 1 .. n : old[i] = [change |-> chain[i], at |-> chain[i].signed_at]
  BY <1>2, ChangeLogEntries
<1>5. /\ Len(new) = n + 1
      /\ \A i \in 1 .. n + 1 :
           new[i] = [change |-> chain'[i], at |-> chain'[i].signed_at]
  BY <1>3, ChangeLogEntries
<1> HIDE DEF old, new, n
<1>6. \A i \in 1 .. n : new[i] = old[i] BY <1>3, <1>4, <1>5
<1>7. old # <<>> => old[n].at <= new[n + 1].at
  <2> SUFFICES ASSUME old # <<>> PROVE old[n].at <= new[n + 1].at OBVIOUS
  <2>1. n # 0 /\ n \in 1 .. n BY <1>3, <1>4
  <2>2. chain # <<>> BY <1>2, <2>1, EmptySeq DEF n
  <2>3. chain[n].signed_at <= s.signed_at BY <1>1, <2>2 DEF ChainHead, n
  <2> QED BY <1>3, <1>4, <1>5, <2>1, <2>3
<1>8. /\ chainLogs["changes"] = old /\ chainLogs'["changes"] = new
      /\ \A k \in ChainKey \ {"changes"} : chainLogs'[k] = chainLogs[k]
  BY DEF chainLogs, ChainKey, old, new
<1> QED BY <1>4, <1>5, <1>6, <1>7, <1>8 DEF Chains!Extend

\* register extends the log of anchors, in an order of time, and no other.
LEMMA RegisterExtendsLog ==
  ASSUME AnchorInv, NEW b \in batches, NEW a \in answers, NEW t \in AnchorTime,
         RegisterAnchor(b, a, t), UNCHANGED chain
  PROVE  Chains!Extend("anchors")
<1> DEFINE n == Len(anchors)
           r == RecordOf(b, a, t)
<1>1. /\ anchors' = Append(anchors, r)
      /\ anchors # <<>> => LastRecord.at <= t
  BY DEF RegisterAnchor, RecordDated
<1>2. anchors \in Seq(Records) /\ r \in Records BY DEF AnchorInv, Records
<1>3. /\ n \in Nat /\ Len(anchors') = n + 1
      /\ \A i \in 1 .. n : anchors'[i] = anchors[i]
      /\ anchors'[n + 1] = r
  BY <1>1, <1>2, AppendProperties, LenProperties
<1>4. anchors # <<>> => anchors[n].at <= anchors'[n + 1].at
  BY <1>1, <1>3 DEF LastRecord, RecordOf
<1> QED BY <1>3, <1>4 DEF Chains!Extend, ChainKey, chainLogs

\* Every step extends one of the logs or none.
LEMMA StepExtendsLogs ==
  ASSUME CryptoInv, AnchorInv, [HardeningNext]_hardeningVars
  PROVE  [Chains!LogNext]_chainLogs
<1>1. UNCHANGED <<chain, anchors>> => UNCHANGED chainLogs
  BY DEF chainLogs, ChangeLog
<1>2. CASE CryptoNext /\ UNCHANGED anchorVars
  <2>1. ASSUME NEW s \in signedChanges, NEW now \in KeyTime, AppendChange(s, now)
        PROVE  Chains!LogNext
    <3>1. UNCHANGED anchors BY <1>2 DEF anchorVars
    <3>2. Chains!Extend("changes") BY <2>1, <3>1, AppendExtendsLog
    <3> QED BY <3>2 DEF Chains!LogNext, ChainKey
  <2>2. CASE UNCHANGED chain BY <1>1, <1>2, <2>2 DEF anchorVars
  <2>3. UNCHANGED chain \/ \E s \in signedChanges, now \in KeyTime : AppendChange(s, now)
    BY <1>2 DEF CryptoNext, ChainNext, SignChange, chainVars
  <2> QED BY <2>1, <2>2, <2>3
<1>3. CASE AnchorNext /\ UNCHANGED cryptoVars
  <2>1. ASSUME NEW b \in batches, NEW a \in answers, NEW t \in AnchorTime,
               RegisterAnchor(b, a, t)
        PROVE  Chains!LogNext
    <3>1. UNCHANGED chain BY <1>3 DEF cryptoVars, chainVars
    <3>2. Chains!Extend("anchors") BY <2>1, <3>1, RegisterExtendsLog
    <3> QED BY <3>2 DEF Chains!LogNext, ChainKey
  <2>2. CASE UNCHANGED anchors BY <1>1, <1>3, <2>2 DEF cryptoVars, chainVars
  <2>3. \/ UNCHANGED anchors
        \/ \E b \in batches, a \in answers, t \in AnchorTime : RegisterAnchor(b, a, t)
    BY <1>3 DEF AnchorNext, Assemble, ServiceAnswers
  <2> QED BY <2>1, <2>2, <2>3
<1>4. CASE UNCHANGED hardeningVars
  BY <1>1, <1>4 DEF hardeningVars, cryptoVars, chainVars, anchorVars
<1> QED BY <1>2, <1>3, <1>4 DEF HardeningNext

-----------------------------------------------------------------------------
(* Theorems *)

\* The invariant of keys, changes and envelopes.
THEOREM CryptoInvHolds == CryptoSpec => []CryptoInv
<1>1. CryptoInit => CryptoInv BY CryptoInitInv
<1>2. CryptoInv /\ [CryptoNext]_cryptoVars => CryptoInv' BY CryptoStepInv
<1> QED BY <1>1, <1>2, PTL DEF CryptoSpec

\* CryptoTypeOK: key references and states form contiguous, dated histories, every
\* key has a state, and only registered keys have made anything.
THEOREM CryptoTypeCorrect == CryptoSpec => []CryptoTypeOK
<1>1. CryptoInv => CryptoTypeOK BY DEF CryptoInv
<1> QED BY <1>1, CryptoInvHolds, PTL

\* ChainIsIntact: append never forks the tenant's chain, and the changes of each
\* object follow one another through it.
THEOREM ChainsHaveNoForks == CryptoSpec => []ChainIsIntact
<1>1. CryptoInv => ChainIsIntact BY DEF CryptoInv
<1> QED BY <1>1, CryptoInvHolds, PTL

\* RefusalIsFinal: no key state, back-dated or not, makes verification or decryption
\* accept at a time what they have refused at it.
THEOREM RefusalsAreFinal == CryptoSpec => RefusalIsFinal
<1>1. ASSUME CryptoInv, [CryptoNext]_cryptoVars, NEW a \in Made, NEW now \in KeyTime,
             ~StillUsable(a.key, a.at, now)
      PROVE  ~StillUsable(a.key, a.at, now)'
  <2>1. a.key \in keys /\ a.at \in Nat BY <1>1, MadeByRegisteredKeys DEF CryptoInv
  <2>2. now \in Nat BY KeyAssumption
  <2> QED BY <1>1, <2>1, <2>2, UsableWasUsable DEF CryptoInv
<1>2. CryptoInv /\ [CryptoNext]_cryptoVars
        => [\A a \in Made, now \in KeyTime :
              a.at <= now /\ ~StillUsable(a.key, a.at, now)
                => ~StillUsable(a.key, a.at, now)']_cryptoVars
  BY <1>1
<1> QED BY <1>2, CryptoInvHolds, PTL DEF CryptoSpec, RefusalIsFinal

\* RetirementSparesThePast: what was made with a key stays good when the key is
\* retired; only a disabling state, or one dated back to its time or before, ends it.
THEOREM RetirementIsHarmless == CryptoSpec => RetirementSparesThePast
<1>1. ASSUME CryptoInv, [CryptoNext]_cryptoVars, NEW a \in Made, NEW now \in KeyTime,
             StillUsable(a.key, a.at, now), ~StillUsable(a.key, a.at, now)'
      PROVE  \E x \in keyStates' \ keyStates :
               /\ x.key = a.key
               /\ (x.status = "DISABLED" /\ x.at <= now) \/ x.at <= a.at
  <2>1. a.key \in keys /\ a.at \in Nat BY <1>1, MadeByRegisteredKeys DEF CryptoInv
  <2>2. now \in Nat BY KeyAssumption
  <2> QED BY <1>1, <2>1, <2>2, UnusableByAState DEF CryptoInv
<1>2. CryptoInv /\ [CryptoNext]_cryptoVars
        => [\A a \in Made, now \in KeyTime :
              StillUsable(a.key, a.at, now) /\ ~StillUsable(a.key, a.at, now)' =>
                \E x \in keyStates' \ keyStates :
                  /\ x.key = a.key
                  /\ (x.status = "DISABLED" /\ x.at <= now) \/ x.at <= a.at]_cryptoVars
  BY <1>1
<1> QED BY <1>2, CryptoInvHolds, PTL DEF CryptoSpec, RetirementSparesThePast

\* AnchorsAreLinked: whatever batches compete and however often the service answers,
\* the anchors form one linked chain, each bound to an answer for its own batch.
THEOREM AnchorsStayLinked == AnchorSpec => []AnchorsAreLinked
<1>1. AnchorInit => AnchorInv BY AnchorInitInv
<1>2. AnchorInv /\ [AnchorNext]_anchorVars => AnchorInv' BY AnchorStepInv
<1>3. AnchorInv => AnchorsAreLinked BY DEF AnchorInv
<1> QED BY <1>1, <1>2, <1>3, PTL DEF AnchorSpec

\* ChainsImplementLogs: whatever changes and batches compete, append and register
\* each extend one log by one entry at its end, in an order of time; a reader of
\* either history never finds an entry replaced, removed or dated out of order.
THEOREM ChainsAreLogs == HardeningSpec => ChainsImplementLogs
<1> DEFINE Inv == CryptoInv /\ AnchorInv
<1>1. HardeningInit => Inv BY CryptoInitInv, AnchorInitInv DEF HardeningInit
<1>2. Inv /\ [HardeningNext]_hardeningVars => Inv'
  <2> SUFFICES ASSUME CryptoInv, AnchorInv, [HardeningNext]_hardeningVars
               PROVE  CryptoInv' /\ AnchorInv'
    OBVIOUS
  <2>1. [CryptoNext]_cryptoVars /\ [AnchorNext]_anchorVars
    BY DEF HardeningNext, hardeningVars
  <2> QED BY <2>1, CryptoStepInv, AnchorStepInv
<1>3. HardeningInit => Chains!LogInit
  <2> SUFFICES ASSUME HardeningInit PROVE chainLogs = [k \in ChainKey |-> <<>>]
    BY DEF Chains!LogInit, chainLogs
  <2>1. chain = <<>> /\ anchors = <<>>
    BY DEF HardeningInit, CryptoInit, ChainInit, AnchorInit
  <2>2. ChangeLog(chain) = <<>> BY <2>1 DEF ChangeLog
  <2> QED BY <2>1, <2>2 DEF chainLogs
<1>4. Inv /\ [HardeningNext]_hardeningVars => [Chains!LogNext]_chainLogs
  BY StepExtendsLogs
<1>5. HardeningSpec => Chains!LogInit /\ [][Chains!LogNext]_chainLogs
  BY <1>1, <1>2, <1>3, <1>4, PTL DEF HardeningSpec
<1> QED BY <1>5 DEF ChainsImplementLogs, Chains!LogSpec
=============================================================================
