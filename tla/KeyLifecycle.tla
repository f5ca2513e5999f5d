---------------------------- MODULE KeyLifecycle ----------------------------
(***************************************************************************)
(* InstitutionCryptoKeyRegistry (regagentops/hardening.py): append-only    *)
(* references to keys that live in a KMS or HSM, and for each of them an   *)
(* append-only history of life-cycle states.  A status is read at a time   *)
(* the caller names, so a state registered today may answer for yesterday. *)
(* One tenant of one institution, in memory.                               *)
(***************************************************************************)
EXTENDS VersionedHistory, FiniteSets

CONSTANTS KeyId,           \* key identities inside the KMS or HSM
          KeyWindow,       \* [from, until]: validity intervals of keys
          FirstStatus,     \* initial statuses of key references
          KeyTime,         \* timestamps callers use
          MaxKeys,         \* bound: key references
          MaxStateVersion  \* bound: life-cycle states per key

Purpose == {"config_signing", "evidence_encryption"}
Status == {"ACTIVE", "RETIRED", "DISABLED"}

ASSUME KeyAssumption ==
  /\ FirstStatus \subseteq Status
  /\ KeyTime \subseteq Nat /\ MaxKeys \in Nat /\ MaxStateVersion \in Nat \ {0}
  /\ \A w \in KeyWindow : w.from \in Nat /\ w.until \in Nat /\ w.from < w.until

VARIABLES keys,       \* registered key references
          keyStates   \* registered life-cycle states

keyVars == <<keys, keyStates>>

KeyReference == [purpose : Purpose, version : 1 .. MaxKeys, key_id : KeyId,
                 status : FirstStatus, window : KeyWindow, at : KeyTime]
KeyState == [key : KeyReference, version : 1 .. MaxStateVersion,
             status : Status, at : KeyTime]

\* Mutant: a retired key may be activated again.
Reactivable(before, after) == before # "DISABLED" /\ before # after

\* _ALLOWED_KEY_TRANSITIONS
TransitionAllowed(before, after) ==
  \/ before = "ACTIVE" /\ after \in {"RETIRED", "DISABLED"}
  \/ before = "RETIRED" /\ after = "DISABLED"

KeyHistory(purpose) == {k \in keys : k.purpose = purpose}
StateHistory(k) == {x \in keyStates : x.key = k}

\* status_at(k, t) returns st: the last of the states effective at t.
StatusAt(k, t, st) ==
  \E x \in StateHistory(k) :
    /\ IsLatest({y \in StateHistory(k) : y.at <= t}, x)
    /\ x.status = st

\* Mutant: the first state is left to the operator.
RegisterKeyUnseeded(purpose, v, id, st, w, t) ==
  LET k == [purpose |-> purpose, version |-> v, key_id |-> id, status |-> st,
            window |-> w, at |-> t]
  IN /\ Cardinality(keys) < MaxKeys
     /\ Appendable(KeyHistory(purpose), k)
     /\ keys' = keys \cup {k} /\ UNCHANGED keyStates

\* register stores the reference and seeds its first life-cycle state.
RegisterKey(purpose, v, id, st, w, t) ==
  LET k == [purpose |-> purpose, version |-> v, key_id |-> id, status |-> st,
            window |-> w, at |-> t]
  IN /\ Cardinality(keys) < MaxKeys
     /\ t <= w.until
     /\ Appendable(KeyHistory(purpose), k)
     /\ \A y \in KeyHistory(purpose) : y.key_id # id
     /\ keys' = keys \cup {k}
     /\ keyStates' = keyStates \cup
          {[key |-> k, version |-> 1, status |-> st, at |-> t]}

\* register_state.  (An exact retry is refused here, unlike everywhere else: its
\* version is compared with the next one before the stored state is looked up.)
RegisterKeyState(k, v, st, t) ==
  LET x == [key |-> k, version |-> v, status |-> st, at |-> t]
  IN /\ Appendable(StateHistory(k), x)
     /\ \E last \in StateHistory(k) :
          IsLatest(StateHistory(k), last) /\ TransitionAllowed(last.status, st)
     /\ keyStates' = keyStates \cup {x}
     /\ UNCHANGED keys

KeyInit == keys = {} /\ keyStates = {}

KeyNext ==
  \/ \E purpose \in Purpose, v \in 1 .. MaxKeys, id \in KeyId,
        st \in FirstStatus, w \in KeyWindow, t \in KeyTime :
        RegisterKey(purpose, v, id, st, w, t)
  \/ \E k \in keys, v \in 1 .. MaxStateVersion, st \in Status, t \in KeyTime :
        RegisterKeyState(k, v, st, t)

-----------------------------------------------------------------------------
(* What signing, verifying, encrypting and decrypting ask of the registry.  *)

InWindow(k, t) == k.window.from <= t /\ t < k.window.until

\* assert_new_operation_allowed, where artifact_time and now are both t.
NewOperationAllowed(k, t) == StatusAt(k, t, "ACTIVE") /\ InWindow(k, t)

\* Mutant: only a key that is active today is good enough.
UsableActive(k, made, now) ==
  /\ made <= now /\ StatusAt(k, made, "ACTIVE")
  /\ StatusAt(k, now, "ACTIVE") /\ InWindow(k, made)

\* An artifact made with k at time made is good at time now.
StillUsable(k, made, now) ==
  /\ made <= now
  /\ StatusAt(k, made, "ACTIVE")
  /\ ~StatusAt(k, now, "DISABLED")
  /\ InWindow(k, made)
=============================================================================
