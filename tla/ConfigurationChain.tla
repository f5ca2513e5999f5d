------------------------- MODULE ConfigurationChain -------------------------
(***************************************************************************)
(* Signed configuration changes (regagentops/hardening.py):                *)
(* sign_configuration_change, verify_signed_configuration_change and       *)
(* ConfigurationChangeRegistry.  Signing and appending are calls of        *)
(* different people at different times: between the two the chain, the     *)
(* key and the configuration may move on.  Signatures are genuine.         *)
(***************************************************************************)
EXTENDS KeyLifecycle, Sequences

CONSTANTS ChangeObject,   \* configuration objects of the tenant
          ChangeRequest,  \* [sequence, object, previous, proposed,
                          \*   requested_at, effective_at]: what humans request
          NoDigest,       \* previous_configuration_digest of a new object
          MaxSigned       \* bound: signatures

ASSUME ChangeAssumption ==
  /\ MaxSigned \in Nat
  /\ \A r \in ChangeRequest : /\ r.sequence \in Nat \ {0}
                              /\ r.object \in ChangeObject
                              /\ r.previous # r.proposed
                              /\ r.proposed # NoDigest
                              /\ r.requested_at <= r.effective_at

VARIABLES signedChanges,  \* signed changes callers hold
          chain,          \* the tenant's change chain, in order of sequence
          configured      \* _latest_object_digest, NoDigest where there is none

chainVars == <<signedChanges, chain, configured>>

\* The previous_change_digest of the change of sequence 1.
NoChange == [none |-> TRUE]
ChainHead(c) == IF c = <<>> THEN NoChange ELSE c[Len(c)]

SignChange(r, previous, k, t) ==
  /\ Cardinality(signedChanges) < MaxSigned
  /\ k.purpose = "config_signing"
  /\ r.requested_at <= t /\ t <= r.effective_at
  /\ NewOperationAllowed(k, t)
  /\ (r.sequence = 1) = (previous = NoChange)
  /\ signedChanges' = signedChanges \cup
       {[request |-> r, previous_change |-> previous, key |-> k, signed_at |-> t]}
  /\ UNCHANGED <<chain, configured, keyVars>>

ChangeVerifies(s, now) == StillUsable(s.key, s.signed_at, now)

\* Mutant: the sequence number is enough to find a place in the chain.
ExtendsBySequence(s) == s.request.sequence = Len(chain) + 1

\* s names the head of the chain as its predecessor and is not older than it.
ExtendsChain(s) ==
  /\ s.request.sequence = Len(chain) + 1
  /\ s.previous_change = ChainHead(chain)
  /\ chain # <<>> => ChainHead(chain).signed_at <= s.signed_at

\* A new object may come from any configuration; a known one from its latest.
FitsObject(r) ==
  configured[r.object] # NoDigest => r.previous = configured[r.object]

\* append.  An exact retry returns before anything is verified, and changes
\* nothing.
AppendChange(s, now) ==
  LET r == s.request
  IN /\ ChangeVerifies(s, now)
     /\ r.effective_at <= now
     /\ ExtendsChain(s)
     /\ FitsObject(r)
     /\ chain' = Append(chain, s)
     /\ configured' = [configured EXCEPT ![r.object] = r.proposed]
     /\ UNCHANGED <<signedChanges, keyVars>>

ChainInit == /\ signedChanges = {} /\ chain = <<>>
             /\ configured = [o \in ChangeObject |-> NoDigest]

ChainNext ==
  \/ \E r \in ChangeRequest, k \in keys, t \in KeyTime,
        previous \in {NoChange} \cup signedChanges : SignChange(r, previous, k, t)
  \/ \E s \in signedChanges, now \in KeyTime : AppendChange(s, now)

-----------------------------------------------------------------------------
(* Properties *)

\* The chain is one line without forks: entry i has sequence i, names entry i - 1
\* itself as its predecessor and is not older.  Each object's changes form a line
\* of their own through it: a change starts from what the last change of the same
\* object proposed, and what the registry calls current is what the last one did.
ChainIsIntact ==
  /\ \A i \in DOMAIN chain :
       /\ chain[i].request.sequence = i
       /\ chain[i].previous_change = (IF i = 1 THEN NoChange ELSE chain[i - 1])
       /\ i > 1 => chain[i - 1].signed_at <= chain[i].signed_at
  /\ \A i, j \in DOMAIN chain :
       (/\ i < j /\ chain[i].request.object = chain[j].request.object
        /\ \A m \in i + 1 .. j - 1 :
             chain[m].request.object # chain[j].request.object)
         => chain[j].request.previous = chain[i].request.proposed
  /\ \A j \in DOMAIN chain :
       (\A m \in j + 1 .. Len(chain) :
          chain[m].request.object # chain[j].request.object)
         => configured[chain[j].request.object] = chain[j].request.proposed
=============================================================================
