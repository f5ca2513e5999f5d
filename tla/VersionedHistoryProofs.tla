---------------------- MODULE VersionedHistoryProofs ----------------------
(* What every append-only history of RegAgentOps keeps, for any records.   *)
EXTENDS VersionedHistory, TLAPS

\* The times of a history are times (callers pass RFC 3339 timestamps).
Dated(H) == \A y \in H : y.at \in Nat

\* A well-formed history has at most one latest record: history[-1] is it.
LEMMA LatestIsUnique ==
  ASSUME NEW H, WellFormedHistory(H), NEW x, NEW y,
         IsLatest(H, x), IsLatest(H, y)
  PROVE  x = y
<1>1. x \in H /\ y \in H BY DEF IsLatest
<1>2. x.version \in Nat /\ y.version \in Nat BY <1>1 DEF WellFormedHistory
<1>3. x.version <= y.version /\ y.version <= x.version BY <1>1 DEF IsLatest
<1>4. x.version = y.version BY <1>2, <1>3
<1> QED BY <1>1, <1>4 DEF WellFormedHistory

\* register keeps a history well formed: the checks of a single call are enough
\* to keep what holds of all versions at once.
LEMMA AppendKeepsWellFormed ==
  ASSUME NEW H, WellFormedHistory(H), Dated(H),
         NEW x, x.at \in Nat, Appendable(H, x)
  PROVE  WellFormedHistory(H \cup {x})
<1>1. \A y \in H : y.version # x.version BY DEF Appendable
<1>2. CASE H = {}
  <2>1. x.version = 1 BY <1>2 DEF Appendable
  <2> QED BY <1>2, <2>1 DEF WellFormedHistory
<1>3. CASE H # {}
  <2>1. PICK l \in H : IsLatest(H, l) /\ x.version = l.version + 1 /\ l.at <= x.at
    BY <1>3 DEF Appendable
  <2>2. l.version \in Nat \ {0} BY DEF WellFormedHistory
  <2>3. \A y \in H : /\ y.version \in Nat \ {0} /\ y.version <= l.version
                     /\ y.at <= l.at
    BY <2>1 DEF WellFormedHistory, IsLatest
  <2>4. \A y \in H : y.version < x.version BY <2>1, <2>2, <2>3
  <2>5. \A y \in H : y.at <= x.at BY <2>1, <2>3 DEF Dated
  <2>6. \A y, z \in H \cup {x} : y.version = z.version => y = z
    BY <1>1 DEF WellFormedHistory
  <2>7. ASSUME NEW y \in H \cup {x}, NEW v \in 1 .. y.version
        PROVE  \E z \in H \cup {x} : z.version = v
    <3>1. CASE y \in H BY <3>1 DEF WellFormedHistory
    <3>2. CASE y = x
      <4>1. v \in 1 .. l.version \/ v = x.version BY <2>1, <2>2, <3>2
      <4>2. CASE v = x.version BY <4>2
      <4>3. CASE v \in 1 .. l.version BY <4>3 DEF WellFormedHistory
      <4> QED BY <4>1, <4>2, <4>3
    <3> QED BY <3>1, <3>2
  <2>8. \A y \in H \cup {x} : y.version \in Nat \ {0} BY <2>1, <2>2, <2>3
  <2>9. \A y, z \in H \cup {x} : y.version <= z.version => y.at <= z.at
    <3> SUFFICES ASSUME NEW y \in H \cup {x}, NEW z \in H \cup {x},
                        y.version <= z.version
                 PROVE  y.at <= z.at
      OBVIOUS
    <3>1. CASE z = x BY <2>5, <3>1
    <3>2. CASE y \in H /\ z \in H BY <3>2 DEF WellFormedHistory
    <3>3. CASE y = x /\ z \in H
      <4>1. z.version < x.version BY <2>4, <3>3
      <4>2. z.version \in Nat /\ x.version \in Nat BY <2>8
      <4> QED BY <3>3, <4>1, <4>2
    <3> QED BY <3>1, <3>2, <3>3
  <2> QED BY <2>6, <2>7, <2>8, <2>9 DEF WellFormedHistory
<1> QED BY <1>2, <1>3

\* A record that is not the latest of its history never becomes it: later
\* records only push it further back.
LEMMA OldStaysOld ==
  ASSUME NEW H, NEW G, H \subseteq G, NEW x, x \in H, ~IsLatest(H, x)
  PROVE  ~IsLatest(G, x)
BY DEF IsLatest
=============================================================================
