------------------------- MODULE McpRegistryProofs -------------------------
(***************************************************************************)
(* The registry's invariants and action properties, for any servers,       *)
(* tools, bindings and bounds.                                             *)
(***************************************************************************)
EXTENDS McpLogs, VersionedHistoryProofs, FiniteSetTheorems, Sequences

\* A stored capture was taken from an approved registration in force, which
\* the server matched, not before it: what register_binding relies on.
SnapshotsArePinned ==
  \A s \in registry.snapshots :
    /\ s.server \in registry.servers
    /\ s.server.approved
    /\ s.observed = s.server.pin
    /\ s.server.at <= s.at

\* The inductive invariant.
McpInv == /\ McpTypeOK
          /\ HistoriesWellFormed
          /\ SnapshotsArePinned
          /\ BindingsArePinned
          /\ BindingNeverMoves

-----------------------------------------------------------------------------
(* What the three operations do to the registry *)

\* Each operation adds one record to one of the three sets.
LEMMA StepGrows ==
  ASSUME McpTypeOK, McpNext
  PROVE  /\ registry.servers \subseteq registry'.servers
         /\ registry.snapshots \subseteq registry'.snapshots
         /\ registry.bindings \subseteq registry'.bindings
<1> DEFINE Grows == /\ registry.servers \subseteq registry'.servers
                    /\ registry.snapshots \subseteq registry'.snapshots
                    /\ registry.bindings \subseteq registry'.bindings
<1>1. ASSUME NEW s \in ServerId, NEW v \in 1 .. MaxVersion, NEW p \in Pin,
             NEW a \in BOOLEAN, NEW t \in RegistryTime,
             RegisterServer(s, v, p, a, t)
      PROVE  Grows
  BY <1>1 DEF RegisterServer, McpTypeOK
<1>2. ASSUME NEW id \in SnapshotId, NEW srv \in registry.servers, NEW o \in Pin,
             NEW D \in SUBSET Descriptor, NEW t \in RegistryTime,
             RegisterSnapshot(id, srv, o, D, t)
      PROVE  Grows
  BY <1>2 DEF RegisterSnapshot, McpTypeOK
<1>3. ASSUME NEW id \in BindingId, NEW v \in 1 .. MaxVersion,
             NEW s \in registry.snapshots, NEW d \in Descriptor,
             NEW e \in EnabledFlag, NEW t \in RegistryTime,
             RegisterBinding(id, v, s, d, e, t)
      PROVE  Grows
  BY <1>3 DEF RegisterBinding, McpTypeOK
<1> HIDE DEF Grows
<1>4. Grows BY <1>1, <1>2, <1>3 DEF McpNext
<1> QED BY <1>4 DEF Grows

LEMMA InitInv == McpInit => McpInv
BY DEF McpInit, EmptyRegistry, McpInv, McpTypeOK, HistoriesWellFormed,
       SnapshotsArePinned, BindingsArePinned, BindingNeverMoves,
       WellFormedHistory, ServerHistory, BindingHistory

LEMMA ServerKeepsInv ==
  ASSUME McpInv, NEW s \in ServerId, NEW v \in 1 .. MaxVersion, NEW p \in Pin,
         NEW a \in BOOLEAN, NEW t \in RegistryTime, RegisterServer(s, v, p, a, t)
  PROVE  McpInv'
<1> DEFINE x == [server_id |-> s, version |-> v, pin |-> p, approved |-> a, at |-> t]
<1>1. /\ registry'.servers = registry.servers \cup {x}
      /\ registry'.snapshots = registry.snapshots
      /\ registry'.bindings = registry.bindings
      /\ registry' = [servers |-> registry'.servers, snapshots |-> registry'.snapshots,
                      bindings |-> registry'.bindings]
  BY DEF RegisterServer, McpInv, McpTypeOK
<1>2. Appendable(ServerHistory(registry, s), x) BY DEF RegisterServer
<1>3. McpTypeOK'
  <2>1. x \in Registration BY DEF Registration
  <2> QED BY <1>1, <2>1 DEF McpInv, McpTypeOK
<1>4. HistoriesWellFormed'
  <2>1. ASSUME NEW u \in ServerId PROVE WellFormedHistory(ServerHistory(registry', u))
    <3>1. CASE u = s
      <4>1. ServerHistory(registry', s) = ServerHistory(registry, s) \cup {x}
        BY <1>1 DEF ServerHistory
      <4>2. Dated(ServerHistory(registry, s))
        BY RegistryAssumption DEF Dated, ServerHistory, McpInv, McpTypeOK, Registration
      <4>3. x.at \in Nat BY RegistryAssumption
      <4>4. WellFormedHistory(ServerHistory(registry, s))
        BY DEF McpInv, HistoriesWellFormed
      <4>5. WellFormedHistory(ServerHistory(registry, s) \cup {x})
        BY <1>2, <4>2, <4>3, <4>4, AppendKeepsWellFormed
      <4> QED BY <3>1, <4>1, <4>5
    <3>2. CASE u # s
      <4>1. ServerHistory(registry', u) = ServerHistory(registry, u)
        BY <1>1, <3>2 DEF ServerHistory
      <4> QED BY <4>1 DEF McpInv, HistoriesWellFormed
    <3> QED BY <3>1, <3>2
  <2>2. \A b \in BindingId : BindingHistory(registry', b) = BindingHistory(registry, b)
    BY <1>1 DEF BindingHistory
  <2> QED BY <1>1, <2>1, <2>2 DEF McpInv, HistoriesWellFormed
<1>5. (SnapshotsArePinned /\ BindingsArePinned /\ BindingNeverMoves)'
  BY <1>1 DEF McpInv, SnapshotsArePinned, BindingsArePinned, BindingNeverMoves
<1> QED BY <1>3, <1>4, <1>5 DEF McpInv

LEMMA SnapshotKeepsInv ==
  ASSUME McpInv, NEW id \in SnapshotId, NEW srv \in registry.servers,
         NEW o \in Pin, NEW D \in SUBSET Descriptor, NEW t \in RegistryTime,
         DistinctNames(D), RegisterSnapshot(id, srv, o, D, t)
  PROVE  McpInv'
<1> DEFINE x == [snapshot_id |-> id, server |-> srv, observed |-> o,
                 tools |-> D, at |-> t]
<1>1. /\ registry'.servers = registry.servers
      /\ registry'.snapshots = registry.snapshots \cup {x}
      /\ registry'.bindings = registry.bindings
      /\ registry' = [servers |-> registry'.servers, snapshots |-> registry'.snapshots,
                      bindings |-> registry'.bindings]
  BY DEF RegisterSnapshot, McpInv, McpTypeOK
<1>2. /\ srv.approved /\ o = srv.pin /\ srv.at <= t
      /\ \A y \in registry.snapshots : y.snapshot_id # id
  BY DEF RegisterSnapshot, IsGovernedServer
<1>3. McpTypeOK'
  <2>1. x \in Snapshot BY DEF Snapshot, McpInv, McpTypeOK
  <2>2. \A d, e \in x.tools : d.name = e.name => d = e BY DEF DistinctNames
  <2> QED BY <1>1, <2>1, <2>2 DEF McpInv, McpTypeOK
<1>4. HistoriesWellFormed'
  <2>1. \A s \in ServerId : ServerHistory(registry', s) = ServerHistory(registry, s)
    BY <1>1 DEF ServerHistory
  <2>2. \A b \in BindingId : BindingHistory(registry', b) = BindingHistory(registry, b)
    BY <1>1 DEF BindingHistory
  <2>3. \A y, z \in registry'.snapshots : y.snapshot_id = z.snapshot_id => y = z
    BY <1>1, <1>2 DEF McpInv, HistoriesWellFormed
  <2> QED BY <2>1, <2>2, <2>3 DEF McpInv, HistoriesWellFormed
<1>5. SnapshotsArePinned' BY <1>1, <1>2 DEF McpInv, SnapshotsArePinned
<1>6. (BindingsArePinned /\ BindingNeverMoves)'
  BY <1>1 DEF McpInv, BindingsArePinned, BindingNeverMoves
<1> QED BY <1>3, <1>4, <1>5, <1>6 DEF McpInv

LEMMA BindingKeepsInv ==
  ASSUME McpInv, NEW id \in BindingId, NEW v \in 1 .. MaxVersion,
         NEW s \in registry.snapshots, NEW d \in Descriptor,
         NEW e \in EnabledFlag, NEW t \in RegistryTime,
         RegisterBinding(id, v, s, d, e, t)
  PROVE  McpInv'
<1> DEFINE x == [binding_id |-> id, version |-> v, snapshot |-> s, tool |-> d,
                 enabled |-> e, at |-> t]
<1>1. /\ registry'.servers = registry.servers
      /\ registry'.snapshots = registry.snapshots
      /\ registry'.bindings = registry.bindings \cup {x}
      /\ registry' = [servers |-> registry'.servers, snapshots |-> registry'.snapshots,
                      bindings |-> registry'.bindings]
  BY DEF RegisterBinding, McpInv, McpTypeOK
<1>2. /\ d \in s.tools /\ s.at <= t
      /\ Appendable(BindingHistory(registry, id), x)
      /\ \A h \in BindingHistory(registry, id) : GovernedToolId(h) = GovernedToolId(x)
  BY DEF RegisterBinding, KeepsTool
<1>3. McpTypeOK'
  <2>1. x \in Binding BY DEF Binding, McpInv, McpTypeOK
  <2> QED BY <1>1, <2>1 DEF McpInv, McpTypeOK
<1>4. HistoriesWellFormed'
  <2>1. ASSUME NEW u \in BindingId PROVE WellFormedHistory(BindingHistory(registry', u))
    <3>1. CASE u = id
      <4>1. BindingHistory(registry', id) = BindingHistory(registry, id) \cup {x}
        BY <1>1 DEF BindingHistory
      <4>2. Dated(BindingHistory(registry, id))
        BY RegistryAssumption DEF Dated, BindingHistory, McpInv, McpTypeOK, Binding
      <4>3. x.at \in Nat BY RegistryAssumption
      <4>4. WellFormedHistory(BindingHistory(registry, id))
        BY DEF McpInv, HistoriesWellFormed
      <4>5. WellFormedHistory(BindingHistory(registry, id) \cup {x})
        BY <1>2, <4>2, <4>3, <4>4, AppendKeepsWellFormed
      <4> QED BY <3>1, <4>1, <4>5
    <3>2. CASE u # id
      <4>1. BindingHistory(registry', u) = BindingHistory(registry, u)
        BY <1>1, <3>2 DEF BindingHistory
      <4> QED BY <4>1 DEF McpInv, HistoriesWellFormed
    <3> QED BY <3>1, <3>2
  <2>2. \A u \in ServerId : ServerHistory(registry', u) = ServerHistory(registry, u)
    BY <1>1 DEF ServerHistory
  <2> QED BY <1>1, <2>1, <2>2 DEF McpInv, HistoriesWellFormed
<1>5. SnapshotsArePinned' BY <1>1 DEF McpInv, SnapshotsArePinned
<1>6. BindingsArePinned'
  BY <1>1, <1>2 DEF McpInv, SnapshotsArePinned, BindingsArePinned
<1>7. BindingNeverMoves'
  <2> SUFFICES ASSUME NEW b \in registry'.bindings, NEW c \in registry'.bindings,
                      b.binding_id = c.binding_id
               PROVE  GovernedToolId(b) = GovernedToolId(c)
    BY DEF BindingNeverMoves
  <2>1. CASE b \in registry.bindings /\ c \in registry.bindings
    BY <2>1 DEF McpInv, BindingNeverMoves
  <2>2. CASE b = x /\ c \in registry.bindings
    BY <1>2, <2>2 DEF BindingHistory
  <2>3. CASE b \in registry.bindings /\ c = x
    BY <1>2, <2>3 DEF BindingHistory
  <2> QED BY <1>1, <2>1, <2>2, <2>3
<1> QED BY <1>3, <1>4, <1>5, <1>6, <1>7 DEF McpInv

LEMMA StepKeepsInv == McpInv /\ [McpNext]_registry => McpInv'
<1> SUFFICES ASSUME McpInv, [McpNext]_registry PROVE McpInv' OBVIOUS
<1>1. CASE UNCHANGED registry
  BY <1>1 DEF McpInv, McpTypeOK, HistoriesWellFormed, SnapshotsArePinned,
              BindingsArePinned, BindingNeverMoves
<1>2. CASE McpNext
  BY <1>2, ServerKeepsInv, SnapshotKeepsInv, BindingKeepsInv DEF McpNext
<1> QED BY <1>1, <1>2

-----------------------------------------------------------------------------
(* Drift is final *)

\* A stored binding that is current after a registration was current before it.
LEMMA CurrentWasCurrent ==
  ASSUME McpInv, McpNext, NEW b \in registry.bindings,
         IsCurrentBinding(registry', b)
  PROVE  IsCurrentBinding(registry, b)
<1>1. /\ registry.servers \subseteq registry'.servers
      /\ registry.snapshots \subseteq registry'.snapshots
      /\ registry.bindings \subseteq registry'.bindings
  BY StepGrows DEF McpInv
<1>2. b.snapshot \in registry.snapshots /\ b.snapshot.server \in registry.servers
  BY DEF McpInv, BindingsArePinned
<1>3. IsLatest(BindingHistory(registry, b.binding_id), b)
  BY <1>1 DEF IsCurrentBinding, IsLatest, BindingHistory
<1>4. IsGovernedServer(registry, b.snapshot.server)
  BY <1>1, <1>2 DEF IsCurrentBinding, IsLatestSnapshot, IsGovernedServer,
                    IsLatest, ServerHistory
<1>5. IsLatestSnapshot(registry, b.snapshot)
  BY <1>1, <1>2, <1>4 DEF IsCurrentBinding, IsLatestSnapshot
<1> QED BY <1>3, <1>5 DEF IsCurrentBinding

\* Two current captures of one server are the same capture.
LEMMA LatestSnapshotIsUnique ==
  ASSUME McpInv, NEW s, NEW t, IsLatestSnapshot(registry, s),
         IsLatestSnapshot(registry, t), s.server.server_id = t.server.server_id
  PROVE  s = t
<1>1. s \in Snapshot /\ t \in Snapshot
  BY DEF IsLatestSnapshot, McpInv, McpTypeOK
<1>2. WellFormedHistory(ServerHistory(registry, s.server.server_id))
  BY <1>1 DEF McpInv, HistoriesWellFormed, Snapshot, Registration
<1>3. /\ IsLatest(ServerHistory(registry, s.server.server_id), s.server)
      /\ IsLatest(ServerHistory(registry, s.server.server_id), t.server)
  BY DEF IsLatestSnapshot, IsGovernedServer
<1>4. s.server = t.server BY <1>2, <1>3, LatestIsUnique
<1>5. s.at \in Nat /\ t.at \in Nat BY <1>1, RegistryAssumption DEF Snapshot
<1>6. s # t => s.at < t.at /\ t.at < s.at BY <1>4 DEF IsLatestSnapshot
<1> QED BY <1>5, <1>6

\* What current_binding_for_tool returns only moves to the next version.
LEMMA NextResolution ==
  ASSUME McpInv, McpNext, NEW b \in registry.bindings,
         NEW c \in registry'.bindings, b # c,
         ResolvesTo(registry, GovernedToolId(b), b),
         ResolvesTo(registry', GovernedToolId(b), c)
  PROVE  /\ c.binding_id = b.binding_id
         /\ c.version = b.version + 1
         /\ c.snapshot = b.snapshot
<1> DEFINE g == GovernedToolId(b)
<1>1. IsCurrentBinding(registry, b) BY DEF ResolvesTo
<1>2. IsCurrentBinding(registry', c) /\ GovernedToolId(c) = g BY DEF ResolvesTo
<1>3. c \notin registry.bindings
  <2> SUFFICES ASSUME c \in registry.bindings PROVE FALSE OBVIOUS
  <2>1. IsCurrentBinding(registry, c) BY <1>2, CurrentWasCurrent
  <2> QED BY <1>2, <2>1 DEF ResolvesTo
<1>4. PICK id \in BindingId, v \in 1 .. MaxVersion, s \in registry.snapshots,
           d \in Descriptor, e \in EnabledFlag, t \in RegistryTime :
             RegisterBinding(id, v, s, d, e, t)
  BY <1>3 DEF McpNext, RegisterServer, RegisterSnapshot, McpInv, McpTypeOK
<1> DEFINE x == [binding_id |-> id, version |-> v, snapshot |-> s, tool |-> d,
                 enabled |-> e, at |-> t]
<1>5. /\ registry'.servers = registry.servers
      /\ registry'.snapshots = registry.snapshots
      /\ registry'.bindings = registry.bindings \cup {x}
  BY <1>4 DEF RegisterBinding, McpInv, McpTypeOK
<1>6. c = x BY <1>3, <1>5
<1>7. /\ IsLatestSnapshot(registry, s)
      /\ Appendable(BindingHistory(registry, id), x)
  BY <1>4 DEF RegisterBinding
<1>8. b.binding_id = id
  <2> SUFFICES ASSUME b.binding_id # id PROVE FALSE OBVIOUS
  <2>1. BindingHistory(registry', b.binding_id) = BindingHistory(registry, b.binding_id)
    BY <1>5 DEF BindingHistory
  <2>2. IsLatestSnapshot(registry', b.snapshot)
    BY <1>1, <1>5 DEF IsCurrentBinding, IsLatestSnapshot, IsGovernedServer,
                      ServerHistory
  <2>3. IsCurrentBinding(registry', b)
    BY <1>1, <2>1, <2>2 DEF IsCurrentBinding
  <2>4. b \in registry'.bindings BY <1>5
  <2> QED BY <2>3, <2>4 DEF ResolvesTo
<1>9. v = b.version + 1
  <2>1. IsLatest(BindingHistory(registry, id), b) BY <1>1, <1>8 DEF IsCurrentBinding
  <2>2. BindingHistory(registry, id) # {} BY <2>1 DEF IsLatest
  <2>3. PICK l \in BindingHistory(registry, id) :
          IsLatest(BindingHistory(registry, id), l) /\ x.version = l.version + 1
    BY <1>7, <2>2 DEF Appendable
  <2>4. WellFormedHistory(BindingHistory(registry, id))
    BY DEF McpInv, HistoriesWellFormed
  <2>5. l = b BY <2>1, <2>3, <2>4, LatestIsUnique
  <2> QED BY <2>3, <2>5
<1>10. s = b.snapshot
  <2>1. s.server.server_id = b.snapshot.server.server_id
    BY <1>2, <1>6 DEF GovernedToolId
  <2>2. IsLatestSnapshot(registry, b.snapshot) BY <1>1 DEF IsCurrentBinding
  <2> QED BY <1>7, <2>1, <2>2, LatestSnapshotIsUnique
<1> QED BY <1>6, <1>8, <1>9, <1>10

-----------------------------------------------------------------------------
(* Histories as logs *)

\* A history of n records has exactly the versions 1 .. n.
Counted(H) == IsFiniteSet(H) /\ {x.version : x \in H} = 1 .. Cardinality(H)

\* The invariant of the registry as its readers see it.
LogInv == McpInv /\ \A k \in HistoryKey : Counted(HistoryOf(registry, k))

\* A record that may be appended has the version after the last: the length of
\* the history plus one.
LEMMA AppendCounts ==
  ASSUME NEW H, Counted(H), NEW x, Appendable(H, x)
  PROVE  /\ x.version = Cardinality(H) + 1
         /\ Cardinality(H \cup {x}) = Cardinality(H) + 1
         /\ Counted(H \cup {x})
<1> DEFINE n == Cardinality(H)
<1>1. n \in Nat /\ IsFiniteSet(H) BY FS_CardinalityType DEF Counted
<1>2. x \notin H BY DEF Appendable
<1>3. IsFiniteSet(H \cup {x}) /\ Cardinality(H \cup {x}) = n + 1
  BY <1>1, <1>2, FS_AddElement
<1>4. {y.version : y \in H} = 1 .. n BY DEF Counted
<1>5. x.version = n + 1
  <2>1. CASE H = {}
    <3>1. n = 0 BY <2>1, FS_EmptySet
    <3> QED BY <2>1, <3>1 DEF Appendable
  <2>2. CASE H # {}
    <3>1. PICK l \in H : IsLatest(H, l) /\ x.version = l.version + 1
      BY <2>2 DEF Appendable
    <3>2. n # 0 BY <1>1, <2>2, FS_EmptySet
    <3>3. PICK y \in H : y.version = n
      <4>1. n \in 1 .. n BY <1>1, <3>2
      <4> QED BY <1>4, <4>1
    <3>4. l.version \in 1 .. n BY <1>4
    <3>5. y.version <= l.version BY <3>1 DEF IsLatest
    <3> HIDE DEF n
    <3>6. l.version = n BY <1>1, <3>3, <3>4, <3>5
    <3> QED BY <3>1, <3>6
  <2> QED BY <2>1, <2>2
<1>6. {y.version : y \in H \cup {x}} = 1 .. n + 1
  <2>1. {y.version : y \in H \cup {x}} = {y.version : y \in H} \cup {x.version} OBVIOUS
  <2>2. 1 .. n + 1 = (1 .. n) \cup {n + 1} BY <1>1
  <2> QED BY <1>4, <1>5, <2>1, <2>2
<1> QED BY <1>3, <1>5, <1>6 DEF Counted

\* Entry i of the log of a history is its record of version i.
LEMMA LogEntries ==
  ASSUME NEW H, WellFormedHistory(H), Counted(H)
  PROVE  /\ Len(LogOf(H)) = Cardinality(H)
         /\ \A i \in 1 .. Cardinality(H) :
              LogOf(H)[i] \in H /\ LogOf(H)[i].version = i
<1>1. Cardinality(H) \in Nat BY FS_CardinalityType DEF Counted
<1>2. ASSUME NEW i \in 1 .. Cardinality(H)
      PROVE  RecordOfVersion(H, i) \in H /\ RecordOfVersion(H, i).version = i
  <2>1. \E x \in H : x.version = i BY DEF Counted
  <2> QED BY <2>1 DEF RecordOfVersion
<1> QED BY <1>1, <1>2 DEF LogOf

\* Registering a record extends the log of its history by it and nothing else.
LEMMA AppendExtends ==
  ASSUME NEW H, WellFormedHistory(H), Counted(H), Dated(H),
         NEW x, x.at \in Nat, Appendable(H, x)
  PROVE  LET old == LogOf(H)  new == LogOf(H \cup {x})
         IN /\ Len(new) = Len(old) + 1
            /\ \A i \in 1 .. Len(old) : new[i] = old[i]
            /\ old # <<>> => old[Len(old)].at <= new[Len(old) + 1].at
<1> DEFINE n == Cardinality(H)
           G == H \cup {x}
           old == LogOf(H)
           new == LogOf(G)
<1>1. n \in Nat BY FS_CardinalityType DEF Counted
<1>2. x.version = n + 1 /\ Cardinality(G) = n + 1 /\ Counted(G) BY AppendCounts
<1>3. WellFormedHistory(G) BY AppendKeepsWellFormed
<1>4. /\ Len(old) = n
      /\ \A i \in 1 .. n : old[i] \in H /\ old[i].version = i
  BY LogEntries
<1>5. /\ Len(new) = n + 1
      /\ \A i \in 1 .. n + 1 : new[i] \in G /\ new[i].version = i
  BY <1>2, <1>3, LogEntries
<1>6. \A y, z \in G : /\ y.version = z.version => y = z
                      /\ y.version <= z.version => y.at <= z.at
  BY <1>3 DEF WellFormedHistory
<1> HIDE DEF n, old, new
<1>7. \A i \in 1 .. n : i \in 1 .. n + 1 BY <1>1
<1>8. \A i \in 1 .. n : new[i] = old[i] BY <1>4, <1>5, <1>6, <1>7
<1>9. old # <<>> => old[n].at <= new[n + 1].at
  <2> SUFFICES ASSUME old # <<>> PROVE old[n].at <= new[n + 1].at OBVIOUS
  <2>1. n # 0
    <3> SUFFICES ASSUME n = 0 PROVE FALSE OBVIOUS
    <3>1. old = [i \in 1 .. 0 |-> RecordOfVersion(H, i)] BY DEF LogOf, old, n
    <3> QED BY <3>1
  <2>2. n \in 1 .. n /\ n + 1 \in 1 .. n + 1 BY <1>1, <2>1
  <2>3. old[n] \in G /\ new[n + 1] \in G BY <1>4, <1>5, <2>2
  <2>4. old[n].version = n /\ new[n + 1].version = n + 1 BY <1>4, <1>5, <2>2
  <2>5. old[n].version <= new[n + 1].version BY <1>1, <2>4
  <2> QED BY <1>6, <2>3, <2>5
<1>10. /\ Len(new) = Len(old) + 1
       /\ \A i \in 1 .. Len(old) : new[i] = old[i]
       /\ old # <<>> => old[Len(old)].at <= new[Len(old) + 1].at
  BY <1>4, <1>5, <1>8, <1>9
<1> QED BY <1>10 DEF old, new

LEMMA LogInitInv == McpInit => LogInv
<1> SUFFICES ASSUME McpInit PROVE LogInv OBVIOUS
<1>1. \A k \in HistoryKey : HistoryOf(registry, k) = {}
  BY DEF McpInit, EmptyRegistry, HistoryOf, ServerHistory, BindingHistory
<1>2. Counted({})
  <2>1. {x.version : x \in {}} = {} /\ 1 .. 0 = {} OBVIOUS
  <2> QED BY <2>1, FS_EmptySet DEF Counted
<1> QED BY <1>1, <1>2, InitInv DEF LogInv

\* A step that appends a record to one history, in its log and in no other.
LEMMA OneHistoryGrows ==
  ASSUME LogInv, McpInv', NEW k \in HistoryKey, NEW x, x.at \in Nat,
         Appendable(HistoryOf(registry, k), x),
         HistoryOf(registry', k) = HistoryOf(registry, k) \cup {x},
         \A j \in HistoryKey \ {k} : HistoryOf(registry', j) = HistoryOf(registry, j)
  PROVE  LogInv' /\ Log!Extend(k)
<1>1. WellFormedHistory(HistoryOf(registry, k)) /\ Dated(HistoryOf(registry, k))
  <2>1. \A y \in registry.servers \cup registry.bindings : y.at \in Nat
    BY RegistryAssumption DEF LogInv, McpInv, McpTypeOK, Registration, Binding
  <2>2. Dated(HistoryOf(registry, k))
    BY <2>1 DEF Dated, HistoryOf, ServerHistory, BindingHistory
  <2>3. WellFormedHistory(HistoryOf(registry, k))
    BY DEF LogInv, McpInv, HistoriesWellFormed, HistoryOf, HistoryKey
  <2> QED BY <2>2, <2>3
<1>2. Counted(HistoryOf(registry, k)) BY DEF LogInv
<1>3. Counted(HistoryOf(registry', k)) BY <1>2, AppendCounts
<1>4. \A j \in HistoryKey : Counted(HistoryOf(registry', j)) BY <1>3 DEF LogInv
<1>5. LogInv' BY <1>4 DEF LogInv
<1>6. /\ registryLogs[k] = LogOf(HistoryOf(registry, k))
      /\ registryLogs'[k] = LogOf(HistoryOf(registry, k) \cup {x})
      /\ \A j \in HistoryKey \ {k} : registryLogs'[j] = registryLogs[j]
  BY DEF registryLogs
<1>7. /\ Len(registryLogs'[k]) = Len(registryLogs[k]) + 1
      /\ \A i \in 1 .. Len(registryLogs[k]) : registryLogs'[k][i] = registryLogs[k][i]
      /\ registryLogs[k] # <<>> =>
           registryLogs[k][Len(registryLogs[k])].at
             <= registryLogs'[k][Len(registryLogs[k]) + 1].at
  BY <1>1, <1>2, <1>6, AppendExtends
<1> QED BY <1>5, <1>6, <1>7 DEF Log!Extend

LEMMA StepExtendsLogs ==
  ASSUME LogInv, [McpNext]_registry
  PROVE  LogInv' /\ [Log!LogNext]_registryLogs
<1>1. McpInv' BY StepKeepsInv DEF LogInv
<1>2. ASSUME NEW s \in ServerId, NEW v \in 1 .. MaxVersion, NEW p \in Pin,
             NEW a \in BOOLEAN, NEW t \in RegistryTime, RegisterServer(s, v, p, a, t)
      PROVE  LogInv' /\ Log!LogNext
  <2> DEFINE x == [server_id |-> s, version |-> v, pin |-> p, approved |-> a, at |-> t]
             k == <<"server", s>>
  <2>1. /\ registry'.servers = registry.servers \cup {x}
        /\ registry'.bindings = registry.bindings
        /\ Appendable(ServerHistory(registry, s), x)
    BY <1>2 DEF RegisterServer, LogInv, McpInv, McpTypeOK
  <2>2. k \in HistoryKey /\ HistoryOf(registry, k) = ServerHistory(registry, s)
    BY DEF HistoryKey, HistoryOf
  <2>3. HistoryOf(registry', k) = HistoryOf(registry, k) \cup {x}
    BY <2>1 DEF HistoryOf, ServerHistory
  <2>4. ASSUME NEW j \in HistoryKey \ {k}
        PROVE  HistoryOf(registry', j) = HistoryOf(registry, j)
    <3>1. CASE j[1] = "server"
      <4>1. j = <<"server", j[2]>> BY <3>1 DEF HistoryKey
      <4>2. j[2] # s BY <4>1
      <4> QED BY <2>1, <3>1, <4>2 DEF HistoryOf, ServerHistory
    <3>2. CASE j[1] # "server" BY <2>1, <3>2 DEF HistoryOf, BindingHistory
    <3> QED BY <3>1, <3>2
  <2>5. x.at \in Nat BY RegistryAssumption
  <2> HIDE DEF x, k
  <2>6. LogInv' /\ Log!Extend(k)
    BY <1>1, <2>1, <2>2, <2>3, <2>4, <2>5, OneHistoryGrows
  <2> QED BY <2>2, <2>6 DEF Log!LogNext
<1>3. ASSUME NEW id \in BindingId, NEW v \in 1 .. MaxVersion, NEW s \in registry.snapshots,
             NEW d \in Descriptor, NEW e \in EnabledFlag, NEW t \in RegistryTime,
             RegisterBinding(id, v, s, d, e, t)
      PROVE  LogInv' /\ Log!LogNext
  <2> DEFINE x == [binding_id |-> id, version |-> v, snapshot |-> s, tool |-> d,
                   enabled |-> e, at |-> t]
             k == <<"binding", id>>
  <2>1. /\ registry'.servers = registry.servers
        /\ registry'.bindings = registry.bindings \cup {x}
        /\ Appendable(BindingHistory(registry, id), x)
    BY <1>3 DEF RegisterBinding, LogInv, McpInv, McpTypeOK
  <2>2. k \in HistoryKey /\ HistoryOf(registry, k) = BindingHistory(registry, id)
    BY DEF HistoryKey, HistoryOf
  <2>3. HistoryOf(registry', k) = HistoryOf(registry, k) \cup {x}
    BY <2>1 DEF HistoryOf, BindingHistory
  <2>4. ASSUME NEW j \in HistoryKey \ {k}
        PROVE  HistoryOf(registry', j) = HistoryOf(registry, j)
    <3>1. CASE j[1] = "binding"
      <4>1. j = <<"binding", j[2]>> BY <3>1 DEF HistoryKey
      <4>2. j[2] # id BY <4>1
      <4> QED BY <2>1, <3>1, <4>2 DEF HistoryOf, BindingHistory
    <3>2. CASE j[1] = "server" BY <2>1, <3>2 DEF HistoryOf, ServerHistory
    <3> QED BY <3>1, <3>2 DEF HistoryKey
  <2>5. x.at \in Nat BY RegistryAssumption
  <2> HIDE DEF x, k
  <2>6. LogInv' /\ Log!Extend(k)
    BY <1>1, <2>1, <2>2, <2>3, <2>4, <2>5, OneHistoryGrows
  <2> QED BY <2>2, <2>6 DEF Log!LogNext
<1>4. ASSUME registry'.servers = registry.servers, registry'.bindings = registry.bindings
      PROVE  LogInv' /\ UNCHANGED registryLogs
  <2>1. \A k \in HistoryKey : HistoryOf(registry', k) = HistoryOf(registry, k)
    BY <1>4 DEF HistoryOf, ServerHistory, BindingHistory
  <2>2. LogInv' BY <1>1, <2>1 DEF LogInv
  <2>3. registryLogs' = registryLogs BY <2>1 DEF registryLogs
  <2> QED BY <2>2, <2>3
<1>5. ASSUME NEW id \in SnapshotId, NEW srv \in registry.servers, NEW o \in Pin,
             NEW D \in SUBSET Descriptor, NEW t \in RegistryTime,
             RegisterSnapshot(id, srv, o, D, t)
      PROVE  LogInv' /\ UNCHANGED registryLogs
  <2>1. registry'.servers = registry.servers /\ registry'.bindings = registry.bindings
    BY <1>5 DEF RegisterSnapshot, LogInv, McpInv, McpTypeOK
  <2> QED BY <1>4, <2>1
<1>6. CASE UNCHANGED registry BY <1>4, <1>6
<1> QED BY <1>2, <1>3, <1>5, <1>6 DEF McpNext

-----------------------------------------------------------------------------
(* Theorems *)

\* The invariant holds in every reachable state of the registry.
LEMMA AlwaysMcpInv == McpSpec => []McpInv
<1>1. McpInit => McpInv BY InitInv
<1>2. McpInv /\ [McpNext]_registry => McpInv' BY StepKeepsInv
<1> QED BY <1>1, <1>2, PTL DEF McpSpec

\* Type correctness of McpGovernanceRegistry.
THEOREM McpTypeCorrect == McpSpec => []McpTypeOK
<1>1. McpInv => McpTypeOK BY DEF McpInv
<1> QED BY <1>1, AlwaysMcpInv, PTL

\* The registry's dicts never overwrite: contiguous, dated histories and
\* immutable captures, whatever is registered in whatever order.
THEOREM HistoriesStayWellFormed == McpSpec => []HistoriesWellFormed
<1>1. McpInv => HistoriesWellFormed BY DEF McpInv
<1> QED BY <1>1, AlwaysMcpInv, PTL

\* Every binding stands at the end of a complete, dated, pinned chain.
THEOREM BindingsStayPinned == McpSpec => []BindingsArePinned
<1>1. McpInv => BindingsArePinned BY DEF McpInv
<1> QED BY <1>1, AlwaysMcpInv, PTL

\* A binding identity governs one tool for ever.
THEOREM BindingsNeverMove == McpSpec => []BindingNeverMoves
<1>1. McpInv => BindingNeverMoves BY DEF McpInv
<1> QED BY <1>1, AlwaysMcpInv, PTL

\* Once assert_binding_current refuses a binding it refuses it for ever.
THEOREM DriftIsFinal == McpSpec => StaleIsFinal
<1> DEFINE A == \A b \in registry.bindings :
                  ~IsCurrentBinding(registry, b) => ~IsCurrentBinding(registry', b)
<1>1. McpInv /\ McpNext => A BY CurrentWasCurrent
<1>2. McpInv /\ [McpNext]_registry => [A]_registry BY <1>1
<1>3. McpSpec => [][A]_registry BY <1>2, AlwaysMcpInv, PTL DEF McpSpec
<1> QED BY <1>3 DEF StaleIsFinal

\* A tool never resolves to older evidence than before.
THEOREM ToolsMoveForward == McpSpec => ResolutionMovesForward
<1> DEFINE A == \A b \in registry.bindings, c \in registry'.bindings :
                  LET g == GovernedToolId(b)
                  IN ResolvesTo(registry, g, b) /\ ResolvesTo(registry', g, c) /\ b # c
                     => /\ c.binding_id = b.binding_id
                        /\ c.version = b.version + 1
                        /\ c.snapshot = b.snapshot
<1>1. McpInv /\ McpNext => A BY NextResolution
<1>2. McpInv /\ [McpNext]_registry => [A]_registry BY <1>1
<1>3. McpSpec => [][A]_registry BY <1>2, AlwaysMcpInv, PTL DEF McpSpec
<1> QED BY <1>3 DEF ResolutionMovesForward

\* ImplementsAppendOnlyLog: to its readers the registry is one append-only log per
\* server and per binding identity, whatever is registered in whatever order.
THEOREM RegistryIsLogs == McpSpec => ImplementsAppendOnlyLog
<1>1. McpInit => LogInv BY LogInitInv
<1>2. LogInv /\ [McpNext]_registry => LogInv' BY StepExtendsLogs
<1>3. McpInit => Log!LogInit
  <2> SUFFICES ASSUME McpInit PROVE registryLogs = [k \in HistoryKey |-> <<>>]
    BY DEF Log!LogInit
  <2>1. \A k \in HistoryKey : HistoryOf(registry, k) = {}
    BY DEF McpInit, EmptyRegistry, HistoryOf, ServerHistory, BindingHistory
  <2>2. LogOf({}) = <<>>
    <3>1. LogOf({}) = [i \in 1 .. 0 |-> RecordOfVersion({}, i)]
      BY FS_EmptySet DEF LogOf
    <3> QED BY <3>1
  <2> QED BY <2>1, <2>2 DEF registryLogs
<1>4. LogInv /\ [McpNext]_registry => [Log!LogNext]_registryLogs
  BY StepExtendsLogs
<1>5. McpSpec => Log!LogInit /\ [][Log!LogNext]_registryLogs
  BY <1>1, <1>2, <1>3, <1>4, PTL DEF McpSpec
<1> QED BY <1>5 DEF ImplementsAppendOnlyLog, Log!LogSpec
=============================================================================
