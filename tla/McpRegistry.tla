---------------------------- MODULE McpRegistry ----------------------------
(***************************************************************************)
(* McpGovernanceRegistry (regagentops/mcp.py): the append-only metadata    *)
(* that says which tool of which MCP server an institution governs.  One   *)
(* institution; the registry is in memory and only ever grows.             *)
(*                                                                         *)
(* The variable is one record of three sets, because snapshot_digest       *)
(* hashes all three together: the value of registry IS that digest.        *)
(***************************************************************************)
EXTENDS VersionedHistory, FiniteSets

CONSTANTS ServerId,      \* governed MCP server identities
          Pin,           \* (expected name, server identity digest) pairs
          ToolName,      \* names of MCP tools
          Schema,        \* everything else a descriptor digest covers
          SnapshotId,    \* caller-chosen snapshot identities
          BindingId,     \* caller-chosen binding identities
          MaxVersion,    \* bound: versions of one server or binding
          EnabledFlag,   \* enabled flags operators give to bindings
          RegistryTime   \* timestamps callers put in registry artifacts

ASSUME RegistryAssumption == /\ MaxVersion \in Nat
                             /\ RegistryTime \subseteq Nat
                             /\ EnabledFlag \subseteq BOOLEAN

VARIABLE registry

Descriptor == [name : ToolName, schema : Schema]

Registration == [server_id : ServerId, version : 1 .. MaxVersion,
                 pin : Pin, approved : BOOLEAN, at : RegistryTime]

\* tools: at most one descriptor per name (McpToolSnapshot.__post_init__).
AnyNames(D) == TRUE  \* mutant: the check is gone
DistinctNames(D) == \A d, e \in D : d.name = e.name => d = e

Snapshot == [snapshot_id : SnapshotId, server : Registration, observed : Pin,
             tools : SUBSET Descriptor, at : RegistryTime]

\* A stored binding's server_registration_digest always is that of its
\* snapshot (register_binding), so the record reaches it as snapshot.server.
Binding == [binding_id : BindingId, version : 1 .. MaxVersion,
            snapshot : Snapshot, tool : Descriptor, enabled : EnabledFlag,
            at : RegistryTime]

EmptyRegistry == [servers |-> {}, snapshots |-> {}, bindings |-> {}]

-----------------------------------------------------------------------------
ServerHistory(r, s)  == {x \in r.servers : x.server_id = s}
BindingHistory(r, b) == {x \in r.bindings : x.binding_id = b}

\* Mutant: an institution's disapproval of a server is ignored.
IsKnownServer(r, x) == IsLatest(ServerHistory(r, x.server_id), x)

\* latest_server(...) returns x, and x is approved.
IsGovernedServer(r, x) ==
  IsLatest(ServerHistory(r, x.server_id), x) /\ x.approved

\* latest_snapshot(...) returns s: the newest capture bound to the current
\* approved registration; two different captures at that time fail closed.
IsLatestSnapshot(r, s) ==
  /\ s \in r.snapshots
  /\ IsGovernedServer(r, s.server)
  /\ \A t \in r.snapshots : t.server = s.server /\ t # s => t.at < s.at

\* "mcp:<server>:<tool>": tool names hold no colon, so the pair is the id.
GovernedToolId(b) == <<b.snapshot.server.server_id, b.tool.name>>

\* b is its identity's latest version and assert_binding_current(b) returns.
IsCurrentBinding(r, b) ==
  /\ IsLatest(BindingHistory(r, b.binding_id), b)
  /\ IsLatestSnapshot(r, b.snapshot)
  /\ b.tool \in b.snapshot.tools

\* Mutant: the first of the current bindings wins.
ResolvesToAny(r, g, b) ==
  b \in r.bindings /\ IsCurrentBinding(r, b) /\ GovernedToolId(b) = g

\* current_binding_for_tool(g) returns b: no other identity is current for g.
ResolvesTo(r, g, b) ==
  {c \in r.bindings : IsCurrentBinding(r, c) /\ GovernedToolId(c) = g} = {b}

\* current_tool_registry(...) returns: no tool is bound twice, anywhere in
\* the institution (the action of every binding is MCP_TOOL_ACTION).
ToolsUnambiguous(r) ==
  \A b, c \in r.bindings :
     IsCurrentBinding(r, b) /\ IsCurrentBinding(r, c)
        /\ GovernedToolId(b) = GovernedToolId(c) => b = c

-----------------------------------------------------------------------------
\* Mutant: the dict entry of the version is overwritten.
RegisterServerAgain(s, v, p, a, t) ==
  LET x == [server_id |-> s, version |-> v, pin |-> p, approved |-> a, at |-> t]
      old == {y \in registry.servers : y.server_id = s /\ y.version = v}
  IN registry' = [registry EXCEPT !.servers = (@ \ old) \cup {x}]

RegisterServer(s, v, p, a, t) ==
  LET x == [server_id |-> s, version |-> v, pin |-> p, approved |-> a, at |-> t]
  IN /\ Appendable(ServerHistory(registry, s), x)
     /\ registry' = [registry EXCEPT !.servers = @ \cup {x}]

RegisterSnapshot(id, srv, o, D, t) ==
  LET x == [snapshot_id |-> id, server |-> srv, observed |-> o,
            tools |-> D, at |-> t]
  IN /\ IsGovernedServer(registry, srv)
     /\ o = srv.pin
     /\ srv.at <= t
     /\ \A y \in registry.snapshots : y.snapshot_id # id
     /\ registry' = [registry EXCEPT !.snapshots = @ \cup {x}]

\* Mutant: the server of a binding is compared, its tool is not.
KeepsServer(H, x) ==
  \A h \in H : h.snapshot.server.server_id = x.snapshot.server.server_id

\* A binding identity cannot move to another governed tool.
KeepsTool(H, x) == \A h \in H : GovernedToolId(h) = GovernedToolId(x)

RegisterBinding(id, v, s, d, e, t) ==
  LET x == [binding_id |-> id, version |-> v, snapshot |-> s, tool |-> d,
            enabled |-> e, at |-> t]
      H == BindingHistory(registry, id)
  IN /\ IsLatestSnapshot(registry, s)
     /\ d \in s.tools
     /\ s.at <= t
     /\ Appendable(H, x)
     /\ KeepsTool(H, x)
     /\ registry' = [registry EXCEPT !.bindings = @ \cup {x}]

McpInit == registry = EmptyRegistry

\* What an operator of the registry may call next, with any arguments.
McpNext ==
  \/ \E s \in ServerId, v \in 1 .. MaxVersion, p \in Pin, a \in BOOLEAN,
        t \in RegistryTime : RegisterServer(s, v, p, a, t)
  \/ \E id \in SnapshotId, srv \in registry.servers, o \in Pin,
        D \in SUBSET Descriptor, t \in RegistryTime :
        DistinctNames(D) /\ RegisterSnapshot(id, srv, o, D, t)
  \/ \E id \in BindingId, v \in 1 .. MaxVersion, s \in registry.snapshots,
        d \in Descriptor, e \in EnabledFlag, t \in RegistryTime :
        RegisterBinding(id, v, s, d, e, t)

McpSpec == McpInit /\ [][McpNext]_registry

-----------------------------------------------------------------------------
(* Properties *)

\* The registry holds records of the registered kinds and nothing else, and a
\* capture lists every name once.
McpTypeOK ==
  /\ registry \in [servers : SUBSET Registration, snapshots : SUBSET Snapshot,
                   bindings : SUBSET Binding]
  /\ \A s \in registry.snapshots :
       \A d, e \in s.tools : d.name = e.name => d = e

\* Every server and every binding identity has versions 1..n without a gap or
\* a second record, dated in version order, and a snapshot_id names a single
\* capture: the three __setitem__s of the registry never overwrite.
HistoriesWellFormed ==
  /\ \A s \in ServerId : WellFormedHistory(ServerHistory(registry, s))
  /\ \A b \in BindingId : WellFormedHistory(BindingHistory(registry, b))
  /\ \A x, y \in registry.snapshots : x.snapshot_id = y.snapshot_id => x = y

\* A binding the registry holds was captured from a server that presented the
\* pinned name and identity of an approved registration, lists the tool it
\* binds, and is dated after its capture, itself dated after the registration:
\* the whole chain register_binding checks piecewise over three calls.
BindingsArePinned ==
  \A b \in registry.bindings :
    /\ b.snapshot \in registry.snapshots
    /\ b.snapshot.server \in registry.servers
    /\ b.snapshot.server.approved
    /\ b.snapshot.observed = b.snapshot.server.pin
    /\ b.tool \in b.snapshot.tools
    /\ b.snapshot.server.at <= b.snapshot.at
    /\ b.snapshot.at <= b.at

\* A binding identity governs one tool for ever (register_binding compares
\* each new version with history[0] only).
BindingNeverMoves ==
  \A b, c \in registry.bindings :
    b.binding_id = c.binding_id => GovernedToolId(b) = GovernedToolId(c)

\* Drift is final: once assert_binding_current refuses a stored binding, no
\* later registration makes it current again (no ABA through a re-approval,
\* a re-capture or a later binding version).
StaleIsFinal ==
  [][\A b \in registry.bindings :
       ~IsCurrentBinding(registry, b) => ~IsCurrentBinding(registry', b)]_registry

\* A tool never resolves to older evidence than before: when a call changes
\* what current_binding_for_tool returns, the new binding is a later version
\* of the same identity over the same capture.  (A new server registration or
\* capture first leaves the tool ungoverned.)
ResolutionMovesForward ==
  [][\A b \in registry.bindings, c \in registry'.bindings :
       LET g == GovernedToolId(b)
       IN ResolvesTo(registry, g, b) /\ ResolvesTo(registry', g, c) /\ b # c
          => /\ c.binding_id = b.binding_id
             /\ c.version = b.version + 1
             /\ c.snapshot = b.snapshot]_registry
=============================================================================
