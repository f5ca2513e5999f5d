------------------------------ MODULE McpLogs ------------------------------
(***************************************************************************)
(* The governed MCP registry as its readers see it: server_history and     *)
(* binding_history return the records of one identity in version order.    *)
(***************************************************************************)
EXTENDS McpRegistry

\* server_history, binding_history: the entry of index i is the i-th version.
RecordOfVersion(H, i) == CHOOSE x \in H : x.version = i
LogOf(H) == [i \in 1 .. Cardinality(H) |-> RecordOfVersion(H, i)]

\* A server and a binding may have the same identity: they are told apart.
HistoryKey == ({"server"} \X ServerId) \cup ({"binding"} \X BindingId)

HistoryOf(r, k) == IF k[1] = "server" THEN ServerHistory(r, k[2])
                   ELSE BindingHistory(r, k[2])

registryLogs == [k \in HistoryKey |-> LogOf(HistoryOf(registry, k))]

Log == INSTANCE AppendOnlyLog WITH Key <- HistoryKey, log <- registryLogs

\* The registry implements an append-only log per server and per binding
\* identity: register_server and register_binding extend exactly one log by one
\* record at its end, register_snapshot none.
ImplementsAppendOnlyLog == Log!LogSpec
=============================================================================
