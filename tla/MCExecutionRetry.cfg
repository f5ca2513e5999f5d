CONSTANTS
  srv = srv
  toolname = toolname
  owner = owner
  ServerId = {srv}
  Pin = {p}
  ToolName = {toolname}
  Schema = {d}
  SnapshotId = {s1}
  BindingId = {b1}
  MaxVersion = 1
  EnabledFlag = {TRUE}
  RegistryTime = {0}
  MaxStopVersion = 1
  StopTime = {0, 1}
  Request <- Requests
  Worker = {w1}
  Executor = {x1}
  LeaseId = {l1}
  ReceiptId = {r1, r2}
  Time = {0, 1, 2}
  AuthMaxAge = 1
  LeaseMaxLife = 2
  MaxOutcomes = 1
  MaxLeases = 1
  MaxReceipts = 2
SPECIFICATION ExecSpec

CHECK_DEADLOCK FALSE
INVARIANTS NoRetryUnderOneLease
