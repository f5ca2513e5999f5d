CONSTANTS
  srv = srv
  toolname = toolname
  owner = owner
  ServerId = {srv}
  Pin = {p}
  ToolName = {toolname}
  Schema = {d}
  SnapshotId = {s1, s2}
  BindingId = {b1}
  MaxVersion = 1
  EnabledFlag = {TRUE}
  RegistryTime = {0}
  MaxStopVersion = 2
  StopTime = {0, 1}
  Request <- Requests
  Worker = {w1, w2}
  Executor = {x1}
  LeaseId = {l1}
  ReceiptId = {r1}
  Time = {0}
  AuthMaxAge = 0
  LeaseMaxLife = 1
  MaxOutcomes = 1
  MaxLeases = 1
  MaxReceipts = 0
SPECIFICATION FairExecSpec
CHECK_DEADLOCK FALSE
INVARIANTS ExecTypeOK OneRedemptionPerLease
PROPERTIES HaltHolds HaltDrains LeaseDriftIsFinal
