CONSTANTS
  srv = srv
  toolname = toolname
  owner = owner
  account = account
  archive = archive
  ServerId = {srv}
  Pin = {p}
  ToolName = {toolname}
  Schema = {d}
  SnapshotId = {s1}
  BindingId = {b1}
  MaxVersion = 1
  EnabledFlag = {TRUE}
  RegistryTime = {0}
  MaxStopVersion = 1
  StopTime = {0}
  Request <- Requests
  Worker = {w1}
  Executor = {x1}
  LeaseId = {l1}
  ReceiptId = {r1}
  Time = {0}
  AuthMaxAge = 0
  LeaseMaxLife = 1
  MaxOutcomes = 2
  MaxLeases = 1
  MaxReceipts = 1
  Resource = {account, archive}
  ProfileTerms <- Terms
  DataUse <- Uses
  MaxProfileVersion = 2
  ProfileTime = {0}
SPECIFICATION GovernedSpec
CHECK_DEADLOCK FALSE
INVARIANTS DataTypeOK RowsAreDataGoverned HandlingIsSafe
PROPERTIES DataDriftHolds
