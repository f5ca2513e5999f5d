CONSTANTS
  srv = srv
  toolname = toolname
  owner = owner
  ServerId = {srv}
  Pin = {p}
  ToolName = {toolname}
  Schema = {d}
  SnapshotId = {s1, s2}
  BindingId = {b1, b2}
  MaxVersion = 1
  EnabledFlag = {TRUE, FALSE}
  RegistryTime = {0}
  MaxStopVersion = 2
  StopTime = {0}
  Request <- Requests
  Worker = {w1}
  Executor = {x1}
  LeaseId = {l1}
  ReceiptId = {r1}
  Time = {0, 1, 2}
  AuthMaxAge = 1
  LeaseMaxLife = 1
  MaxOutcomes = 1
  MaxLeases = 1
  MaxReceipts = 1
SPECIFICATION RestartSpec
SYMMETRY Interchangeable
CHECK_DEADLOCK FALSE
INVARIANTS RowsAreGoverned AuthorityIsBounded AlwaysReceiptable
PROPERTIES LeasesAreOneTime
