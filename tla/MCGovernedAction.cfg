CONSTANTS
  srv = srv
  toolname = toolname
  alice = alice
  carol = carol
  Risks = {"low", "high"}
  ServerId = {srv}
  Pin = {p}
  ToolName = {toolname}
  Schema = {d}
  SnapshotId = {s1}
  BindingId = {b1}
  MaxVersion = 1
  EnabledFlag = {TRUE}
  RegistryTime = {0}
  MaxStopVersion = 1
  StopTime = {0}
  Request <- Requests
  Worker = {w1}
  Executor = {x1}
  LeaseId = {l1}
  ReceiptId = {r1}
  Time = {0, 1, 2}
  AuthMaxAge = 1
  LeaseMaxLife = 1
  MaxOutcomes = 1
  MaxLeases = 1
  MaxReceipts = 0
  Principal = {alice, carol}
  Grant <- Grants
  TrustedKey <- Keys
  PolicyMinimum = 1
  HighMinimum = 1
  CriticalMinimum = 1
  RequirementLife = 2
  StatementLife = 2
  MaxPackage = 5
  ApprovalTime = {0, 1, 2}
  Resolver = {rs1}
  MaxRequirements = 1
  MaxStatements = 1
  agent = agent
  readtool = readtool
  sendtool = sendtool
  GrantSubject = {alice, carol}
  GrantScope <- Scopes
  MaxGrants = 3
  AgentDescriptor <- Descriptors
  ToolActionDescriptor <- ToolActions
  PolicyRule <- Rules
  AgentIdentity <- Identities
  PolicyRequest <- PolicyRequests
  PolicyTime = {0, 1}
SPECIFICATION MCActionSpec
CHECK_DEADLOCK FALSE
INVARIANTS RedemptionsAreApproved NoStrandedOutcome ApprovalDoesNotExtend
           AuthorityIsInherited
PROPERTIES RulesOnlyTighten
