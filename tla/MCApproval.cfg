CONSTANTS
  alice = alice
  bob = bob
  carol = carol
  tool = tool
  Risks = {"critical"}
  Decisions = {"REQUIRE_HUMAN_APPROVAL"}
  GrantUntil = 2
  KeyUntil = 3
  Principal = {alice, bob, carol}
  Grant <- Grants
  TrustedKey <- Keys
  PolicyMinimum = 1
  HighMinimum = 1
  CriticalMinimum = 2
  RequirementLife = 2
  StatementLife = 1
  MaxPackage = 5
  ApprovalTime = {0, 1, 2}
  Resolver = {r1, r2}
  MaxRequirements = 1
  MaxStatements = 3
SPECIFICATION MCApprovalSpec
SYMMETRY TwoResolvers
CHECK_DEADLOCK FALSE
INVARIANTS ApprovalTypeOK ContinuationIsEarned OneVerdictPerRequirement QuorumFollowsRisk
