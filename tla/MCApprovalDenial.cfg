CONSTANTS
  alice = alice
  bob = bob
  carol = carol
  tool = tool
  Risks = {"low"}
  Decisions = {"REQUIRE_HUMAN_APPROVAL"}
  GrantUntil = 2
  KeyUntil = 3
  Principal = {alice}
  Grant <- Grants
  TrustedKey <- Keys
  PolicyMinimum = 1
  HighMinimum = 1
  CriticalMinimum = 2
  RequirementLife = 2
  StatementLife = 1
  MaxPackage = 5
  ApprovalTime = {0, 1, 2}
  Resolver = {r1}
  MaxRequirements = 2
  MaxStatements = 2
SPECIFICATION MCApprovalSpec
CHECK_DEADLOCK FALSE
INVARIANTS DenialEndsTheDecision
