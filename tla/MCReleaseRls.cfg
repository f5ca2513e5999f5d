CONSTANTS
  n1 = n1
  n2 = n2
  Tenant = {n1}
  RlsPolicyId = {"accounts"}
  MaxRlsVersion = 2
  MaxProfileVersion = 1
  RegistryTime = {0, 1}
  ReleaseId = {r1}
  ReleaseVersion = {91, 100}
  PlanId = {"p1"}
  CheckpointId = {"c1"}
  MaxEgressVersion = 1
  MaxToolsVersion = 1
  MaxWorkerVersion = 1
  SourceVersion = {91}
  StableVersion = 100
  Readiness <- ReadinessCases
  ScopeTarget = {"d1"}
  ScopeContext = {"x1"}
  Reference <- References
  AssertionId = {a1}
  EvidenceId = {"v1"}
  EntryId = {e1}
  PackageId = {"p1"}
  AssuranceTime = {0}
SPECIFICATION ReadinessSpec
CHECK_DEADLOCK FALSE
PROPERTIES RlsChangeStalesReleases
