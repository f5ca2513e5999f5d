CONSTANTS
  n1 = n1
  n2 = n2
  Tenant = {n1, n2}
  RlsPolicyId = {"accounts"}
  MaxRlsVersion = 2
  MaxProfileVersion = 2
  RegistryTime = {0, 1}
  ReleaseId = {r1, r2, r3}
  ReleaseVersion = {91, 92, 100}
  PlanId = {"p1"}
  CheckpointId = {"c1"}
  MaxEgressVersion = 2
  MaxToolsVersion = 2
  MaxWorkerVersion = 2
  SourceVersion = {91, 92}
  StableVersion = 100
  Readiness <- ReadinessCases
  ScopeTarget = {"d1"}
  ScopeContext = {"x1", "x2"}
  Reference <- References
  AssertionId = {a1, a2}
  EvidenceId = {"v1"}
  EntryId = {e1, e2}
  PackageId = {"p1"}
  AssuranceTime = {0, 1}
SPECIFICATION ReadinessSpec
SYMMETRY Interchangeable
CHECK_DEADLOCK FALSE
INVARIANTS ReleaseTypeOK DeploymentIsChronological UpgradesAreReversible BaselineIsGrounded PackagesStayVerifiable
PROPERTIES ReleaseDriftIsFinal
