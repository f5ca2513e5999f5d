CONSTANTS
  ServerId = {srv}
  Pin = {p1}
  ToolName = {t1, t2}
  Schema = {d1, d2}
  SnapshotId = {s1, s2}
  BindingId = {b1, b2}
  MaxVersion = 2
  EnabledFlag = {TRUE}
  RegistryTime = {0, 1}
SPECIFICATION McpSpec
SYMMETRY Interchangeable
CHECK_DEADLOCK FALSE
INVARIANTS McpTypeOK BindingsArePinned BindingNeverMoves
PROPERTIES ImplementsAppendOnlyLog StaleIsFinal ResolutionMovesForward
