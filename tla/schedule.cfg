SPECIFICATION SSpec
CONSTANTS
  Docs <- MCDocs
  Res = 2
  GraceMs = 1
  Found <- MCFound
  MaxTime = 9
  MaxLines = 2
INVARIANTS LateExplained DispatchedOnTime FailureExplained TimeoutHonest EndsInTime ReportBuilds TimelineCausal FaultBeforeError
CHECK_DEADLOCK FALSE
