SPECIFICATION SSpec
CONSTANTS
  Docs <- MCDocs
  Res = 2
  GraceMs = 1
  Found <- MCFound
  MaxTime = 9
  MaxLines = 2
INVARIANT AcceptedFaultsWork
CHECK_DEADLOCK FALSE
