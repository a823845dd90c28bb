SPECIFICATION CFairSpec
CONSTANTS
  Scenarios <- MCScenarios
  Payload = 3
  FifoSize = 2
  Failures = {"open", "popen", "dispatch", "collector", "reset"}
  Found = {"none", "eio"}
  Descendants = TRUE
  MaxInterrupts = 2
  AppExits <- MCAppExits
  Requested = {"json", "junit"}
INVARIANTS TypeOK AlwaysRestored ResultComplete ZeroMeansPass ReportsHonest
PROPERTIES TimeoutEnds
CHECK_DEADLOCK FALSE
