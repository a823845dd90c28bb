SPECIFICATION CFairSpec
CONSTANTS
  Scenarios <- MCQuiet
  Payload = 2
  FifoSize = 2
  Failures = {}
  Found = {"none"}
  Descendants = TRUE
  MaxInterrupts = 0
  AppExits <- MCAppExits
  Requested = {"json", "junit"}
PROPERTIES TimeoutConverges
CHECK_DEADLOCK FALSE
