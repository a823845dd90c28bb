SPECIFICATION MSpec
CONSTANTS
  PendingBytes = 2
  ReadBytes = 1
  MaxEioRetries = 2
  MaxEvents = 0
  PartialBytes = 1
  MaxRepeat = 3
  MaxChars = 2
  MaxTime = 2
  Expected = 2
  MaxLatency = 1
INVARIANTS MetricsTruthful VerdictSound
