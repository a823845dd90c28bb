SPECIFICATION Spec
CONSTANTS
  PendingBytes = 3
  ReadBytes = 3
  MaxEioRetries = 1
  MaxEvents = 0
  PartialBytes = 1
  MaxRepeat = 1
  MaxChars = 5
INVARIANTS OversizedSkipped
