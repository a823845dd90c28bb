SPECIFICATION FairSpec
CONSTANTS
  PendingBytes = 2
  ReadBytes = 3
  MaxEioRetries = 1
  MaxEvents = 1
  PartialBytes = 1
  MaxRepeat = 2
  MaxChars = 4
INVARIANTS TypeOK LinesFaithful LimitExact RetryBudget
PROPERTIES StopHonoured DisconnectEnds
