SPECIFICATION HSpec
CONSTANTS
  Readers = {r1}
  Writers = {w1}
  Pollers = {}
  Controllers = {c1}
  NoThread = NoThread
  FifoSize = 2
  MaxFaultRepeat = 1
  MaxDelayMs = 1
  MaxPartialRead = 1
  RawConfigs <- MCConfigs
  Modes = {FALSE}
  MaxCount = 2
  MaxBytes = 2
  Observed = {r1}
INVARIANTS OutcomeExplained
