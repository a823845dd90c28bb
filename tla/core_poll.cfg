SPECIFICATION Spec
CONSTANTS
  Readers = {r1}
  Writers = {w1}
  Pollers = {p1}
  Controllers = {c1}
  NoThread = NoThread
  FifoSize = 1
  MaxFaultRepeat = 1
  MaxDelayMs = 1
  MaxPartialRead = 2
  RawConfigs <- MCWakeConfigs
  Modes = {TRUE}
  MaxCount = 1
  MaxBytes = 2
INVARIANTS PollerWoken
PROPERTIES Linearizable
