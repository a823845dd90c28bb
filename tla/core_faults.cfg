SPECIFICATION Spec
CONSTANTS
  Readers = {r1}
  Writers = {w1}
  Pollers = {}
  Controllers = {c1}
  NoThread = NoThread
  FifoSize = 2
  MaxFaultRepeat = 2
  MaxDelayMs = 1
  MaxPartialRead = 2
  RawConfigs <- MCRawConfigs
  Modes = {FALSE}
  MaxCount = 2
  MaxBytes = 3
INVARIANTS TypeOK FaultWellFormed EioExact FifoBounded NeverZero ReaderWoken WriterWoken
PROPERTIES HandedInOrder
