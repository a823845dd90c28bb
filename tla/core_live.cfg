SPECIFICATION FairSpec
CONSTANTS
  Readers = {r1}
  Writers = {w1}
  Pollers = {}
  Controllers = {c1}
  NoThread = NoThread
  FifoSize = 1
  MaxFaultRepeat = 1
  MaxDelayMs = 1
  MaxPartialRead = 2
  RawConfigs <- MCLiveConfigs
  Modes = {FALSE}
  MaxCount = 1
  MaxBytes = 2
PROPERTIES DisconnectReleases DataServesReader RoomServesWriter IoctlReturns
