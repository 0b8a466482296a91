CONSTANTS
  Base = 3
  Start = 2
  MinFrame = 5
  MaxFrame = 3
  RxShort = 1
  Header = 2
  BufLen = 8
  MaxRead = 3
  MaxLine = 12
SPECIFICATION Spec
INVARIANTS TypeOK RoomToRead NoPacketWaits PacketsOfLine CrashIsShortPacket
CHECK_DEADLOCK FALSE
