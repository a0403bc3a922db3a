SPECIFICATION FairSpec
CONSTANTS
  HalfWord = 32
  Width = 6
  Byte = 8
  MaxRegisters = 14
  BaseRegisters = 2
  MaxFrames = 5
  FirstFrameCap = 2
  Programs <- CallPrograms
INVARIANTS
  TypeOK
  CurrentIsTop
  DisjointUntilFull
  FramesMirrorCalls
  HonestExit
  RoomyIsSafe
  LeavesByTheEnd
PROPERTIES
  SuspendedKept
  OverflowOnlyAtLimit
  LeftToDoShrinks
  CallsEnd
