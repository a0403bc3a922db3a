SPECIFICATION Spec
CONSTANTS
  HalfWord = 8
  Width = 4
  Byte = 4
  MaxRegisters = 12
  BaseRegisters = 2
  MaxFrames = 3
  FirstFrameCap = 1
  Programs <- FramePrograms
PROPERTY
  FramesArePrivate
