SPECIFICATION Spec
CONSTANTS
  HalfWord = 32
  Width = 6
  Byte = 8
  MaxRegisters = 14
  BaseRegisters = 2
  MaxFrames = 5
  FirstFrameCap = 2
  Programs <- CallPrograms
INVARIANT
  OwnSlice
