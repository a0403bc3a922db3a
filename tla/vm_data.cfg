SPECIFICATION Spec
CONSTANTS
  HalfWord = 8
  Width = 4
  Byte = 4
  MaxRegisters = 4
  BaseRegisters = 2
  MaxFrames = 2
  FirstFrameCap = 1
  Programs <- DataPrograms
INVARIANTS
  HonestExit
  TagsAgree
  LawsHold
