SPECIFICATION Spec
CONSTANTS
  HalfWord = 256
  Width = 9
  Byte = 20
  MaxRegisters = 8
  BaseRegisters = 2
  MaxFrames = 3
  FirstFrameCap = 1
  Programs <- MCPrograms
  Files <- MCFiles
  MaxCount = 5
  Codes <- MCCodes
INVARIANTS
  VerdictTells
  CalleesLive
  FailureIsSaid
PROPERTIES
  LostGlobals
  LoaderSpec
  Verdict
