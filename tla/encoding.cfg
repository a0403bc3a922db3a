SPECIFICATION Spec
CONSTANTS
  Byte = 8
  Asked <- MCAsked
INVARIANTS
  RunsAsAsked
  ShownIsRun
  HeaderIsPortable
