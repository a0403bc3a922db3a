SPECIFICATION Spec
CONSTANTS
  Byte = 8
  Asked <- MCAsked
INVARIANT
  ConditionalAsAsked
