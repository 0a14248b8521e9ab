CONSTANTS
  MaxWords = 3
  Values = {0, 2, 5, 9, 11, 12, 33, 66, 193, 300}
  Gaps = {1, 2}
  Trailing = {0, 1, 3}
  Texts <- SmallTexts
  GarbageArgs = {0, 7}
  GarbageRegs = {1, 16, 255}
SPECIFICATION Spec
INVARIANTS
  TypeOK
  TokensFit
  LabelOffsetsExact
  LabelOffsetsIncrease
  OperandsExact
  EveryNumberOnce
CHECK_DEADLOCK FALSE
