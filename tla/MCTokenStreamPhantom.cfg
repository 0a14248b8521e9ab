CONSTANTS
  MaxWords = 2
  Values = {3, 12, 33}
  Gaps = {1}
  Trailing = {0, 1, 3}
  Texts <- SmallTexts
  GarbageArgs = {0, 7}
  GarbageRegs = {1, 16, 255}
SPECIFICATION Spec
INVARIANTS
  NoTokenFromNothing
CHECK_DEADLOCK FALSE
