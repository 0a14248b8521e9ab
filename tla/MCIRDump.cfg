CONSTANTS
  MaxTokens = 5
  Immediates = {7, 123456789}
  Programs <- SmallPrograms
  BeyondTokens <- OnlyZeroes
SPECIFICATION Spec
INVARIANTS
  TypeOK
  TextFits
  EveryTokenOnce
  BlocksAgree
PROPERTIES
  Completes
