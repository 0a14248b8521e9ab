CONSTANTS
  MaxTokens = 2
  Immediates = {7}
  Programs <- WithUnknown
  BeyondTokens <- OnlyZeroes
SPECIFICATION Spec
PROPERTIES
  AlwaysCompletes
