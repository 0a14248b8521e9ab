CONSTANTS
  Immediates <- SizeLimits
SPECIFICATION Spec
INVARIANTS
  EncodesWhatIsAsked
  EncodesOneInstruction
CHECK_DEADLOCK FALSE
