CONSTANTS
  PrintDecimal = 8192
  ScanDecimal = 12288
  Immediates <- SizesAndSigns
  PlainRegs = {0, 3}
  HighRegs = {1}
  Machines <- CleanMachine
SPECIFICATION Spec
INVARIANTS
  ReadmeFoldAdds
CHECK_DEADLOCK FALSE
