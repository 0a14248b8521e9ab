CONSTANTS
  Programs <- SomePrograms
SPECIFICATION Spec
INVARIANTS
  TypeOK
  StatusTellsTruth
  CrashesForAReason
  DumpOutlivesCode
  ReleasedAtExit
