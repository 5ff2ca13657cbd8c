SPECIFICATION Spec
CONSTANTS
  Precision = 3
  MaxExp = 1
  MaxStamp = 8
  WeakKey = {"w"}
  Inputs <- MalformedInputs
INVARIANTS RefusalIsCaveatError
