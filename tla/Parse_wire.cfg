SPECIFICATION Spec
CONSTANTS
  x1 = x1
  x2 = x2
  Cyclic = Cyclic
  MAX_DEPTH = 3
  MAX_BYTES = 52
  LinkSize = 17
  Made <- MadeLists
  Foreign <- Inputs
INVARIANTS TypeOK RoundTrip ParseFailsClosed
