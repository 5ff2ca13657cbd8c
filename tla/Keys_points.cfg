SPECIFICATION Spec
CONSTANTS
  P = 61
  D = 2
  Bits = 6
  L = 7
  Short = Short
INVARIANTS TypeOK DoublesArePoints AcceptsExactly
