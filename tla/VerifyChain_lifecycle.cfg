SPECIFICATION VSpec
CONSTANTS
  r = r
  a = a
  w = w
  q = q
  NoKey = NoKey
  NoTTL = NoTTL
  Key = {r}
  WeakKey = {}
  Root = {r}
  Caveat = {q}
  VERSION = 1
  TTL = {1, 2}
  NotBefore = {2}
  Foreign <- OddWindows
  MaxLinks = 2
  MaxLib = 2
  MaxTime = 2
  MAX_DEPTH = 2
  GivenDepth = {1, 2}
  Far = 2
  GivenAt <- OutOfRange
  MaxRevoked = 1
INVARIANTS VTypeOK DecisionExact VerdictSound LibraryNarrows LibraryAccepted
