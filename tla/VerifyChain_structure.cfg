SPECIFICATION VSpec
CONSTANTS
  r = r
  a = a
  w = w
  q = q
  NoKey = NoKey
  NoTTL = NoTTL
  Key = {r, a, w}
  WeakKey = {w}
  Root = {r}
  Caveat = {}
  VERSION = 1
  TTL = {9}
  NotBefore = {}
  Foreign <- AnyHand
  MaxLinks = 3
  MaxLib = 0
  MaxTime = 0
  MAX_DEPTH = 3
  GivenDepth = {3}
  Far = 9
  GivenAt = {}
  MaxRevoked = 0
INVARIANTS AcceptedIsLineage Accountable
