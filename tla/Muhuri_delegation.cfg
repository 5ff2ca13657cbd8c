SPECIFICATION MSpec
CONSTANTS
  r = r
  b = b
  w = w
  q = q
  g = g
  act = act
  NoKey = NoKey
  NoTTL = NoTTL
  Key = {r, b}
  WeakKey = {}
  Root = {r}
  Caveat = {q, g}
  VERSION = 1
  TTL = {1}
  NotBefore = {}
  Foreign = {}
  MaxLinks = 2
  MaxLib = 2
  MaxTime = 0
  MAX_DEPTH = 2
  GivenDepth = {2}
  Far = 9
  GivenAt = {}
  MaxRevoked = 1
  Request = {act}
  Nonce = {1}
  Admits <- PlainAdmits
  Approver <- GateAsks
  MaxPops = 1
  Named <- Lists
  MaxApprovals = 1
INVARIANTS MTypeOK DelegatedAction TakenByDelegates
