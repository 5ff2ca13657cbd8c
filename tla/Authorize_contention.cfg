SPECIFICATION FairSpec
CONSTANTS
  c1 = c1
  c2 = c2
  A = A
  B = B
  t1 = t1
  t2 = t2
  r1 = r1
  r2 = r2
  h = h
  w = w
  k1 = k1
  k2 = k2
  g1 = g1
  g2 = g2
  NoKey = NoKey
  Forever = Forever
  AudienceOf <- OwnAudience
  Call = {c1, c2}
  Server = {A}
  StoreOf <- OneStore
  Cred = {t1}
  Decision <- TwinGates
  Request = {r1}
  Nonce = {1, 2}
  Label = {g1, g2}
  Key = {h, k1}
  WeakKey = {}
  max_skew = 1
  GivenAt = {}
  Retention = Forever
  ApprovalTTL = {1}
  ProofTime = {0}
  Approver = {k1}
  Stranger = {}
  MaxCall = 1
  MaxTime = 0
  MaxPops = 2
  MaxApprovals = 3
  MaxPresented = 2
INVARIANTS ApprovalOnce ContestedServed ReplayHasCause
PROPERTIES SpentServes
