SPECIFICATION Spec
CONSTANTS
  c1 = c1
  c2 = c2
  A = A
  B = B
  t1 = t1
  t2 = t2
  r1 = r1
  r2 = r2
  h = h
  w = w
  k1 = k1
  k2 = k2
  g1 = g1
  g2 = g2
  NoKey = NoKey
  Forever = Forever
  AudienceOf <- OwnAudience
  Call = {c1, c2}
  Server = {A, B}
  StoreOf <- OneOptsOut
  Cred = {t1}
  Decision <- Brief
  Request = {r1}
  Nonce = {1, 2}
  Label = {g1}
  Key = {h, k1}
  WeakKey = {}
  max_skew = 1
  GivenAt = {}
  Retention = 4
  ApprovalTTL = {2}
  ProofTime = {2}
  Approver = {k1}
  Stranger = {}
  MaxCall = 1
  MaxTime = 5
  MaxPops = 2
  MaxApprovals = 1
  MaxPresented = 1
INVARIANTS PopOnce ApprovalOnce
SYMMETRY Calls
