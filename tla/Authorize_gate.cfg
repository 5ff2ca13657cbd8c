SPECIFICATION Spec
CONSTANTS
  c1 = c1
  c2 = c2
  A = A
  B = B
  t1 = t1
  t2 = t2
  r1 = r1
  r2 = r2
  h = h
  w = w
  k1 = k1
  k2 = k2
  g1 = g1
  g2 = g2
  NoKey = NoKey
  Forever = Forever
  AudienceOf <- OneAudience
  Call = {c1}
  Server = {A, B}
  StoreOf <- OneIsWrong
  Cred = {t1, t2}
  Decision <- Delegations
  Request = {r1, r2}
  Nonce = {1}
  Label = {g1, g2}
  Key = {h, k1, w}
  WeakKey = {w}
  max_skew = 1
  GivenAt = {2}
  Retention = Forever
  ApprovalTTL = {1}
  ProofTime = {1}
  Approver = {k1, w}
  Stranger = {NoKey}
  MaxCall = 1
  MaxTime = 0
  MaxPops = 1
  MaxApprovals = 2
  MaxPresented = 2
INVARIANTS TypeOK BurnJustified Consented
