SPECIFICATION Spec
CONSTANTS
  th1 = th1
  th2 = th2
  n1 = n1
  n2 = n2
  NoKey = NoKey
  Thread = {th1, th2}
  Challenge = {n1, n2}
  ApprovalNonce = {n1}
  Gil = TRUE
  Durable = FALSE
  MaxRestarts = 2
INVARIANTS TypeOK SpentOnce RefusedWasSpent
PROPERTIES ImplementsLedger
