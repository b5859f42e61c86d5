SPECIFICATION Spec
SYMMETRY Symmetry
CONSTANTS
  Merchants = {m1, m2}
  None = None
  Chain <- SpendingOnly
  MaxAmount = 2
  PerTransactionLimit = 2
  SessionLimit = 2
  RequireApprovalAbove = 1
  AutoApproveBelow <- NoAmount
  RequirePo = FALSE
  MayCrash = FALSE
  MaxPayments = 2
  RequestIds = {r1, r2}
  SessionIds = {s1}
  MaxPos = 2
INVARIANTS
  SessionKeepsItsLimit
CHECK_DEADLOCK FALSE
