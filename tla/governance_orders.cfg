SPECIFICATION Spec
SYMMETRY Symmetry
CONSTANTS
  Merchants = {m1, m2}
  None = None
  Chain <- AuditFirst
  MaxAmount = 2
  PerTransactionLimit = 1
  SessionLimit = 2
  RequireApprovalAbove = 0
  AutoApproveBelow <- NoAmount
  RequirePo = TRUE
  MayCrash = FALSE
  MaxPayments = 2
  RequestIds = {r1}
  SessionIds = {s1}
  MaxPos = 2
INVARIANTS
  PurchaseOrdersAreUnique
  AuditIsComplete
CHECK_DEADLOCK FALSE
