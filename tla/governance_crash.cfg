SPECIFICATION Spec
SYMMETRY Symmetry
CONSTANTS
  Merchants = {m1, m2}
  None = None
  Chain <- SpendingThenApproval
  MaxAmount = 1
  PerTransactionLimit = 1
  SessionLimit = 2
  RequireApprovalAbove = 0
  AutoApproveBelow <- NoAmount
  RequirePo = FALSE
  MayCrash = TRUE
  MaxPayments = 2
  RequestIds = {r1}
  SessionIds = {s1}
  MaxPos = 0
INVARIANTS
  TypeOK
  UneditedPurchasesKeepTheLimit
  PaymentsWereApproved
CHECK_DEADLOCK FALSE
