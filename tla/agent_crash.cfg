SPECIFICATION Spec
SYMMETRY Symmetry
CONSTANTS
  Products = {p1}
  Addresses = {a1}
  Sessions = {s1, s2}
  Tasks = {t1}
  UcpHosts = {u1}
  AcpDomains = {d1}
  AdapterDomains = {}
  AcpHost = acp
  None = None
  MaxQty = 1
  MaxUcpOrders = 2
  MaxIterations = 2
  MaxCalls = 3
  MaxStarts = 2
  Lossy = TRUE
  StorageFails = TRUE
  MayCrash = TRUE
  DiscoveryFails = FALSE
  Streaming = FALSE
INVARIANTS
  TypeOK
  RecordedOrdersExist
  CartsMatchSessions
  RecordedItemsAreCharged
  OrdersAtOwner
CHECK_DEADLOCK FALSE
