SPECIFICATION Spec
SYMMETRY Symmetry
CONSTANTS
  Products = {p1}
  Addresses = {a1}
  Sessions = {s1, s2}
  Tasks = {t1}
  UcpHosts = {u1}
  AcpDomains = {d1}
  AdapterDomains = {}
  AcpHost = acp
  None = None
  MaxQty = 1
  MaxUcpOrders = 2
  MaxIterations = 3
  MaxCalls = 3
  MaxStarts = 2
  Lossy = FALSE
  StorageFails = FALSE
  MayCrash = TRUE
  DiscoveryFails = TRUE
  Streaming = FALSE
INVARIANTS
  SavedIsCurrent
  UcpPaidOnce
CHECK_DEADLOCK FALSE
