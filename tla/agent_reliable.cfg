SPECIFICATION Spec
SYMMETRY Symmetry
CONSTANTS
  Products = {p1}
  Addresses = {a1, a2}
  Sessions = {s1, s2}
  Tasks = {t1}
  UcpHosts = {u1}
  AcpDomains = {d1}
  AdapterDomains = {}
  AcpHost = acp
  None = None
  MaxQty = 1
  MaxUcpOrders = 2
  MaxIterations = 2
  MaxCalls = 4
  MaxStarts = 3
  Lossy = FALSE
  StorageFails = FALSE
  MayCrash = FALSE
  DiscoveryFails = FALSE
  Streaming = FALSE
INVARIANTS
  RecordedAddressIsUsed
  CallsReachActive
CHECK_DEADLOCK FALSE
