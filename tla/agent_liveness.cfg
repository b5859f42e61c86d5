SPECIFICATION FairSpec
CONSTANTS
  Products = {p1}
  Addresses = {a1}
  Sessions = {s1}
  Tasks = {t1}
  UcpHosts = {u1}
  AcpDomains = {d1}
  AdapterDomains = {x1}
  AcpHost = acp
  None = None
  MaxQty = 1
  MaxUcpOrders = 2
  MaxIterations = 2
  MaxCalls = 2
  MaxStarts = 2
  Lossy = TRUE
  StorageFails = TRUE
  MayCrash = TRUE
  DiscoveryFails = FALSE
  Streaming = TRUE
PROPERTIES
  RunsEnd
CHECK_DEADLOCK FALSE
