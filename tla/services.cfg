SPECIFICATION ServicesSpec
CONSTANTS
  Products = {p1}
  Addresses = {a1}
  Sessions = {s1, s2}
  UcpHosts = {h1}
  None = None
  MaxQty = 2
  MaxUcpOrders = 2
  m1 = m1
  m2 = m2
  m3 = m3
  WireCalls = {c1, c2}
  WireMerchants = {m1, m2, m3}
  WireOffers <- ExampleOffers
  WireMaxDiscoveries = 3
  CapNames = {"checkout", "discount", "order"}
  Profiles <- ExampleProfiles
  ShopProducts = {p1, p2}
  ShopVariantOf <- ExampleVariantOf
  StoreMaxVersion = 3
  Policies <- ExamplePolicies
  MaxPolicies = 2
  Tools = {"add_to_cart", "discover_merchant"}
  Fields = {"domain", "quantity"}
  Names = {acme, other}
  MaxNumber = 3
  Absent = Absent
  LlmNames = {"search", "add"}
  LlmMaxIterations = 3
  LlmMaxCalls = 2
  ChainLength = 2
  ChainMaxDepth = 2
  ChainMaxStack = 3
  ChainMaxCalls = 5
  TeamRequests = {r1, r2}
  TeamGuests = {"ann"}
  TeamMaxOrgs = 2
  TeamMaxRows = 3
  TeamMaxLog = 1
  PlayTurns = {1, 2}
  PlayMaxItems = 2
  PlayMaxCarts = 3
  PlayMaxExpiries = 1
  SubMaxEvents = 6
  SignedPayments = {pay1}
  SignedAmounts = {1, 2}
  SignedTtl = 2
  SignedSkew = 1
  SignedEnd = 4
INVARIANTS
  ServicesTypeOK
  AcpChargedIffCompleted
  UcpOpenIsUnpaid
  UcpFirstOrderIsTheSession
  TransportIsSound
  PurchasesAreReal
  StorageIsSound
  VerdictIsWhatPoliciesSay
  CappedCallsFit
  RequestsAreWellFormed
  ChainIsSound
  TeamIsSound
  PageIsTrue
  StatusSettles
PROPERTIES
  AcpPaidIsFrozen
  AcpImplementsContract
  OwnersStay
  AddIsInCart
CHECK_DEADLOCK FALSE
