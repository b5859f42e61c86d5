SPECIFICATION FairDelivery
CONSTANTS
  HttpCalls = {c1, c2, c3}
  HttpOrigins = {o1}
  HttpUnit = 3
  HttpRate = 2
  HttpCapacity = 3
  HttpMaxAttempts = 2
  HttpBaseDelay = 1
  HttpMaxDelay = 2
  HttpRetryAfters = {4}
  OrderSubscriptions = {1, 2}
  CloudBatchSize = 2
  CloudKeyTtl = 1
  CloudMaxEvents = 2
  CloudMaxTime = 3
  TrailTools = {t1, t2}
  TrailBatchSize = 2
  TrailMaxEntries = 5
  ExportRunIds = {r1, r2}
  ExportDay = 2
  ExportMaxDays = 1
  ExportMaxTime = 4
  ExportStarts = {0, 3, 4}
  ExportDates = {0, 2, 3}
  ExportIncludes = {{}, {"spans", "logs"}}
INVARIANTS
  DeliveryTypeOK
  RateIsKept
  RecordsAreSound
PROPERTIES
  EveryCallReturns
  OrderEventsAreSound
  SubscribedIsDelivered
  CompletionReturns
CHECK_DEADLOCK FALSE
