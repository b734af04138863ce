SPECIFICATION FairSimSpec
CONSTANTS
  AmountIncrement = 2
  PriceIncrement = 1
  MaxPrice = 3
  Engine = "Depth"
  Requests <- RunRequests
  Books <- DeepMarkets
  InitialBalances <- DepthBalances
  TakerRate = 1
  MakerRate = 0
  FeeScale = 2
  StaleCancels = FALSE
  MaxOrders = 3
  MaxDepth = 2
  StartTime = 1
  EndTime = 4
  Interval = 2
  SeriesLengths <- RunLengths
  SeriesValues <- RunValues
INVARIANTS
  ReportMatchesLedger
  ReportCountsAnnouncements
  StampsLagATick
  MetricsHold
PROPERTY
  RunReturns
\* A run that has returned stops; RunReturns shows that it does not stop before.
CHECK_DEADLOCK FALSE
