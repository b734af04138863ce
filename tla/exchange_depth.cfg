SPECIFICATION Spec
CONSTANTS
  AmountIncrement = 2
  PriceIncrement = 1
  MaxPrice = 3
  Engine = "Depth"
  Requests <- DepthRequests
  Books <- DeepMarkets
  InitialBalances <- DepthBalances
  TakerRate = 1
  MakerRate = 0
  FeeScale = 2
  StaleCancels = FALSE
  MaxOrders = 3
  MaxDepth = 2
INVARIANTS
  BaseAccounted
  NoNakedSale
  QuoteAccounted
  CompletionIsAnnounced
  LimitsAreKept
  WalkIsBest
PROPERTY
  ListenersHearLifecycle
