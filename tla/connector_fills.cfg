SPECIFICATION ConnectorSpec
CONSTANTS
  AmountIncrement = 2
  PriceIncrement = 1
  MaxPrice = 3
  Engine = "Depth"
  Requests <- ConnectorRequests
  Books <- DeepMarkets
  InitialBalances <- DepthBalances
  TakerRate = 1
  MakerRate = 0
  FeeScale = 2
  StaleCancels = FALSE
  MaxOrders = 3
  MaxDepth = 1
  NamesAgree = FALSE
INVARIANT TrackerHearsFills
