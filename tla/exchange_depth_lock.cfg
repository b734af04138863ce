SPECIFICATION Spec
CONSTANTS
  AmountIncrement = 2
  PriceIncrement = 1
  MaxPrice = 3
  Engine = "Depth"
  Requests <- DepthPurchase
  Books <- DeepMarkets
  InitialBalances <- DepthBalances
  TakerRate = 1
  MakerRate = 0
  FeeScale = 2
  StaleCancels = FALSE
  MaxOrders = 2
  MaxDepth = 2
INVARIANT
  NothingOpenNothingLocked
