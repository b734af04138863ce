SPECIFICATION Spec
CONSTANTS
  AmountIncrement = 2
  PriceIncrement = 1
  MaxPrice = 3
  Engine = "Limit"
  Requests <- TwoSales
  Books <- TwoMarkets
  InitialBalances <- LimitBalances
  TakerRate = 1
  MakerRate = 0
  FeeScale = 2
  StaleCancels = TRUE
  MaxOrders = 2
  MaxDepth = 2
PROPERTY
  FillsOnlyOpenOrders
