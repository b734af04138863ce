SPECIFICATION FairSpec
CONSTANTS
  AmountIncrement = 2
  PriceIncrement = 1
  MaxPrice = 3
  Engine = "Immediate"
  Requests <- StopRequests
  Books <- TwoMarkets
  InitialBalances <- LimitBalances
  TakerRate = 1
  MakerRate = 0
  FeeScale = 2
  StaleCancels = FALSE
  MaxOrders = 4
  MaxDepth = 2
PROPERTIES
  StopsFire
  TickReturns
  TickMakesHeadway
