SPECIFICATION Spec
CONSTANTS
  AmountIncrement = 2
  PriceIncrement = 1
  MaxPrice = 3
  Engine = "Limit"
  Requests <- BuyStop
  Books <- TwoMarkets
  InitialBalances <- LimitBalances
  TakerRate = 1
  MakerRate = 0
  FeeScale = 2
  StaleCancels = FALSE
  MaxOrders = 2
  MaxDepth = 2
INVARIANT
  FiredBuyLockedAtAsk
