SPECIFICATION Spec
CONSTANTS
  AmountIncrement = 2
  PriceIncrement = 1
  MaxPrice = 3
  Engine = "Limit"
  Requests <- LimitRequests
  Books <- TwoMarkets
  InitialBalances <- LimitBalances
  TakerRate = 1
  MakerRate = 0
  FeeScale = 2
  StaleCancels = FALSE
  MaxOrders = 4
  MaxDepth = 2
INVARIANTS
  TypeOK
  BaseAccounted
  NoNakedSale
  QuoteAccounted
  LedgerMatchesFills
  OnlyFeesOverdraw
  CompletionIsAnnounced
  FiredIsReplacedOnce
  RefsOnlyForOpenOrders
  HeldOrdersAreOpen
  OnlyLaterSalesStarve
PROPERTIES
  ListenersHearLifecycle
  TrailFollowsOneWay
  SellStopCanRelock
