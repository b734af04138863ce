SPECIFICATION FairSpec
CONSTANTS
  near = near
  far = far
  trade = trade
  candle = candle
  drawn = drawn
  other = other
  AmountIncrement = 1
  PriceIncrement = 1
  MaxPrice = 2
  Exchanges = {near, far}
  EventIds <- MCEventIds
  TimeOf <- MCTimeOf
  KindOf <- MCKindOf
  OwnerOf <- MCOwnerOf
  DataOf <- MCDataOf
  SnapshotOf <- MCSnapshotOf
  ConfigStart = 0
  ConfigEnd = 0
  TickInterval = 2
  Traded = {near}
  Trades <- MCTrades
  Diffs <- MCDiffs
  Files <- MCFiles
  MaxRuns = 2
INVARIANTS
  NothingMissed
  AnswersAreCurrent
  FilesLoad
  TicksAreCounted
PROPERTIES
  DeliversInOrder
  RunMakesHeadway
  RunEnds
