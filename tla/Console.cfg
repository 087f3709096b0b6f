SPECIFICATION Spec
CONSTANTS
  Minus = Minus
  Point = Point
  Letter = Letter
  THB = THB
  BTC = BTC
  ETH = ETH
  Scale = 100
  MaxInt = 29999
  PriceDecimals = 1
  QtyDecimals = 2
  Products <- MCProducts
  AmountTexts <- MCAmounts
  Closes = {0, 13, 40}
  MaxMoves = 1
  Flags <- MCFlags
  CancelIds <- MCCancelIds
  Executions <- MCExecutions
  Longest = 4
  MaxCommands = 1
INVARIANTS
  TypeOK
  ParseTruncates
  PostedWithinTyped
  OnlyQuantitiesSent
  ReadBackExact
PROPERTIES
  SnapshotIsWorth
CHECK_DEADLOCK FALSE
