SPECIFICATION Spec
CONSTANTS
  t1 = t1
  t2 = t2
  BTC = BTC
  ETH = ETH
  Symbols = {BTC, ETH}
  ExSymbols = {BTC, ETH}
  MaxOrders = 2
  MaxDay = 1
  Prices = {1}
  Closings = {"Canceled"}
  HistoryLimit = 2
  MaxOrder = 2
  MaxDaily = 3
  MaxLoss = 0
  Scale = 1
  MaxInt = 1000
  Traders = {t1, t2}
  SymbolOf <- MCTwoPairs
  Modes = {"live"}
  BuyValue = 2
  Faults = {"crash", "net"}
  OperatorActs = {}
  DayOffsets <- MCUtcHost
  ClientIds = {1, 2}
INVARIANTS
  PositionIsSumOfFills
PROPERTIES
  OutboxSpec
