SPECIFICATION Spec
CONSTANTS
  t1 = t1
  t2 = t2
  BTC = BTC
  ETH = ETH
  Symbols = {BTC, ETH}
  ExSymbols = {BTC, ETH}
  MaxOrders = 3
  MaxDay = 2
  Prices = {1, 2}
  Closings = {"Canceled"}
  HistoryLimit = 2
  MaxOrder = 1
  MaxDaily = 1
  MaxLoss = 1
  Scale = 2
  MaxInt = 1000
  Traders = {t1, t2}
  SymbolOf <- MCTwoPairs
  Modes = {"paper"}
  BuyValue = 1
  Faults = {"crash", "store"}
  OperatorActs = {"resume"}
  DayOffsets <- MCUtcHost
  ClientIds = {1, 2, 3}
SYMMETRY MCSwapPairs
INVARIANTS
  LossesOnTheirDay
  NeverShort
  SpentIsExact
  DailyOverrunBounded
