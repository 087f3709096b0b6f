SPECIFICATION Spec
CONSTANTS
  t1 = t1
  t2 = t2
  BTC = BTC
  ETH = ETH
  Symbols = {BTC}
  ExSymbols = {BTC}
  MaxOrders = 3
  MaxDay = 1
  Prices = {2, 3}
  Closings = {"Canceled"}
  HistoryLimit = 2
  MaxOrder = 0
  MaxDaily = 0
  MaxLoss = 1
  Scale = 1
  MaxInt = 1000
  Traders = {t1}
  SymbolOf <- MCOneTrader
  Modes = {"live"}
  BuyValue = 3
  Faults = {"store"}
  OperatorActs = {"kill", "resume", "killfile", "status"}
  DayOffsets <- MCUtcHost
  ClientIds = {1, 2, 3}
INVARIANTS
  KillOvershootBounded
PROPERTIES
  NoOrderPastLossStop
