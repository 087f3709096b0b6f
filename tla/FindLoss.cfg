SPECIFICATION Spec
CONSTANTS
  t1 = t1
  t2 = t2
  BTC = BTC
  ETH = ETH
  Symbols = {BTC}
  ExSymbols = {BTC}
  MaxOrders = 2
  MaxDay = 2
  Prices = {1, 2}
  Closings = {"Canceled"}
  HistoryLimit = 2
  MaxOrder = 0
  MaxDaily = 0
  MaxLoss = 0
  Scale = 1
  MaxInt = 1000
  Traders = {t1}
  SymbolOf <- MCOneTrader
  Modes = {"live"}
  BuyValue = 2
  Faults = {"store"}
  OperatorActs = {}
  DayOffsets <- MCUtcHost
  ClientIds = {1, 2}
INVARIANTS
  LossesCounted
