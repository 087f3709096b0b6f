SPECIFICATION SignalLiveSpec
CONSTANTS
  t1 = t1
  BTC = BTC
  Symbols = {BTC}
  ExSymbols = {BTC}
  MaxOrders = 3
  MaxDay = 2
  Prices = {1, 2}
  Closings = {"Canceled"}
  HistoryLimit = 3
  MaxOrder = 0
  MaxDaily = 0
  MaxLoss = 0
  Scale = 1
  MaxInt = 1000
  Traders = {t1}
  SymbolOf <- MCOneTrader
  Modes = {"paper"}
  BuyValue = 2
  Faults = {"crash", "store"}
  OperatorActs = {}
  DayOffsets = {0}
  ClientIds = {1, 2, 3}
  Fast = 1
  Slow = 2
  MaxBars = 4
  MaxVersions = 5
INVARIANTS
  OneFillPerTable
PROPERTIES
  SignalIsFollowed
