\* The window of the order history holds every order of the account.
SPECIFICATION ManualSpec
CONSTANTS
  t1 = t1
  BTC = BTC
  Symbols = {BTC}
  ExSymbols = {BTC}
  MaxOrders = 2
  MaxDay = 1
  Prices = {1}
  Closings = {"Canceled"}
  HistoryLimit = 3
  MaxOrder = 0
  MaxDaily = 0
  MaxLoss = 0
  Scale = 1
  MaxInt = 1000
  Traders = {t1}
  SymbolOf <- MCOneTrader
  Modes = {"live"}
  BuyValue = 2
  Faults = {"crash", "net"}
  OperatorActs = {"kill", "killfile"}
  DayOffsets = {0}
  ClientIds = {1, 2, 3}
  MaxManual = 1
  ManualUnits = {2}
PROPERTIES
  KillBindsManual
  OutboxSpec
