SPECIFICATION LiveSpec
CONSTANTS
  c1 = c1
  BTC = BTC
  ETH = ETH
  Daemons = {c1}
  Symbols <- MCSymbols
  Window = 2
  Faults = {"fetch", "empty", "upsert", "stop"}
  MaxBars = 3
  MaxMoves = 1
INVARIANTS
  TypeOK
PROPERTIES
  PollSettlesClosedBars
  TableCatchesUp
