SPECIFICATION Spec
CONSTANTS
  Prices = {0, 1, 2, 3}
  Actions = {"Hold", "Buy", "Sell"}
  StartCash = 9
  FeeBps = 2
  Bps = 10
  Scale = 2
  MaxBars = 6
  Fast = 2
  Slow = 3
  SmaPeriod = 0
  EmaPeriod = 3
  RsiPeriod = 3
INVARIANTS
  TypeOK
  WinsExplainProfit
  DrawdownCoversLoss
  EvaluateIsCrossOfMeans
  LiveSeesBacktest
  EmaIsWeightedMean
  RsiIsGainShare
PROPERTIES
  TradesCreateNoValue
  ReportIsCausal
CHECK_DEADLOCK FALSE
