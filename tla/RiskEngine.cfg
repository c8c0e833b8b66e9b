\* One account; at prices 1 and 7 the average price of two fills is exact.
SPECIFICATION RiskSpec
CONSTANTS
  Accounts = {"day_trade"}
  DefaultAccount = "day_trade"
  ReportedAccounts = {"day_trade", "default"}
  FlattenAccounts = {"day_trade"}
  Symbols = {MNQ, SPY}
  Setups = {s1, s2}
  Prices = {1, 7}
  Quantities = {1, 2}
  PnLs <- PnLFigures
  Levels <- SetupLevels
  LossLimit = 6
  PlanRisk = 1
  MaxOpen = 1
  Activation = 6
  GivebackNum = 1
  GivebackDen = 2
  MaxFills = 2
  MaxDay = 1
  NoSetup = NoSetup
  NoAccount = NoAccount
  NoPosition = NoPosition
  NoLevel = NoLevel
CHECK_DEADLOCK FALSE
INVARIANTS BookAddsUp HaltIsActedOnOnce
PROPERTIES BreachHalts
