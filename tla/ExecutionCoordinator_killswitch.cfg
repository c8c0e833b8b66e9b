\* The accounts of config/accounts.toml: does their kill switch block orders?
SPECIFICATION Spec
CONSTANTS
  Plans = {i1}
  Instruments = {MNQ}
  Keys = {k1, k2}
  Quantities = {1}
  MaxContracts = 1
  Accounts = {"day_trade", "swing_trade"}
  Regimes = {"RANGE"}
  NoIntent = NoIntent
  RoPrefix = RoPrefix
PROPERTIES
  KillSwitchBlocksOrders
