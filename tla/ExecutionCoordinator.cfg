\* Two intents over two keys, one instrument and a limit of one contract.
\* The two trends with either side of VWAP give every combination of a green
\* or amber long and a green or amber short.
\* The accounts are those of config/accounts.toml: the evaluator finds neither.
SPECIFICATION Spec
CONSTANTS
  Plans = {i1, i2}
  Instruments = {MNQ}
  Keys = {k1, k2}
  Quantities = {1}
  MaxContracts = 1
  Accounts = {"day_trade", "swing_trade"}
  Regimes = {"UP", "DOWN"}
  NoIntent = NoIntent
  RoPrefix = RoPrefix
INVARIANTS OneOrderPerKey HeldIntentIsConsistent BrokerStateIsCounted
PROPERTIES OpeningStaysWithinLimit ImplementsOrderOnce ProtectionArrives
