\* Does FLATTEN close a short?
SPECIFICATION Spec
CONSTANTS
  Plans = {i1, i2}
  Instruments = {MNQ}
  Keys = {k1, k2}
  Quantities = {1}
  MaxContracts = 1
  Accounts = {}
  Regimes = {"RANGE"}
  NoIntent = NoIntent
  RoPrefix = RoPrefix
PROPERTIES
  FlattenReducesExposure
