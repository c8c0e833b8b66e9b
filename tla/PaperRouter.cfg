\* Two brackets, every cancellation and flatten interleaved with their tasks.
SPECIFICATION RouterSpec
CONSTANTS
  Plans = {p1, p2}
  Instruments = {"MNQ", "PAPER"}
INVARIANTS
  RouterTypeOK
  StopFollowsFill
PROPERTIES
  EarlyCancelHolds
  BracketSettles
