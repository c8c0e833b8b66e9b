\* One symbol; five bars leave room for a gap and the recovery after it.
SPECIFICATION Spec
CONSTANTS
  Symbols = {MNQ}
  IngressSize = 2
  SilenceDegraded = 1
  SilenceFailed = 2
  CleanBarsNeeded = 2
  MaxBar = 5
CHECK_DEADLOCK FALSE
INVARIANTS SignalsNeedSoundBars
PROPERTIES FailedIsSticky SilenceBlocksSignals
