SPECIFICATION Spec
CONSTANTS
    MinuteSeconds = 2
    LargeTrade = 10
    AbsorptionEvery = 1
    HoldSeconds = 2
    Symbols <- MCSymbols
    Clients = {c1}
    Keys <- MCKeys
    Root <- MCRoot
    ClientKey <- MCClientKey
    Setups <- MCSetups
    MinGrade = 2
    Shapes <- MCSecond
    Theses <- MCTheses
    Script <- MCScript
    TimeoutBars = 2
    Seconds <- MCSeconds
    QueueSize = 1
CHECK_DEADLOCK FALSE
INVARIANTS ShadowTradesAreOrderly PricesAreMeasured NoSilentGap
PROPERTIES PositionCloses
