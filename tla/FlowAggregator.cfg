SPECIFICATION FlowSpec
CONSTANTS
    Offsets <- MCOffsets
    Shapes <- MCShapes
    LargeTrade = 10
    VolHistorySize = 2
    MaxMinutes = 3
    MaxLost = 1
    QueueSize = 2
CHECK_DEADLOCK FALSE
INVARIANTS FlowIsOfItsMinute
PROPERTIES BarsArriveWithTheirTrades
