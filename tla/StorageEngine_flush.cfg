\* One partition of two bars is enough for flush() and the flush loop to meet.
SPECIFICATION StorageSpec
CONSTANTS
  BarKeys = {"bars"}
  TradeKeys = {}
  QuoteKeys = {}
  Rows <- Bars
  Callers = {"catchup"}
  StorageQueueSize = 1
PROPERTY FlushIsDurable
CHECK_DEADLOCK FALSE
