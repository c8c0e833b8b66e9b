\* Two bars of one partition, so that two writers can meet; one best-effort
\* partition; a queue of one, so that it is full.
SPECIFICATION StorageSpec
CONSTANTS
  BarKeys = {"bars"}
  TradeKeys = {"trades"}
  QuoteKeys = {"quotes"}
  Rows <- MCRows
  Callers = {"catchup"}
  StorageQueueSize = 1
CHECK_DEADLOCK FALSE
INVARIANTS RowsAreKept StopIsDurable
PROPERTIES RowsMoveOn
