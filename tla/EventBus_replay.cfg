SPECIFICATION Spec
CONSTANTS
  Sources = {"replay"}
  Flushers = {"replay"}
  SubscribeOrder <- ReplayOrder
  TypeOrder <- ReplayTypes
  TypeOf <- ReplayTypeOf
  Wants <- ReplayWants
  DropIfFull = {}
  Emits <- ReplayEmits
  Feeds <- ReplayFeeds
  Removable = {}
  CanStop = FALSE
  QueueSize = 2
  MaxEvents = 5
  NoEvent = NoEvent
PROPERTIES FlushDrains
CHECK_DEADLOCK FALSE
