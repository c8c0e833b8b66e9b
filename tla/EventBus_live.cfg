SPECIFICATION Spec
CONSTANTS
  Sources = {"feed", "catchup"}
  Flushers = {}
  SubscribeOrder <- LiveOrder
  TypeOrder <- LiveTypes
  TypeOf <- LiveTypeOf
  Wants <- LiveWants
  DropIfFull = {"obs"}
  Emits <- LiveEmits
  Feeds <- LiveFeeds
  Removable = {"obs"}
  CanStop = TRUE
  QueueSize = 2
  MaxEvents = 2
  NoEvent = NoEvent
CHECK_DEADLOCK FALSE
INVARIANTS QueueProtocolHolds DeliveryIsFaithful
PROPERTIES PublishReturns
