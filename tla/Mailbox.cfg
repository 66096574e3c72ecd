SPECIFICATION FairSpec
CONSTANTS
  MaxSize = 2
  PrioMaxSize = 2
  Modes = {"get", "get_priority"}
  TtlLimit = 1
  MaxMsgs = 3
INVARIANTS NoLostWakeup OnceInOrder
PROPERTIES EverythingServed
