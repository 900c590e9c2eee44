CONSTANTS
  driver = driver
  first = first
  second = second
  Drivers <- MCDrivers
  Components <- MCComponents
  Subscribers <- MCSubscribers
  InboxCapacity = 1
  HandlerOutcomes <- AnyOutcome
  MayAbort = FALSE
  MaxMessages = 2
SPECIFICATION Spec
PROPERTY AlwaysWindsDown
CHECK_DEADLOCK FALSE
