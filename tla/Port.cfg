CONSTANTS
  driver = driver
  first = first
  second = second
  Drivers <- MCDrivers
  Components <- MCComponents
  Subscribers <- MCSubscribers
  InboxCapacity = 1
  HandlerOutcomes <- AnyOutcome
  MayAbort = TRUE
  MaxMessages = 2
SPECIFICATION Spec
INVARIANTS CountsLiveConsignments NoDeliveryToDestroyed
PROPERTIES WindsDown AbortReleases
CHECK_DEADLOCK FALSE
