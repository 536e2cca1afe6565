SPECIFICATION Spec
CONSTANTS
  main = main
  e1 = e1
  none = none
  Main = main
  EventTasks <- OneEventTask
  None = none
  MaxConnects = 2
  MaxChanges = 1
INVARIANTS TypeOK HeldOnce OwnReplyOneConnection
PROPERTIES EventuallyResolved EventuallyFresh
CHECK_DEADLOCK FALSE
