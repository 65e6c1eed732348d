SPECIFICATION FairSpec
CONSTANTS
  MaxEvents = 3
  MaxOutages = 2
PROPERTIES ImplementsChannel ShutdownEnds EventuallyAnswered
CHECK_DEADLOCK FALSE
