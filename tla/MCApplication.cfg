SPECIFICATION Spec
CONSTANTS
  Commands <- MCCommands
  Users <- MCUsers
  Calls <- MCCalls
  Answers <- MCAnswers
  Targets = {"t1"}
  OstreeModes = {"hmi_stub", "once", "download", "full"}
  MaxFaults = 3
INVARIANTS PendingIsQueued ToldRight
PROPERTIES  NobodyWaits
CHECK_DEADLOCK FALSE
