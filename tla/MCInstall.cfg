SPECIFICATION FairSpec
CONSTANTS
  Images = {0, 1, 2}
  Bad = {1}
  BootLimit = 2
  Devices <- MCDevices
  Expires = {FALSE}
  MaxFaults = 1
  MaxEnvFaults = 1
  MaxCrashes = 2
INVARIANTS PendingWillFinalize RollbackArmed
PROPERTIES ImplementsLife EventuallyRunning OutcomeReported
