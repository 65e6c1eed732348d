CONSTANTS
  Objects <- MCObjects
  Kids <- MCKids
  Root = "commit"
  Origins <- MCOrigins
  Absents = {{}, {"file"}}
  Credentials <- MCCredentials
  MaxBad = 3
  concurrency_cap = 2
  kInitialSleepTime = 1
  kMaxSleepTime = 2
SPECIFICATION Spec
INVARIANTS RateHolds OneRequestEach
PROPERTIES NothingIncomplete 
