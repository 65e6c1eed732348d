CONSTANTS
  None = None
  Secs <- MCSecs
  Images = {"i1", "i2"}
  Fleets <- MCFleets
  Assignments <- MCAssignments
  MaxVersion = 2
  MaxRoot = 3
  MaxMishaps = 1
  MaxKey = 2
  MaxFds = 2
SPECIFICATION Spec
INVARIANT KeysKnown
PROPERTIES StoredAsDirected RemotesRight 
