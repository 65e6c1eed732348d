SPECIFICATION FairSpec
CONSTANTS
  Length = 3
  MaxWrong = 2
  MaxFaults = 3
  MaxCrashes = 2
  MaxPauses = 2
INVARIANT HasherTracksFile
PROPERTY EventuallyDownloaded
