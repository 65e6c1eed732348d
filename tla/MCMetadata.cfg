SPECIFICATION FairSpec
CONSTANTS
  MaxRoots <- MCMaxRoots
  MaxDocs <- MCMaxDocs
  MaxFaults = 1
  MaxCrashes = 1
  Resets = {TRUE, FALSE}
INVARIANTS RootChain CheckAgrees ImagesChain
PROPERTIES NoRollback EventuallyCurrent
