SPECIFICATION Spec
CONSTANTS
  None = None
  Current = 1
  DeviceIds = {"d1", "d2", "d3", "d4"}
  Taken = {"d1"}
  Keys = {"k1", "k2", "k3", "k4"}
  Pairs <- MCPairs
  Secondaries = {"s1"}
  MaxMishaps = 2
INVARIANTS ConfigIsEffective CredentialsMatch 
PROPERTIES KnownAsItself EventuallyProvisioned
