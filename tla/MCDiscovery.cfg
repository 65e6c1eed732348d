SPECIFICATION Spec
CONSTANTS
  s1 = s1
  s2 = s2
  Secondaries = {s1, s2}
  serial <- MCSerial
  HwIds <- MCHwIds
  Ports <- MCPorts
  PrimaryPorts <- MCPrimaryPorts
  Configured <- MCConfigured
  MaxFaults = 2
  IntBytes = 3
  CER_MAX_PRIMITIVESTRING = 3
PROPERTIES DiscoveredRight EventuallyStarted
CHECK_DEADLOCK FALSE
