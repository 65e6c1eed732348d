SPECIFICATION Spec
CONSTANTS
  Testers = {"prog", "other"}
  Plans <- MCPlans
  MaxLosses = 1
  Factory <- MCFactory
  FLASH_SECTOR_SIZE = 2
  FLASH_SIZE = 8
  PROGRAM_FLASH_BEGIN = 2
  PROGRAM_FLASH_END = 8
  AddressSpace = 16
  HwBuffers = {0, 1}
  CAN_IN_BUF_SIZE = 2
  CAN_OUT_BUF_SIZE = 2
PROPERTIES  FramesLeave 
CHECK_DEADLOCK FALSE
