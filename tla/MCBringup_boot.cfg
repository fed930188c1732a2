SPECIFICATION FairSpec
CONSTANTS
  Pages = 3
  Levels = 2
  FrameSize = 2
  MemoryMaps <- MCMemoryMaps
  Buses = 2
  Slots = 2
  RX_DESC = 3
  TX_DESC = 2
  Low = 4
  Eeprom <- MCEeprom
  RsdtAddr = 100
  Firmwares <- MCFirmwares
  ConfigSpaces <- MCConfigSpaces
  Machines <- MCMachines
INVARIANTS FramesSound HeapContiguous RingsReady CardsDriven TablesWalked
PROPERTY StartCompletes
CHECK_DEADLOCK FALSE
