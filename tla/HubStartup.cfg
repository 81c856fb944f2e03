CONSTANTS
  tacho = tacho
  plain = plain
  noType = noType
  noDevice = noDevice
  NoType = noType
  NoDevice = noDevice
  Ports <- MCPorts
  VirtualPorts <- MCVirtualPorts
  Types <- MCTypes
  ModalTypes <- MCModalTypes
  Modes <- MCModes
  Capacity = 1
  MaxBurst = 2
  MaxEvents = 1
  MaxWrites = 7
  Malformed <- MCShort
SPECIFICATION Spec
CHECK_DEADLOCK FALSE
INVARIANT ReadyIsEarned
PROPERTIES
  InitializeReturns
  PollReturns
