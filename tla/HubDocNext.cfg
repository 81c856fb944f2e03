CONSTANTS
  tacho = tacho
  plain = plain
  noType = noType
  noDevice = noDevice
  NoType = noType
  NoDevice = noDevice
  Ports <- MCOnePort
  VirtualPorts <- MCNoPorts
  Types <- MCTypes
  ModalTypes <- MCModalTypes
  Modes <- MCModes
  Capacity = 2
  MaxBurst = 2
  MaxEvents = 2
  MaxWrites = 6
  Malformed <- MCWhole
SPECIFICATION Spec
CHECK_DEADLOCK FALSE
PROPERTY NoMessageSkipped
