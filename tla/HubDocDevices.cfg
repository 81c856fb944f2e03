CONSTANTS
  tacho = tacho
  plain = plain
  noType = noType
  noDevice = noDevice
  NoType = noType
  NoDevice = noDevice
  Ports <- MCOnePort
  VirtualPorts <- MCNoPorts
  Types <- MCTypes
  ModalTypes <- MCModalTypes
  Modes <- MCModes
  Capacity = 2
  MaxBurst = 1
  MaxEvents = 1
  MaxWrites = 6
  Malformed <- MCWhole
SPECIFICATION Spec
CHECK_DEADLOCK FALSE
INVARIANT DevicesAreCurrent
