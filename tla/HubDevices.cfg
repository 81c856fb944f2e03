CONSTANTS
  tacho = tacho
  plain = plain
  noType = noType
  noDevice = noDevice
  NoType = noType
  NoDevice = noDevice
  Ports <- MCOnePort
  VirtualPorts <- MCNoPorts
  Types <- MCTypes
  ModalTypes <- MCModalTypes
  Modes <- MCModes
  Capacity = 2
  MaxBurst = 2
  MaxEvents = 3
  MaxWrites = 7
  Malformed <- MCShortAttach
SPECIFICATION Spec
CHECK_DEADLOCK FALSE
INVARIANTS
  TypeOK
  Mirror
  ValueSeesItsMode
  ReadyKnowsIdentity
  GoodbyeIsLast
