CONSTANTS
  Peers <- MCPeers
  Services <- MCServices
  Bytes <- MCBytes
  Names <- MCNames
SPECIFICATION Spec
CHECK_DEADLOCK FALSE
INVARIANTS
  TypeOK
  NeverMistaken
  Wedo2PortsAgree
  Wedo2Understood
PROPERTY Found
