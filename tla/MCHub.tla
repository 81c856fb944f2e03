-------------------------------- MODULE MCHub --------------------------------
(* Small instances of Hub: two ports, one of them virtual; one device type  *)
(* that follows mode changes and one that does not.                         *)
EXTENDS Hub
CONSTANTS tacho, plain, noType, noDevice

MCPorts        == {0, 1}
MCOnePort      == {0}
MCVirtualPorts == {1}
MCNoPorts      == {}
MCTypes        == {tacho, plain}
MCModalTypes   == {tacho}
MCModes        == {0, 1}

MCWhole        == {}
MCShortAttach  == {"HubAttachedIo"}
MCShort        == {"HubProperty", "HubAttachedIo"}
=============================================================================
