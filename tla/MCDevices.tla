------------------------------ MODULE MCDevices ------------------------------
(* Every device type of protocol/consts.rs and three unknown ones, two of   *)
(* them beyond a byte; numbers at the edges of their widths and codings.    *)
EXTENDS Devices

MCTypes     == DeviceTypes \cup {99, 293, 65535}
MCModes     == {0, 1, 2, 3, 4, 8}
MCRaws      == 0..65535
MCWords     == {0, 255, 256, 65535}
MCBytes     == {0, 1, 2, 10, 17, 100, 127, 128, 255}
MCPositions == {0, 1, -1, 255, -256, 65536, 2147483647, -2147483647 - 1}
MCTurns     == {<<0, 0>>, <<360, 0>>, <<65535, 0>>, <<0, 1>>, <<65535, 32767>>, <<0, 32768>>, <<65535, 65535>>}
MCSpeeds    == {-128, -101, -100, -1, 0, 1, 100, 101, 126, 127}
MCPictures  == {<<>>, <<9, 3, NoColor>>, [k \in 1..9 |-> k], [k \in 1..10 |-> k]}
=============================================================================
