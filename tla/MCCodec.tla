------------------------------- MODULE MCCodec -------------------------------
(* Frames of every message type, up to an attach event with one byte to     *)
(* spare.  The first payload bytes are discriminants, ports and modes; of   *)
(* those behind them some vary and the others tell their position.          *)
EXTENDS Codec

MCTypes  == {1, 2, 3, 4, 5, 33, 65, 69, 71, 129, 130, 254}
MCFirst  == {0, 1, 2, 3, 16, 255}
MCSecond == {0, 1, 2, 5, 34, 255}

MCChoices ==
  [k \in 2..16 |-> CASE k = 2 -> {0}
                     [] k = 3 -> MCTypes
                     [] k = 4 -> MCFirst
                     [] k = 5 -> MCSecond
                     [] k \in 6..7 -> {0, 34, 255}
                     [] k \in {10, 11} -> {0, 255}
                     [] OTHER -> {15 * k}]
=============================================================================
