---------------------------- MODULE MCFrameBuffer ----------------------------
(* Empty and full frames, and two whose length byte wraps, to 0 and to 1;   *)
(* the payload bytes 0 and 2 both look like lengths.                        *)
EXTENDS FrameBuffer

MCBodies == {<<>>, <<2>>, <<0, 2>>, <<2, 0>>, <<2, 2, 0>>, <<2, 2, 2, 0>>}
=============================================================================
