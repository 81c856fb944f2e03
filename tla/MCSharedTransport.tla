-------------------------- MODULE MCSharedTransport --------------------------
(* Two handles on one transport and one flushing task.                      *)
EXTENDS SharedTransport
CONSTANTS lpf2, h1, h2, t1

MCChars   == {lpf2}
MCTasks   == {t1}
MCHandles == {h1, h2}
=============================================================================
