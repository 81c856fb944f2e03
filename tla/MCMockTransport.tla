--------------------------- MODULE MCMockTransport ---------------------------
(* A small instance of MockTransport.  Tasks are interchangeable, and so    *)
(* are characteristics: the run looks at them up to MCSymmetry.             *)
EXTENDS MockTransport, TLC
CONSTANTS lpf2, other, t1, t2

MCChars    == {lpf2, other}
MCTwoTasks == {t1, t2}
MCSymmetry == Permutations(MCTwoTasks) \cup Permutations(MCChars)
=============================================================================
