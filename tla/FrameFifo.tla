------------------------------ MODULE FrameFifo ------------------------------
(***************************************************************************)
(* What a FrameBuffer promises to whoever reads from it: the frames the    *)
(* peer sent, complete, each once, in order, and all of them in the end.   *)
(* How the link cuts the byte stream into notifications does not show.     *)
(***************************************************************************)
EXTENDS Naturals, Sequences

CONSTANT Messages  \* the frames a peer may send

VARIABLES
  sent,     (* the frames sent                                             *)
  received  (* the frames handed to the reader                             *)

Init == sent = <<>> /\ received = <<>>

Send(m) ==
  /\ sent' = Append(sent, m)
  /\ UNCHANGED received

\* The next frames that have arrived, however many, are handed over at once.
Receive ==
  /\ \E k \in Len(received) + 1 .. Len(sent) : received' = SubSeq(sent, 1, k)
  /\ UNCHANGED sent

Next == Receive \/ \E m \in Messages : Send(m)

\* Never a frame that was not sent, a piece of one, one twice or out of turn.
Safety == Init /\ [][Next]_<<sent, received>>

Spec == Safety /\ WF_<<sent, received>>(Receive)
=============================================================================
