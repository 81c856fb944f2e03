----------------------------- MODULE FrameBuffer -----------------------------
(***************************************************************************)
(* Framing: message::encode puts a length byte in front of a message, and  *)
(* FrameBuffer::push finds the messages again in a byte stream that the    *)
(* BLE link cut into chunks without regard to them.                        *)
(*                                                                         *)
(* The stream is kept whole, so a place where the buffer cuts it can be    *)
(* told by its distance from the start; a frame is what lies between two   *)
(* neighbouring cuts.                                                      *)
(***************************************************************************)
EXTENDS Naturals, SequencesExt

CONSTANTS
  Bodies,     (* encoded bodies, type byte included                        *)
  ByteWrap,   (* values of a length byte: 256 in the code                  *)
  MaxFrames   (* bound: frames sent                                        *)

ASSUME FramingAssumption ==
  /\ Bodies \subseteq Seq(Nat)
  /\ ByteWrap \in Nat \ {0} /\ MaxFrames \in Nat

VARIABLES
  stream,  (* every byte the peer put on the link                          *)
  ends,    (* where its frames end, and 0                                  *)
  got,     (* how many bytes have reached the host                         *)
  buf,     (* FrameBuffer::buf                                             *)
  cuts     (* where push has cut the stream, and 0                         *)

vars == <<stream, ends, got, buf, cuts>>

\* A mutant of Encode: the length does not count the reserved byte.
Encode_short(body) == <<(Len(body) + 1) % ByteWrap, 0>> \o body

\* message::encode: the total length, cast to a byte, a reserved byte, the
\* body.  A body that is too long makes the cast wrap.
Encode(body) == <<(Len(body) + 2) % ByteWrap, 0>> \o body

Init ==
  /\ stream = <<>> /\ ends = {0} /\ got = 0
  /\ buf = <<>> /\ cuts = {0}

\* The peer sends a frame.
Send(body) ==
  /\ Cardinality(ends) <= MaxFrames
  /\ stream' = stream \o Encode(body)
  /\ ends' = ends \cup {Len(stream')}
  /\ UNCHANGED <<got, buf, cuts>>

\* Mutants of Complete: the last byte of a frame is not waited for; the
\* frame is only seen once a byte follows it.
Complete_early(b, i) == i < Len(b) /\ b[i + 1] # 0 /\ i + b[i + 1] <= Len(b) + 1
Complete_late(b, i)  == i < Len(b) /\ b[i + 1] # 0 /\ i + b[i + 1] < Len(b)

\* The test of push: buffer b holds a whole frame after its first i bytes.
Complete(b, i) == i < Len(b) /\ b[i + 1] # 0 /\ i + b[i + 1] <= Len(b)

\* Where a frame that is complete would end, over all places it could start.
FrameEnds(b) == {i + b[i + 1] : i \in {j \in 0..Len(b) : Complete(b, j)}}

\* The cuts `collect' makes in b: from the start on, behind every frame that
\* is complete, and nowhere else.
Drained(b, cs) ==
  /\ 0 \in cs
  /\ \A i \in cs : Complete(b, i) => i + b[i + 1] \in cs
  /\ \A j \in cs \ {0} : \E i \in cs : Complete(b, i) /\ j = i + b[i + 1]

\* FrameBuffer::push of a chunk of n bytes.
Push(n) ==
  /\ n >= 1 /\ got + n <= Len(stream)
  /\ LET b    == buf \o SubSeq(stream, got + 1, got + n)
         base == got - Len(buf)
     IN  \E cs \in SUBSET ({0} \cup FrameEnds(b)) :
           /\ Drained(b, cs)
           /\ cuts' = cuts \cup {base + c : c \in cs}
           /\ buf' = SubSeq(b, Max(cs) + 1, Len(b))
  /\ got' = got + n
  /\ UNCHANGED <<stream, ends>>

PushSome == \E n \in 1..Len(stream) : Push(n)

Next == PushSome \/ \E body \in Bodies : Send(body)

Spec == Init /\ [][Next]_vars /\ WF_vars(PushSome)

-----------------------------------------------------------------------------
(***************************************************************************)
(* Properties.                                                             *)
(***************************************************************************)

\* Every variable has its type.
TypeOK ==
  /\ stream \in Seq(Nat) /\ buf \in Seq(Nat)
  /\ got \in 0..Len(stream)
  /\ ends \subseteq 0..Len(stream) /\ cuts \subseteq 0..got

\* The frame ends up to the first frame whose length does not fit a byte.
SoundEnds ==
  {e \in ends : \A d \in ends : d < e =>
     \E next \in ends : d < next /\ next <= e /\ next - d < ByteWrap}

(***************************************************************************)
(* The buffer cuts the stream where the peer ended a frame and nowhere     *)
(* else, and does so with the very chunk that completes the frame; what it *)
(* keeps is the beginning of the next one.  A frame whose length wrapped   *)
(* spoils what follows it and nothing that came before it.                 *)
(***************************************************************************)
CutsAtFrameEnds ==
  /\ {c \in cuts : c <= Max(SoundEnds)} = {e \in SoundEnds : e <= got}
  /\ got <= Max(SoundEnds) => buf = SubSeq(stream, Max(cuts) + 1, got)

(***************************************************************************)
(* The buffer never holds a complete frame back.  Unless a length wrapped  *)
(* (a first byte of 0 is never removed) it holds less than one frame.      *)
(***************************************************************************)
BufferIsPartial == ~Complete(buf, 0) /\ (SoundEnds = ends => Len(buf) < ByteWrap)

\* The frames between the cuts in cs, in order.
FramesBetween(cs) ==
  LET at(k) == CHOOSE e \in cs : Cardinality({d \in cs : d < e}) = k
  IN  [k \in 1..Cardinality(cs) - 1 |-> SubSeq(stream, at(k - 1) + 1, at(k))]

Fifo == INSTANCE FrameFifo WITH
  Messages <- {Encode(body) : body \in Bodies},
  sent     <- FramesBetween(SoundEnds),
  received <- FramesBetween({c \in cuts : c <= Max(SoundEnds)})

\* A FrameBuffer fed with any chunks is a first-in first-out queue of whole
\* frames that delivers everything the peer sent before a length wrapped.
ImplementsFifo == Fifo!Spec
=============================================================================
