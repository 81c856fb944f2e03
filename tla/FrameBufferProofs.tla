--------------------------- MODULE FrameBufferProofs ---------------------------
(***************************************************************************)
(* What TLAPS proves of FrameBuffer, for frames of any number and length,  *)
(* lengths that wrap included, and for every way to cut the stream into    *)
(* chunks.                                                                 *)
(***************************************************************************)
EXTENDS FrameBuffer, FiniteSetTheorems, SequenceTheorems, TLAPS

-----------------------------------------------------------------------------
(***************************************************************************)
(* Least and greatest numbers, which stand in for induction.               *)
(***************************************************************************)

\* A set of numbers has a least one: the intervals 1..x are well-founded.
LEMMA LeastMember ==
  ASSUME NEW S \in SUBSET Nat, S # {}
  PROVE  \E x \in S : \A y \in S : x <= y
<1> DEFINE Below(x) == 1..x
           T == {Below(x) : x \in S}
           R == StrictSubsetOrdering(Nat)
<1>1. IsWellFoundedOn(R, FiniteSubsetsOf(Nat))
  BY FS_StrictSubsetOrderingWellFounded
<1>2. \A x \in S : Below(x) \in FiniteSubsetsOf(Nat)
  <2> SUFFICES ASSUME NEW x \in S PROVE Below(x) \in FiniteSubsetsOf(Nat)
    OBVIOUS
  <2>1. IsFiniteSet(Below(x))
    BY FS_Interval
  <2>2. Below(x) \in SUBSET Nat
    OBVIOUS
  <2> QED BY <2>1, <2>2 DEF FiniteSubsetsOf
<1>3. \A x, y \in S : y < x => <<Below(y), Below(x)>> \in R
  <2> SUFFICES ASSUME NEW x \in S, NEW y \in S, y < x PROVE <<Below(y), Below(x)>> \in R
    OBVIOUS
  <2>1. Below(y) \in SUBSET Nat /\ Below(x) \in SUBSET Nat /\ Below(y) \subseteq Below(x)
    OBVIOUS
  <2>2. x \in Below(x) /\ x \notin Below(y)
    OBVIOUS
  <2> HIDE DEF Below
  <2> QED BY <2>1, <2>2 DEF StrictSubsetOrdering
<1> HIDE DEF R, Below
<1>4. T \subseteq FiniteSubsetsOf(Nat) /\ T # {}
  BY <1>2
<1>5. PICK B \in T : \A C \in T : ~(<<C, B>> \in R)
  BY <1>1, <1>4, WFMin, Zenon
<1>6. PICK x \in S : B = Below(x)
  OBVIOUS
<1>7. \A y \in S : ~(y < x)
  BY <1>3, <1>5, <1>6
<1> QED BY <1>7

\* A set of numbers with a bound has a greatest one, and Max is that.
LEMMA GreatestMember ==
  ASSUME NEW n \in Nat, NEW S \in SUBSET (0..n), S # {}
  PROVE  Max(S) \in S /\ \A y \in S : y <= Max(S)
<1> DEFINE T == {n - x : x \in S}
<1>1. T \in SUBSET Nat /\ T # {}
  OBVIOUS
<1>2. PICK t \in T : \A u \in T : t <= u
  BY <1>1, LeastMember
<1>3. PICK x \in S : t = n - x
  OBVIOUS
<1>4. \A y \in S : x >= y
  BY <1>2, <1>3
<1>5. Max(S) \in S /\ \A y \in S : Max(S) >= y
  BY <1>4 DEF Max
<1> QED BY <1>5

-----------------------------------------------------------------------------
(***************************************************************************)
(* The inductive invariant.                                                *)
(***************************************************************************)

\* Where the buffer begins in the stream.
Base == got - Len(buf)

\* Two ends with no other in between.
Frame(d, e) == d \in ends /\ e \in ends /\ d < e /\ \A x \in ends : x <= d \/ e <= x

\* The stream is made of frames; the first byte of each is its length, cast.
Framed ==
  /\ 0 \in ends /\ Len(stream) \in ends
  /\ \A d, e \in ends : Frame(d, e) => e >= d + 2 /\ stream[d + 1] = (e - d) % ByteWrap

\* The buffer is what has come behind the last cut, and less than a frame.
Buffered ==
  /\ Base \in cuts /\ 0 \in cuts /\ \A c \in cuts : c <= Base
  /\ buf = SubSeq(stream, Base + 1, got)
  /\ ~Complete(buf, 0)

FInv == TypeOK /\ Framed /\ Buffered /\ CutsAtFrameEnds

-----------------------------------------------------------------------------
(***************************************************************************)
(* Ends and sound ends.                                                    *)
(***************************************************************************)

\* The greatest sound end.
LEMMA SoundMax ==
  ASSUME TypeOK, Framed
  PROVE  /\ Max(SoundEnds) \in SoundEnds /\ Max(SoundEnds) \in 0..Len(stream)
         /\ \A e \in SoundEnds : e <= Max(SoundEnds)
<1>1. Len(stream) \in Nat /\ ends \subseteq 0..Len(stream) /\ SoundEnds \subseteq ends
  BY DEF TypeOK, SoundEnds
<1>2. 0 \in SoundEnds
  BY DEF TypeOK, Framed, SoundEnds
<1> QED BY <1>1, <1>2, GreatestMember

\* What comes before a sound end is sound.
LEMMA SoundBefore ==
  ASSUME TypeOK, NEW e \in SoundEnds, NEW d \in ends, d <= e
  PROVE  d \in SoundEnds
<1> SUFFICES ASSUME NEW a \in ends, a < d
             PROVE  \E next \in ends : a < next /\ next <= d /\ next - a < ByteWrap
  BY DEF SoundEnds
<1>1. \A x \in ends : x \in Nat
  BY DEF TypeOK
<1>2. e \in ends /\ a < e
  BY <1>1 DEF SoundEnds
<1>3. PICK next \in ends : a < next /\ next <= e /\ next - a < ByteWrap
  BY <1>2 DEF SoundEnds
<1>4. CASE next <= d
  BY <1>3, <1>4
<1>5. CASE d < next
  BY <1>1, <1>3, <1>5, FramingAssumption
<1> QED BY <1>1, <1>4, <1>5

\* Behind every end but the last there is a frame, and in front of every end
\* but the first.
LEMMA NextEnd ==
  ASSUME TypeOK, NEW d \in ends, NEW e \in ends, d < e
  PROVE  /\ \E x \in ends : Frame(d, x) /\ x <= e
         /\ \E x \in ends : Frame(x, e) /\ d <= x
<1>1. Len(stream) \in Nat /\ ends \subseteq 0..Len(stream) /\ \A x \in ends : x \in Nat
  BY DEF TypeOK
<1>2. \E x \in ends : Frame(d, x) /\ x <= e
  <2> DEFINE S == {x \in ends : d < x}
  <2>1. S \in SUBSET Nat
    BY <1>1
  <2>2. PICK x \in S : \A y \in S : x <= y
    BY <2>1, e \in S, LeastMember
  <2> HIDE DEF S
  <2>3. x \in ends /\ d < x
    BY DEF S
  <2>4. \A y \in ends : y <= d \/ x <= y
    BY <1>1, <2>2 DEF S
  <2>5. x <= e
    BY <2>2 DEF S
  <2> QED BY <2>3, <2>4, <2>5 DEF Frame
<1>3. \E x \in ends : Frame(x, e) /\ d <= x
  <2> DEFINE S == {x \in ends : x < e}
  <2>1. S \in SUBSET (0..Len(stream)) /\ S # {}
    BY <1>1
  <2>2. Max(S) \in S /\ \A y \in S : y <= Max(S)
    BY <1>1, <2>1, GreatestMember
  <2>3. Max(S) \in ends /\ Max(S) < e /\ d <= Max(S)
    BY <2>2
  <2>4. \A y \in ends : y <= Max(S) \/ e <= y
    BY <1>1, <2>2
  <2> HIDE DEF S
  <2> QED BY <2>3, <2>4 DEF Frame
<1> QED BY <1>2, <1>3

\* The length byte of a frame that ends soundly is its length.
LEMMA SoundLength ==
  ASSUME TypeOK, Framed, NEW d, NEW e \in SoundEnds, Frame(d, e)
  PROVE  stream[d + 1] = e - d /\ e >= d + 2 /\ e - d < ByteWrap
<1>1. d \in Nat /\ e \in Nat /\ d < e /\ \A x \in ends : x \in Nat
  BY DEF Frame, TypeOK
<1>2. PICK next \in ends : d < next /\ next <= e /\ next - d < ByteWrap
  BY DEF SoundEnds, Frame
<1>3. next = e
  BY <1>1, <1>2 DEF Frame
<1>4. e >= d + 2 /\ stream[d + 1] = (e - d) % ByteWrap
  BY DEF Framed, Frame
<1>5. (e - d) % ByteWrap = e - d
  BY <1>1, <1>2, <1>3, FramingAssumption
<1> QED BY <1>2, <1>3, <1>4, <1>5
-----------------------------------------------------------------------------
(***************************************************************************)
(* A push.                                                                 *)
(***************************************************************************)

\* What push searches: the stream from the last cut up to what has come.
Searched(n) == buf \o SubSeq(stream, got + 1, got + n)

\* The bytes that push searches, one by one.
LEMMA SearchedBytes ==
  ASSUME TypeOK, Buffered, NEW n \in Nat, n >= 1, got + n <= Len(stream)
  PROVE  /\ Base \in Nat /\ Base <= got
         /\ Searched(n) \in Seq(Nat) /\ Len(Searched(n)) = got + n - Base
         /\ \A i \in 1..Len(Searched(n)) : Searched(n)[i] = stream[Base + i]
<1>1. stream \in Seq(Nat) /\ got \in Nat /\ Len(stream) \in Nat /\ Len(buf) \in Nat /\ buf \in Seq(Nat)
  BY DEF TypeOK
<1>2. Base \in Nat /\ Base <= got
  BY <1>1 DEF Buffered, TypeOK, Base
<1>3. got = Base + Len(buf)
  BY <1>1 DEF Base
<1> DEFINE s == SubSeq(stream, got + 1, got + n)
<1>4. s \in Seq(Nat) /\ Len(s) = n /\ \A i \in 1..n : s[i] = stream[got + i]
  <2>1. got + 1 \in Int /\ got + n \in Int /\ got + 1 <= got + n + 1 /\ 1 <= got + 1
    BY <1>1
  <2>2. s \in Seq(Nat) /\ Len(s) = n
    BY <1>1, <2>1
  <2>3. \A i \in 1..n : s[i] = stream[got + i]
    BY <1>1, <2>1
  <2> QED BY <2>2, <2>3
<1>5. buf = SubSeq(stream, Base + 1, got)
  BY DEF Buffered
<1>6. \A i \in 1..Len(buf) : buf[i] = stream[Base + i]
  BY <1>1, <1>2, <1>3, <1>5
<1> HIDE DEF s
<1>7. buf \o s \in Seq(Nat) /\ Len(buf \o s) = Len(buf) + n
  <2>1. buf \in Seq(Nat) /\ s \in Seq(Nat) /\ Len(s) = n
    BY <1>1, <1>4
  <2> QED BY <2>1, ConcatProperties
<1>8. \A i \in 1..Len(buf) + n : (buf \o s)[i] = IF i <= Len(buf) THEN buf[i] ELSE s[i - Len(buf)]
  BY <1>1, <1>4
<1>9. \A i \in 1..Len(buf) + n : (buf \o s)[i] = stream[Base + i]
  <2> SUFFICES ASSUME NEW i \in 1..Len(buf) + n PROVE (buf \o s)[i] = stream[Base + i]
    OBVIOUS
  <2>1. CASE i <= Len(buf)
    BY <1>1, <1>6, <1>8, <2>1
  <2>2. CASE i > Len(buf)
    <3>1. i - Len(buf) \in 1..n /\ got + (i - Len(buf)) = Base + i
      BY <1>1, <1>2, <1>3, <2>2
    <3>2. s[i - Len(buf)] = stream[Base + i]
      BY <1>4, <3>1
    <3>3. ~(i <= Len(buf))
      BY <1>1, <2>2
    <3> QED BY <1>8, <3>2, <3>3
  <2>3. i <= Len(buf) \/ i > Len(buf)
    BY <1>1
  <2> QED BY <2>1, <2>2, <2>3
<1>10. Searched(n) = buf \o s
  BY DEF Searched, s
<1>11. Len(buf) + n = got + n - Base
  BY <1>1, <1>2, <1>3
<1> HIDE DEF Base
<1> QED BY <1>2, <1>7, <1>9, <1>10, <1>11

\* Push cuts b between its first byte and its last.
LEMMA CutsInside ==
  ASSUME NEW b \in Seq(Nat), NEW cs \in SUBSET ({0} \cup FrameEnds(b)), Drained(b, cs)
  PROVE  cs \subseteq 0..Len(b) /\ Max(cs) \in cs /\ \A c \in cs : c <= Max(cs)
<1>1. Len(b) \in Nat
  OBVIOUS
<1>2. \A j \in FrameEnds(b) : j \in 0..Len(b)
  <2> SUFFICES ASSUME NEW i \in 0..Len(b), Complete(b, i) PROVE i + b[i + 1] \in 0..Len(b)
    BY DEF FrameEnds
  <2>1. i + 1 \in 1..Len(b)
    BY DEF Complete
  <2>2. b[i + 1] \in Nat
    BY <2>1
  <2> QED BY <1>1, <2>2 DEF Complete
<1>3. cs \in SUBSET (0..Len(b)) /\ cs # {}
  BY <1>1, <1>2 DEF Drained
<1> QED BY <1>1, <1>3, GreatestMember

\* A sound frame that starts in the buffer and has come is complete there,
\* and its first byte says where it ends.
LEMMA SoundIsComplete ==
  ASSUME TypeOK, Framed, Buffered, NEW n \in Nat, n >= 1, got + n <= Len(stream),
         NEW i \in Nat, NEW e \in SoundEnds, Frame(Base + i, e)
  PROVE  /\ Complete(Searched(n), i) => Base + (i + Searched(n)[i + 1]) = e
         /\ e <= got + n => Complete(Searched(n), i)
<1>1. stream[Base + i + 1] = e - (Base + i) /\ e >= Base + i + 2
  BY SoundLength
<1>2. /\ Base \in Nat /\ Base <= got /\ Len(Searched(n)) = got + n - Base
      /\ \A k \in 1..Len(Searched(n)) : Searched(n)[k] = stream[Base + k]
  BY SearchedBytes
<1>3. e \in Nat /\ got \in Nat
  BY DEF Frame, TypeOK
<1> DEFINE b == Searched(n)
<1>4. i < Len(b) => b[i + 1] = e - (Base + i)
  <2> SUFFICES ASSUME i < Len(b) PROVE b[i + 1] = e - (Base + i)
    OBVIOUS
  <2>1. i + 1 \in 1..Len(b)
    BY <1>2, <1>3
  <2>2. b[i + 1] = stream[Base + (i + 1)]
    BY <1>2, <2>1
  <2>3. Base + (i + 1) = Base + i + 1
    BY <1>2
  <2> QED BY <1>1, <2>2, <2>3
<1> HIDE DEF b, Base
<1>5. Complete(b, i) => Base + (i + b[i + 1]) = e
  BY <1>2, <1>3, <1>4 DEF Complete
<1>6. ASSUME e <= got + n PROVE Complete(b, i)
  <2>1. i < Len(b)
    BY <1>1, <1>2, <1>3, <1>6 DEF b
  <2>2. i + b[i + 1] <= Len(b) /\ b[i + 1] # 0
    BY <1>1, <1>2, <1>3, <1>4, <1>6, <2>1 DEF b
  <2> QED BY <2>1, <2>2 DEF Complete
<1> QED BY <1>5, <1>6 DEF b

\* From a sound end on, push cuts at every sound end that has come, and
\* nowhere else before the last one.
LEMMA WalkOfPush ==
  ASSUME TypeOK, Framed, Buffered, Base \in SoundEnds,
         NEW n \in Nat, n >= 1, got + n <= Len(stream),
         NEW cs \in SUBSET ({0} \cup FrameEnds(Searched(n))), Drained(Searched(n), cs)
  PROVE  /\ \A c \in cs : Base + c <= Max(SoundEnds) => Base + c \in SoundEnds
         /\ \A e \in SoundEnds : Base <= e /\ e <= got + n => e - Base \in cs
<1> DEFINE b == Searched(n)
           m == Max(SoundEnds)
<1>1. Base \in Nat /\ Base <= got /\ b \in Seq(Nat)
  BY SearchedBytes
<1>2. cs \subseteq 0..Len(b) /\ Len(b) \in Nat
  BY <1>1, CutsInside
<1>3. m \in SoundEnds /\ m \in Nat /\ SoundEnds \subseteq ends /\ ends \subseteq Nat /\ SoundEnds \subseteq Nat
  <2>1. m \in SoundEnds /\ \A e \in SoundEnds : e <= m
    BY SoundMax
  <2>2. SoundEnds \subseteq ends
    BY DEF SoundEnds
  <2>3. Len(stream) \in Nat /\ ends \subseteq 0..Len(stream)
    BY DEF TypeOK
  <2>4. ends \subseteq Nat
    BY <2>3
  <2> HIDE DEF m
  <2> QED BY <2>1, <2>2, <2>4
<1> HIDE DEF Base, m, b
<1>4. \A c \in cs : Base + c <= m => Base + c \in SoundEnds
  <2> DEFINE Wrong == {c \in cs : Base + c <= m /\ Base + c \notin SoundEnds}
  <2> SUFFICES ASSUME Wrong # {} PROVE FALSE
    OBVIOUS
  <2>1. PICK c \in Wrong : \A x \in Wrong : c <= x
    <3>1. Wrong \in SUBSET Nat
      <4>1. Wrong \subseteq 0..Len(b)
        BY <1>2
      <4> QED BY <1>2, <4>1
    <3> HIDE DEF Wrong
    <3> QED BY <3>1, LeastMember
  <2>2. c \in cs /\ c \in Nat /\ Base + c <= m /\ Base + c \notin SoundEnds
    BY <1>2, <2>1
  <2>3. c # 0
    BY <1>1, <2>2
  <2>4. PICK i \in cs : Complete(b, i) /\ c = i + b[i + 1]
    BY <2>2, <2>3 DEF Drained, b
  <2>5. i \in Nat /\ i < c
    <3>1. i \in 0..Len(b) /\ i < Len(b) /\ b[i + 1] # 0
      BY <1>2, <2>4 DEF Complete
    <3>2. b[i + 1] \in Nat
      BY <1>1, <3>1
    <3> QED BY <2>4, <3>1, <3>2
  <2>6. Base + i \in SoundEnds /\ Base + i < m
    BY <1>1, <1>3, <2>1, <2>2, <2>4, <2>5
  <2>7. PICK e \in ends : Frame(Base + i, e) /\ e <= m
    BY <1>3, <2>6, NextEnd
  <2>8. e \in SoundEnds
    BY <1>3, <2>7, SoundBefore
  <2>9. Base + c = e
    BY <2>4, <2>5, <2>7, <2>8, SoundIsComplete DEF b
  <2> QED BY <2>2, <2>8, <2>9
<1>5. \A e \in SoundEnds : Base <= e /\ e <= got + n => e - Base \in cs
  <2> DEFINE Missed == {e \in SoundEnds : Base <= e /\ e <= got + n /\ e - Base \notin cs}
  <2> SUFFICES ASSUME Missed # {} PROVE FALSE
    OBVIOUS
  <2>1. PICK e \in Missed : \A x \in Missed : e <= x
    <3>1. Missed \in SUBSET Nat
      BY <1>3
    <3> HIDE DEF Missed
    <3> QED BY <3>1, LeastMember
  <2>2. e \in SoundEnds /\ Base <= e /\ e <= got + n /\ e - Base \notin cs /\ e \in Nat /\ e \in ends
    BY <1>3, <2>1
  <2>3. 0 \in cs
    BY DEF Drained
  <2>4. Base < e
    BY <1>1, <2>2, <2>3
  <2>5. PICK d \in ends : Frame(d, e) /\ Base <= d
    BY <1>3, <2>2, <2>4, NextEnd
  <2>6. d \in Nat /\ d < e /\ d \in SoundEnds
    BY <1>3, <2>2, <2>5, SoundBefore DEF Frame
  <2>7. d \notin Missed
    BY <2>1, <2>2, <2>6
  <2>8. d - Base \in cs
    BY <1>1, <2>2, <2>5, <2>6, <2>7 DEF TypeOK
  <2> DEFINE i == d - Base
  <2>9. i \in Nat /\ Base + i = d
    BY <1>1, <2>5, <2>6
  <2>10. Complete(b, i) /\ Base + (i + b[i + 1]) = e
    BY <2>2, <2>5, <2>9, SoundIsComplete DEF b
  <2>11. i + b[i + 1] \in cs
    BY <2>8, <2>10 DEF Drained, b
  <2>12. i + b[i + 1] \in Nat
    <3>1. i + b[i + 1] \in 0..Len(b)
      BY <1>2, <2>11
    <3> QED BY <1>2, <3>1
  <2> DEFINE c == i + b[i + 1]
  <2> HIDE DEF c, i
  <2>13. Base + c = e /\ c \in cs /\ c \in Nat
    BY <2>10, <2>11, <2>12 DEF c
  <2>14. e - Base = c
    BY <1>1, <2>13
  <2> QED BY <2>2, <2>13, <2>14
<1> QED BY <1>4, <1>5 DEF m, b
\* The greatest of a set of numbers.
LEMMA MaxIs ==
  ASSUME NEW n \in Nat, NEW S \in SUBSET (0..n), NEW x \in S, \A y \in S : y <= x
  PROVE  Max(S) = x
<1>1. Max(S) \in S /\ \A y \in S : y <= Max(S)
  BY GreatestMember
<1>2. x \in 0..n /\ Max(S) \in 0..n
  BY <1>1
<1>3. x <= Max(S) /\ Max(S) <= x
  BY <1>1
<1> QED BY <1>2, <1>3

\* Two sequences of the same bytes of the stream.
LEMMA SameBytes ==
  ASSUME NEW s \in Seq(Nat), NEW t \in Seq(Nat), NEW b \in Nat, NEW g \in Nat,
         b <= g, g <= Len(s), Len(t) = g - b,
         \A i \in 1..g - b : t[i] = s[b + i]
  PROVE  t = SubSeq(s, b + 1, g)
<1> DEFINE u == SubSeq(s, b + 1, g)
<1>1. Len(s) \in Nat
  OBVIOUS
<1>2. b + 1 \in Int /\ g \in Int /\ \A i \in b + 1 .. g : s[i] \in Nat
  <2> SUFFICES ASSUME NEW i \in b + 1 .. g PROVE s[i] \in Nat
    OBVIOUS
  <2>1. i \in 1..Len(s)
    BY <1>1
  <2> QED BY <2>1
<1>3. u \in Seq(Nat) /\ Len(u) = g - b
  <2>1. u \in Seq(Nat) /\ Len(u) = IF b + 1 <= g THEN g - (b + 1) + 1 ELSE 0
    BY <1>2, SubSeqProperties
  <2> QED BY <2>1
<1>4. \A i \in 1..g - b : u[i] = s[b + i]
  <2>1. \A i \in 1..g - (b + 1) + 1 : u[i] = s[b + 1 + i - 1]
    BY <1>2, SubSeqProperties
  <2>2. g - (b + 1) + 1 = g - b /\ \A i \in 1..g - b : b + 1 + i - 1 = b + i
    OBVIOUS
  <2> HIDE DEF u
  <2> QED BY <2>1, <2>2
<1> HIDE DEF u
<1>5. Len(t) = Len(u) /\ \A i \in 1..Len(t) : t[i] = u[i]
  BY <1>3, <1>4
<1>6. t = u
  BY <1>3, <1>5, SeqEqual, Zenon
<1> QED BY <1>6 DEF u

\* What is left of b behind its last cut has no complete frame at its front.
LEMMA Rest ==
  ASSUME NEW b \in Seq(Nat), NEW cs \in SUBSET ({0} \cup FrameEnds(b)), Drained(b, cs),
         NEW x \in {Max(cs)}, NEW r \in {SubSeq(b, x + 1, Len(b))}
  PROVE  /\ x \in cs /\ x \in 0..Len(b) /\ \A c \in cs : c \in 0..x
         /\ r \in Seq(Nat) /\ Len(r) = Len(b) - x /\ \A i \in 1..Len(b) - x : r[i] = b[x + i]
         /\ ~Complete(r, 0)
<1>0. r = SubSeq(b, x + 1, Len(b))
  OBVIOUS
<1>1. cs \subseteq 0..Len(b) /\ x \in cs /\ \A c \in cs : c <= x
  BY CutsInside
<1>2. Len(b) \in Nat /\ x \in 0..Len(b) /\ x \in Nat
  BY <1>1
<1>3. \A c \in cs : c \in 0..x
  BY <1>1, <1>2
<1>4. r \in Seq(Nat) /\ Len(r) = Len(b) - x
  BY <1>0, <1>2
<1>5. \A i \in 1..Len(b) - x : r[i] = b[x + i]
  BY <1>0, <1>2
<1>6. ASSUME Complete(r, 0) PROVE FALSE
  <2>1. 0 < Len(r) /\ r[1] # 0 /\ r[1] <= Len(r)
    <3>1. 0 < Len(r) /\ r[0 + 1] # 0 /\ 0 + r[0 + 1] <= Len(r)
      BY <1>6 DEF Complete
    <3>2. 0 + 1 = 1
      OBVIOUS
    <3>3. r[1] # 0 /\ 0 + r[1] <= Len(r)
      BY <3>1, <3>2, Zenon
    <3>4. 1 \in 1..Len(r)
      BY <1>2, <1>4, <3>1
    <3>5. r[1] \in Nat
      BY <1>4, <3>4, ElementOfSeq
    <3> QED BY <1>4, <3>1, <3>3, <3>5
  <2>2. 1 \in 1..Len(b) - x /\ x + 1 \in 1..Len(b)
    BY <1>2, <1>4, <2>1
  <2>3. r[1] = b[x + 1] /\ b[x + 1] \in Nat
    BY <1>5, <2>2
  <2>4. Complete(b, x)
    <3>1. x < Len(b)
      BY <1>2, <2>2
    <3>2. b[x + 1] # 0
      BY <2>1, <2>3
    <3>3. b[x + 1] <= Len(b) - x
      BY <1>4, <2>1, <2>3
    <3>4. x + b[x + 1] <= Len(b)
      BY <1>2, <2>3, <3>3
    <3> QED BY <3>1, <3>2, <3>4 DEF Complete
  <2>5. x + b[x + 1] \in cs
    BY <1>1, <2>4 DEF Drained
  <2>6. x + b[x + 1] <= x
    BY <1>1, <2>5
  <2> QED BY <1>2, <2>1, <2>3, <2>6
<1> QED BY <1>1, <1>2, <1>3, <1>4, <1>5, <1>6

\* What a push of n bytes that cuts at cs does.
Pushed(n, cs) ==
  /\ stream' = stream /\ ends' = ends /\ got' = got + n
  /\ cuts' = cuts \cup {Base + c : c \in cs}
  /\ buf' = SubSeq(Searched(n), Max(cs) + 1, Len(Searched(n)))

\* What a push leaves in the buffer.
LEMMA BufferAfterPush ==
  ASSUME FInv, NEW n \in Nat, n >= 1, got + n <= Len(stream),
         NEW cs \in SUBSET ({0} \cup FrameEnds(Searched(n))), Drained(Searched(n), cs),
         Pushed(n, cs)
  PROVE  TypeOK' /\ Framed' /\ Buffered'
<1> DEFINE b == Searched(n)
           x == Max(cs)
<1>1. /\ Base \in Nat /\ Base <= got /\ got \in Nat /\ b \in Seq(Nat) /\ Len(b) = got + n - Base
      /\ \A i \in 1..Len(b) : b[i] = stream[Base + i]
  BY SearchedBytes DEF FInv, TypeOK
<1>2. /\ x \in cs /\ x \in 0..Len(b) /\ \A c \in cs : c \in 0..x
      /\ buf' \in Seq(Nat) /\ Len(buf') = Len(b) - x /\ \A i \in 1..Len(b) - x : buf'[i] = b[x + i]
      /\ ~Complete(buf', 0)
  <2>1. buf' \in {SubSeq(b, x + 1, Len(b))}
    BY DEF Pushed
  <2>2. b \in Seq(Nat) /\ cs \in SUBSET ({0} \cup FrameEnds(b)) /\ Drained(b, cs) /\ x \in {Max(cs)}
    BY <1>1
  <2> HIDE DEF b, x
  <2> QED BY <2>1, <2>2, Rest, Zenon
<1>3. cuts' = cuts \cup {Base + c : c \in cs} /\ got' = got + n /\ stream' = stream /\ ends' = ends
  BY DEF Pushed
<1>4. stream \in Seq(Nat) /\ Len(stream) \in Nat /\ ends \subseteq 0..Len(stream) /\ cuts \subseteq 0..got
  BY DEF FInv, TypeOK
<1>5. Base' = got' - Len(buf')
  BY DEF Base
<1>6. 0 \in cs /\ 0 \in cuts /\ \A c \in cuts : c <= Base
  BY DEF Drained, FInv, Buffered
<1> HIDE DEF b, x, Base
<1>7. x \in Nat /\ Len(b) \in Nat /\ x <= Len(b)
  BY <1>1, <1>2
<1>8. Base' = Base + x /\ Base' <= got' /\ Base' \in Nat /\ got' - Base' = Len(b) - x /\ got' \in Nat
  <2>1. Len(buf') = Len(b) - x /\ got' = got + n
    BY <1>2, <1>3
  <2>2. Base' = Base + x
    BY <1>1, <1>5, <1>7, <2>1
  <2>3. got' = Base + Len(b) /\ got' \in Nat
    BY <1>1, <1>3
  <2> QED BY <1>1, <1>7, <2>2, <2>3
<1>9. \A c \in cs : c \in Nat /\ Base + c <= Base'
  BY <1>1, <1>2, <1>7, <1>8
<1>10. \A c \in cuts : c \in Nat /\ c <= Base'
  BY <1>1, <1>4, <1>6, <1>7, <1>8
<1>11. \A c \in cuts' : c \in Nat /\ c <= Base'
  BY <1>1, <1>3, <1>9, <1>10
<1>12. TypeOK'
  <2>1. cuts' \subseteq 0..got'
    BY <1>8, <1>11
  <2>2. got' \in 0..Len(stream)
    BY <1>3, <1>4, <1>8
  <2> QED BY <1>2, <1>3, <1>4, <2>1, <2>2 DEF TypeOK
<1>13. Framed'
  BY <1>3 DEF FInv, Framed, Frame
<1>14. buf' = SubSeq(stream', Base' + 1, got')
  <2>1. ASSUME NEW i \in 1..got' - Base' PROVE buf'[i] = stream[Base' + i]
    <3>1. i \in 1..Len(b) - x
      BY <1>8
    <3>2. x + i \in 1..Len(b) /\ Base + (x + i) = Base' + i
      BY <1>1, <1>7, <1>8, <3>1
    <3>3. b[x + i] = stream[Base + (x + i)] /\ buf'[i] = b[x + i]
      BY <1>1, <1>2, <3>1, <3>2
    <3> QED BY <3>2, <3>3
  <2>2. buf' \in Seq(Nat) /\ Len(buf') = got' - Base'
    BY <1>2, <1>8
  <2>3. stream \in Seq(Nat) /\ got' <= Len(stream) /\ Base' \in Nat /\ got' \in Nat /\ Base' <= got'
    BY <1>3, <1>4, <1>8
  <2>4. buf' = SubSeq(stream, Base' + 1, got')
    BY <2>1, <2>2, <2>3, SameBytes, Zenon
  <2> QED BY <1>3, <2>4
<1>15. Base' \in cuts' /\ 0 \in cuts'
  BY <1>2, <1>3, <1>6, <1>8
<1> QED BY <1>2, <1>11, <1>12, <1>13, <1>14, <1>15 DEF Buffered

\* A push keeps the invariant.
LEMMA PushKeeps ==
  ASSUME FInv, NEW n \in 1..Len(stream), Push(n)
  PROVE  FInv'
<1>1. n \in Nat /\ n >= 1 /\ got + n <= Len(stream)
  BY DEF Push, FInv, TypeOK
<1>2. PICK cs \in SUBSET ({0} \cup FrameEnds(Searched(n))) :
        Drained(Searched(n), cs) /\ Pushed(n, cs)
  BY DEF Push, Pushed, Searched, Base
<1>3. /\ stream' = stream /\ ends' = ends /\ got' = got + n
      /\ cuts' = cuts \cup {Base + c : c \in cs}
  BY <1>2 DEF Pushed
<1>4. TypeOK' /\ Framed' /\ Buffered'
  BY <1>1, <1>2, BufferAfterPush
<1> DEFINE m == Max(SoundEnds)
<1>5. SoundEnds' = SoundEnds
  BY <1>3 DEF SoundEnds
<1>6. m \in SoundEnds /\ m \in Nat /\ \A e \in SoundEnds : e <= m /\ e \in Nat
  <2>1. Len(stream) \in Nat /\ ends \subseteq 0..Len(stream) /\ SoundEnds \subseteq ends
    BY DEF FInv, TypeOK, SoundEnds
  <2>2. \A e \in SoundEnds : e \in Nat
    BY <2>1
  <2> QED BY <2>2, SoundMax DEF FInv
<1>7. /\ Base \in cuts /\ Base \in Nat /\ Base <= got /\ got \in Nat /\ cuts \subseteq 0..got
      /\ \A c \in cuts : c <= Base
  BY <1>1, SearchedBytes DEF FInv, TypeOK, Buffered
<1>8. /\ \A c \in cuts : c <= m => c \in SoundEnds /\ c <= got
      /\ \A e \in SoundEnds : e <= got => e \in cuts
  BY DEF FInv, CutsAtFrameEnds
<1>9. \A c \in cs : c \in Nat /\ Base + c <= got + n
  <2>1. Searched(n) \in Seq(Nat) /\ Len(Searched(n)) = got + n - Base
    BY <1>1, SearchedBytes DEF FInv
  <2>2. cs \subseteq 0..got + n - Base
    BY <1>2, <2>1, CutsInside
  <2> QED BY <1>1, <1>7, <2>2
<1>10. Base <= m => /\ \A c \in cs : Base + c <= m => Base + c \in SoundEnds
                    /\ \A e \in SoundEnds : Base <= e /\ e <= got + n => e - Base \in cs
  <2> SUFFICES ASSUME Base <= m PROVE Base \in SoundEnds
    BY <1>1, <1>2, WalkOfPush DEF FInv
  <2> QED BY <1>7, <1>8
<1> HIDE DEF Base, m
<1>11. ASSUME NEW c \in cuts', c <= m PROVE c \in SoundEnds /\ c <= got'
  <2>1. CASE c \in cuts
    BY <1>1, <1>3, <1>7, <1>8, <1>11, <2>1
  <2>2. CASE c \notin cuts
    <3>1. PICK k \in cs : c = Base + k
      BY <1>3, <2>2
    <3>2. Base <= m
      BY <1>6, <1>7, <1>9, <1>11, <3>1
    <3> QED BY <1>3, <1>9, <1>10, <1>11, <3>1, <3>2
  <2> QED BY <2>1, <2>2
<1>12. ASSUME NEW e \in SoundEnds, e <= got' PROVE e \in cuts' /\ e <= m
  <2>1. CASE e <= Base
    <3>1. e \in cuts
      BY <1>6, <1>7, <1>8, <2>1
    <3> QED BY <1>3, <1>6, <3>1
  <2>2. CASE Base < e
    <3>1. e \in Nat /\ e <= got + n /\ Base <= e /\ Base <= m /\ e = Base + (e - Base)
      BY <1>3, <1>6, <1>7, <1>12, <2>2
    <3>2. e - Base \in cs
      BY <1>10, <3>1
    <3> QED BY <1>3, <1>6, <3>1, <3>2
  <2> QED BY <1>6, <1>7, <2>1, <2>2
<1>13. CutsAtFrameEnds'
  <2>1. Max(cuts') = Base'
    <3>1. got' \in Nat /\ cuts' \in SUBSET (0..got')
      BY <1>4, <1>3, <1>7, <1>1 DEF TypeOK
    <3> QED BY <1>4, <3>1, MaxIs DEF Buffered
  <2>2. {c \in cuts' : c <= m} = {e \in SoundEnds : e <= got'}
    BY <1>11, <1>12
  <2>3. Max(SoundEnds)' = m
    BY <1>5 DEF m
  <2>4. buf' = SubSeq(stream', Max(cuts') + 1, got')
    BY <1>4, <2>1 DEF Buffered
  <2> QED BY <1>5, <2>2, <2>3, <2>4 DEF CutsAtFrameEnds
<1> QED BY <1>4, <1>13 DEF FInv
-----------------------------------------------------------------------------
(***************************************************************************)
(* A frame is sent.                                                        *)
(***************************************************************************)

\* The stream behind the new frame, its end, and its length byte.
LEMMA Sent ==
  ASSUME TypeOK, NEW body \in Bodies, Send(body)
  PROVE  /\ stream' \in Seq(Nat) /\ Len(stream') = Len(stream) + Len(body) + 2
         /\ stream'[Len(stream) + 1] = (Len(body) + 2) % ByteWrap
         /\ \A i \in 1..Len(stream) : stream'[i] = stream[i]
         /\ ends' = ends \cup {Len(stream')} /\ got' = got /\ buf' = buf /\ cuts' = cuts
<1> DEFINE x == Encode(body)
           k == (Len(body) + 2) % ByteWrap
<1>1. stream \in Seq(Nat) /\ body \in Seq(Nat) /\ Len(body) \in Nat /\ Len(stream) \in Nat
  BY FramingAssumption DEF TypeOK
<1>2. k \in Nat
  BY <1>1, FramingAssumption
<1>3. x = <<k, 0>> \o body
  BY DEF Encode
<1> HIDE DEF k, x
<1>4. <<k, 0>> \in Seq(Nat) /\ Len(<<k, 0>>) = 2 /\ <<k, 0>>[1] = k
  BY <1>2
<1>5. x \in Seq(Nat) /\ Len(x) = Len(body) + 2 /\ x[1] = k
  BY <1>1, <1>3, <1>4
<1>6. stream' = stream \o x /\ ends' = ends \cup {Len(stream')} /\ got' = got /\ buf' = buf /\ cuts' = cuts
  BY DEF Send, x
<1>7. stream' \in Seq(Nat) /\ Len(stream') = Len(stream) + Len(x)
  BY <1>1, <1>5, <1>6, ConcatProperties
<1>8. stream'[Len(stream) + 1] = x[1] /\ \A i \in 1..Len(stream) : stream'[i] = stream[i]
  BY <1>1, <1>5, <1>6
<1>9. Len(stream) + Len(x) = Len(stream) + Len(body) + 2
  BY <1>1, <1>5
<1> QED BY <1>5, <1>6, <1>7, <1>8, <1>9 DEF k

\* Sending a frame keeps the shape of the stream.
LEMMA SendFrames ==
  ASSUME TypeOK, Framed, NEW body \in Bodies, Send(body)
  PROVE  Framed'
<1> DEFINE l == Len(stream)
           z == Len(stream')
<1>1. /\ stream' \in Seq(Nat) /\ z = l + Len(body) + 2
      /\ stream'[l + 1] = (Len(body) + 2) % ByteWrap
      /\ \A i \in 1..l : stream'[i] = stream[i]
      /\ ends' = ends \cup {z}
  BY Sent
<1>2. l \in Nat /\ ends \subseteq 0..l /\ 0 \in ends /\ l \in ends /\ Len(body) \in Nat
  BY FramingAssumption DEF TypeOK, Framed
<1>3. z \in Nat /\ l < z /\ z - l = Len(body) + 2 /\ \A e \in ends : e \in Nat /\ e <= l
  BY <1>1, <1>2
<1>4. 0 \in ends' /\ Len(stream)' \in ends'
  BY <1>1, <1>2
<1> HIDE DEF l, z
<1>5. ASSUME NEW d \in ends', NEW e \in ends', d < e, \A x \in ends' : x <= d \/ e <= x
      PROVE  e >= d + 2 /\ stream'[d + 1] = (e - d) % ByteWrap
  <2>1. CASE e \in ends
    <3>1. d \in ends
      <4>1. d = z => z < e /\ e \in Nat /\ e <= l
        BY <1>3, <1>5, <2>1
      <4>2. d # z
        BY <1>2, <1>3, <4>1
      <4> QED BY <1>1, <1>5, <4>2
    <3>2. Frame(d, e)
      BY <1>1, <1>5, <2>1, <3>1 DEF Frame
    <3>3. e >= d + 2 /\ stream[d + 1] = (e - d) % ByteWrap
      BY <2>1, <3>1, <3>2 DEF Framed
    <3>4. d + 1 \in 1..l
      BY <1>2, <1>3, <1>5, <2>1, <3>1
    <3> QED BY <1>1, <3>3, <3>4
  <2>2. CASE e \notin ends
    <3>1. e = z /\ d \in ends
      BY <1>1, <1>3, <1>5, <2>2
    <3>2. l <= d
      BY <1>1, <1>2, <1>3, <1>5, <3>1
    <3>3. d = l
      BY <1>2, <1>3, <3>1, <3>2
    <3> QED BY <1>1, <1>2, <1>3, <3>1, <3>3
  <2> QED BY <2>1, <2>2
<1> QED BY <1>4, <1>5 DEF Framed, Frame

\* A new frame leaves the sound ends as they are, and adds its own if the
\* stream was sound so far.
LEMMA SendSound ==
  ASSUME TypeOK, Framed, NEW body \in Bodies, Send(body)
  PROVE  /\ \A e \in ends : e \in SoundEnds' <=> e \in SoundEnds
         /\ \A e \in SoundEnds' : e \in ends \/ (e = Len(stream') /\ Len(stream) \in SoundEnds)
<1> DEFINE l == Len(stream)
           z == Len(stream')
<1>1. ends' = ends \cup {z} /\ z = l + Len(body) + 2
  BY Sent
<1>2. l \in Nat /\ ends \subseteq 0..l /\ l \in ends /\ Len(body) \in Nat
  BY FramingAssumption DEF TypeOK, Framed
<1>3. z \in Nat /\ l < z /\ \A e \in ends : e \in Nat /\ e <= l
  BY <1>1, <1>2
<1> HIDE DEF l, z
<1>4. ASSUME NEW e \in ends PROVE e \in SoundEnds' <=> e \in SoundEnds
  <2>1. e \in Nat /\ e < z /\ ~(z <= e) /\ ~(z < e)
    BY <1>2, <1>3
  <2>2. \A x \in ends' : x <= e \/ x < e => x \in ends
    BY <1>1, <2>1
  <2> QED BY <1>1, <2>1, <2>2 DEF SoundEnds
<1>5. ASSUME NEW e \in SoundEnds', e \notin ends PROVE e = z /\ l \in SoundEnds
  <2>1. e = z
    BY <1>1, <1>5 DEF SoundEnds
  <2>2. ASSUME NEW a \in ends, a < l
        PROVE  \E next \in ends : a < next /\ next <= l /\ next - a < ByteWrap
    <3>1. a \in ends' /\ a < e
      BY <1>1, <1>2, <1>3, <2>1, <2>2
    <3>2. PICK next \in ends' : a < next /\ next <= z /\ next - a < ByteWrap
      BY <1>5, <2>1, <3>1 DEF SoundEnds
    <3>3. CASE next \in ends
      BY <1>3, <3>2, <3>3
    <3>4. CASE next \notin ends
      <4>1. next = z
        BY <1>1, <3>4
      <4>2. l - a < ByteWrap
        BY <1>2, <1>3, <3>2, <4>1, FramingAssumption
      <4> QED BY <1>2, <1>3, <2>2, <4>2
    <3> QED BY <3>3, <3>4
  <2> QED BY <1>2, <2>1, <2>2 DEF SoundEnds
<1> QED BY <1>4, <1>5 DEF l, z

\* Sending a frame keeps the invariant.
LEMMA SendKeeps ==
  ASSUME FInv, NEW body \in Bodies, Send(body)
  PROVE  FInv'
<1> DEFINE l == Len(stream)
           z == Len(stream')
           m == Max(SoundEnds)
           k == Max(SoundEnds')
<1>1. TypeOK /\ Framed /\ Buffered /\ CutsAtFrameEnds
  BY DEF FInv
<1>2. /\ stream' \in Seq(Nat) /\ z = l + Len(body) + 2
      /\ \A i \in 1..l : stream'[i] = stream[i]
      /\ ends' = ends \cup {z} /\ got' = got /\ buf' = buf /\ cuts' = cuts
  BY <1>1, Sent
<1>3. /\ l \in Nat /\ got \in Nat /\ got <= l /\ cuts \subseteq 0..got /\ ends \subseteq 0..l
      /\ stream \in Seq(Nat) /\ buf \in Seq(Nat) /\ Len(body) \in Nat
  BY <1>1, FramingAssumption DEF TypeOK
<1>4. z \in Nat /\ l < z /\ \A e \in ends : e \in Nat /\ e <= l
  BY <1>2, <1>3
<1>5. Framed'
  BY <1>1, SendFrames
<1>6. TypeOK'
  <2>1. got \in 0..z
    <3> HIDE DEF l, z
    <3> QED BY <1>3, <1>4
  <2>2. ASSUME NEW e \in ends PROVE e \in 0..z
    <3>1. e \in 0..l
      BY <1>3
    <3> HIDE DEF l, z
    <3> QED BY <1>3, <1>4, <3>1
  <2>3. z \in 0..z
    <3> HIDE DEF z
    <3> QED BY <1>4
  <2>4. ends' \subseteq 0..z
    <3> HIDE DEF z
    <3> QED BY <1>2, <2>2, <2>3
  <2> QED BY <1>2, <1>3, <2>1, <2>4 DEF TypeOK
<1>7. Base' = Base /\ Base \in Nat /\ Base <= got /\ Len(buf) = got - Base /\ Len(buf) \in Nat
  <2>1. Len(buf) \in Nat /\ Base \in cuts
    BY <1>1, <1>3 DEF Buffered
  <2> QED BY <1>2, <1>3, <2>1 DEF Base
<1> HIDE DEF Base
<1>8. buf = SubSeq(stream', Base + 1, got)
  <2>1. buf = SubSeq(stream, Base + 1, got)
    BY <1>1 DEF Buffered
  <2>2. \A i \in 1..got - Base : Base + i \in 1..l
    BY <1>3, <1>7
  <2>3. \A i \in 1..got - Base : buf[i] = stream[Base + i]
    BY <1>3, <1>7, <2>1, <2>2
  <2>4. \A i \in 1..got - Base : buf[i] = stream'[Base + i]
    BY <1>2, <2>2, <2>3
  <2>5. got <= z
    BY <1>3, <1>4
  <2> HIDE DEF l, z
  <2>6. stream' \in Seq(Nat) /\ got <= Len(stream')
    BY <1>2, <2>5 DEF z
  <2> QED BY <1>3, <1>7, <2>4, <2>6, SameBytes, Zenon
<1>9. Buffered'
  <2>1. buf' = SubSeq(stream', Base' + 1, got')
    BY <1>2, <1>7, <1>8
  <2> QED BY <1>1, <1>2, <1>7, <2>1 DEF Buffered
<1>10. /\ m \in SoundEnds /\ \A e \in SoundEnds : e <= m
       /\ SoundEnds \subseteq ends
  BY <1>1, SoundMax DEF SoundEnds
<1>11. /\ \A e \in ends : e \in SoundEnds' <=> e \in SoundEnds
       /\ \A e \in SoundEnds' : e \in ends \/ (e = z /\ l \in SoundEnds)
  BY <1>1, SendSound
<1> HIDE DEF l, z, m
<1>12. k \in SoundEnds' /\ \A e \in SoundEnds' : e <= k
  <2>1. ASSUME NEW e \in SoundEnds' PROVE e \in 0..z
    <3>1. CASE e \in ends
      BY <1>3, <1>4, <3>1
    <3>2. CASE e = z
      BY <1>4, <3>2
    <3> QED BY <1>11, <3>1, <3>2
  <2>2. m \in SoundEnds'
    BY <1>10, <1>11
  <2>3. SoundEnds' \in SUBSET (0..z) /\ SoundEnds' # {}
    BY <2>1, <2>2
  <2>4. Max(SoundEnds') \in SoundEnds' /\ \A e \in SoundEnds' : e <= Max(SoundEnds')
    BY <1>4, <2>3, GreatestMember, Zenon
  <2> QED BY <2>4
<1>13. {c \in cuts : c <= m} = {e \in SoundEnds : e <= got}
  BY <1>1 DEF CutsAtFrameEnds, m
<1> HIDE DEF k
<1>14. {e \in SoundEnds' : e <= got} = {e \in SoundEnds : e <= got}
  <2>1. ~(z <= got)
    BY <1>3, <1>4
  <2>2. ASSUME NEW e \in SoundEnds', e <= got PROVE e \in SoundEnds
    BY <1>11, <2>1, <2>2
  <2>3. ASSUME NEW e \in SoundEnds PROVE e \in SoundEnds'
    BY <1>10, <1>11
  <2> QED BY <2>2, <2>3
<1>15. \A c \in cuts : c <= k <=> c <= m
  <2>1. m \in Nat /\ m <= l /\ m \in SoundEnds'
    BY <1>4, <1>10, <1>11
  <2>2. k \in Nat /\ m <= k
    BY <1>4, <1>11, <1>12, <2>1
  <2>3. \A c \in cuts : c \in Nat /\ c <= l
    BY <1>3
  <2>4. CASE k = m
    BY <2>4
  <2>5. CASE k # m /\ l \in SoundEnds
    <3>1. l <= m
      BY <1>10, <2>5
    <3>2. \A c \in cuts : c <= m /\ c <= k
      BY <1>3, <2>1, <2>2, <2>3, <3>1
    <3> QED BY <3>2
  <2>6. CASE k # m /\ l \notin SoundEnds
    <3>1. k \in SoundEnds
      BY <1>11, <1>12, <2>6
    <3> QED BY <1>10, <2>1, <2>2, <2>6, <3>1
  <2> QED BY <2>4, <2>5, <2>6
<1>16. CutsAtFrameEnds'
  <2>1. {c \in cuts' : c <= k} = {e \in SoundEnds' : e <= got'}
    BY <1>2, <1>13, <1>14, <1>15
  <2>2. Max(cuts') = Base'
    <3>1. got' \in Nat /\ cuts' \in SUBSET (0..got')
      BY <1>2, <1>3
    <3> QED BY <1>9, <3>1, MaxIs DEF Buffered
  <2>3. buf' = SubSeq(stream', Max(cuts') + 1, got')
    BY <1>9, <2>2 DEF Buffered
  <2> QED BY <2>1, <2>3 DEF CutsAtFrameEnds, k
<1> QED BY <1>5, <1>6, <1>9, <1>16 DEF FInv

-----------------------------------------------------------------------------
(***************************************************************************)
(* The theorems.                                                           *)
(***************************************************************************)

\* Nothing has been sent, and the buffer is empty.
LEMMA InitFInv == Init => FInv
<1> SUFFICES ASSUME Init PROVE FInv
  OBVIOUS
<1>1. stream = <<>> /\ ends = {0} /\ got = 0 /\ buf = <<>> /\ cuts = {0}
  BY DEF Init
<1>2. TypeOK /\ Base = 0 /\ Len(stream) = 0 /\ Len(buf) = 0
  <2>1. Len(stream) = 0 /\ Len(buf) = 0
    BY <1>1
  <2>2. Base = 0
    <3>1. Base = 0 - 0
      BY <1>1, <2>1, Zenon DEF Base
    <3> QED BY <3>1
  <2>3. stream \in Seq(Nat) /\ buf \in Seq(Nat)
    BY <1>1
  <2>4. ends \subseteq 0..0 /\ got \in 0..0 /\ cuts \subseteq 0..0
    BY <1>1
  <2> QED BY <1>1, <2>1, <2>2, <2>3, <2>4 DEF TypeOK
<1>3. Framed
  BY <1>1, <1>2 DEF Framed, Frame
<1>4. buf = SubSeq(stream, 0 + 1, got)
  BY <1>1
<1>5. Buffered
  BY <1>1, <1>2, <1>4 DEF Buffered, Complete
<1>6. SoundEnds = {0}
  BY <1>1 DEF SoundEnds
<1>7. Max({0}) = 0
  BY MaxIs
<1>8. CutsAtFrameEnds
  BY <1>1, <1>4, <1>6, <1>7 DEF CutsAtFrameEnds
<1> QED BY <1>2, <1>3, <1>5, <1>8 DEF FInv

\* FInv is inductive.
LEMMA StepFInv == FInv /\ [Next]_vars => FInv'
<1> SUFFICES ASSUME FInv, [Next]_vars PROVE FInv'
  OBVIOUS
<1>1. CASE UNCHANGED vars
  BY <1>1 DEF vars, FInv, TypeOK, Framed, Frame, Buffered, Base, CutsAtFrameEnds, SoundEnds
<1>2. CASE PushSome
  BY <1>2, PushKeeps DEF PushSome
<1>3. ASSUME NEW body \in Bodies, Send(body) PROVE FInv'
  BY <1>3, SendKeeps
<1> QED BY <1>1, <1>2, <1>3 DEF Next

\* What is sent arrives framed, and what was cut was cut right: FInv holds
\* in every reachable state.
THEOREM FrameInductive == Spec => []FInv
BY InitFInv, StepFInv, PTL DEF Spec

\* Every variable of FrameBuffer keeps its type.
THEOREM FrameTypeCorrect == Spec => []TypeOK
<1>1. FInv => TypeOK
  BY DEF FInv
<1> QED BY <1>1, FrameInductive, PTL

(***************************************************************************)
(* However the link chops the stream up, push cuts it exactly where the    *)
(* peer ended a frame, up to the first length that does not fit its byte.  *)
(***************************************************************************)
THEOREM CutsAreRight == Spec => []CutsAtFrameEnds
<1>1. FInv => CutsAtFrameEnds
  BY DEF FInv
<1> QED BY <1>1, FrameInductive, PTL

(***************************************************************************)
(* The buffer holds no complete frame back, and less than a frame as long  *)
(* as no length wraps.                                                     *)
(***************************************************************************)
THEOREM BufferHoldsNothingBack == Spec => []BufferIsPartial
<1>1. FInv => BufferIsPartial
  <2> SUFFICES ASSUME FInv, SoundEnds = ends PROVE Len(buf) < ByteWrap
    BY DEF FInv, Buffered, BufferIsPartial
  <2> DEFINE l == Len(stream)
             m == Max(SoundEnds)
  <2>1. TypeOK /\ Framed /\ Base \in cuts /\ \A c \in cuts : c <= Base
    BY DEF FInv, Buffered
  <2>2. l \in Nat /\ l \in ends /\ got \in Nat /\ got <= l /\ Len(buf) \in Nat /\ ByteWrap \in Nat /\ 0 < ByteWrap
    BY <2>1, FramingAssumption DEF TypeOK, Framed
  <2>3. Base \in Nat /\ Base <= got /\ Len(buf) = got - Base
    <3>1. Base \in 0..got
      BY <2>1 DEF TypeOK
    <3> QED BY <2>2, <3>1 DEF Base
  <2>4. m = l
    <3>1. l <= m /\ m \in 0..l
      BY <2>1, <2>2, SoundMax
    <3> HIDE DEF m, l
    <3> QED BY <2>2, <3>1
  <2> HIDE DEF Base
  <2>5. /\ \A c \in cuts : c <= m => c \in SoundEnds
        /\ \A e \in SoundEnds : e <= got => e \in cuts
    BY DEF FInv, CutsAtFrameEnds
  <2> HIDE DEF l, m
  <2>6. CASE Base = l
    BY <2>2, <2>3, <2>6
  <2>7. CASE Base # l
    <3>1. Base \in ends /\ Base < l
      BY <2>1, <2>2, <2>3, <2>4, <2>5, <2>7
    <3>2. PICK e \in ends : Frame(Base, e)
      BY <2>1, <2>2, <3>1, NextEnd
    <3>3. e - Base < ByteWrap /\ e \in Nat /\ Base < e
      <4>1. e - Base < ByteWrap
        BY <2>1, <3>2, SoundLength
      <4> QED BY <2>1, <3>2, <4>1 DEF Frame, TypeOK
    <3>4. ~(e <= got)
      BY <2>1, <2>3, <2>5, <3>3
    <3> QED BY <2>2, <2>3, <3>3, <3>4
  <2> QED BY <2>6, <2>7
<1> QED BY <1>1, FrameInductive, PTL

-----------------------------------------------------------------------------
(***************************************************************************)
(* The buffer as a queue of frames.  The refinement mapping counts cuts:   *)
(* a cut is told by its rank, the number of cuts in front of it, so the    *)
(* frames between an initial part of the cuts are the first frames.        *)
(***************************************************************************)

\* How many members of S come before e.
Rank(S, e) == Cardinality({d \in S : d < e})

\* The cut with k cuts in front of it.
At(S, k) == CHOOSE e \in S : Rank(S, e) = k

\* The frames of a stream between the cuts in S.
Frames(st, S) == [k \in 1..Cardinality(S) - 1 |-> SubSeq(st, At(S, k - 1) + 1, At(S, k))]

\* A set of numbers with a bound is finite, and its members have different
\* ranks, less than its size.
LEMMA Ranks ==
  ASSUME NEW n \in Nat, NEW S \in SUBSET (0..n)
  PROVE  /\ IsFiniteSet(S) /\ Cardinality(S) \in Nat
         /\ \A e \in S : Rank(S, e) \in 0..Cardinality(S) - 1
         /\ \A d, e \in S : d < e => Rank(S, d) < Rank(S, e)
<1>1. S \in SUBSET Nat /\ \A s \in S : s \in Nat /\ s <= n
  OBVIOUS
<1>2. IsFiniteSet(S)
  BY <1>1, FS_BoundedSetOfNaturals
<1>3. Cardinality(S) \in Nat
  BY <1>2, FS_CardinalityType
<1>4. ASSUME NEW e \in S, NEW U \in SUBSET S, U = {d \in S : d < e}
      PROVE  IsFiniteSet(U) /\ Cardinality(U) \in Nat /\ Rank(S, e) = Cardinality(U) /\ U # S
  <2>1. IsFiniteSet(U)
    BY <1>2, FS_Subset
  <2>2. e \notin U
    BY <1>1, <1>4
  <2> QED BY <1>4, <2>1, <2>2, FS_CardinalityType DEF Rank
<1>5. ASSUME NEW e \in S PROVE Rank(S, e) \in 0..Cardinality(S) - 1
  <2> DEFINE U == {d \in S : d < e}
  <2>1. U \in SUBSET S /\ U = {d \in S : d < e}
    OBVIOUS
  <2> HIDE DEF U
  <2>2. Cardinality(U) \in Nat /\ Rank(S, e) = Cardinality(U) /\ U # S
    BY <1>4, <2>1
  <2>3. Cardinality(U) <= Cardinality(S) /\ Cardinality(U) # Cardinality(S)
    BY <1>2, <2>1, <2>2, FS_Subset
  <2> QED BY <1>3, <2>2, <2>3
<1>6. ASSUME NEW d \in S, NEW e \in S, d < e PROVE Rank(S, d) < Rank(S, e)
  <2> DEFINE U == {x \in S : x < d}
             V == {x \in S : x < e}
  <2>1. U \in SUBSET S /\ V \in SUBSET S /\ U = {x \in S : x < d} /\ V = {x \in S : x < e}
    OBVIOUS
  <2>2. U \in SUBSET V /\ d \in V /\ d \notin U
    <3>1. d \in Nat /\ e \in Nat /\ ~(d < d) /\ \A x \in S : x < d => x < e
      BY <1>1, <1>6
    <3>2. d \in V /\ d \notin U
      BY <1>6, <3>1
    <3>3. \A x \in U : x \in V
      BY <3>1
    <3> QED BY <3>2, <3>3
  <2>0. U \in SUBSET V /\ V # U
    BY <2>2
  <2> HIDE DEF U, V
  <2>3. /\ IsFiniteSet(V) /\ Cardinality(U) \in Nat /\ Cardinality(V) \in Nat
        /\ Rank(S, d) = Cardinality(U) /\ Rank(S, e) = Cardinality(V)
    <3>1. IsFiniteSet(V) /\ Cardinality(V) \in Nat /\ Rank(S, e) = Cardinality(V)
      BY <1>4, <2>1
    <3>2. Cardinality(U) \in Nat /\ Rank(S, d) = Cardinality(U)
      BY <1>4, <2>1
    <3> QED BY <3>1, <3>2
  <2>4. Cardinality(U) <= Cardinality(V) /\ (Cardinality(V) = Cardinality(U) => V = U)
    BY <2>0, <2>3, FS_Subset, Zenon
  <2> QED BY <2>0, <2>3, <2>4
<1> QED BY <1>2, <1>3, <1>5, <1>6

\* A member is told by its rank.
LEMMA RankTells ==
  ASSUME NEW n \in Nat, NEW S \in SUBSET (0..n), NEW e \in S
  PROVE  At(S, Rank(S, e)) = e
<1>1. /\ Cardinality(S) \in Nat
      /\ \A d \in S : Rank(S, d) \in 0..Cardinality(S) - 1
      /\ \A d, x \in S : d < x => Rank(S, d) < Rank(S, x)
  BY Ranks, Zenon
<1>2. ASSUME NEW d \in S, Rank(S, d) = Rank(S, e) PROVE d = e
  <2>1. Rank(S, d) \in Nat /\ d \in Nat /\ e \in Nat
    BY <1>1, S \subseteq 0..n
  <2>2. ~(d < e) /\ ~(e < d)
    BY <1>1, <1>2, <2>1
  <2> QED BY <2>1, <2>2
<1>3. At(S, Rank(S, e)) \in S /\ Rank(S, At(S, Rank(S, e))) = Rank(S, e)
  BY DEF At
<1> QED BY <1>2, <1>3

\* There is a member of every rank below the size.
LEMMA EveryRank ==
  ASSUME NEW n \in Nat, NEW S \in SUBSET (0..n), NEW k \in 0..Cardinality(S) - 1
  PROVE  At(S, k) \in S /\ Rank(S, At(S, k)) = k
<1> DEFINE c == Cardinality(S)
           T == 0..c - 1
           f == [e \in S |-> Rank(S, e)]
<1>1. IsFiniteSet(S) /\ c \in Nat /\ \A e \in S : Rank(S, e) \in T
  BY Ranks
<1>2. IsFiniteSet(T) /\ Cardinality(T) = c
  <2>1. 0 \in Int /\ c - 1 \in Int
    BY <1>1
  <2>2. IsFiniteSet(T) /\ Cardinality(T) = IF 0 > c - 1 THEN 0 ELSE c - 1 - 0 + 1
    <3> HIDE DEF c
    <3> QED BY <2>1, FS_Interval
  <2> HIDE DEF c, T
  <2> QED BY <1>1, <2>2
<1>3. f \in Injection(S, T)
  <2>1. f \in [S -> T]
    BY <1>1
  <2>2. ASSUME NEW d \in S, NEW e \in S, f[d] = f[e] PROVE d = e
    <3>1. Rank(S, d) = Rank(S, e)
      BY <2>2
    <3> QED BY <3>1, RankTells
  <2> HIDE DEF f, T
  <2> QED BY <2>1, <2>2 DEF Injection, IsInjective
<1>4. f \in Surjection(S, T)
  <2> HIDE DEF f, T
  <2>1. Cardinality(S) = Cardinality(T) <=> f \in Surjection(S, T)
    BY <1>2, <1>3, FS_Injection
  <2> QED BY <1>2, <2>1 DEF c
<1>5. PICK e \in S : f[e] = k
  <2>1. k \in T
    OBVIOUS
  <2> HIDE DEF f, T
  <2> QED BY <1>4, <2>1 DEF Surjection
<1>6. Rank(S, e) = k
  BY <1>5
<1> QED BY <1>6 DEF At

\* Cuts that come after all the others leave those where they were.
LEMMA EarlierCuts ==
  ASSUME NEW n \in Nat, NEW T \in SUBSET (0..n), NEW S \in SUBSET T,
         \A e \in S, d \in T : d < e => d \in S
  PROVE  /\ Cardinality(S) \in Nat /\ Cardinality(T) \in Nat
         /\ Cardinality(S) <= Cardinality(T)
         /\ Cardinality(S) = Cardinality(T) => S = T
         /\ \A k \in 0..Cardinality(S) - 1 : At(T, k) = At(S, k)
<1>1. S \in SUBSET (0..n)
  OBVIOUS
<1>2. IsFiniteSet(T) /\ Cardinality(T) \in Nat /\ Cardinality(S) \in Nat
  BY <1>1, Ranks
<1>3. Cardinality(S) <= Cardinality(T) /\ (Cardinality(T) = Cardinality(S) => T = S)
  BY <1>2, FS_Subset, Zenon
<1>4. ASSUME NEW k \in 0..Cardinality(S) - 1 PROVE At(T, k) = At(S, k)
  <2>1. PICK e \in S : e = At(S, k) /\ Rank(S, e) = k
    BY <1>1, EveryRank
  <2>2. {d \in T : d < e} = {d \in S : d < e}
    OBVIOUS
  <2>3. Rank(T, e) = k
    BY <2>1, <2>2 DEF Rank
  <2>4. At(T, Rank(T, e)) = e
    BY RankTells
  <2> QED BY <2>1, <2>3, <2>4
<1> QED BY <1>2, <1>3, <1>4

\* The frames of a stream of bytes are sequences of bytes.
LEMMA FramesAreBytes ==
  ASSUME NEW st \in Seq(Nat), NEW S \in SUBSET (0..Len(st)), 0 \in S
  PROVE  /\ Cardinality(S) - 1 \in Nat
         /\ Frames(st, S) \in Seq(Seq(Nat)) /\ Len(Frames(st, S)) = Cardinality(S) - 1
<1> DEFINE n == Len(st)
           c == Cardinality(S)
<1>1. n \in Nat /\ S \in SUBSET (0..n)
  OBVIOUS
<1>2. c \in Nat /\ Rank(S, 0) \in 0..c - 1
  <2> HIDE DEF n
  <2> QED BY <1>1, Ranks
<1>3. c - 1 \in Nat
  <2> HIDE DEF c
  <2> QED BY <1>2
<1>4. ASSUME NEW k \in 1..c - 1 PROVE SubSeq(st, At(S, k - 1) + 1, At(S, k)) \in Seq(Nat)
  <2>1. k - 1 \in 0..c - 1 /\ k \in 0..c - 1
    <3> HIDE DEF c
    <3> QED BY <1>3
  <2>2. At(S, k - 1) \in 0..n /\ At(S, k) \in 0..n
    <3>1. At(S, k - 1) \in S /\ At(S, k) \in S
      <4> HIDE DEF n
      <4> QED BY <1>1, <2>1, EveryRank
    <3> QED BY <1>1, <3>1
  <2> DEFINE a == At(S, k - 1)
             b == At(S, k)
  <2>3. a \in 0..n /\ b \in 0..n
    BY <2>2
  <2> HIDE DEF a, b
  <2>4. SubSeq(st, a + 1, b) \in Seq(Nat)
    <3>1. a + 1 \in Int /\ b \in Int /\ \A i \in a + 1 .. b : i \in 1..n
      BY <1>1, <2>3
    <3>2. \A i \in a + 1 .. b : st[i] \in Nat
      BY <3>1
    <3> QED BY <3>1, <3>2, SubSeqProperties
  <2> QED BY <2>4 DEF a, b
<1>5. Frames(st, S) = [k \in 1..c - 1 |-> SubSeq(st, At(S, k - 1) + 1, At(S, k))]
  BY DEF Frames
<1> DEFINE d == c - 1
           f(k) == SubSeq(st, At(S, k - 1) + 1, At(S, k))
<1>6. d \in Nat /\ (\A k \in 1..d : f(k) \in Seq(Nat)) /\ Frames(st, S) = [k \in 1..d |-> f(k)]
  BY <1>3, <1>4, <1>5
<1> HIDE DEF d, f, c
<1>7. Frames(st, S) \in Seq(Seq(Nat)) /\ Len(Frames(st, S)) = d
  BY <1>6
<1> QED BY <1>6, <1>7 DEF d, c

\* Cutting less gives fewer frames, the first ones.
LEMMA FirstFrames ==
  ASSUME NEW st \in Seq(Nat), NEW T \in SUBSET (0..Len(st)), NEW S \in SUBSET T, 0 \in S,
         \A e \in S, d \in T : d < e => d \in S
  PROVE  /\ Frames(st, S) = SubSeq(Frames(st, T), 1, Len(Frames(st, S)))
         /\ Len(Frames(st, S)) <= Len(Frames(st, T))
         /\ Len(Frames(st, S)) = Len(Frames(st, T)) => S = T
<1> DEFINE F == Frames(st, S)
           G == Frames(st, T)
           c == Cardinality(S) - 1
           u == SubSeq(G, 1, c)
<1>1. Len(st) \in Nat /\ S \in SUBSET (0..Len(st)) /\ 0 \in T
  OBVIOUS
<1>2. /\ Cardinality(S) \in Nat /\ Cardinality(T) \in Nat
      /\ Cardinality(S) <= Cardinality(T)
      /\ Cardinality(S) = Cardinality(T) => S = T
      /\ \A k \in 0..Cardinality(S) - 1 : At(T, k) = At(S, k)
  BY <1>1, EarlierCuts
<1>3. c \in Nat /\ F \in Seq(Seq(Nat)) /\ Len(F) = c
  BY <1>1, FramesAreBytes
<1>4. G \in Seq(Seq(Nat)) /\ Len(G) = Cardinality(T) - 1
  BY <1>1, FramesAreBytes
<1>5. c <= Len(G) /\ (c = Len(G) => S = T)
  BY <1>2, <1>4
<1>6. ASSUME NEW k \in 1..c PROVE F[k] = G[k]
  <2>1. k \in 0..Cardinality(S) - 1 /\ k - 1 \in 0..Cardinality(S) - 1
    BY <1>2
  <2>2. k \in 1..Cardinality(T) - 1
    BY <1>2
  <2>3. F[k] = SubSeq(st, At(S, k - 1) + 1, At(S, k))
    BY DEF Frames
  <2>4. G[k] = SubSeq(st, At(T, k - 1) + 1, At(T, k))
    BY <2>2 DEF Frames
  <2>5. At(T, k - 1) = At(S, k - 1) /\ At(T, k) = At(S, k)
    BY <1>2, <2>1
  <2> HIDE DEF F, G, c
  <2> QED BY <2>3, <2>4, <2>5
<1> HIDE DEF F, G, c
<1>7. u \in Seq(Seq(Nat)) /\ Len(u) = c /\ \A k \in 1..c : u[k] = G[k]
  BY <1>3, <1>4, <1>5
<1> HIDE DEF u
<1>8. F = u
  <2>1. Len(F) = Len(u) /\ \A k \in 1..Len(F) : F[k] = u[k]
    BY <1>3, <1>6, <1>7
  <2> QED BY <1>3, <1>7, <2>1, SeqEqual, Zenon
<1> QED BY <1>3, <1>5, <1>8 DEF F, G, u

\* What is appended to a sequence does not change its front.
LEMMA FrontOf ==
  ASSUME NEW s \in Seq(Nat), NEW more \in Seq(Nat), NEW a \in Nat, NEW b \in 0..Len(s)
  PROVE  SubSeq(s \o more, a + 1, b) = SubSeq(s, a + 1, b)
<1> DEFINE u == s \o more
<1>1. Len(s) \in Nat /\ b \in Nat /\ b <= Len(s)
  OBVIOUS
<1>2. u \in Seq(Nat) /\ \A i \in 1..Len(s) : u[i] = s[i]
  OBVIOUS
<1> HIDE DEF u
<1>3. \A i \in 1..b - (a + 1) + 1 : i + (a + 1) - 1 \in 1..Len(s)
  BY <1>1
<1>4. SubSeq(u, a + 1, b) = [i \in 1..b - (a + 1) + 1 |-> u[i + (a + 1) - 1]]
  BY DEF SubSeq
<1>5. SubSeq(s, a + 1, b) = [i \in 1..b - (a + 1) + 1 |-> s[i + (a + 1) - 1]]
  BY DEF SubSeq
<1>6. [i \in 1..b - (a + 1) + 1 |-> u[i + (a + 1) - 1]] = [i \in 1..b - (a + 1) + 1 |-> s[i + (a + 1) - 1]]
  BY <1>2, <1>3
<1> QED BY <1>4, <1>5, <1>6 DEF u

\* What is appended to a sequence follows its end.
LEMMA BackOf ==
  ASSUME NEW s \in Seq(Nat), NEW more \in Seq(Nat)
  PROVE  SubSeq(s \o more, Len(s) + 1, Len(s) + Len(more)) = more
<1> DEFINE u == s \o more
           l == Len(s)
           k == Len(more)
<1>1. l \in Nat /\ k \in Nat
  OBVIOUS
<1>2. u \in Seq(Nat) /\ Len(u) = l + k
  OBVIOUS
<1>3. \A i \in 1..k : u[l + i] = more[i]
  OBVIOUS
<1>4. more \in Seq(Nat) /\ Len(more) = k
  OBVIOUS
<1> HIDE DEF u, l, k
<1>5. l + k - l = k /\ l <= l + k /\ l + k \in Nat /\ l + k <= Len(u)
  BY <1>1, <1>2
<1>6. \A i \in 1..l + k - l : more[i] = u[l + i]
  BY <1>3, <1>5
<1>7. more = SubSeq(u, l + 1, l + k)
  BY <1>1, <1>2, <1>4, <1>5, <1>6, SameBytes
<1> QED BY <1>7 DEF u, l, k

\* A longer stream has the same frames between the same cuts.
LEMMA SameFrames ==
  ASSUME NEW st \in Seq(Nat), NEW more \in Seq(Nat), NEW S \in SUBSET (0..Len(st))
  PROVE  Frames(st \o more, S) = Frames(st, S)
<1> DEFINE u == st \o more
           c == Cardinality(S) - 1
<1>1. ASSUME NEW k \in 1..c
      PROVE  SubSeq(u, At(S, k - 1) + 1, At(S, k)) = SubSeq(st, At(S, k - 1) + 1, At(S, k))
  <2>0. Len(st) \in Nat
    OBVIOUS
  <2>1. Cardinality(S) \in Nat
    BY <2>0, Ranks
  <2>2. k \in 0..Cardinality(S) - 1 /\ k - 1 \in 0..Cardinality(S) - 1
    BY <2>1
  <2>3. At(S, k - 1) \in S /\ At(S, k) \in S
    BY <2>0, <2>2, EveryRank
  <2>4. At(S, k - 1) \in Nat /\ At(S, k) \in 0..Len(st)
    <3>1. \A x \in S : x \in Nat /\ x \in 0..Len(st)
      BY <2>0
    <3> QED BY <2>3, <3>1, Zenon
  <2> DEFINE a == At(S, k - 1)
             b == At(S, k)
  <2> HIDE DEF a, b
  <2>5. SubSeq(u, a + 1, b) = SubSeq(st, a + 1, b)
    BY <2>4, FrontOf DEF a, b
  <2> QED BY <2>5 DEF a, b
<1> HIDE DEF u
<1>2. Frames(u, S) = Frames(st, S)
  BY <1>1 DEF Frames
<1> QED BY <1>2 DEF u

\* A stream that ends in a cut gets one more frame from what is appended to it
\* up to the next cut.
LEMMA OneMoreFrame ==
  ASSUME NEW st \in Seq(Nat), NEW more \in Seq(Nat), Len(more) > 0,
         NEW S \in SUBSET (0..Len(st)), 0 \in S, Len(st) \in S,
         NEW T \in {S \cup {Len(st) + Len(more)}}
  PROVE  Frames(st \o more, T) = Append(Frames(st, S), more)
<1> DEFINE u == st \o more
           l == Len(st)
           m == Len(st) + Len(more)
           c == Cardinality(S)
           F == Frames(st, S)
           G == Frames(u, T)
<1>1. l \in Nat /\ m \in Nat /\ l < m /\ \A e \in S : e \in Nat /\ e <= l /\ e \in 0..l
  OBVIOUS
<1>2. u \in Seq(Nat) /\ Len(u) = m
  OBVIOUS
<1>3. c \in Nat /\ IsFiniteSet(S) /\ Rank(S, 0) \in 0..c - 1
  <2>1. l \in Nat /\ S \in SUBSET (0..l)
    OBVIOUS
  <2> HIDE DEF l
  <2> QED BY <2>1, Ranks
<1>4. SubSeq(u, l + 1, m) = more
  BY BackOf
<1>5. F \in Seq(Seq(Nat)) /\ Len(F) = c - 1 /\ c - 1 \in Nat
  BY FramesAreBytes
<1>6. T = S \cup {m} /\ l \in S /\ 0 \in S /\ S \in SUBSET (0..l)
  OBVIOUS
<1>7. Frames(u, S) = F
  BY SameFrames
<1> HIDE DEF l, m
<1>8. T \in SUBSET (0..m) /\ S \in SUBSET T /\ m \in T /\ m \notin S
  <2>1. \A x : x \in T <=> x \in S \/ x = m
    BY <1>6
  <2>2. m \in 0..m /\ \A x \in S : x \in 0..m
    BY <1>1
  <2> QED BY <1>1, <2>1, <2>2
<1>9. \A e \in S, d \in T : d < e => d \in S
  BY <1>1, <1>6
<1>10. \A k \in 0..c - 1 : At(T, k) = At(S, k)
  BY <1>1, <1>8, <1>9, EarlierCuts, Zenon
<1>11. Cardinality(T) = c + 1
  BY <1>3, <1>6, <1>8, FS_AddElement
<1>12. At(T, c) = m
  <2>1. {d \in T : d < m} = S
    <3>1. \A d \in T : d < m <=> d \in S
      BY <1>1, <1>6
    <3>2. \A d \in S : d \in T
      BY <1>6
    <3> QED BY <3>1, <3>2
  <2>2. Rank(T, m) = c
    BY <2>1 DEF Rank
  <2>3. At(T, Rank(T, m)) = m
    BY <1>1, <1>8, RankTells
  <2> QED BY <2>2, <2>3
<1>13. At(T, c - 1) = l
  <2>1. {d \in T : d < l} = S \ {l}
    <3>1. \A d \in T : d < l <=> d \in S /\ d # l
      BY <1>1, <1>6
    <3>2. \A d \in S : d \in T
      BY <1>6
    <3> QED BY <3>1, <3>2
  <2>2. Cardinality(S \ {l}) = c - 1
    BY <1>3, <1>6, FS_RemoveElement
  <2>3. Rank(T, l) = c - 1
    BY <2>1, <2>2 DEF Rank
  <2>4. At(T, Rank(T, l)) = l
    BY <1>1, <1>6, <1>8, RankTells
  <2> QED BY <2>3, <2>4
<1>14. G \in Seq(Seq(Nat)) /\ Len(G) = c
  <2>1. T \in SUBSET (0..Len(u)) /\ 0 \in T
    BY <1>2, <1>6, <1>8
  <2> HIDE DEF u, c
  <2>2. G \in Seq(Seq(Nat)) /\ Len(G) = Cardinality(T) - 1
    BY <1>2, <2>1, FramesAreBytes
  <2> QED BY <1>3, <1>11, <2>2
<1> HIDE DEF u
<1>15. ASSUME NEW k \in 1..c - 1 PROVE G[k] = F[k]
  <2>1. k \in 1..Cardinality(T) - 1 /\ k \in 0..c - 1 /\ k - 1 \in 0..c - 1
    <3> HIDE DEF c
    <3> QED BY <1>3, <1>11
  <2>2. G[k] = SubSeq(u, At(T, k - 1) + 1, At(T, k))
    BY <2>1 DEF Frames
  <2>3. F[k] = SubSeq(u, At(S, k - 1) + 1, At(S, k))
    BY <1>7 DEF Frames
  <2>4. At(T, k - 1) = At(S, k - 1) /\ At(T, k) = At(S, k)
    BY <1>10, <2>1
  <2> HIDE DEF F, G, c
  <2> QED BY <2>2, <2>3, <2>4
<1>16. G[c] = more
  <2>1. c \in 1..Cardinality(T) - 1
    <3> HIDE DEF c
    <3> QED BY <1>3, <1>5, <1>11
  <2>2. G[c] = SubSeq(u, At(T, c - 1) + 1, At(T, c))
    BY <2>1 DEF Frames
  <2> HIDE DEF G, c
  <2> QED BY <1>4, <1>12, <1>13, <2>2
<1> DEFINE H == Append(F, more)
<1> HIDE DEF F, G, c
<1>17. H \in Seq(Seq(Nat)) /\ Len(H) = c /\ H[c] = more /\ \A k \in 1..c - 1 : H[k] = F[k]
  <2>1. Len(F) + 1 = c
    BY <1>3, <1>5
  <2> QED BY <1>5, <2>1, AppendProperties
<1> HIDE DEF H
<1>18. \A k \in 1..c : G[k] = H[k]
  <2>1. \A k \in 1..c : k = c \/ k \in 1..c - 1
    BY <1>3
  <2> QED BY <1>15, <1>16, <1>17, <2>1
<1>19. G = H
  <2>1. Len(G) = Len(H) /\ \A k \in 1..Len(G) : G[k] = H[k]
    BY <1>14, <1>17, <1>18
  <2>2. G \in Seq(Seq(Nat)) /\ H \in Seq(Seq(Nat))
    BY <1>14, <1>17
  <2> QED BY <2>1, <2>2, SeqEqual, Zenon
<1> QED BY <1>19 DEF F, G, H, u

\* The cuts that count: those at sound ends.
SoundCuts == {c \in cuts : c <= Max(SoundEnds)}

\* The frames sent, up to the first length that wraps, and those of them
\* that push has cut off.
Outgoing == Frames(stream, SoundEnds)
Incoming == Frames(stream, SoundCuts)

\* They are what the refinement mapping says.
LEMMA Mapping ==
  /\ FramesBetween(SoundEnds) = Outgoing
  /\ FramesBetween({c \in cuts : c <= Max(SoundEnds)}) = Incoming
BY DEF FramesBetween, Outgoing, Incoming, SoundCuts, Frames, At, Rank

\* The same after a step.
LEMMA MappingNext ==
  /\ FramesBetween(SoundEnds)' = Outgoing'
  /\ FramesBetween({c \in cuts : c <= Max(SoundEnds)})' = Incoming'
BY DEF FramesBetween, Outgoing, Incoming, SoundCuts, Frames, At, Rank

\* Sound ends and the cuts that count.
LEMMA SoundParts ==
  ASSUME FInv
  PROVE  /\ stream \in Seq(Nat) /\ SoundEnds \in SUBSET (0..Len(stream)) /\ 0 \in SoundEnds
         /\ SoundCuts = {e \in SoundEnds : e <= got} /\ SoundCuts \in SUBSET SoundEnds /\ 0 \in SoundCuts
         /\ got \in Nat /\ got <= Len(stream)
<1>1. stream \in Seq(Nat) /\ Len(stream) \in Nat /\ got \in 0..Len(stream) /\ ends \subseteq 0..Len(stream)
  BY DEF FInv, TypeOK
<1>2. SoundEnds \subseteq ends
  BY DEF SoundEnds
<1>3. 0 \in SoundEnds
  BY <1>1 DEF FInv, TypeOK, Framed, SoundEnds
<1>4. SoundCuts = {e \in SoundEnds : e <= got}
  BY DEF FInv, CutsAtFrameEnds, SoundCuts
<1>5. got \in Nat /\ got <= Len(stream) /\ 0 <= got
  BY <1>1
<1>6. SoundCuts \in SUBSET SoundEnds /\ 0 \in SoundCuts
  BY <1>3, <1>4, <1>5
<1>7. SoundEnds \in SUBSET (0..Len(stream))
  BY <1>1, <1>2
<1> QED BY <1>1, <1>3, <1>4, <1>5, <1>6, <1>7

\* A push hands over the next frames, or none.
LEMMA PushReceives ==
  ASSUME FInv, FInv', NEW n \in Nat, Push(n)
  PROVE  /\ Outgoing' = Outgoing
         /\ \/ Incoming' = Incoming
            \/ \E k \in Len(Incoming) + 1 .. Len(Outgoing) : Incoming' = SubSeq(Outgoing, 1, k)
<1>1. stream' = stream /\ ends' = ends /\ got' = got + n
  BY DEF Push
<1>2. SoundEnds' = SoundEnds
  BY <1>1 DEF SoundEnds
<1>3. Outgoing' = Outgoing
  BY <1>1, <1>2 DEF Outgoing
<1> DEFINE S == SoundCuts
           T == SoundCuts'
           E == SoundEnds
           st == stream
<1>4. /\ st \in Seq(Nat) /\ E \in SUBSET (0..Len(st)) /\ 0 \in S
      /\ S = {e \in E : e <= got} /\ got \in Nat
  BY SoundParts
<1>5. T = {e \in E : e <= got + n}
  BY <1>1, <1>2 DEF FInv, CutsAtFrameEnds, SoundCuts
<1>6. Incoming = Frames(st, S) /\ Incoming' = Frames(st, T) /\ Outgoing = Frames(st, E)
  BY <1>1 DEF Incoming, Outgoing
<1> HIDE DEF S, T, E, st
<1>7. \A e \in E : e \in Nat
  BY <1>4
<1>8. S \in SUBSET T /\ T \in SUBSET E /\ T \in SUBSET (0..Len(st)) /\ 0 \in T
  <2>1. \A e \in S : e \in T
    BY <1>4, <1>5, <1>7
  <2>2. \A e \in T : e \in E
    BY <1>5
  <2> QED BY <1>4, <2>1, <2>2
<1>9. /\ \A e \in S, d \in T : d < e => d \in S
      /\ \A e \in T, d \in E : d < e => d \in T
      /\ S \in SUBSET (0..Len(st))
  BY <1>4, <1>5, <1>7, <1>8
<1>10. /\ Len(Frames(st, S)) <= Len(Frames(st, T))
       /\ Len(Frames(st, S)) = Len(Frames(st, T)) => S = T
  BY <1>4, <1>8, <1>9, FirstFrames
<1>11. /\ Frames(st, T) = SubSeq(Frames(st, E), 1, Len(Frames(st, T)))
       /\ Len(Frames(st, T)) <= Len(Frames(st, E))
  BY <1>4, <1>8, <1>9, FirstFrames
<1>12. Len(Frames(st, S)) \in Nat /\ Len(Frames(st, T)) \in Nat /\ Len(Frames(st, E)) \in Nat
  BY <1>4, <1>8, FramesAreBytes
<1>13. CASE S = T
  BY <1>3, <1>6, <1>13
<1>14. CASE S # T
  <2> DEFINE k == Len(Frames(st, T))
  <2>1. k \in Len(Frames(st, S)) + 1 .. Len(Frames(st, E))
    BY <1>10, <1>11, <1>12, <1>14
  <2> HIDE DEF k
  <2>2. Incoming' = SubSeq(Outgoing, 1, k) /\ k \in Len(Incoming) + 1 .. Len(Outgoing)
    BY <1>6, <1>11, <2>1 DEF k
  <2> QED BY <1>3, <2>2
<1> QED BY <1>13, <1>14

\* Sending puts a frame behind those already sent, unless a length has
\* wrapped, and hands nothing over.
LEMMA SendAppends ==
  ASSUME FInv, FInv', NEW body \in Bodies, Send(body)
  PROVE  /\ Incoming' = Incoming
         /\ Outgoing' = Outgoing \/ Outgoing' = Append(Outgoing, Encode(body))
<1> DEFINE st == stream
           x == Encode(body)
           l == Len(stream)
           S == SoundEnds
           T == SoundEnds'
           R == SoundCuts
<1>1. /\ st \in Seq(Nat) /\ S \in SUBSET (0..l) /\ 0 \in S
      /\ R = {e \in S : e <= got} /\ R \in SUBSET S
      /\ got \in Nat /\ got <= l /\ l \in Nat
  BY SoundParts
<1>2. x \in Seq(Nat) /\ Len(x) = Len(body) + 2 /\ Len(body) \in Nat
  <2> DEFINE k == (Len(body) + 2) % ByteWrap
  <2>1. body \in Seq(Nat) /\ Len(body) \in Nat
    BY FramingAssumption
  <2>2. k \in Nat
    BY <2>1, FramingAssumption
  <2>3. x = <<k, 0>> \o body
    BY DEF Encode
  <2> HIDE DEF k, x
  <2>4. <<k, 0>> \in Seq(Nat) /\ Len(<<k, 0>>) = 2
    BY <2>2
  <2> QED BY <2>1, <2>3, <2>4
<1>3. stream' = st \o x /\ got' = got /\ Len(stream') = l + Len(x)
  <2>1. stream' = st \o x /\ got' = got
    BY DEF Send
  <2>2. Len(stream') = l + Len(body) + 2
    BY Sent DEF FInv
  <2> HIDE DEF l
  <2>3. Len(stream') = l + Len(x)
    BY <1>1, <1>2, <2>2
  <2> QED BY <2>1, <2>3
<1>4. /\ \A e \in ends : e \in T <=> e \in S
      /\ \A e \in T : e \in ends \/ (e = Len(stream') /\ l \in S)
  BY SendSound DEF FInv
<1>5. S \subseteq ends /\ ends \subseteq 0..l
  BY DEF SoundEnds, FInv, TypeOK
<1>6. SoundCuts' = {e \in T : e <= got}
  BY <1>3 DEF FInv, CutsAtFrameEnds, SoundCuts
<1>7. /\ Outgoing = Frames(st, S) /\ Outgoing' = Frames(st \o x, T)
      /\ Incoming = Frames(st, R) /\ Incoming' = Frames(st \o x, SoundCuts')
  BY <1>3 DEF Outgoing, Incoming
<1>8. Len(stream') = l + Len(x) /\ l < l + Len(x) /\ 0 < Len(x) /\ st = stream /\ l = Len(st)
  BY <1>1, <1>2, <1>3
<1> HIDE DEF x, S, T, R, l, st
<1>9. SoundCuts' = R
  <2>1. \A e \in T : e <= got <=> e \in R
    <3> SUFFICES ASSUME NEW e \in T PROVE e <= got <=> e \in R
      OBVIOUS
    <3>1. CASE e \in ends
      BY <1>1, <1>4, <3>1
    <3>2. CASE e = l + Len(x)
      <4>1. ~(e <= got) /\ e \notin 0..l
        BY <1>1, <1>2, <1>8, <3>2
      <4> QED BY <1>1, <4>1
    <3> QED BY <1>4, <1>8, <3>1, <3>2
  <2>2. R \subseteq T
    BY <1>1, <1>4, <1>5
  <2> QED BY <1>6, <2>1, <2>2
<1>10. Incoming' = Incoming
  <2>1. R \in SUBSET (0..Len(st))
    BY <1>1, <1>8
  <2> QED BY <1>1, <1>2, <1>7, <1>9, <2>1, SameFrames
<1>11. CASE T = S
  <2>1. S \in SUBSET (0..Len(st))
    BY <1>1, <1>8
  <2>2. Outgoing' = Outgoing
    BY <1>1, <1>2, <1>7, <1>11, <2>1, SameFrames
  <2> QED BY <1>10, <2>2
<1>12. CASE T # S
  <2>1. S \subseteq T
    BY <1>4, <1>5
  <2>2. PICK e \in T : e \notin S
    BY <1>12, <2>1
  <2>3. e = l + Len(x) /\ l \in S
    BY <1>4, <1>8, <2>2
  <2>4. \A d \in T : d \in S \/ d = l + Len(x)
    BY <1>4, <1>8
  <2>5. T = S \cup {l + Len(x)}
    BY <2>1, <2>2, <2>3, <2>4
  <2>6. S \in SUBSET (0..Len(st)) /\ Len(st) \in S /\ T \in {S \cup {Len(st) + Len(x)}} /\ Len(x) > 0
    BY <1>1, <1>2, <1>8, <2>3, <2>5
  <2>7. Frames(st \o x, T) = Append(Frames(st, S), x)
    BY <1>1, <1>2, <2>6, OneMoreFrame, Zenon
  <2> QED BY <1>7, <1>10, <2>7 DEF x
<1> QED BY <1>11, <1>12

\* Nothing has been sent, and nothing handed over.
LEMMA InitFifo == Init => Fifo!Init
<1> SUFFICES ASSUME Init PROVE Fifo!Init
  OBVIOUS
<1>1. FInv
  BY InitFInv
<1>2. SoundEnds = {0} /\ SoundCuts \in SUBSET {0} /\ 0 \in SoundCuts
  BY <1>1, SoundParts DEF Init, SoundEnds
<1>3. SoundCuts = {0}
  BY <1>2
<1>4. Frames(stream, {0}) = <<>>
  <2>1. 0 \in Nat /\ {0} \in SUBSET (0..Len(stream)) /\ stream \in Seq(Nat) /\ 0 \in {0}
    BY <1>1, <1>2, SoundParts
  <2>2. Frames(stream, {0}) \in Seq(Seq(Nat)) /\ Len(Frames(stream, {0})) = Cardinality({0}) - 1
    BY <2>1, FramesAreBytes, Zenon
  <2>3. Cardinality({0}) = 1
    BY FS_Singleton
  <2> QED BY <2>2, <2>3
<1>5. Outgoing = <<>> /\ Incoming = <<>>
  BY <1>2, <1>3, <1>4 DEF Outgoing, Incoming
<1> QED BY <1>5, Mapping DEF Fifo!Init

\* Every step is a step of the queue, or none.
LEMMA StepFifo ==
  FInv /\ FInv' /\ [Next]_vars =>
    [Fifo!Next]_<<FramesBetween(SoundEnds), FramesBetween({c \in cuts : c <= Max(SoundEnds)})>>
<1> SUFFICES ASSUME FInv, FInv', [Next]_vars
             PROVE  [Fifo!Next]_<<FramesBetween(SoundEnds),
                                  FramesBetween({c \in cuts : c <= Max(SoundEnds)})>>
  OBVIOUS
<1> USE Mapping, MappingNext
<1>1. CASE UNCHANGED vars
  <2>1. Outgoing' = Outgoing /\ Incoming' = Incoming
    BY <1>1 DEF vars, Outgoing, Incoming, SoundCuts, SoundEnds
  <2> QED BY <2>1
<1>2. ASSUME NEW n \in 1..Len(stream), Push(n)
      PROVE  Outgoing' = Outgoing /\ (Incoming' = Incoming \/ Fifo!Receive)
  <2>1. n \in Nat
    OBVIOUS
  <2>2. /\ Outgoing' = Outgoing
        /\ \/ Incoming' = Incoming
           \/ \E k \in Len(Incoming) + 1 .. Len(Outgoing) : Incoming' = SubSeq(Outgoing, 1, k)
    BY <1>2, <2>1, PushReceives
  <2> QED BY <2>2 DEF Fifo!Receive
<1>3. ASSUME NEW body \in Bodies, Send(body)
      PROVE  Incoming' = Incoming /\ (Outgoing' = Outgoing \/ Fifo!Send(Encode(body)))
  <2>1. /\ Incoming' = Incoming
        /\ Outgoing' = Outgoing \/ Outgoing' = Append(Outgoing, Encode(body))
    BY <1>3, SendAppends
  <2> QED BY <2>1 DEF Fifo!Send
<1>4. CASE PushSome
  <2>1. PICK n \in 1..Len(stream) : Push(n)
    BY <1>4 DEF PushSome
  <2> QED BY <1>2, <2>1 DEF Fifo!Next
<1>5. CASE \E body \in Bodies : Send(body)
  <2>1. PICK body \in Bodies : Send(body)
    BY <1>5
  <2>2. Encode(body) \in {Encode(b) : b \in Bodies}
    OBVIOUS
  <2> QED BY <1>3, <2>1, <2>2 DEF Fifo!Next
<1> QED BY <1>1, <1>4, <1>5 DEF Next

(***************************************************************************)
(* The buffer is a queue: what it hands over is, at every moment, the      *)
(* first of the frames the peer sent, whole, each once and in order, and a *)
(* push only makes them more.  That it hands over all of them in the end   *)
(* is ImplementsFifo, which takes the fairness of Spec.                    *)
(***************************************************************************)
THEOREM DeliversInOrder == Spec => Fifo!Safety
<1> QED BY InitFifo, StepFifo, FrameInductive, PTL DEF Spec, Fifo!Safety
================================================================================
