----------------------------- MODULE CodecProofs -----------------------------
(***************************************************************************)
(* What TLAPS proves of Codec, for frames of every length and payloads of  *)
(* any bytes.                                                              *)
(***************************************************************************)
EXTENDS Codec, SequenceTheorems, TLAPS

-----------------------------------------------------------------------------
\* Lengths below two.
LEMMA Trichotomy == \A n \in Nat : n < 1 \/ n = 1 \/ (~(n < 1) /\ ~(n < 2))
OBVIOUS

(***************************************************************************)
(* parse is total, but for one frame.                                      *)
(***************************************************************************)

\* No payload makes a parser panic, but for that of one byte given to
\* parse_hub_attached_io.
LEMMA PayloadTotal ==
  ASSUME NEW p \in Seq(Byte), NEW t \in Byte, ParsePayload(t, p).kind = "Panic"
  PROVE  t = HubAttachedIo /\ Len(p) = 1
<1>0. Len(p) \in Nat
  OBVIOUS
<1> USE DEF Error, Panic, Needs, Reads, Known
<1>1. ParseHubProperty(p).kind # "Panic"
  BY DEF ParseHubProperty
<1>2. ParseHubAction(p).kind # "Panic"
  BY DEF ParseHubAction
<1>3. ParseHubAlert(p).kind # "Panic"
  BY DEF ParseHubAlert
<1>4. Len(p) # 1 => ParseHubAttachedIo(p).kind # "Panic"
  <2>1. CASE Len(p) < 1
    BY <2>1 DEF ParseHubAttachedIo
  <2>2. CASE ~(Len(p) < 1) /\ ~(Len(p) < 2)
    BY <2>2 DEF ParseHubAttachedIo
  <2> QED BY <1>0, <2>1, <2>2, Trichotomy
<1>5. ParseGenericError(p).kind # "Panic"
  BY DEF ParseGenericError
<1>6. ParseInputFormatSetup(p).kind # "Panic"
  BY DEF ParseInputFormatSetup
<1>7. ParsePortValueSingle(p).kind # "Panic"
  BY DEF ParsePortValueSingle
<1>8. ParseInputFormatSingle(p).kind # "Panic"
  BY DEF ParseInputFormatSingle
<1>9. ParseOutputCommand(p).kind # "Panic"
  BY DEF ParseOutputCommand
<1>10. ParseOutputFeedback(p).kind # "Panic"
  BY DEF ParseOutputFeedback
<1> HIDE DEF Error, Panic, Needs, Reads, Known
<1> QED
  BY <1>1, <1>2, <1>3, <1>4, <1>5, <1>6, <1>7, <1>8, <1>9, <1>10
  DEF ParsePayload, HubProperties, HubActions, HubAlerts, HubAttachedIo, GenericErrorMessages,
      PortInputFormatSetupSingle, PortValueSingle, PortInputFormatSingle,
      PortOutputCommand, PortOutputCommandFeedback

\* The payload of a frame.
LEMMA FramePayload ==
  ASSUME NEW b \in Seq(Byte), Len(b) >= 3
  PROVE  /\ SubSeq(b, 4, Len(b)) \in Seq(Byte)
         /\ Len(SubSeq(b, 4, Len(b))) = Len(b) - 3
         /\ \A i \in 1..Len(b) - 3 : SubSeq(b, 4, Len(b))[i] = b[i + 3]
<1>1. \A i \in 4..Len(b) : b[i] \in Byte
  OBVIOUS
<1>2. 4 \in Int /\ Len(b) \in Int
  OBVIOUS
<1>3. /\ SubSeq(b, 4, Len(b)) \in Seq(Byte)
      /\ Len(SubSeq(b, 4, Len(b))) = IF 4 <= Len(b) THEN Len(b) - 4 + 1 ELSE 0
      /\ \A i \in 1..Len(b) - 4 + 1 : SubSeq(b, 4, Len(b))[i] = b[4 + i - 1]
  BY <1>1, <1>2, SubSeqProperties, Z3
<1>4. \A n \in Nat : n >= 3 =>
         /\ (IF 4 <= n THEN n - 4 + 1 ELSE 0) = n - 3
         /\ \A i \in 1..n - 3 : i \in 1..n - 4 + 1 /\ 4 + i - 1 = i + 3
  OBVIOUS
<1>5. Len(b) \in Nat
  OBVIOUS
<1> QED BY <1>3, <1>4, <1>5

\* A frame whose length byte is right makes parse panic only if it is an
\* attach event that ends after the port.
THEOREM ParseTotal ==
  ASSUME NEW b \in Seq(Byte), Len(b) >= 1, Len(b) = b[1], Parse(b) = Panic
  PROVE  Len(b) = 4 /\ b[3] = HubAttachedIo
<1>1. Len(b) >= 3
  BY DEF Parse, Error, Panic
<1>2. Parse(b) = ParsePayload(b[3], SubSeq(b, 4, Len(b)))
  BY <1>1 DEF Parse
<1>3. b[3] \in Byte
  BY <1>1
<1>4. ParsePayload(b[3], SubSeq(b, 4, Len(b))).kind = "Panic"
  BY <1>2 DEF Panic
<1>5. b[3] = HubAttachedIo /\ Len(SubSeq(b, 4, Len(b))) = 1
  BY <1>1, <1>3, <1>4, FramePayload, PayloadTotal
<1> QED BY <1>1, <1>5, FramePayload

-----------------------------------------------------------------------------
(***************************************************************************)
(* parse after encode.                                                     *)
(***************************************************************************)

\* Lengths and bytes of two sequences put together.
LEMMA Glue ==
  ASSUME NEW s \in Seq(Byte), NEW t \in Seq(Byte)
  PROVE  /\ s \o t \in Seq(Byte) /\ Len(s \o t) = Len(s) + Len(t)
         /\ \A i \in 1..Len(s) : (s \o t)[i] = s[i]
         /\ \A i \in 1..Len(t) : (s \o t)[Len(s) + i] = t[i]
<1> DEFINE c == s \o t
<1>1. /\ c \in Seq(Byte) /\ Len(c) = Len(s) + Len(t)
      /\ \A i \in 1..Len(s) + Len(t) : c[i] = IF i <= Len(s) THEN s[i] ELSE t[i - Len(s)]
  BY ConcatProperties
<1> HIDE DEF c
<1>2. \A k, l \in Nat :
        /\ \A i \in 1..k : i \in 1..k + l /\ i <= k
        /\ \A i \in 1..l : k + i \in 1..k + l /\ ~(k + i <= k) /\ k + i - k = i
  OBVIOUS
<1>3. Len(s) \in Nat /\ Len(t) \in Nat
  OBVIOUS
<1>4. \A i \in 1..Len(s) : c[i] = s[i]
  BY <1>1, <1>2, <1>3
<1>5. \A i \in 1..Len(t) : c[Len(s) + i] = t[i]
  BY <1>1, <1>2, <1>3
<1> QED BY <1>1, <1>4, <1>5 DEF c

\* Behind its first n bytes, a sequence s \o q of bytes is q.
LEMMA DropFront ==
  ASSUME NEW s \in Seq(Byte), NEW q \in Seq(Byte), NEW n \in Nat, Len(s) = n
  PROVE  /\ s \o q \in Seq(Byte)
         /\ Len(s \o q) = n + Len(q)
         /\ \A i \in 1..n : (s \o q)[i] = s[i]
         /\ SubSeq(s \o q, n + 1, n + Len(q)) = q
<1> DEFINE c == s \o q
<1>1. /\ c \in Seq(Byte)
      /\ Len(c) = n + Len(q)
      /\ \A i \in 1..n + Len(q) : c[i] = IF i <= n THEN s[i] ELSE q[i - n]
  BY ConcatProperties
<1> HIDE DEF c
<1>2. Len(q) \in Nat
  OBVIOUS
<1>3. \A i \in 1..n : c[i] = s[i]
  <2>1. \A k \in Nat : \A i \in 1..n : i \in 1..n + k /\ i <= n
    OBVIOUS
  <2> QED BY <1>1, <1>2, <2>1
<1>4. \A i \in 1..Len(q) : q[i] \in Byte /\ c[n + i] = q[i]
  BY <1>1, <1>2
<1> DEFINE d == SubSeq(c, n + 1, n + Len(q))
<1>5. /\ d \in Seq(Byte)
      /\ Len(d) = IF n + 1 <= n + Len(q) THEN n + Len(q) - (n + 1) + 1 ELSE 0
      /\ \A i \in 1..n + Len(q) - (n + 1) + 1 : d[i] = c[n + 1 + i - 1]
  <2>1. \A i \in n + 1..n + Len(q) : c[i] \in Byte
    BY <1>1, <1>2
  <2> QED BY <2>1, <1>2, SubSeqProperties, Z3
<1> HIDE DEF d
<1>6. \A l \in Nat :
        /\ (IF n + 1 <= n + l THEN n + l - (n + 1) + 1 ELSE 0) = l
        /\ \A i \in 1..l : i \in 1..n + l - (n + 1) + 1 /\ n + 1 + i - 1 = n + i
  OBVIOUS
<1>7. Len(d) = Len(q) /\ \A i \in 1..Len(d) : d[i] = q[i]
  BY <1>2, <1>4, <1>5, <1>6
<1>8. d = q
  BY <1>5, <1>7, SeqEqual
<1> QED BY <1>1, <1>3, <1>8 DEF c, d

\* A byte does not change when it is cast to a byte.
LEMMA ByteMod == \A k \in 0..255 : k % 256 = k
OBVIOUS

\* The header and the type, as one sequence.
LEMMA ThreeBytes ==
  ASSUME NEW a \in Byte, NEW b \in Byte, NEW c \in Byte
  PROVE  <<a, b>> \o <<c>> = <<a, b, c>>
<1> DEFINE u == <<a, b>>
           v == <<c>>
           w == <<a, b, c>>
<1>1. /\ u \in Seq(Byte) /\ v \in Seq(Byte) /\ w \in Seq(Byte)
      /\ Len(u) = 2 /\ Len(v) = 1 /\ Len(w) = 3
  OBVIOUS
<1>2. /\ u \o v \in Seq(Byte) /\ Len(u \o v) = 2 + 1
      /\ \A i \in 1..2 + 1 : (u \o v)[i] = IF i <= 2 THEN u[i] ELSE v[i - 2]
  BY <1>1, ConcatProperties
<1>3. (u \o v)[1] = u[1] /\ (u \o v)[2] = u[2] /\ (u \o v)[3] = v[1]
  BY <1>2
<1>4. u[1] = w[1] /\ u[2] = w[2] /\ v[1] = w[3]
  OBVIOUS
<1> HIDE DEF u, v, w
<1>5. \A i \in 1..3 : (u \o v)[i] = w[i]
  <2>1. \A i \in 1..3 : i = 1 \/ i = 2 \/ i = 3
    OBVIOUS
  <2> QED BY <1>3, <1>4, <2>1
<1>6. u \o v = w
  BY <1>1, <1>2, <1>5, SeqEqual
<1> QED BY <1>6 DEF u, v, w

\* parse sees the type and the payload encode put behind the header.
LEMMA ParseEncoded ==
  ASSUME NEW m, NEW t \in Byte, NEW q \in Seq(Byte), EncodeInner(m) = <<t>> \o q,
         Len(q) <= 252
  PROVE  Parse(Encode(m)) = ParsePayload(t, q)
<1> DEFINE l == Len(q) + 3
<1>1. Len(q) \in Nat
  OBVIOUS
<1>2. l \in Nat /\ l \in Byte /\ l % 256 = l /\ ~(l < 3) /\ ~(l < l)
  <2>1. \A k \in Nat : k <= 252 => k + 3 \in Nat /\ k + 3 \in 0..255
    OBVIOUS
  <2>2. \A k \in Nat : ~(k + 3 < 3) /\ ~(k + 3 < k + 3)
    OBVIOUS
  <2>3. l \in Nat /\ l \in 0..255
    BY <1>1, <2>1
  <2>4. l % 256 = l
    BY <2>3, ByteMod
  <2>5. ~(l < 3) /\ ~(l < l)
    BY <1>1, <2>2
  <2> QED BY <2>3, <2>4, <2>5 DEF Byte
<1>3. /\ <<t>> \o q \in Seq(Byte)
      /\ Len(<<t>> \o q) = 1 + Len(q)
  BY DropFront, Len(<<t>>) = 1, <<t>> \in Seq(Byte)
<1>4. Encode(m) = <<l, 0>> \o (<<t>> \o q)
  <2>1. \A k \in Nat : 1 + k + 2 = k + 3
    OBVIOUS
  <2> QED BY <1>1, <1>2, <1>3, <2>1 DEF Encode
<1> HIDE DEF l
<1>5. Encode(m) = <<l, 0, t>> \o q
  <2>1. 0 \in Byte
    BY DEF Byte
  <2>2. <<l, 0>> \in Seq(Byte) /\ <<t>> \in Seq(Byte)
    BY <1>2, <2>1
  <2>3. <<l, 0>> \o <<t>> = <<l, 0, t>>
    BY <1>2, <2>1, ThreeBytes
  <2> QED BY <1>4, <2>2, <2>3, ConcatAssociative
<1>6. <<l, 0, t>> \in Seq(Byte) /\ Len(<<l, 0, t>>) = 3
  BY <1>2 DEF Byte
<1>7. /\ Len(Encode(m)) = 3 + Len(q)
      /\ Encode(m)[1] = l /\ Encode(m)[3] = t
      /\ SubSeq(Encode(m), 4, 3 + Len(q)) = q
  BY <1>5, <1>6, DropFront
<1>8. Len(Encode(m)) = l
  BY <1>1, <1>7 DEF l
<1>9. 3 + Len(q) = l
  BY <1>1 DEF l
<1>10. SubSeq(Encode(m), 4, l) = q
  BY <1>7, <1>9
<1> HIDE DEF Encode
<1> QED BY <1>2, <1>7, <1>8, <1>10 DEF Parse

\* A body that fits behind the header, without its type.
LEMMA LongEnough ==
  ASSUME NEW t \in Byte, NEW q \in Seq(Byte), Len(<<t>> \o q) <= 253
  PROVE  Len(q) <= 252
<1>1. Len(<<t>> \o q) = 1 + Len(q)
  BY DropFront, Len(<<t>>) = 1, <<t>> \in Seq(Byte)
<1>2. \A k \in Nat : 1 + k <= 253 => k <= 252
  OBVIOUS
<1> QED BY <1>1, <1>2

\* The type of a body that starts with three bytes, and its payload.
LEMMA Behead ==
  ASSUME NEW a \in Byte, NEW b \in Byte, NEW c \in Byte, NEW q \in Seq(Byte)
  PROVE  <<a, b, c>> \o q = <<a>> \o (<<b, c>> \o q)
<1> DEFINE u == <<a>>
           v == <<b, c>>
           w == <<a, b, c>>
<1>1. /\ u \in Seq(Byte) /\ v \in Seq(Byte) /\ w \in Seq(Byte)
      /\ Len(u) = 1 /\ Len(v) = 2 /\ Len(w) = 3
  OBVIOUS
<1>2. /\ u \o v \in Seq(Byte) /\ Len(u \o v) = 1 + 2
      /\ \A i \in 1..1 + 2 : (u \o v)[i] = IF i <= 1 THEN u[i] ELSE v[i - 1]
  BY <1>1, ConcatProperties
<1>3. (u \o v)[1] = u[1] /\ (u \o v)[2] = v[1] /\ (u \o v)[3] = v[2]
  BY <1>2
<1>4. u[1] = w[1] /\ v[1] = w[2] /\ v[2] = w[3]
  OBVIOUS
<1> HIDE DEF u, v, w
<1>5. \A i \in 1..3 : (u \o v)[i] = w[i]
  <2>1. \A i \in 1..3 : i = 1 \/ i = 2 \/ i = 3
    OBVIOUS
  <2> QED BY <1>3, <1>4, <2>1
<1>6. u \o v = w
  BY <1>1, <1>2, <1>5, SeqEqual
<1>7. (u \o v) \o q = u \o (v \o q)
  <2>1. u \in Seq(Byte) /\ v \in Seq(Byte) /\ q \in Seq(Byte)
    BY <1>1
  <2> QED BY <2>1, ConcatAssociative
<1> QED BY <1>6, <1>7 DEF u, v, w

\* The parts of a payload that starts with two bytes.
LEMMA TwoAndRest ==
  ASSUME NEW b \in Byte, NEW c \in Byte, NEW q \in Seq(Byte)
  PROVE  LET p == <<b, c>> \o q IN
         /\ p \in Seq(Byte) /\ Len(p) = 2 + Len(q) /\ ~(Len(p) < 2)
         /\ p[1] = b /\ p[2] = c /\ From(p, 3) = q
<1> DEFINE p == <<b, c>> \o q
<1>1. <<b, c>> \in Seq(Byte) /\ Len(<<b, c>>) = 2
  OBVIOUS
<1>2. /\ p \in Seq(Byte) /\ Len(p) = 2 + Len(q)
      /\ \A i \in 1..2 : p[i] = <<b, c>>[i]
      /\ SubSeq(p, 3, 2 + Len(q)) = q
  BY <1>1, DropFront
<1>3. ~(Len(p) < 2)
  <2>1. \A k \in Nat : ~(2 + k < 2)
    OBVIOUS
  <2>2. Len(q) \in Nat
    OBVIOUS
  <2> QED BY <1>2, <2>1, <2>2
<1>4. p[1] = b /\ p[2] = c
  BY <1>2
<1> HIDE DEF p
<1>5. From(p, 3) = q
  BY <1>2 DEF From
<1> QED BY <1>2, <1>3, <1>4, <1>5 DEF p

\* Which parser a type of the host's has.
LEMMA Dispatch ==
  ASSUME NEW p
  PROVE  /\ ParsePayload(HubProperties, p) = ParseHubProperty(p)
         /\ ParsePayload(HubActions, p) = ParseHubAction(p)
         /\ ParsePayload(PortInputFormatSetupSingle, p) = ParseInputFormatSetup(p)
         /\ ParsePayload(PortOutputCommand, p) = ParseOutputCommand(p)
         /\ \A t \in Byte \ Decoded :
              ParsePayload(t, p) = [kind |-> "Unknown", type |-> t, payload |-> p]
BY DEF ParsePayload, Decoded, HubProperties, HubActions, HubAlerts, HubAttachedIo,
      GenericErrorMessages, PortInputFormatSetupSingle, PortValueSingle,
      PortInputFormatSingle, PortOutputCommand, PortOutputCommandFeedback

\* A hub property message comes back from its own bytes.
LEMMA PropertyRoundTrip ==
  ASSUME NEW m \in HostMessages, m.kind = "HubProperty", Len(EncodeInner(m)) <= 253
  PROVE  Parse(Encode(m)) = m
<1>1. /\ m = [kind |-> "HubProperty", property |-> m.property, operation |-> m.operation,
              payload |-> m.payload]
      /\ m.property \in PropertyReferences /\ m.operation \in Operations
      /\ m.payload \in Seq(Byte)
  BY DEF HostMessages
<1>2. m.property \in Byte /\ m.operation \in Byte /\ HubProperties \in Byte
  BY <1>1 DEF PropertyReferences, Operations, HubProperties, Byte
<1> DEFINE q == <<m.property, m.operation>> \o m.payload
<1>3. EncodeInner(m) = <<HubProperties, m.property, m.operation>> \o m.payload
  BY DEF EncodeInner
<1>4. EncodeInner(m) = <<HubProperties>> \o q
  BY <1>1, <1>2, <1>3, Behead
<1>5. /\ q \in Seq(Byte) /\ ~(Len(q) < 2)
      /\ q[1] = m.property /\ q[2] = m.operation /\ From(q, 3) = m.payload
  BY <1>1, <1>2, TwoAndRest
<1> HIDE DEF q
<1>6. Len(q) <= 252
  BY <1>2, <1>4, <1>5, LongEnough
<1>7. Parse(Encode(m)) = ParsePayload(HubProperties, q)
  BY <1>2, <1>4, <1>5, <1>6, ParseEncoded
<1>8. ParsePayload(HubProperties, q) = ParseHubProperty(q)
  BY Dispatch
<1>9. ParseHubProperty(q) = m
  BY <1>1, <1>5 DEF ParseHubProperty, Needs, Known
<1> QED BY <1>7, <1>8, <1>9

\* An output command comes back from its own bytes.
LEMMA CommandRoundTrip ==
  ASSUME NEW m \in HostMessages, m.kind = "PortOutputCommand", Len(EncodeInner(m)) <= 253
  PROVE  Parse(Encode(m)) = m
<1>1. /\ m = [kind |-> "PortOutputCommand", port |-> m.port, startup |-> m.startup,
              payload |-> m.payload]
      /\ m.port \in Byte /\ m.startup \in Byte /\ m.payload \in Seq(Byte)
  BY DEF HostMessages
<1>2. PortOutputCommand \in Byte
  BY DEF PortOutputCommand, Byte
<1> DEFINE q == <<m.port, m.startup>> \o m.payload
<1>3. EncodeInner(m) = <<PortOutputCommand, m.port, m.startup>> \o m.payload
  BY DEF EncodeInner
<1>4. EncodeInner(m) = <<PortOutputCommand>> \o q
  BY <1>1, <1>2, <1>3, Behead
<1>5. /\ q \in Seq(Byte) /\ ~(Len(q) < 2)
      /\ q[1] = m.port /\ q[2] = m.startup /\ From(q, 3) = m.payload
  BY <1>1, TwoAndRest
<1> HIDE DEF q
<1>6. Len(q) <= 252
  BY <1>2, <1>4, <1>5, LongEnough
<1>7. Parse(Encode(m)) = ParsePayload(PortOutputCommand, q)
  BY <1>2, <1>4, <1>5, <1>6, ParseEncoded
<1>8. ParsePayload(PortOutputCommand, q) = ParseOutputCommand(q)
  BY Dispatch
<1>9. ParseOutputCommand(q) = m
  BY <1>1, <1>5 DEF ParseOutputCommand, Needs
<1> QED BY <1>7, <1>8, <1>9

\* A message of a type parse does not look into comes back from its own bytes.
LEMMA UnknownRoundTrip ==
  ASSUME NEW m \in HostMessages, m.kind = "Unknown", Len(EncodeInner(m)) <= 253
  PROVE  Parse(Encode(m)) = m
<1>1. /\ m = [kind |-> "Unknown", type |-> m.type, payload |-> m.payload]
      /\ m.type \in Byte \ Decoded /\ m.payload \in Seq(Byte)
  BY DEF HostMessages
<1>2. EncodeInner(m) = <<m.type>> \o m.payload
  BY DEF EncodeInner
<1>3. Len(m.payload) <= 252
  BY <1>1, <1>2, LongEnough
<1>4. Parse(Encode(m)) = ParsePayload(m.type, m.payload)
  BY <1>1, <1>2, <1>3, ParseEncoded
<1> QED BY <1>1, <1>4, Dispatch

\* A hub action comes back from its own bytes.
LEMMA ActionRoundTrip ==
  ASSUME NEW m \in HostMessages, m.kind = "HubAction"
  PROVE  Parse(Encode(m)) = m
<1>1. m = [kind |-> "HubAction", action |-> m.action] /\ m.action \in Actions
  BY DEF HostMessages
<1>2. m.action \in Byte /\ HubActions \in Byte
  BY <1>1 DEF Actions, HubActions, Byte
<1> DEFINE q == <<m.action>>
<1>3. q \in Seq(Byte) /\ Len(q) = 1 /\ q[1] = m.action
  BY <1>2
<1>4. EncodeInner(m) = <<HubActions, m.action>>
  BY DEF EncodeInner
<1>5. <<HubActions>> \o q = <<HubActions, m.action>>
  <2> DEFINE u == <<HubActions>>
             w == <<HubActions, m.action>>
  <2>1. /\ u \in Seq(Byte) /\ w \in Seq(Byte) /\ Len(u) = 1 /\ Len(w) = 2
        /\ u[1] = w[1] /\ q[1] = w[2]
    BY <1>2
  <2> HIDE DEF u, w, q
  <2>2. /\ u \o q \in Seq(Byte) /\ Len(u \o q) = 1 + 1
        /\ \A i \in 1..1 : (u \o q)[i] = u[i]
        /\ \A i \in 1..1 : (u \o q)[1 + i] = q[i]
    <3>1. u \in Seq(Byte) /\ q \in Seq(Byte)
      BY <1>3, <2>1
    <3>2. /\ u \o q \in Seq(Byte) /\ Len(u \o q) = Len(u) + Len(q)
          /\ \A i \in 1..Len(u) : (u \o q)[i] = u[i]
          /\ \A i \in 1..Len(q) : (u \o q)[Len(u) + i] = q[i]
      BY <3>1, Glue
    <3>3. Len(u) = 1 /\ Len(q) = 1
      BY <1>3, <2>1
    <3> QED BY <3>2, <3>3, Zenon
  <2>3. (u \o q)[1] = w[1] /\ (u \o q)[2] = w[2]
    <3>1. 1 \in 1..1 /\ 1 + 1 = 2
      OBVIOUS
    <3> QED BY <2>1, <2>2, <3>1
  <2>4. \A i \in 1..2 : (u \o q)[i] = w[i]
    <3>1. \A i \in 1..2 : i = 1 \/ i = 2
      OBVIOUS
    <3> QED BY <2>3, <3>1
  <2>5. u \o q = w
    BY <2>1, <2>2, <2>4, SeqEqual
  <2> QED BY <2>5 DEF u, w
<1> HIDE DEF q
<1>6. Parse(Encode(m)) = ParsePayload(HubActions, q)
  <2>1. EncodeInner(m) = <<HubActions>> \o q
    BY <1>4, <1>5
  <2>2. Len(q) <= 252
    <3>1. 1 <= 252
      OBVIOUS
    <3> QED BY <1>3, <3>1
  <2> QED BY <1>2, <1>3, <2>1, <2>2, ParseEncoded
<1>7. ParsePayload(HubActions, q) = ParseHubAction(q)
  BY Dispatch
<1>8. ParseHubAction(q) = m
  BY <1>1, <1>3 DEF ParseHubAction, Needs, Known
<1> QED BY <1>6, <1>7, <1>8

\* Four bytes between two and one are the third to the sixth.
LEMMA TwoFourOne ==
  ASSUME NEW a \in Byte, NEW b \in Byte, NEW d \in Seq(Byte), Len(d) = 4, NEW e \in Byte
  PROVE  LET q == <<a, b>> \o (d \o <<e>>) IN
         /\ q \in Seq(Byte) /\ Len(q) = 7
         /\ q[1] = a /\ q[2] = b /\ SubSeq(q, 3, 6) = d /\ q[7] = e
<1> DEFINE u == <<a, b>>
           v == <<e>>
           r == d \o v
           q == u \o r
<1>1. /\ u \in Seq(Byte) /\ Len(u) = 2 /\ u[1] = a /\ u[2] = b
      /\ v \in Seq(Byte) /\ Len(v) = 1 /\ v[1] = e
  OBVIOUS
<1> HIDE DEF u, v
<1>2. /\ r \in Seq(Byte) /\ Len(r) = 4 + 1
      /\ \A i \in 1..4 : r[i] = d[i]
      /\ \A i \in 1..1 : r[4 + i] = v[i]
  <2>1. d \in Seq(Byte) /\ v \in Seq(Byte)
    BY <1>1
  <2>2. /\ r \in Seq(Byte) /\ Len(r) = Len(d) + Len(v)
        /\ \A i \in 1..Len(d) : (r)[i] = d[i]
        /\ \A i \in 1..Len(v) : (r)[Len(d) + i] = v[i]
    BY <2>1, Glue
  <2>3. Len(d) = 4 /\ Len(v) = 1
    BY <1>1
  <2> QED BY <2>2, <2>3, Zenon
<1> HIDE DEF r
<1>3. /\ q \in Seq(Byte) /\ Len(q) = 2 + (4 + 1)
      /\ \A i \in 1..2 : q[i] = u[i]
      /\ \A i \in 1..4 + 1 : q[2 + i] = r[i]
  <2>1. u \in Seq(Byte) /\ r \in Seq(Byte)
    BY <1>1, <1>2
  <2>2. /\ q \in Seq(Byte) /\ Len(q) = Len(u) + Len(r)
        /\ \A i \in 1..Len(u) : (q)[i] = u[i]
        /\ \A i \in 1..Len(r) : (q)[Len(u) + i] = r[i]
    BY <2>1, Glue
  <2>3. Len(u) = 2 /\ Len(r) = 4 + 1
    BY <1>1, <1>2
  <2> QED BY <2>2, <2>3, Zenon
<1> HIDE DEF q
<1>4. q[1] = a /\ q[2] = b /\ q[7] = e
  <2>1. 1 \in 1..2 /\ 2 \in 1..2
    OBVIOUS
  <2>2. 4 + 1 \in 1..4 + 1 /\ 1 \in 1..1 /\ 2 + (4 + 1) = 7
    OBVIOUS
  <2>3. q[7] = r[4 + 1]
    BY <1>3, <2>2
  <2>4. r[4 + 1] = v[1]
    BY <1>2, <2>2
  <2> QED BY <1>1, <1>3, <2>1, <2>3, <2>4
<1>5. q[3] = d[1] /\ q[4] = d[2] /\ q[5] = d[3] /\ q[6] = d[4]
  <2>1. \A i \in 1..4 : i \in 1..4 + 1
    OBVIOUS
  <2>2. \A i \in 1..4 : q[2 + i] = d[i]
    BY <1>2, <1>3, <2>1
  <2>3. /\ 1 \in 1..4 /\ 2 \in 1..4 /\ 3 \in 1..4 /\ 4 \in 1..4
        /\ 2 + 1 = 3 /\ 2 + 2 = 4 /\ 2 + 3 = 5 /\ 2 + 4 = 6
    OBVIOUS
  <2> HIDE DEF r
  <2> QED BY <2>2, <2>3
<1>12. Len(q) = 7 /\ \A i \in 1..7 : q[i] \in Byte
  <2>1. 2 + (4 + 1) = 7
    OBVIOUS
  <2>2. Len(q) = 7
    BY <1>3, <2>1
  <2>3. \A i \in 1..Len(q) : q[i] \in Byte
    BY <1>3, ElementOfSeq
  <2> QED BY <2>2, <2>3
<1> DEFINE s == SubSeq(q, 3, 6)
<1>6. /\ s \in Seq(Byte) /\ Len(s) = 4
      /\ s[1] = q[3] /\ s[2] = q[4] /\ s[3] = q[5] /\ s[4] = q[6]
  <2>0. \A i \in 3..6 : i \in 1..7
    OBVIOUS
  <2>1. \A i \in 3..6 : q[i] \in Byte
    BY <1>12, <2>0
  <2>2. /\ s \in Seq(Byte)
        /\ Len(s) = IF 3 <= 6 THEN 6 - 3 + 1 ELSE 0
        /\ \A i \in 1..6 - 3 + 1 : s[i] = q[3 + i - 1]
    BY <2>1, SubSeqProperties, Z3
  <2> HIDE DEF s
  <2> QED BY <2>2
<1> HIDE DEF s
<1>7. \A i \in 1..4 : s[i] = d[i]
  <2>1. \A i \in 1..4 : i = 1 \/ i = 2 \/ i = 3 \/ i = 4
    OBVIOUS
  <2> QED BY <1>5, <1>6, <2>1
<1>8. s = d
  BY <1>6, <1>7, SeqEqual
<1> QED BY <1>3, <1>4, <1>12, <1>8 DEF q, r, s, u, v

\* The set-up of an input format comes back from its own bytes.
LEMMA SetupRoundTrip ==
  ASSUME NEW m \in HostMessages, m.kind = "PortInputFormatSetupSingle"
  PROVE  Parse(Encode(m)) = m
<1>1. /\ m = [kind |-> "PortInputFormatSetupSingle", port |-> m.port, mode |-> m.mode,
              delta |-> m.delta, enable |-> m.enable]
      /\ m.port \in Byte /\ m.mode \in Byte
      /\ m.delta \in {d \in Seq(Byte) : Len(d) = 4} /\ m.enable \in BOOLEAN
  BY DEF HostMessages
<1>2. PortInputFormatSetupSingle \in Byte
  BY DEF PortInputFormatSetupSingle, Byte
<1> DEFINE d == m.delta
           e == IF m.enable THEN 1 ELSE 0
           r == d \o <<e>>
           q == <<m.port, m.mode>> \o r
<1>3. d \in Seq(Byte) /\ Len(d) = 4
  BY <1>1
<1>4. e \in Byte /\ (e # 0) = m.enable
  BY <1>1 DEF Byte
<1>5. EncodeInner(m) = <<PortInputFormatSetupSingle, m.port, m.mode>> \o d \o <<e>>
  BY DEF EncodeInner
<1> HIDE DEF d, e
<1>6. r \in Seq(Byte) /\ <<e>> \in Seq(Byte)
  BY <1>3, <1>4, DropFront
<1>7. EncodeInner(m) = <<PortInputFormatSetupSingle>> \o q
  <2>1. <<PortInputFormatSetupSingle, m.port, m.mode>> \in Seq(Byte)
    BY <1>1, <1>2
  <2>2. <<PortInputFormatSetupSingle, m.port, m.mode>> \o d \o <<e>>
          = <<PortInputFormatSetupSingle, m.port, m.mode>> \o r
    BY <2>1, <1>3, <1>6, ConcatAssociative
  <2> HIDE DEF r
  <2>3. <<PortInputFormatSetupSingle, m.port, m.mode>> \o r
          = <<PortInputFormatSetupSingle>> \o (<<m.port, m.mode>> \o r)
    <3>1. /\ PortInputFormatSetupSingle \in Byte /\ m.port \in Byte /\ m.mode \in Byte
          /\ r \in Seq(Byte)
      BY <1>1, <1>2, <1>6
    <3> QED BY <3>1, Behead
  <2> QED BY <1>5, <2>2, <2>3
<1>8. /\ q \in Seq(Byte) /\ Len(q) = 7
      /\ q[1] = m.port /\ q[2] = m.mode /\ SubSeq(q, 3, 6) = d /\ q[7] = e
  BY <1>1, <1>3, <1>4, TwoFourOne
<1> HIDE DEF q
<1>9. Parse(Encode(m)) = ParsePayload(PortInputFormatSetupSingle, q)
  <2>1. 7 <= 252
    OBVIOUS
  <2>2. Len(q) <= 252
    BY <1>8, <2>1
  <2> QED BY <1>2, <1>7, <1>8, <2>2, ParseEncoded
<1>10. ParsePayload(PortInputFormatSetupSingle, q) = ParseInputFormatSetup(q)
  BY Dispatch
<1>11. ParseInputFormatSetup(q)
         = [kind |-> "PortInputFormatSetupSingle", port |-> m.port, mode |-> m.mode,
            delta |-> d, enable |-> e # 0]
  <2>1. ~(7 < 7)
    OBVIOUS
  <2>2. ~(Len(q) < 7)
    BY <1>8, <2>1
  <2> QED BY <1>8, <2>2 DEF ParseInputFormatSetup, Needs
<1>12. d = m.delta
  BY DEF d
<1> QED BY <1>1, <1>4, <1>9, <1>10, <1>11, <1>12

\* Whatever a host can put into one frame comes back from its own bytes.  A
\* body over 253 bytes does not: its length is cast to a byte.
THEOREM EncodedIsParsed ==
  ASSUME NEW m \in HostMessages, Len(EncodeInner(m)) <= 253
  PROVE  Parse(Encode(m)) = m
<1>1. m.kind \in {"HubProperty", "HubAction", "PortInputFormatSetupSingle",
                  "PortOutputCommand", "Unknown"}
  BY DEF HostMessages
<1> QED BY <1>1, PropertyRoundTrip, ActionRoundTrip, SetupRoundTrip, CommandRoundTrip,
           UnknownRoundTrip

-----------------------------------------------------------------------------
(***************************************************************************)
(* Every frame of the specification.                                       *)
(***************************************************************************)

IsFrame(b) == b \in Seq(Byte) /\ Len(b) \in 1..255 /\ Len(b) = b[1]

\* A frame that grows stays a frame: its length byte keeps up.
LEMMA FrameGrows ==
  ASSUME IsFrame(buf), NEW byte \in Byte, Grow(byte)
  PROVE  IsFrame(buf')
<1> DEFINE n == Len(buf)
           u == <<n + 1>>
           t == Tail(buf)
           v == <<byte>>
<1>1. n \in 1..255 /\ n < MaxLen /\ MaxLen \in 1..255
  BY CodecAssumption DEF IsFrame, Grow
<1> HIDE DEF n
<1>2. n + 1 \in 1..255 /\ n + 1 \in Byte
  BY <1>1 DEF Byte
<1>3. t \in Seq(Byte) /\ Len(t) = n - 1
  <2>1. buf \in Seq(Byte) /\ Len(buf) = n
    BY DEF IsFrame, n
  <2>2. Len(buf) # 0
    BY <1>1, <2>1
  <2>3. buf # << >>
    BY <2>1, <2>2, EmptySeq
  <2> QED BY <2>1, <2>3, HeadTailProperties
<1>4. /\ u \in Seq(Byte) /\ Len(u) = 1 /\ u[1] = n + 1
      /\ v \in Seq(Byte) /\ Len(v) = 1
  BY <1>2
<1>5. buf' = u \o t \o v
  BY DEF Grow, n
<1> HIDE DEF u, t, v
<1>6. /\ u \o t \in Seq(Byte) /\ Len(u \o t) = Len(u) + Len(t)
      /\ \A i \in 1..Len(u) : (u \o t)[i] = u[i]
  BY <1>3, <1>4, Glue
<1>7. /\ u \o t \o v \in Seq(Byte) /\ Len(u \o t \o v) = Len(u \o t) + Len(v)
      /\ \A i \in 1..Len(u \o t) : (u \o t \o v)[i] = (u \o t)[i]
  BY <1>4, <1>6, Glue
<1>8. Len(u \o t) = n /\ Len(u \o t \o v) = n + 1
  <2>1. 1 + (n - 1) = n
    BY <1>1
  <2> QED BY <1>3, <1>4, <1>6, <1>7, <2>1, Zenon
<1>9. (u \o t \o v)[1] = n + 1
  <2>1. 1 \in 1..1 /\ 1 \in 1..n
    BY <1>1
  <2> QED BY <1>4, <1>6, <1>7, <1>8, <2>1, Zenon
<1>10. buf' \in Seq(Byte) /\ Len(buf') = n + 1 /\ buf'[1] = n + 1
  BY <1>5, <1>7, <1>8, <1>9, Zenon
<1> QED BY <1>2, <1>10 DEF IsFrame

\* buf is always a frame, whatever the bytes of Choices.
THEOREM Frames == Spec => []IsFrame(buf)
<1>1. Init => IsFrame(buf)
  BY DEF Init, IsFrame, Byte
<1>2. IsFrame(buf) /\ [Next]_buf => IsFrame(buf)'
  <2>1. CASE UNCHANGED buf
    BY <2>1 DEF IsFrame
  <2>2. ASSUME IsFrame(buf), NEW byte \in Byte, Grow(byte)
        PROVE  IsFrame(buf')
    BY <2>2, FrameGrows
  <2> QED BY <2>1, <2>2 DEF Next
<1> QED BY <1>1, <1>2, PTL DEF Spec

\* No frame makes parse panic, but for an attach event that ends after the
\* port.
THEOREM PanicFree == Spec => []OnlyShortAttachPanics
<1>1. IsFrame(buf) => OnlyShortAttachPanics
  <2>1. \A n \in 1..255 : n >= 1
    OBVIOUS
  <2>2. ASSUME IsFrame(buf), Parse(buf) = Panic
        PROVE  Len(buf) = 4 /\ buf[3] = HubAttachedIo
    <3>1. buf \in Seq(Byte) /\ Len(buf) >= 1 /\ Len(buf) = buf[1]
      BY <2>1, <2>2 DEF IsFrame
    <3> QED BY <2>2, <3>1, ParseTotal
  <2> QED BY <2>2 DEF OnlyShortAttachPanics
<1> QED BY <1>1, Frames, PTL

\* The rest of a payload behind its first two bytes.
LEMMA RestOfPayload ==
  ASSUME NEW p \in Seq(Byte), ~(Len(p) < 2)
  PROVE  From(p, 3) \in Seq(Byte) /\ Len(From(p, 3)) = Len(p) - 2
<1>1. Len(p) \in Nat
  OBVIOUS
<1>2. \A n \in Nat : ~(n < 2) =>
        /\ (IF 3 <= n THEN n - 3 + 1 ELSE 0) = n - 2
        /\ \A i \in 3..n : i \in 1..n
  OBVIOUS
<1>3. \A i \in 1..Len(p) : p[i] \in Byte
  BY ElementOfSeq
<1>4. \A i \in 3..Len(p) : p[i] \in Byte
  BY <1>1, <1>2, <1>3
<1>5. 3 \in Int /\ Len(p) \in Int
  OBVIOUS
<1>6. /\ SubSeq(p, 3, Len(p)) \in Seq(Byte)
      /\ Len(SubSeq(p, 3, Len(p))) = IF 3 <= Len(p) THEN Len(p) - 3 + 1 ELSE 0
  BY <1>4, <1>5, SubSeqProperties, Z3
<1> QED BY <1>1, <1>2, <1>6 DEF From

\* Four bytes of a payload that has them.
LEMMA FourBytes ==
  ASSUME NEW p \in Seq(Byte), NEW k \in Nat, k >= 1, k + 3 <= Len(p)
  PROVE  SubSeq(p, k, k + 3) \in {d \in Seq(Byte) : Len(d) = 4}
<1>1. Len(p) \in Nat
  OBVIOUS
<1>2. \A n \in Nat : k + 3 <= n => \A i \in k..k + 3 : i \in 1..n
  OBVIOUS
<1>3. \A i \in 1..Len(p) : p[i] \in Byte
  BY ElementOfSeq
<1>4. \A i \in k..k + 3 : p[i] \in Byte
  BY <1>1, <1>2, <1>3
<1>5. k \in Int /\ k + 3 \in Int
  OBVIOUS
<1>6. /\ SubSeq(p, k, k + 3) \in Seq(Byte)
      /\ Len(SubSeq(p, k, k + 3)) = IF k <= k + 3 THEN k + 3 - k + 1 ELSE 0
  BY <1>4, <1>5, SubSeqProperties, Z3
<1>7. (IF k <= k + 3 THEN k + 3 - k + 1 ELSE 0) = 4
  OBVIOUS
<1> QED BY <1>6, <1>7

\* A body of three bytes and a payload.
LEMMA BodyLength ==
  ASSUME NEW a \in Byte, NEW b \in Byte, NEW c \in Byte, NEW q \in Seq(Byte)
  PROVE  Len(<<a, b, c>> \o q) = 3 + Len(q)
<1>1. <<a, b, c>> \in Seq(Byte) /\ Len(<<a, b, c>>) = 3
  OBVIOUS
<1> QED BY <1>1, DropFront

\* What parse makes of a payload that fits into a frame is, if a host may
\* encode it, a message that fits into a frame.
LEMMA ParsedFits ==
  ASSUME NEW p \in Seq(Byte), NEW t \in Byte, Len(p) <= 252,
         ParsePayload(t, p).kind \in Encodable
  PROVE  /\ ParsePayload(t, p) \in HostMessages
         /\ Len(EncodeInner(ParsePayload(t, p))) <= 253
<1> DEFINE Fits(m) == m.kind \in Encodable =>
                        m \in HostMessages /\ Len(EncodeInner(m)) <= 253
<1>1. Len(p) \in Nat
  OBVIOUS
<1>2. \A n \in 1..Len(p) : p[n] \in Byte
  BY ElementOfSeq
<1>3. \A k \in Nat : ~(k < 2) => 1 \in 1..k /\ 2 \in 1..k
  OBVIOUS
<1>4. \A k \in Nat : ~(k < 7) => ~(k < 2)
  OBVIOUS
<1>5. \A k \in Nat : ~(k < 2) /\ k <= 252 => 3 + (k - 2) <= 253
  OBVIOUS
<1>6. Fits(ParseHubProperty(p))
  <2>1. CASE /\ ~(Len(p) < 2)
             /\ p[1] \in PropertyReferences /\ p[2] \in Operations
    <3> DEFINE m == [kind |-> "HubProperty", property |-> p[1], operation |-> p[2],
                     payload |-> From(p, 3)]
    <3>1. ParseHubProperty(p) = m
      BY <2>1 DEF ParseHubProperty, Needs, Known
    <3>2. From(p, 3) \in Seq(Byte) /\ Len(From(p, 3)) = Len(p) - 2
      BY <2>1, RestOfPayload
    <3>3. m \in HostMessages
      BY <2>1, <3>2 DEF HostMessages
    <3>4. EncodeInner(m) = <<HubProperties, p[1], p[2]>> \o From(p, 3)
      BY DEF EncodeInner
    <3>5. HubProperties \in Byte /\ p[1] \in Byte /\ p[2] \in Byte
      BY <2>1 DEF PropertyReferences, Operations, HubProperties, Byte
    <3>6. Len(EncodeInner(m)) = 3 + (Len(p) - 2)
      BY <3>2, <3>4, <3>5, BodyLength
    <3>7. Len(EncodeInner(m)) <= 253
      BY <1>1, <1>5, <2>1, <3>6
    <3> QED BY <3>1, <3>3, <3>7
  <2>2. CASE ~(/\ ~(Len(p) < 2)
               /\ p[1] \in PropertyReferences /\ p[2] \in Operations)
    BY <2>2 DEF ParseHubProperty, Needs, Known, Error, Encodable
  <2> QED BY <2>1, <2>2
<1>7. Fits(ParseOutputCommand(p))
  <2>1. CASE ~(Len(p) < 2)
    <3> DEFINE m == [kind |-> "PortOutputCommand", port |-> p[1], startup |-> p[2],
                     payload |-> From(p, 3)]
    <3>1. ParseOutputCommand(p) = m
      BY <2>1 DEF ParseOutputCommand, Needs
    <3>2. From(p, 3) \in Seq(Byte) /\ Len(From(p, 3)) = Len(p) - 2
      BY <2>1, RestOfPayload
    <3>3. p[1] \in Byte /\ p[2] \in Byte
      BY <1>1, <1>2, <1>3, <2>1
    <3>4. m \in HostMessages
      BY <3>2, <3>3 DEF HostMessages
    <3>5. EncodeInner(m) = <<PortOutputCommand, p[1], p[2]>> \o From(p, 3)
      BY DEF EncodeInner
    <3>6. PortOutputCommand \in Byte
      BY DEF PortOutputCommand, Byte
    <3>7. Len(EncodeInner(m)) = 3 + (Len(p) - 2)
      BY <3>2, <3>3, <3>5, <3>6, BodyLength
    <3>8. Len(EncodeInner(m)) <= 253
      BY <1>1, <1>5, <2>1, <3>7
    <3> QED BY <3>1, <3>4, <3>8
  <2>2. CASE Len(p) < 2
    BY <2>2 DEF ParseOutputCommand, Needs, Error, Encodable
  <2> QED BY <2>1, <2>2
<1>8. Fits(ParseHubAction(p))
  <2>1. CASE ~(Len(p) < 1) /\ p[1] \in Actions
    <3> DEFINE m == [kind |-> "HubAction", action |-> p[1]]
    <3>1. ParseHubAction(p) = m
      BY <2>1 DEF ParseHubAction, Needs, Known
    <3>2. m \in HostMessages
      BY <2>1 DEF HostMessages
    <3>3. EncodeInner(m) = <<HubActions, p[1]>>
      BY DEF EncodeInner
    <3>4. Len(EncodeInner(m)) = 2
      BY <3>3
    <3> DEFINE l == Len(EncodeInner(m))
    <3>5. l = 2
      BY <3>4
    <3> HIDE DEF m, l
    <3>6. l <= 253
      BY <3>5
    <3> QED BY <3>1, <3>2, <3>6 DEF l
  <2>2. CASE ~(~(Len(p) < 1) /\ p[1] \in Actions)
    BY <2>2 DEF ParseHubAction, Needs, Known, Error, Encodable
  <2> QED BY <2>1, <2>2
<1>9. Fits(ParseInputFormatSetup(p))
  <2>1. CASE ~(Len(p) < 7)
    <3> DEFINE d == SubSeq(p, 3, 6)
               m == [kind |-> "PortInputFormatSetupSingle", port |-> p[1], mode |-> p[2],
                     delta |-> d, enable |-> p[7] # 0]
               e == IF p[7] # 0 THEN 1 ELSE 0
               h == <<PortInputFormatSetupSingle, p[1], p[2]>>
    <3>1. ParseInputFormatSetup(p) = m
      BY <2>1 DEF ParseInputFormatSetup, Needs
    <3>2. d \in {s \in Seq(Byte) : Len(s) = 4}
      <4>1. \A k \in Nat : ~(k < 7) => 3 + 3 <= k
        OBVIOUS
      <4>2. SubSeq(p, 3, 3 + 3) \in {s \in Seq(Byte) : Len(s) = 4}
        BY <1>1, <2>1, <4>1, FourBytes
      <4> QED BY <4>2
    <3>3. p[1] \in Byte /\ p[2] \in Byte /\ PortInputFormatSetupSingle \in Byte
      BY <1>1, <1>2, <1>3, <1>4, <2>1 DEF PortInputFormatSetupSingle, Byte
    <3> HIDE DEF d
    <3>4. m \in HostMessages
      BY <3>2, <3>3 DEF HostMessages
    <3>5. EncodeInner(m) = h \o d \o <<e>>
      BY DEF EncodeInner
    <3>6. h \in Seq(Byte) /\ Len(h) = 3 /\ <<e>> \in Seq(Byte) /\ Len(<<e>>) = 1
      BY <3>3 DEF Byte
    <3> HIDE DEF h, e, m
    <3>7. h \o d \in Seq(Byte) /\ Len(h \o d) = Len(h) + Len(d)
      BY <3>2, <3>6, Glue
    <3>8. Len(h \o d \o <<e>>) = Len(h \o d) + Len(<<e>>)
      BY <3>6, <3>7, Glue
    <3>9. Len(d) = 4
      BY <3>2
    <3>10. Len(EncodeInner(m)) = 3 + 4 + 1
      BY <3>5, <3>6, <3>7, <3>8, <3>9, Zenon
    <3> DEFINE l == Len(EncodeInner(m))
    <3>11. l = 3 + 4 + 1
      BY <3>10
    <3> HIDE DEF l
    <3>12. l <= 253
      BY <3>11
    <3> QED BY <3>1, <3>4, <3>12 DEF l
  <2>2. CASE Len(p) < 7
    BY <2>2 DEF ParseInputFormatSetup, Needs, Error, Encodable
  <2> QED BY <2>1, <2>2
<1>10. ASSUME t \notin Decoded
       PROVE  Fits([kind |-> "Unknown", type |-> t, payload |-> p])
  <2> DEFINE m == [kind |-> "Unknown", type |-> t, payload |-> p]
  <2>1. m \in HostMessages
    BY <1>10 DEF HostMessages
  <2>2. EncodeInner(m) = <<t>> \o p
    BY DEF EncodeInner
  <2>3. Len(<<t>> \o p) = 1 + Len(p)
    BY DropFront, Len(<<t>>) = 1, <<t>> \in Seq(Byte)
  <2>4. \A k \in Nat : k <= 252 => 1 + k <= 253
    OBVIOUS
  <2>5. Len(EncodeInner(m)) <= 253
    BY <1>1, <2>2, <2>3, <2>4
  <2> QED BY <2>1, <2>5
<1>11. /\ ParseHubAlert(p).kind \notin Encodable
       /\ ParseHubAttachedIo(p).kind \notin Encodable
       /\ ParseGenericError(p).kind \notin Encodable
       /\ ParsePortValueSingle(p).kind \notin Encodable
       /\ ParseInputFormatSingle(p).kind \notin Encodable
       /\ ParseOutputFeedback(p).kind \notin Encodable
  BY DEF ParseHubAlert, ParseHubAttachedIo, ParseGenericError, ParsePortValueSingle,
         ParseInputFormatSingle, ParseOutputFeedback, Needs, Reads, Known, Error, Panic,
         Encodable
<1> HIDE DEF Fits
<1>12. Fits(ParsePayload(t, p))
  <2>1. CASE t \notin Decoded
    BY <1>10, <2>1, Dispatch
  <2>2. CASE t \in {HubProperties, HubActions, PortInputFormatSetupSingle, PortOutputCommand}
    BY <1>6, <1>7, <1>8, <1>9, <2>2, Dispatch
  <2>3. CASE t \in Decoded \ {HubProperties, HubActions, PortInputFormatSetupSingle,
                              PortOutputCommand}
    <3>1. ParsePayload(t, p).kind \notin Encodable
      BY <1>11, <2>3
      DEF ParsePayload, Decoded, HubProperties, HubActions, HubAlerts, HubAttachedIo,
          GenericErrorMessages, PortInputFormatSetupSingle, PortValueSingle,
          PortInputFormatSingle, PortOutputCommand, PortOutputCommandFeedback
    <3> QED BY <3>1
  <2> QED BY <2>1, <2>2, <2>3
<1> QED BY <1>12 DEF Fits

\* What is parsed from a frame is, if a host may encode it, a message that fits
\* into a frame.
LEMMA FrameFits ==
  ASSUME IsFrame(buf), Parse(buf).kind \in Encodable
  PROVE  Parse(buf) \in HostMessages /\ Len(EncodeInner(Parse(buf))) <= 253
<1> DEFINE p == SubSeq(buf, 4, Len(buf))
<1>1. Len(buf) >= 3 /\ buf[3] \in Byte /\ Parse(buf) = ParsePayload(buf[3], p)
  <2>1. ~(Len(buf) < 3)
    BY DEF Parse, Error, Encodable
  <2>2. \A n \in 1..255 : ~(n < 3) => n >= 3 /\ ~(n < n) /\ 3 \in 1..n
    OBVIOUS
  <2>3. Len(buf) \in 1..255 /\ Len(buf) = buf[1] /\ buf \in Seq(Byte)
    BY DEF IsFrame
  <2>4. buf[3] \in Byte
    BY <2>1, <2>2, <2>3, ElementOfSeq
  <2> QED BY <2>1, <2>2, <2>3, <2>4 DEF Parse
<1>2. p \in Seq(Byte) /\ Len(p) = Len(buf) - 3
  BY <1>1, FramePayload DEF IsFrame
<1>3. Len(p) <= 252
  <2>1. \A n \in 1..255 : n - 3 <= 252
    OBVIOUS
  <2> QED BY <1>2, <2>1 DEF IsFrame
<1> HIDE DEF p
<1> QED BY <1>1, <1>2, <1>3, ParsedFits

\* Whatever parse returns comes back from its own bytes, if a host can encode
\* it at all.
THEOREM ParseUndoesEncode == Spec => []RoundTrip
<1>1. ASSUME IsFrame(buf), Parse(buf).kind \in Encodable
      PROVE  Parse(Encode(Parse(buf))) = Parse(buf)
  BY <1>1, FrameFits, EncodedIsParsed
<1>2. IsFrame(buf) => RoundTrip
  BY <1>1 DEF RoundTrip
<1> QED BY <1>2, Frames, PTL

\* Two bytes make a word.
LEMMA TwoBytes ==
  ASSUME NEW k \in Byte, NEW l \in Byte
  PROVE  U16(k, l) \in Word
<1>1. \A n, m \in 0..255 : n + 256 * m < 65536 /\ n + 256 * m \in Nat
  OBVIOUS
<1> QED BY <1>1 DEF U16, Word, Byte

\* The nibbles of a byte.
LEMMA Nibbles ==
  ASSUME NEW k \in Byte
  PROVE  k \div 16 \in 0..15 /\ k % 16 \in 0..15
BY DEF Byte

\* The fields of a version fit their widths.
LEMMA VersionFits ==
  ASSUME NEW d \in Seq(Byte), Len(d) = 4
  PROVE  Version(d) \in VersionType
<1>1. d[1] \in Byte /\ d[2] \in Byte /\ d[3] \in Byte /\ d[4] \in Byte
  <2>1. \A i \in 1..Len(d) : d[i] \in Byte
    BY ElementOfSeq
  <2>2. \A i \in 1..4 : d[i] \in Byte
    BY <2>1, Zenon
  <2> QED BY <2>2
<1>2. U16(d[1], d[2]) \in Word
  BY <1>1, TwoBytes
<1>3. d[4] \div 16 \in 0..15 /\ d[4] % 16 \in 0..15
  BY <1>1, Nibbles
<1> QED BY <1>1, <1>2, <1>3, Zenon DEF Version, VersionType

\* The versions of a parsed payload fit their widths.
LEMMA PayloadVersions ==
  ASSUME NEW p \in Seq(Byte), NEW t \in Byte
  PROVE  Versions(ParsePayload(t, p)) \subseteq VersionType
<1> DEFINE m == ParsePayload(t, p)
<1> SUFFICES ASSUME m.kind = "HubAttachedIo", m.info # <<>>, m.event = AttachedIo
             PROVE  {m.info[1].hw, m.info[1].sw} \subseteq VersionType
  BY Zenon DEF Versions
<1>1. /\ ParseHubProperty(p).kind # "HubAttachedIo"
      /\ ParseHubAction(p).kind # "HubAttachedIo"
      /\ ParseHubAlert(p).kind # "HubAttachedIo"
      /\ ParseGenericError(p).kind # "HubAttachedIo"
      /\ ParseInputFormatSetup(p).kind # "HubAttachedIo"
      /\ ParsePortValueSingle(p).kind # "HubAttachedIo"
      /\ ParseInputFormatSingle(p).kind # "HubAttachedIo"
      /\ ParseOutputCommand(p).kind # "HubAttachedIo"
      /\ ParseOutputFeedback(p).kind # "HubAttachedIo"
  BY DEF ParseHubProperty, ParseHubAction, ParseHubAlert, ParseGenericError,
         ParseInputFormatSetup, ParsePortValueSingle, ParseInputFormatSingle,
         ParseOutputCommand, ParseOutputFeedback, Needs, Known, Error
<1>2. m = ParseHubAttachedIo(p)
  BY <1>1
  DEF ParsePayload, HubProperties, HubActions, HubAlerts, HubAttachedIo,
      GenericErrorMessages, PortInputFormatSetupSingle, PortValueSingle,
      PortInputFormatSingle, PortOutputCommand, PortOutputCommandFeedback
<1> HIDE DEF m
<1>3. m = [kind |-> "HubAttachedIo", port |-> p[1], event |-> p[2], info |-> AttachInfo(p)]
  BY <1>2 DEF ParseHubAttachedIo, Needs, Reads, Known, Error, Panic
<1>4. p[2] = AttachedIo /\ AttachInfo(p) # <<>>
  BY <1>3
<1>5. Len(p) >= 12
  BY <1>4 DEF AttachInfo, AttachedIo, AttachedVirtualIo
<1>6. AttachInfo(p) = <<[type |-> U16(p[3], p[4]), hw |-> Version(SubSeq(p, 5, 8)),
                         sw |-> Version(SubSeq(p, 9, 12))]>>
  <2>1. p[2] # AttachedVirtualIo
    BY <1>4 DEF AttachedIo, AttachedVirtualIo
  <2> QED BY <1>4, <1>5, <2>1 DEF AttachInfo
<1>7. /\ SubSeq(p, 5, 8) \in {d \in Seq(Byte) : Len(d) = 4}
      /\ SubSeq(p, 9, 12) \in {d \in Seq(Byte) : Len(d) = 4}
  <2>1. Len(p) \in Nat
    OBVIOUS
  <2>2. \A n \in Nat : n >= 12 => 5 + 3 <= n /\ 9 + 3 <= n
    OBVIOUS
  <2>3. 5 + 3 <= Len(p) /\ 9 + 3 <= Len(p)
    BY <1>5, <2>1, <2>2
  <2>4. /\ SubSeq(p, 5, 5 + 3) \in {d \in Seq(Byte) : Len(d) = 4}
        /\ SubSeq(p, 9, 9 + 3) \in {d \in Seq(Byte) : Len(d) = 4}
    BY <2>3, FourBytes
  <2> QED BY <2>4
<1>8. Version(SubSeq(p, 5, 8)) \in VersionType /\ Version(SubSeq(p, 9, 12)) \in VersionType
  BY <1>7, VersionFits
<1> QED BY <1>3, <1>6, <1>8

\* buf is a frame, and what is parsed from it has the types of the code.
THEOREM TypeCorrect == Spec => []TypeOK
<1>1. ASSUME IsFrame(buf)
      PROVE  Versions(Parse(buf)) \subseteq VersionType
  <2>1. buf \in Seq(Byte) /\ Len(buf) \in 1..255 /\ Len(buf) = buf[1]
    BY <1>1 DEF IsFrame
  <2>2. \A n \in 1..255 : ~(n < 3) => n >= 3 /\ ~(n < n) /\ 3 \in 1..n
    OBVIOUS
  <2>3. CASE Len(buf) < 3
    BY <2>3 DEF Parse, Error, Versions
  <2>4. CASE ~(Len(buf) < 3)
    <3>1. SubSeq(buf, 4, Len(buf)) \in Seq(Byte)
      BY <2>1, <2>2, <2>4, FramePayload
    <3>2. buf[3] \in Byte
      BY <2>1, <2>2, <2>4, ElementOfSeq
    <3>3. Parse(buf) = ParsePayload(buf[3], SubSeq(buf, 4, Len(buf)))
      BY <2>1, <2>2, <2>4 DEF Parse
    <3> QED BY <3>1, <3>2, <3>3, PayloadVersions
  <2> QED BY <2>3, <2>4
<1>2. IsFrame(buf) => TypeOK
  BY <1>1, FrameFits, Zenon DEF IsFrame, TypeOK
<1> QED BY <1>2, Frames, PTL

-----------------------------------------------------------------------------
(***************************************************************************)
(* parse tolerates what is appended.                                       *)
(***************************************************************************)
\* q is p with one more byte behind it.
Longer(p, q) == Len(q) = Len(p) + 1 /\ \A i \in 1..Len(p) : q[i] = p[i]

\* A parser that understands p understands it the same way in front of another
\* byte.
Tolerates(m, n) == ~Failed(m) => Subject(n) = Subject(m)

\* The first bytes of a longer payload.
LEMMA SameFront ==
  ASSUME NEW p \in Seq(Byte), NEW q \in Seq(Byte), Longer(p, q), NEW k \in Nat, ~(Len(p) < k)
  PROVE  ~(Len(q) < k) /\ \A i \in 1..k : q[i] = p[i]
<1>1. Len(p) \in Nat /\ Len(q) = Len(p) + 1
  BY DEF Longer
<1>2. \A i \in 1..k : i \in 1..Len(p)
  BY <1>1
<1> QED BY <1>1, <1>2 DEF Longer

\* A property is still the same property.
LEMMA PropertyTolerates ==
  ASSUME NEW p \in Seq(Byte), NEW q \in Seq(Byte), Longer(p, q)
  PROVE  Tolerates(ParseHubProperty(p), ParseHubProperty(q))
<1> SUFFICES ASSUME ~Failed(ParseHubProperty(p))
             PROVE  Subject(ParseHubProperty(q)) = Subject(ParseHubProperty(p))
  BY DEF Tolerates
<1>1. /\ ~(Len(p) < 2) /\ p[1] \in PropertyReferences /\ p[2] \in Operations
      /\ ParseHubProperty(p) = [kind |-> "HubProperty", property |-> p[1], operation |-> p[2],
                                payload |-> From(p, 3)]
  BY DEF ParseHubProperty, Needs, Known, Error, Failed
<1>2. ~(Len(q) < 2) /\ q[1] = p[1] /\ q[2] = p[2]
  BY <1>1, SameFront
<1>3. ParseHubProperty(q) = [kind |-> "HubProperty", property |-> p[1], operation |-> p[2],
                             payload |-> From(q, 3)]
  BY <1>1, <1>2 DEF ParseHubProperty, Needs, Known
<1> QED BY <1>1, <1>3 DEF Subject

\* An action is still the same action.
LEMMA ActionTolerates ==
  ASSUME NEW p \in Seq(Byte), NEW q \in Seq(Byte), Longer(p, q)
  PROVE  Tolerates(ParseHubAction(p), ParseHubAction(q))
<1> SUFFICES ASSUME ~Failed(ParseHubAction(p))
             PROVE  Subject(ParseHubAction(q)) = Subject(ParseHubAction(p))
  BY DEF Tolerates
<1>1. /\ ~(Len(p) < 1) /\ p[1] \in Actions
      /\ ParseHubAction(p) = [kind |-> "HubAction", action |-> p[1]]
  BY DEF ParseHubAction, Needs, Known, Error, Failed
<1>2. ~(Len(q) < 1) /\ q[1] = p[1]
  BY <1>1, SameFront
<1>3. ParseHubAction(q) = [kind |-> "HubAction", action |-> p[1]]
  BY <1>1, <1>2 DEF ParseHubAction, Needs, Known
<1> QED BY <1>1, <1>3 DEF Subject

\* An alert is still the same alert.
LEMMA AlertTolerates ==
  ASSUME NEW p \in Seq(Byte), NEW q \in Seq(Byte), Longer(p, q)
  PROVE  Tolerates(ParseHubAlert(p), ParseHubAlert(q))
<1> SUFFICES ASSUME ~Failed(ParseHubAlert(p))
             PROVE  Subject(ParseHubAlert(q)) = Subject(ParseHubAlert(p))
  BY DEF Tolerates
<1>1. /\ ~(Len(p) < 2) /\ p[1] \in AlertTypes /\ p[2] \in AlertPayloads
      /\ ParseHubAlert(p) = [kind |-> "HubAlert", alert |-> p[1], payload |-> p[2]]
  BY DEF ParseHubAlert, Needs, Known, Error, Failed
<1>2. ~(Len(q) < 2) /\ q[1] = p[1] /\ q[2] = p[2]
  BY <1>1, SameFront
<1>3. ParseHubAlert(q) = [kind |-> "HubAlert", alert |-> p[1], payload |-> p[2]]
  BY <1>1, <1>2 DEF ParseHubAlert, Needs, Known
<1> QED BY <1>1, <1>3 DEF Subject

\* An error message is still about the same command.
LEMMA ErrorTolerates ==
  ASSUME NEW p \in Seq(Byte), NEW q \in Seq(Byte), Longer(p, q)
  PROVE  Tolerates(ParseGenericError(p), ParseGenericError(q))
<1> SUFFICES ASSUME ~Failed(ParseGenericError(p))
             PROVE  Subject(ParseGenericError(q)) = Subject(ParseGenericError(p))
  BY DEF Tolerates
<1>1. /\ ~(Len(p) < 2)
      /\ ParseGenericError(p) = [kind |-> "GenericError", command |-> p[1], code |-> p[2]]
  BY DEF ParseGenericError, Needs, Error, Failed
<1>2. ~(Len(q) < 2) /\ q[1] = p[1] /\ q[2] = p[2]
  BY <1>1, SameFront
<1>3. ParseGenericError(q) = [kind |-> "GenericError", command |-> p[1], code |-> p[2]]
  BY <1>1, <1>2 DEF ParseGenericError, Needs
<1> QED BY <1>1, <1>3 DEF Subject

\* A mode is still the same mode of the same port.
LEMMA FormatTolerates ==
  ASSUME NEW p \in Seq(Byte), NEW q \in Seq(Byte), Longer(p, q)
  PROVE  Tolerates(ParseInputFormatSingle(p), ParseInputFormatSingle(q))
<1> SUFFICES ASSUME ~Failed(ParseInputFormatSingle(p))
             PROVE  Subject(ParseInputFormatSingle(q)) = Subject(ParseInputFormatSingle(p))
  BY DEF Tolerates
<1>1. /\ ~(Len(p) < 2)
      /\ ParseInputFormatSingle(p) = [kind |-> "PortInputFormatSingle", port |-> p[1], mode |-> p[2]]
  BY DEF ParseInputFormatSingle, Needs, Error, Failed
<1>2. ~(Len(q) < 2) /\ q[1] = p[1] /\ q[2] = p[2]
  BY <1>1, SameFront
<1>3. ParseInputFormatSingle(q) = [kind |-> "PortInputFormatSingle", port |-> p[1], mode |-> p[2]]
  BY <1>1, <1>2 DEF ParseInputFormatSingle, Needs
<1> QED BY <1>1, <1>3 DEF Subject

\* A value is still a value of the same port.
LEMMA ValueTolerates ==
  ASSUME NEW p \in Seq(Byte), NEW q \in Seq(Byte), Longer(p, q)
  PROVE  Tolerates(ParsePortValueSingle(p), ParsePortValueSingle(q))
<1> SUFFICES ASSUME ~Failed(ParsePortValueSingle(p))
             PROVE  Subject(ParsePortValueSingle(q)) = Subject(ParsePortValueSingle(p))
  BY DEF Tolerates
<1>1. /\ ~(Len(p) < 1)
      /\ ParsePortValueSingle(p) = [kind |-> "PortValueSingle", port |-> p[1], data |-> From(p, 2)]
  BY DEF ParsePortValueSingle, Needs, Error, Failed
<1>2. ~(Len(q) < 1) /\ q[1] = p[1]
  BY <1>1, SameFront
<1>3. ParsePortValueSingle(q) = [kind |-> "PortValueSingle", port |-> p[1], data |-> From(q, 2)]
  BY <1>1, <1>2 DEF ParsePortValueSingle, Needs
<1> QED BY <1>1, <1>3 DEF Subject

\* A command is still for the same port.
LEMMA CommandTolerates ==
  ASSUME NEW p \in Seq(Byte), NEW q \in Seq(Byte), Longer(p, q)
  PROVE  Tolerates(ParseOutputCommand(p), ParseOutputCommand(q))
<1> SUFFICES ASSUME ~Failed(ParseOutputCommand(p))
             PROVE  Subject(ParseOutputCommand(q)) = Subject(ParseOutputCommand(p))
  BY DEF Tolerates
<1>1. /\ ~(Len(p) < 2)
      /\ ParseOutputCommand(p) = [kind |-> "PortOutputCommand", port |-> p[1], startup |-> p[2],
                             payload |-> From(p, 3)]
  BY DEF ParseOutputCommand, Needs, Error, Failed
<1>2. ~(Len(q) < 2) /\ q[1] = p[1] /\ q[2] = p[2]
  BY <1>1, SameFront
<1>3. ParseOutputCommand(q) = [kind |-> "PortOutputCommand", port |-> p[1], startup |-> p[2],
                             payload |-> From(q, 3)]
  BY <1>1, <1>2 DEF ParseOutputCommand, Needs
<1> QED BY <1>1, <1>3 DEF Subject

\* A device is still announced, or gone, at the same port.
LEMMA AttachTolerates ==
  ASSUME NEW p \in Seq(Byte), NEW q \in Seq(Byte), Longer(p, q)
  PROVE  Tolerates(ParseHubAttachedIo(p), ParseHubAttachedIo(q))
<1> SUFFICES ASSUME ~Failed(ParseHubAttachedIo(p))
             PROVE  Subject(ParseHubAttachedIo(q)) = Subject(ParseHubAttachedIo(p))
  BY DEF Tolerates
<1>1. /\ ~(Len(p) < 1) /\ ~(Len(p) < 2) /\ p[2] \in IoEvents
      /\ ParseHubAttachedIo(p) = [kind |-> "HubAttachedIo", port |-> p[1], event |-> p[2],
                                  info |-> AttachInfo(p)]
  BY DEF ParseHubAttachedIo, Needs, Reads, Known, Error, Panic, Failed
<1>2. ~(Len(q) < 1) /\ ~(Len(q) < 2) /\ q[1] = p[1] /\ q[2] = p[2]
  BY <1>1, SameFront
<1>3. ParseHubAttachedIo(q) = [kind |-> "HubAttachedIo", port |-> p[1], event |-> p[2],
                              info |-> AttachInfo(q)]
  BY <1>1, <1>2 DEF ParseHubAttachedIo, Needs, Reads, Known
<1> QED BY <1>1, <1>3 DEF Subject

\* A setup is still for the same mode of the same port.
LEMMA SetupTolerates ==
  ASSUME NEW p \in Seq(Byte), NEW q \in Seq(Byte), Longer(p, q)
  PROVE  Tolerates(ParseInputFormatSetup(p), ParseInputFormatSetup(q))
<1> SUFFICES ASSUME ~Failed(ParseInputFormatSetup(p))
             PROVE  Subject(ParseInputFormatSetup(q)) = Subject(ParseInputFormatSetup(p))
  BY DEF Tolerates
<1>1. /\ ~(Len(p) < 7)
      /\ ParseInputFormatSetup(p) =
           [kind |-> "PortInputFormatSetupSingle", port |-> p[1], mode |-> p[2],
            delta |-> SubSeq(p, 3, 6), enable |-> p[7] # 0]
  BY DEF ParseInputFormatSetup, Needs, Error, Failed
<1>2. ~(Len(q) < 7) /\ q[1] = p[1] /\ q[2] = p[2]
  BY <1>1, SameFront
<1>3. ParseInputFormatSetup(q) =
        [kind |-> "PortInputFormatSetupSingle", port |-> p[1], mode |-> p[2],
         delta |-> SubSeq(q, 3, 6), enable |-> q[7] # 0]
  BY <1>1, <1>2 DEF ParseInputFormatSetup, Needs
<1> QED BY <1>1, <1>3 DEF Subject

\* What a frame of an undecoded type is about.
LEMMA UnknownTolerates ==
  ASSUME NEW t, NEW p, NEW q
  PROVE  Tolerates([kind |-> "Unknown", type |-> t, payload |-> p],
                   [kind |-> "Unknown", type |-> t, payload |-> q])
BY DEF Tolerates, Subject

\* Feedback is the exception.
LEMMA FeedbackIsFeedback ==
  ASSUME NEW p
  PROVE  Failed(ParseOutputFeedback(p)) \/ ParseOutputFeedback(p).kind = "PortOutputCommandFeedback"
BY DEF ParseOutputFeedback, Needs, Known, Error, Failed

\* Which parser looks at which type.
LEMMA DispatchAll ==
  ASSUME NEW p, NEW t \in Byte
  PROVE  /\ t = HubProperties              => ParsePayload(t, p) = ParseHubProperty(p)
         /\ t = HubActions                 => ParsePayload(t, p) = ParseHubAction(p)
         /\ t = HubAlerts                  => ParsePayload(t, p) = ParseHubAlert(p)
         /\ t = HubAttachedIo              => ParsePayload(t, p) = ParseHubAttachedIo(p)
         /\ t = GenericErrorMessages       => ParsePayload(t, p) = ParseGenericError(p)
         /\ t = PortInputFormatSetupSingle => ParsePayload(t, p) = ParseInputFormatSetup(p)
         /\ t = PortValueSingle            => ParsePayload(t, p) = ParsePortValueSingle(p)
         /\ t = PortInputFormatSingle      => ParsePayload(t, p) = ParseInputFormatSingle(p)
         /\ t = PortOutputCommand          => ParsePayload(t, p) = ParseOutputCommand(p)
         /\ t = PortOutputCommandFeedback  => ParsePayload(t, p) = ParseOutputFeedback(p)
         /\ t \notin Decoded => ParsePayload(t, p) = [kind |-> "Unknown", type |-> t, payload |-> p]
BY DEF ParsePayload, Decoded, HubProperties, HubActions, HubAlerts, HubAttachedIo,
      GenericErrorMessages, PortInputFormatSetupSingle, PortValueSingle,
      PortInputFormatSingle, PortOutputCommand, PortOutputCommandFeedback

\* All parsers together.
LEMMA PayloadTolerates ==
  ASSUME NEW p \in Seq(Byte), NEW q \in Seq(Byte), Longer(p, q), NEW t \in Byte,
         ParsePayload(t, p).kind # "PortOutputCommandFeedback"
  PROVE  Tolerates(ParsePayload(t, p), ParsePayload(t, q))
<1>1. CASE t = HubProperties
  BY <1>1, PropertyTolerates, DispatchAll
<1>2. CASE t = HubActions
  BY <1>2, ActionTolerates, DispatchAll
<1>3. CASE t = HubAlerts
  BY <1>3, AlertTolerates, DispatchAll
<1>4. CASE t = HubAttachedIo
  BY <1>4, AttachTolerates, DispatchAll
<1>5. CASE t = GenericErrorMessages
  BY <1>5, ErrorTolerates, DispatchAll
<1>6. CASE t = PortInputFormatSetupSingle
  BY <1>6, SetupTolerates, DispatchAll
<1>7. CASE t = PortValueSingle
  BY <1>7, ValueTolerates, DispatchAll
<1>8. CASE t = PortInputFormatSingle
  BY <1>8, FormatTolerates, DispatchAll
<1>9. CASE t = PortOutputCommand
  BY <1>9, CommandTolerates, DispatchAll
<1>10. CASE t = PortOutputCommandFeedback
  <2>1. ParsePayload(t, p) = ParseOutputFeedback(p)
    BY <1>10, DispatchAll
  <2> QED BY <2>1, FeedbackIsFeedback DEF Tolerates
<1>11. CASE t \notin Decoded
  BY <1>11, UnknownTolerates, DispatchAll
<1> QED BY <1>1, <1>2, <1>3, <1>4, <1>5, <1>6, <1>7, <1>8, <1>9, <1>10, <1>11 DEF Decoded

\* A frame that grows keeps its bytes, but for the length.
LEMMA GrowthKeeps ==
  ASSUME IsFrame(buf), NEW byte \in Byte, Grow(byte)
  PROVE  /\ Len(buf') = Len(buf) + 1
         /\ \A i \in 2..Len(buf) : buf'[i] = buf[i]
<1> DEFINE n == Len(buf)
           u == <<n + 1>>
           t == Tail(buf)
           v == <<byte>>
           w == u \o t
<1>1. n \in 1..255 /\ buf \in Seq(Byte) /\ Len(buf) = n /\ n + 1 \in Byte
  <2>1. n \in 1..255 /\ n < MaxLen /\ MaxLen \in 1..255
    BY CodecAssumption DEF IsFrame, Grow
  <2> HIDE DEF n
  <2>2. n + 1 \in Byte
    BY <2>1 DEF Byte
  <2> QED BY <2>1, <2>2 DEF n, IsFrame
<1> HIDE DEF n
<1>2. t \in Seq(Byte) /\ Len(t) = n - 1 /\ \A i \in 1..n - 1 : t[i] = buf[i + 1]
  <2>1. Len(buf) # 0
    BY <1>1
  <2>2. buf # << >>
    BY <1>1, <2>1, EmptySeq
  <2> QED BY <1>1, <2>2, HeadTailProperties
<1>3. /\ u \in Seq(Byte) /\ Len(u) = 1
      /\ v \in Seq(Byte) /\ Len(v) = 1
  BY <1>1
<1>4. buf' = w \o v
  BY DEF Grow, n
<1> HIDE DEF u, t, v
<1>5. /\ w \in Seq(Byte) /\ Len(w) = Len(u) + Len(t)
      /\ \A i \in 1..Len(t) : w[Len(u) + i] = t[i]
  BY <1>2, <1>3, Glue
<1> HIDE DEF w
<1>6. /\ Len(w \o v) = Len(w) + Len(v)
      /\ \A i \in 1..Len(w) : (w \o v)[i] = w[i]
  BY <1>3, <1>5, Glue
<1>7. Len(w) = n /\ Len(w \o v) = n + 1
  BY <1>1, <1>2, <1>3, <1>5, <1>6
<1>8. ASSUME NEW i \in 2..n
      PROVE  w[i] = buf[i]
  <2>1. i - 1 \in 1..n - 1 /\ 1 + (i - 1) = i /\ (i - 1) + 1 = i
    BY <1>1
  <2>2. w[1 + (i - 1)] = t[i - 1]
    BY <1>2, <1>3, <1>5, <2>1
  <2>3. t[i - 1] = buf[(i - 1) + 1]
    BY <1>2, <2>1
  <2> QED BY <2>1, <2>2, <2>3
<1>9. \A i \in 2..n : i \in 1..n
  BY <1>1
<1> QED BY <1>1, <1>4, <1>6, <1>7, <1>8, <1>9

\* A frame that is understood is understood the same way one byte later.
LEMMA FrameTolerates ==
  ASSUME IsFrame(buf), NEW byte \in Byte, Grow(byte),
         ~Failed(Parse(buf)), Parse(buf).kind # "PortOutputCommandFeedback"
  PROVE  Subject(Parse(buf')) = Subject(Parse(buf))
<1> DEFINE n == Len(buf)
           p == SubSeq(buf, 4, n)
           q == SubSeq(buf', 4, n + 1)
<1>1. /\ buf \in Seq(Byte) /\ n \in 1..255 /\ n = buf[1]
      /\ buf' \in Seq(Byte) /\ Len(buf') = n + 1 /\ buf'[1] = n + 1
      /\ \A i \in 2..n : buf'[i] = buf[i]
  BY FrameGrows, GrowthKeeps DEF IsFrame
<1>2. ~(n < 3)
  BY DEF Parse, Error, Failed
<1>3. Parse(buf) = ParsePayload(buf[3], p)
  BY <1>1, <1>2 DEF Parse
<1>4. Parse(buf') = ParsePayload(buf'[3], q)
  BY <1>1, <1>2 DEF Parse
<1>5. buf'[3] = buf[3] /\ buf[3] \in Byte
  BY <1>1, <1>2
<1>6. /\ p \in Seq(Byte) /\ Len(p) = n - 3
      /\ \A i \in 1..n - 3 : p[i] = buf[i + 3]
  BY <1>1, <1>2, FramePayload
<1>7. /\ q \in Seq(Byte) /\ Len(q) = n + 1 - 3
      /\ \A i \in 1..n + 1 - 3 : q[i] = buf'[i + 3]
  BY <1>1, <1>2, FramePayload
<1>8. n \in Nat
  BY <1>1
<1> HIDE DEF n, p, q
<1>9. \A i \in 1..n - 3 : i \in 1..n + 1 - 3 /\ i + 3 \in 2..n
  BY <1>8
<1>10. Longer(p, q)
  <2>1. Len(q) = Len(p) + 1
    BY <1>6, <1>7, <1>8
  <2>2. ASSUME NEW i \in 1..n - 3
        PROVE  q[i] = p[i]
    <3>1. q[i] = buf'[i + 3]
      BY <1>7, <1>9
    <3>2. buf'[i + 3] = buf[i + 3]
      BY <1>1, <1>9
    <3> QED BY <1>6, <3>1, <3>2
  <2> QED BY <1>6, <2>1, <2>2 DEF Longer
<1> QED BY <1>3, <1>4, <1>5, <1>6, <1>7, <1>10, PayloadTolerates DEF Tolerates

(***************************************************************************)
(* A frame that is understood stays understood, and about the same thing,  *)
(* with one more byte behind it.                                           *)
(***************************************************************************)
THEOREM LaterFirmware == Spec => ToleratesMore
<1>1. IsFrame(buf) /\ [Next]_buf
        => [(~Failed(Parse(buf)) /\ Parse(buf).kind # "PortOutputCommandFeedback")
              => Subject(Parse(buf')) = Subject(Parse(buf))]_buf
  BY FrameTolerates DEF Next
<1> QED BY <1>1, Frames, PTL DEF Spec, ToleratesMore
=============================================================================
