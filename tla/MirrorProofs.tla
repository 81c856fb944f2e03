----------------------------- MODULE MirrorProofs -----------------------------
(***************************************************************************)
(* What TLAPS proves of the device map of a Hub<Ready>: it mirrors the     *)
(* hub, and every value is decoded in the mode it was encoded in, for      *)
(* every set of ports, types and modes, every channel capacity and burst.  *)
(***************************************************************************)
EXTENDS HubProofs

(***************************************************************************)
(* The invariant.  Seen from one port, the frames in flight are a chain of *)
(* states of the port, which starts with what the device map says and ends *)
(* with what the hub knows.  The chain is said to exist, not computed: the *)
(* model checker need not fold over the channel and the prover need not    *)
(* induct over it.  That a stretch of frames that do not concern the port  *)
(* leaves its state alone is stated for stretches of any length, for the   *)
(* same reason.                                                            *)
(***************************************************************************)
State == Device \cup {NoDevice}

\* Frame f is what the hub says of port p when its state goes from a to b.
Tells(f, p, a, b) ==
  /\ ~Concerns(f, p) => b = a
  /\ f.kind \in AttachKinds /\ f.port = p /\ f.type # NoType => b = Create(f.type)
  /\ f.kind = "DetachedIo" /\ f.port = p => b = NoDevice
  /\ f.kind = "PortInputFormatSingle" /\ f.port = p => a # NoDevice /\ b = SetMode(a, f.mode)
  /\ f.kind = "PortValueSingle" /\ f.port = p =>
       a # NoDevice /\ (a.type \in ModalTypes => a.mode = f.mode)

\* The frames take port p from state a to state b.
Chain(frames, p, a, b) ==
  \E s \in [0..Len(frames) -> State] :
    /\ s[0] = a /\ s[Len(frames)] = b
    /\ \A i \in 1..Len(frames) : Tells(frames[i], p, s[i - 1], s[i])
    /\ \A i, j \in 0..Len(frames) :
         (i <= j /\ \A k \in i + 1 .. j : ~Concerns(frames[k], p)) => s[i] = s[j]

\* The frames do not concern port p.
Quiet(frames, p) == \A i \in DOMAIN frames : ~Concerns(frames[i], p)

\* The chunks in the channel, and then the frames in the air, take port p
\* from what the device map says to what the hub knows.
Track(p) ==
  \E b \in [1..Len(chan) + 1 -> State] :
    /\ p \notin missed => b[1] = devices[p]
    /\ \A c \in 1..Len(chan) : Chain(chan[c], p, b[c], b[c + 1])
    /\ link # "lost" => Chain(air, p, b[Len(chan) + 1], View(phys[p]))
    /\ \A c, d \in 1..Len(chan) + 1 :
         (c <= d /\ \A e \in c .. d - 1 : Quiet(chan[e], p)) => b[c] = b[d]

\* The device map is kept up from the moment the host has one.
Tracked ==
  /\ pc = "Disconnected" => link = "down"
  /\ pc \notin HubReady => \A p \in Ports : devices[p] = NoDevice
  /\ pc # "Gone" => \A p \in Ports : Track(p)

-----------------------------------------------------------------------------
(***************************************************************************)
(* Chains.                                                                 *)
(***************************************************************************)

\* No frames, no change.
LEMMA EmptyChain ==
  ASSUME NEW p, NEW a \in State
  PROVE  Chain(<<>>, p, a, a)
<1> DEFINE s == [i \in 0..0 |-> a]
<1>1. s \in [0..Len(<<>>) -> State] /\ s[0] = a /\ s[Len(<<>>)] = a
  OBVIOUS
<1>2. \A i, j \in 0..Len(<<>>) : s[i] = s[j]
  OBVIOUS
<1> HIDE DEF s
<1> QED BY <1>1, <1>2 DEF Chain

\* A chain leads from state to state, and nowhere if the frames are quiet.
LEMMA ChainEnds ==
  ASSUME NEW frames \in Seq(Frames), NEW p, NEW a, NEW b, Chain(frames, p, a, b)
  PROVE  a \in State /\ b \in State /\ (Quiet(frames, p) => a = b)
<1>1. PICK s \in [0..Len(frames) -> State] :
        /\ s[0] = a /\ s[Len(frames)] = b
        /\ \A i, j \in 0..Len(frames) :
             (i <= j /\ \A k \in i + 1 .. j : ~Concerns(frames[k], p)) => s[i] = s[j]
  BY DEF Chain
<1>2. Len(frames) \in Nat /\ 0 \in 0..Len(frames) /\ Len(frames) \in 0..Len(frames)
  OBVIOUS
<1>3. Quiet(frames, p) => \A k \in 0 + 1 .. Len(frames) : ~Concerns(frames[k], p)
  BY DEF Quiet
<1> QED BY <1>1, <1>2, <1>3

\* One more frame is one more step.
LEMMA ChainExtended ==
  ASSUME NEW frames \in Seq(Frames), NEW f \in Frames, NEW p, NEW a, NEW b, NEW c \in State,
         Chain(frames, p, a, b), Tells(f, p, b, c)
  PROVE  Chain(Append(frames, f), p, a, c)
<1> DEFINE n == Len(frames)
           q == Append(frames, f)
<1>1. PICK s \in [0..n -> State] :
        /\ s[0] = a /\ s[n] = b
        /\ \A i \in 1..n : Tells(frames[i], p, s[i - 1], s[i])
        /\ \A i, j \in 0..n :
             (i <= j /\ \A k \in i + 1 .. j : ~Concerns(frames[k], p)) => s[i] = s[j]
  BY DEF Chain
<1>2. n \in Nat /\ Len(q) = n + 1 /\ q[n + 1] = f /\ \A i \in 1..n : q[i] = frames[i]
  OBVIOUS
<1> DEFINE r == [i \in 0..n + 1 |-> IF i <= n THEN s[i] ELSE c]
<1> HIDE DEF n, q
<1>3. r \in [0..n + 1 -> State] /\ r[n + 1] = c /\ \A i \in 0..n : r[i] = s[i]
  BY <1>2
<1> HIDE DEF r
<1>4. \A i \in 1..n + 1 : Tells(q[i], p, r[i - 1], r[i])
  <2> SUFFICES ASSUME NEW i \in 1..n + 1 PROVE Tells(q[i], p, r[i - 1], r[i])
    OBVIOUS
  <2>1. CASE i \in 1..n
    <3>1. i \in 0..n /\ i - 1 \in 0..n
      BY <1>2, <2>1
    <3> QED BY <1>1, <1>2, <1>3, <2>1, <3>1
  <2>2. CASE i = n + 1
    <3>1. i - 1 = n /\ n \in 0..n
      BY <1>2, <2>2
    <3>2. r[i - 1] = b /\ r[i] = c /\ q[i] = f
      BY <1>1, <1>2, <1>3, <2>2, <3>1
    <3> QED BY <3>2
  <2> QED BY <1>2, <2>1, <2>2
<1>5. ASSUME NEW i \in 0..n + 1, NEW j \in 0..n + 1, i <= j,
             \A k \in i + 1 .. j : ~Concerns(q[k], p)
      PROVE  r[i] = r[j]
  <2>1. CASE j <= n
    <3>1. i \in 0..n /\ j \in 0..n
      BY <1>2, <1>5, <2>1
    <3>2. \A k \in i + 1 .. j : k \in 1..n /\ ~Concerns(q[k], p)
      BY <1>2, <1>5, <2>1
    <3>3. \A k \in i + 1 .. j : ~Concerns(frames[k], p)
      BY <1>2, <3>2
    <3> QED BY <1>1, <1>3, <1>5, <3>1, <3>3
  <2>2. CASE j = n + 1 /\ i = n + 1
    BY <2>2
  <2>3. CASE j = n + 1 /\ i <= n
    <3>1. i \in 0..n /\ n \in 0..n /\ n + 1 \in i + 1 .. j
      BY <1>2, <2>3
    <3>2. \A k \in i + 1 .. n : k \in i + 1 .. j /\ k \in 1..n
      BY <1>2, <2>3
    <3>3. \A k \in i + 1 .. n : ~Concerns(frames[k], p)
      BY <1>2, <1>5, <3>2
    <3>4. s[i] = s[n]
      BY <1>1, <2>3, <3>1, <3>3
    <3>5. ~Concerns(f, p)
      BY <1>2, <1>5, <3>1
    <3>6. c = b
      BY <3>5 DEF Tells
    <3> QED BY <1>1, <1>3, <2>3, <3>1, <3>4, <3>6
  <2> QED BY <1>2, <2>1, <2>2, <2>3
<1>6. r[0] = a /\ 0 \in 0..n
  BY <1>1, <1>2, <1>3
<1>7. Chain(q, p, a, c)
  <2>1. r \in [0..Len(q) -> State] /\ r[0] = a /\ r[Len(q)] = c
    BY <1>2, <1>3, <1>6
  <2>2. \A i \in 1..Len(q) : Tells(q[i], p, r[i - 1], r[i])
    BY <1>2, <1>4
  <2>3. \A i, j \in 0..Len(q) :
          (i <= j /\ \A k \in i + 1 .. j : ~Concerns(q[k], p)) => r[i] = r[j]
    BY <1>2, <1>5
  <2> QED BY <2>1, <2>2, <2>3, Zenon DEF Chain
<1> QED BY <1>7 DEF q
\* The chain of a part of the frames.
LEMMA ChainPart ==
  ASSUME NEW frames \in Seq(Frames), NEW p, NEW s \in [0..Len(frames) -> State],
         \A i \in 1..Len(frames) : Tells(frames[i], p, s[i - 1], s[i]),
         \A i, j \in 0..Len(frames) :
           (i <= j /\ \A k \in i + 1 .. j : ~Concerns(frames[k], p)) => s[i] = s[j],
         NEW d \in 0..Len(frames), NEW n \in Nat, d + n <= Len(frames),
         NEW part \in Seq(Frames), Len(part) = n, \A i \in 1..n : part[i] = frames[d + i]
  PROVE  Chain(part, p, s[d], s[d + n])
<1> DEFINE r == [i \in 0..n |-> s[d + i]]
           l == Len(frames)
<1>1. l \in Nat /\ d \in Nat
  OBVIOUS
<1> HIDE DEF l
<1>2. r \in [0..n -> State] /\ \A i \in 0..n : d + i \in 0..l /\ r[i] = s[d + i]
  <2>1. \A i \in 0..n : d + i \in 0..l
    BY <1>1 DEF l
  <2>2. \A i \in 0..n : s[d + i] \in State
    BY <2>1 DEF l
  <2> QED BY <2>1, <2>2
<1> HIDE DEF r
<1>3. r \in [0..Len(part) -> State] /\ r[0] = s[d] /\ r[Len(part)] = s[d + n]
  BY <1>1, <1>2
<1>4. \A i \in 1..Len(part) : Tells(part[i], p, r[i - 1], r[i])
  <2> SUFFICES ASSUME NEW i \in 1..n PROVE Tells(part[i], p, r[i - 1], r[i])
    OBVIOUS
  <2>1. i \in 0..n /\ i - 1 \in 0..n /\ d + i \in 1..l /\ (d + i) - 1 = d + (i - 1)
    BY <1>1 DEF l
  <2>2. Tells(frames[d + i], p, s[(d + i) - 1], s[d + i])
    BY <2>1 DEF l
  <2>3. part[i] = frames[d + i] /\ r[i] = s[d + i] /\ r[i - 1] = s[(d + i) - 1]
    BY <1>2, <2>1
  <2> QED BY <2>2, <2>3
<1>5. \A i, j \in 0..Len(part) :
        (i <= j /\ \A k \in i + 1 .. j : ~Concerns(part[k], p)) => r[i] = r[j]
  <2> SUFFICES ASSUME NEW i \in 0..n, NEW j \in 0..n, i <= j, \A k \in i + 1 .. j : ~Concerns(part[k], p)
               PROVE  r[i] = r[j]
    OBVIOUS
  <2>1. d + i \in 0..l /\ d + j \in 0..l /\ d + i <= d + j
    BY <1>1, <1>2
  <2>2. ASSUME NEW k \in (d + i) + 1 .. d + j PROVE ~Concerns(frames[k], p)
    <3>1. k - d \in i + 1 .. j /\ k - d \in 1..n /\ d + (k - d) = k
      BY <1>1
    <3> QED BY <3>1
  <2>3. s[d + i] = s[d + j]
    BY <2>1, <2>2 DEF l
  <2> QED BY <1>2, <2>3
<1> QED BY <1>3, <1>4, <1>5, Zenon DEF Chain

\* A chain can be cut between any two frames.
LEMMA ChainSplit ==
  ASSUME NEW frames \in Seq(Frames), NEW p, NEW a, NEW b, Chain(frames, p, a, b),
         NEW n \in 1..Len(frames)
  PROVE  \E m \in State : /\ Chain(SubSeq(frames, 1, n), p, a, m)
                          /\ Chain(SubSeq(frames, n + 1, Len(frames)), p, m, b)
<1> DEFINE first == SubSeq(frames, 1, n)
           rest  == SubSeq(frames, n + 1, Len(frames))
<1>0. /\ first \in Seq(Frames) /\ Len(first) = n /\ \A i \in 1..n : first[i] = frames[i]
      /\ rest \in Seq(Frames) /\ Len(rest) = Len(frames) - n
      /\ \A i \in 1..Len(frames) - n : rest[i] = frames[n + i]
  <2>1. \A i \in 1..n : frames[i] \in Frames
    OBVIOUS
  <2>2. \A i \in n+1..Len(frames) : frames[i] \in Frames
    OBVIOUS
  <2>3. first \in Seq(Frames) /\ Len(first) = n /\ \A i \in 1..n : first[i] = frames[i]
    BY <2>1, SubSeqProperties, Z3
  <2>4. /\ rest \in Seq(Frames) /\ Len(rest) = Len(frames) - n
        /\ \A i \in 1..Len(frames) - n : rest[i] = frames[n + i]
    BY <2>2, SubSeqProperties, Z3
  <2> QED BY <2>3, <2>4
<1> HIDE DEF first, rest
<1>1. PICK s \in [0..Len(frames) -> State] :
        /\ s[0] = a /\ s[Len(frames)] = b
        /\ \A i \in 1..Len(frames) : Tells(frames[i], p, s[i - 1], s[i])
        /\ \A i, j \in 0..Len(frames) :
             (i <= j /\ \A k \in i + 1 .. j : ~Concerns(frames[k], p)) => s[i] = s[j]
  BY Zenon DEF Chain
<1>2. /\ 0 \in 0..Len(frames) /\ n \in 0..Len(frames) /\ n \in Nat /\ Len(frames) - n \in Nat /\ Len(frames) \in Nat
      /\ 0 + n = n /\ n + (Len(frames) - n) = Len(frames)
      /\ 0 + n <= Len(frames) /\ n + (Len(frames) - n) <= Len(frames)
      /\ \A i \in 1..n : 0 + i = i
  OBVIOUS
<1>3. Chain(first, p, s[0], s[0 + n])
  <2>1. \A i \in 1..n : first[i] = frames[0 + i]
    BY <1>2
  <2> QED BY <1>0, <1>1, <1>2, <2>1, ChainPart
<1>4. Chain(rest, p, s[n], s[n + (Len(frames) - n)])
  BY <1>0, <1>1, <1>2, ChainPart
<1>5. Chain(first, p, a, s[n]) /\ Chain(rest, p, s[n], b) /\ s[n] \in State
  BY <1>1, <1>2, <1>3, <1>4
<1> QED BY <1>5 DEF first, rest

-----------------------------------------------------------------------------
(***************************************************************************)
(* The ways a step changes what is in flight.                              *)
(***************************************************************************)

\* Nothing is in flight: what the map says is what the hub knows.
LEMMA TrackStart ==
  ASSUME chan = <<>>, air = <<>>, NEW p \in Ports, devices[p] = NoDevice, phys[p] = NoDevice
  PROVE  Track(p)
<1> DEFINE b == [c \in 1..1 |-> NoDevice]
<1>1. b \in [1..Len(chan) + 1 -> State] /\ b[1] = NoDevice /\ Len(chan) = 0
  BY DEF State
<1>2. View(phys[p]) = NoDevice /\ NoDevice \in State
  BY DEF View, State
<1>3. Chain(air, p, NoDevice, NoDevice)
  BY <1>2, EmptyChain
<1>4. \A c, d \in 1..Len(chan) + 1 : b[c] = b[d]
  BY <1>1
<1> HIDE DEF b
<1> QED BY <1>1, <1>2, <1>3, <1>4 DEF Track

\* The hub does not change, and neither do the map and what is in flight.
LEMMA TrackKept ==
  ASSUME NEW p \in Ports, Track(p), UNCHANGED <<devices, missed, chan, air, phys>>,
         link' # "lost" => link # "lost"
  PROVE  Track(p)'
<1>1. View(phys[p])' = View(phys[p])
  BY DEF View
<1> QED BY <1>1 DEF Track

\* What is in the air is of no account once the link is lost.
LEMMA TrackLost ==
  ASSUME NEW p \in Ports, Track(p), UNCHANGED <<devices, missed, chan>>, link' = "lost"
  PROVE  Track(p)'
BY DEF Track

\* The hub sends a frame, or does not, and the chain grows.
LEMMA TrackEmit ==
  ASSUME TypeOK, NEW p \in Ports, Track(p), UNCHANGED <<devices, missed, chan, link>>,
         NEW f \in Frames, Emit(f),
         Tells(f, p, View(phys[p]), View(phys'[p])), View(phys'[p]) \in State
  PROVE  Track(p)'
<1> DEFINE n == Len(chan) + 1
<1>1. PICK b \in [1..n -> State] :
        /\ p \notin missed => b[1] = devices[p]
        /\ \A c \in 1..Len(chan) : Chain(chan[c], p, b[c], b[c + 1])
        /\ link # "lost" => Chain(air, p, b[n], View(phys[p]))
        /\ \A c, d \in 1..n : (c <= d /\ \A e \in c .. d - 1 : Quiet(chan[e], p)) => b[c] = b[d]
  BY Zenon DEF Track
<1>2. View(phys[p])' = View(phys'[p])
  BY DEF View
<1>3. air \in Seq(Frames) /\ air' = Append(air, f)
  BY DEF TypeOK, Emit
<1>4. link # "lost" => Chain(air', p, b[n], View(phys'[p]))
  BY <1>1, <1>3, ChainExtended
<1> QED BY <1>1, <1>2, <1>4 DEF Track
\* A notification moves frames from the air into the channel.
LEMMA TrackNotify ==
  ASSUME TypeOK, NEW p \in Ports, Track(p), NEW n \in 1..MaxBurst, Notify(n)
  PROVE  Track(p)'
<1> DEFINE l     == Len(chan) + 1
           first == SubSeq(air, 1, n)
           rest  == SubSeq(air, n + 1, Len(air))
<1>1. PICK b \in [1..l -> State] :
        /\ p \notin missed => b[1] = devices[p]
        /\ \A c \in 1..Len(chan) : Chain(chan[c], p, b[c], b[c + 1])
        /\ link # "lost" => Chain(air, p, b[l], View(phys[p]))
        /\ \A c, d \in 1..l : (c <= d /\ \A e \in c .. d - 1 : Quiet(chan[e], p)) => b[c] = b[d]
  BY Zenon DEF Track
<1>2. /\ link = "up" /\ link' = link /\ UNCHANGED <<devices, missed, phys>>
      /\ chan' = Append(chan, first) /\ air' = rest
      /\ n <= Len(air) /\ chan \in Seq(Seq(Frames)) /\ air \in Seq(Frames)
  BY DEF Notify, Subscribed, hostVars, fields, physVars, TypeOK
<1>3. View(phys[p])' = View(phys[p])
  BY <1>2 DEF View
<1>4. /\ n \in 0..Len(air) /\ n \in Nat /\ n >= 1 /\ Len(air) \in Nat
  BY <1>2, HubAssumption
<1>5. first \in Seq(Frames)
  BY <1>2, NotifyChunk
<1>6. PICK m \in State : Chain(first, p, b[l], m) /\ Chain(rest, p, m, View(phys[p]))
  <2>1. Chain(air, p, b[l], View(phys[p]))
    BY <1>1, <1>2
  <2>2. n \in 1..Len(air)
    BY <1>2, <1>4
  <2> HIDE DEF l
  <2> QED BY <1>2, <2>1, <2>2, ChainSplit
<1> HIDE DEF first, rest
<1> DEFINE a == [c \in 1..l + 1 |-> IF c <= l THEN b[c] ELSE m]
<1>7. l \in Nat /\ l >= 1 /\ Len(chan') = l /\ chan'[l] = first /\ \A c \in 1..l - 1 : chan'[c] = chan[c]
  BY <1>2
<1>8. Len(chan) = l - 1
  BY <1>2
<1> HIDE DEF l
<1>9. a \in [1..l + 1 -> State] /\ a[l + 1] = m /\ \A c \in 1..l : a[c] = b[c]
  BY <1>7
<1> HIDE DEF a
<1>10. p \notin missed' => a[1] = devices'[p]
  BY <1>1, <1>2, <1>7, <1>9
<1>11. \A c \in 1..l : Chain(chan'[c], p, a[c], a[c + 1])
  <2> SUFFICES ASSUME NEW c \in 1..l PROVE Chain(chan'[c], p, a[c], a[c + 1])
    OBVIOUS
  <2>1. CASE c \in 1..l - 1
    <3>1. c + 1 \in 1..l
      BY <1>7, <2>1
    <3> QED BY <1>1, <1>7, <1>8, <1>9, <2>1, <3>1
  <2>2. CASE c = l
    BY <1>6, <1>7, <1>9, <2>2
  <2> QED BY <1>7, <2>1, <2>2
<1>12. Chain(air', p, a[l + 1], View(phys[p])')
  BY <1>2, <1>3, <1>6, <1>9
<1>13. ASSUME NEW c \in 1..l + 1, NEW d \in 1..l + 1, c <= d,
              \A e \in c .. d - 1 : Quiet(chan'[e], p)
       PROVE  a[c] = a[d]
  <2>1. CASE d <= l
    <3>1. c \in 1..l /\ d \in 1..l /\ \A e \in c .. d - 1 : e \in 1..l - 1
      BY <1>7, <1>13, <2>1
    <3>2. \A e \in c .. d - 1 : Quiet(chan[e], p)
      BY <1>7, <1>13, <3>1
    <3> QED BY <1>1, <1>9, <1>13, <3>1, <3>2
  <2>2. CASE d = l + 1 /\ c = l + 1
    BY <2>2
  <2>3. CASE d = l + 1 /\ c <= l
    <3>1. c \in 1..l /\ l \in 1..l /\ l \in c .. d - 1
      BY <1>7, <2>3
    <3>2. \A e \in c .. l - 1 : e \in 1..l - 1 /\ e \in c .. d - 1
      BY <1>7, <2>3
    <3>3. \A e \in c .. l - 1 : Quiet(chan[e], p)
      BY <1>7, <1>13, <3>2
    <3>4. b[c] = b[l]
      BY <1>1, <2>3, <3>1, <3>3
    <3>5. Quiet(first, p)
      BY <1>7, <1>13, <3>1
    <3>6. b[l] = m
      BY <1>5, <1>6, <3>5, ChainEnds
    <3> QED BY <1>9, <2>3, <3>1, <3>4, <3>6
  <2> QED BY <1>7, <2>1, <2>2, <2>3
<1>14. \A c, d \in 1..l + 1 : (c <= d /\ \A e \in c .. d - 1 : Quiet(chan'[e], p)) => a[c] = a[d]
  BY <1>13
<1> QED BY <1>7, <1>9, <1>10, <1>11, <1>12, <1>14 DEF Track

\* The host takes a chunk, and its map follows the chain through the chunk.
LEMMA TrackConsume ==
  ASSUME TypeOK, NEW p \in Ports, Track(p), chan # <<>>, chan' = Tail(chan),
         UNCHANGED <<air, phys, link>>,
         ASSUME NEW a, NEW b, Chain(Head(chan), p, a, b),
                p \notin missed => a = devices[p], p \notin missed'
         PROVE  b = devices'[p]
  PROVE  Track(p)'
<1> DEFINE l == Len(chan)
<1>1. PICK b \in [1..l + 1 -> State] :
        /\ p \notin missed => b[1] = devices[p]
        /\ \A c \in 1..l : Chain(chan[c], p, b[c], b[c + 1])
        /\ link # "lost" => Chain(air, p, b[l + 1], View(phys[p]))
        /\ \A c, d \in 1..l + 1 : (c <= d /\ \A e \in c .. d - 1 : Quiet(chan[e], p)) => b[c] = b[d]
  BY Zenon DEF Track
<1>2. View(phys[p])' = View(phys[p])
  BY DEF View
<1>3. /\ l \in Nat /\ l >= 1 /\ Len(chan') = l - 1 /\ Head(chan) = chan[1]
      /\ \A c \in 1..l - 1 : chan'[c] = chan[c + 1]
  <2>1. chan \in Seq(Seq(Frames))
    BY DEF TypeOK
  <2> QED BY <2>1
<1> HIDE DEF l
<1> DEFINE a == [c \in 1..l |-> b[c + 1]]
<1>4. a \in [1..l -> State] /\ \A c \in 1..l : c + 1 \in 1..l + 1 /\ a[c] = b[c + 1]
  BY <1>3
<1> HIDE DEF a
<1>5. p \notin missed' => a[1] = devices'[p]
  <2>1. 1 \in 1..l /\ 1 \in 1..l + 1 /\ 1 + 1 = 2
    BY <1>3
  <2>2. Chain(Head(chan), p, b[1], b[2])
    BY <1>1, <1>3, <2>1
  <2>3. a[1] = b[2]
    BY <1>4, <2>1
  <2> QED BY <1>1, <2>2, <2>3
<1>6. \A c \in 1..l - 1 : Chain(chan'[c], p, a[c], a[c + 1])
  <2> SUFFICES ASSUME NEW c \in 1..l - 1 PROVE Chain(chan'[c], p, a[c], a[c + 1])
    OBVIOUS
  <2>1. c \in 1..l /\ c + 1 \in 1..l
    BY <1>3
  <2> QED BY <1>1, <1>3, <1>4, <2>1
<1>7. link' # "lost" => Chain(air', p, a[l], View(phys[p])')
  <2>1. l \in 1..l
    BY <1>3
  <2> QED BY <1>1, <1>2, <1>4, <2>1
<1>8. ASSUME NEW c \in 1..l, NEW d \in 1..l, c <= d, \A e \in c .. d - 1 : Quiet(chan'[e], p)
      PROVE  a[c] = a[d]
  <2>1. ASSUME NEW e \in c + 1 .. (d + 1) - 1 PROVE Quiet(chan[e], p)
    <3>1. e - 1 \in c .. d - 1 /\ e - 1 \in 1..l - 1 /\ (e - 1) + 1 = e
      BY <1>3
    <3> QED BY <1>3, <1>8, <3>1
  <2>2. c + 1 \in 1..l + 1 /\ d + 1 \in 1..l + 1 /\ c + 1 <= d + 1
    BY <1>3, <1>8
  <2>3. b[c + 1] = b[d + 1]
    BY <1>1, <2>1, <2>2
  <2> QED BY <1>4, <2>3
<1>9. \A c, d \in 1..l : (c <= d /\ \A e \in c .. d - 1 : Quiet(chan'[e], p)) => a[c] = a[d]
  BY <1>8
<1>10. Len(chan') + 1 = l
  BY <1>3
<1> QED BY <1>3, <1>4, <1>5, <1>6, <1>7, <1>9, <1>10 DEF Track
-----------------------------------------------------------------------------
(***************************************************************************)
(* What the hub says about its ports is true.                              *)
(***************************************************************************)

\* What a device map can know, spelled out.
LEMMA Views ==
  /\ View(NoDevice) = NoDevice
  /\ \A t \in Types : View(Create(t)) = Create(t) /\ Create(t) \in State /\ Create(t) # NoDevice
  /\ \A d \in Device :
       /\ View(d) \in Device /\ View(d) \in State /\ View(d) # NoDevice /\ d # NoDevice
       /\ View(d).type = d.type
       /\ d.type \in ModalTypes => View(d).mode = d.mode
       /\ \A m \in Modes : View([d EXCEPT !.mode = m]) = SetMode(View(d), m)
                           /\ View([d EXCEPT !.mode = m]) \in State
<1>1. NoDevice \notin Device
  BY FrameAssumption DEF Device
<1>2. \A t \in Types : Create(t) \in Device /\ Create(t).type = t /\ Create(t).mode = 0
  BY DeviceTypes DEF Create
<1>3. ASSUME NEW d \in Device
      PROVE  /\ View(d) = SetMode(Create(d.type), d.mode) /\ d.type \in Types /\ d.mode \in Modes
             /\ View(d) \in Device
  <2>1. d # NoDevice /\ d.type \in Types /\ d.mode \in Modes
    BY <1>1, <1>3 DEF Device
  <2> QED BY <2>1, DeviceTypes DEF View
<1>4. ASSUME NEW t \in Types, NEW m \in Modes
      PROVE  SetMode(Create(t), m) = [type |-> t, mode |-> IF t \in ModalTypes THEN m ELSE 0]
  BY DEF SetMode, Create
<1>5. \A t \in Types : View(Create(t)) = Create(t)
  <2> SUFFICES ASSUME NEW t \in Types PROVE View(Create(t)) = Create(t)
    OBVIOUS
  <2>1. View(Create(t)) = SetMode(Create(t), 0)
    BY <1>2, <1>3
  <2>2. SetMode(Create(t), 0) = [type |-> t, mode |-> 0]
    BY <1>4, FrameAssumption
  <2> QED BY <2>1, <2>2 DEF Create
<1>6. ASSUME NEW d \in Device, NEW m \in Modes
      PROVE  /\ View([d EXCEPT !.mode = m]) = SetMode(View(d), m)
             /\ View([d EXCEPT !.mode = m]) \in Device
  <2> DEFINE e == [d EXCEPT !.mode = m]
  <2>1. e \in Device /\ e.type = d.type /\ e.mode = m
    BY <1>6 DEF Device
  <2> HIDE DEF e
  <2>2. View(e) = [type |-> d.type, mode |-> IF d.type \in ModalTypes THEN m ELSE 0]
    BY <1>3, <1>4, <2>1
  <2>3. View(d) = [type |-> d.type, mode |-> IF d.type \in ModalTypes THEN d.mode ELSE 0]
    BY <1>3, <1>4, <1>6
  <2>4. SetMode(View(d), m) = [type |-> d.type, mode |-> IF d.type \in ModalTypes THEN m ELSE 0]
    BY <2>3 DEF SetMode
  <2> QED BY <1>3, <2>1, <2>2, <2>4 DEF e
<1>7. ASSUME NEW d \in Device
      PROVE  View(d).type = d.type /\ (d.type \in ModalTypes => View(d).mode = d.mode)
  BY <1>3, <1>4, <1>7
<1>8. View(NoDevice) = NoDevice
  BY DEF View
<1> QED BY <1>1, <1>2, <1>3, <1>5, <1>6, <1>7, <1>8 DEF State

\* A frame that is not about ports says nothing new about them.
LEMMA SilentFrame ==
  ASSUME NEW f \in Frames, f.kind \in {"HubProperty", "Other", "Bad"}, NEW p, NEW a
  PROVE  Tells(f, p, a, a)
BY DEF Tells, Concerns, AttachKinds

\* What the hub does of its own accord, or on request, it says.
LEMMA TrackHub ==
  ASSUME TypeOK, NEW p \in Ports, Track(p),
         \/ Serve \/ \E r \in Reports : Report(r)
         \/ \E q \in Ports : Detach(q) \/ Value(q) \/ \E t \in Types : Attach(q, t)
         \/ \E k \in {"Other", "Bad"} : Noise(k)
  PROVE  Track(p)'
<1>1. UNCHANGED <<devices, missed, chan, link>>
  BY DEF Serve, Report, Detach, Value, Attach, Noise, Spontaneous, hostVars, fields
<1>2. phys[p] \in State /\ View(phys[p]) \in State
  <2>1. phys[p] \in State
    BY DEF TypeOK, State
  <2> QED BY <2>1, Views DEF State
<1>3. ASSUME UNCHANGED <<air, phys>> PROVE Track(p)'
  BY <1>1, <1>3, TrackKept
<1>4. ASSUME NEW f \in Frames, Emit(f), phys'[p] = phys[p], Tells(f, p, View(phys[p]), View(phys[p]))
      PROVE  Track(p)'
  <2>1. View(phys'[p]) = View(phys[p])
    BY <1>4
  <2> QED BY <1>1, <1>2, <1>4, <2>1, TrackEmit
<1>5. ASSUME NEW f \in Frames, Emit(f), phys'[p] = phys[p], f.kind \in {"HubProperty", "Other", "Bad"}
      PROVE  Track(p)'
  BY <1>4, <1>5, SilentFrame
<1>6. CASE Serve
  <2> DEFINE m == written[served + 1]
  <2>1. m \in Commands
    BY <1>6 DEF Serve, TypeOK
  <2>2. CASE m.kind = "RequestUpdateDownstream"
    <3>1. PICK w \in BOOLEAN : Emit(PropertyFrame(m.property, w)) /\ UNCHANGED phys
      BY <1>6, <2>2 DEF Serve, Wholeness
    <3>2. m.property \in Props
      BY <2>1, <2>2 DEF Commands, Goodbye
    <3>3. PropertyFrame(m.property, w) \in Frames /\ PropertyFrame(m.property, w).kind = "HubProperty"
      BY <3>2, FrameTypes DEF PropertyFrame
    <3> QED BY <1>5, <3>1, <3>3
  <2>3. CASE m.kind = "PortInputFormatSetupSingle" /\ phys[m.port] # NoDevice
    <3> DEFINE f == FormatFrame(m.port, m.mode)
    <3>1. m.port \in Ports /\ m.mode \in Modes
      BY <2>1, <2>3 DEF Commands, Goodbye
    <3>2. Emit(f) /\ phys' = [phys EXCEPT ![m.port].mode = m.mode]
      BY <1>6, <2>3 DEF Serve
    <3>3. /\ f \in Frames /\ f.kind = "PortInputFormatSingle" /\ f.port = m.port /\ f.mode = m.mode
      BY <3>1, FrameTypes DEF FormatFrame
    <3> HIDE DEF f, m
    <3>4. CASE p # m.port
      <4>1. phys'[p] = phys[p]
        BY <3>1, <3>2, <3>4 DEF TypeOK
      <4>2. Tells(f, p, View(phys[p]), View(phys[p]))
        BY <3>3, <3>4 DEF Tells, Concerns, AttachKinds
      <4> QED BY <1>4, <3>2, <3>3, <4>1, <4>2
    <3>5. CASE p = m.port
      <4> DEFINE d == phys[p]
      <4>1. d \in Device
        BY <1>2, <2>3, <3>5 DEF State, m
      <4>2. phys'[p] = [d EXCEPT !.mode = m.mode]
        BY <3>1, <3>2, <3>5 DEF TypeOK
      <4> HIDE DEF d
      <4>3. View(phys'[p]) = SetMode(View(d), m.mode) /\ View(phys'[p]) \in State /\ View(d) # NoDevice
        BY <3>1, <4>1, <4>2, Views
      <4>4. Tells(f, p, View(d), View(phys'[p]))
        BY <3>3, <3>5, <4>3 DEF Tells, Concerns, AttachKinds
      <4> QED BY <1>1, <3>2, <3>3, <4>3, <4>4, TrackEmit DEF d
    <3> QED BY <3>4, <3>5
  <2>4. CASE m.kind = "PortInputFormatSetupSingle" /\ phys[m.port] = NoDevice
    <3>1. Emit([kind |-> "Other"]) /\ UNCHANGED phys
      BY <1>6, <2>4 DEF Serve
    <3>2. [kind |-> "Other"] \in Frames
      BY FrameTypes
    <3> QED BY <1>5, <3>1, <3>2
  <2>5. CASE m.kind \in {"EnableUpdatesDownstream", "HubActionDisconnect"}
    <3>1. UNCHANGED <<air, phys>>
      BY <1>6, <2>5 DEF Serve
    <3> QED BY <1>3, <3>1
  <2> QED BY <2>1, <2>2, <2>3, <2>4, <2>5 DEF Commands, Goodbye
<1>7. ASSUME NEW r \in Reports, Report(r) PROVE Track(p)'
  <2>1. PICK w \in BOOLEAN : Emit(PropertyFrame(r, w)) /\ UNCHANGED phys
    BY <1>7 DEF Report, Wholeness
  <2>2. PropertyFrame(r, w) \in Frames /\ PropertyFrame(r, w).kind = "HubProperty"
    BY <1>7, FrameTypes DEF PropertyFrame, Props
  <2> QED BY <1>5, <2>1, <2>2
<1>8. ASSUME NEW k \in {"Other", "Bad"}, Noise(k) PROVE Track(p)'
  <2>1. Emit([kind |-> k]) /\ UNCHANGED phys /\ [kind |-> k] \in Frames
    BY <1>8, FrameTypes DEF Noise
  <2> QED BY <1>5, <1>8, <2>1
<1>9. ASSUME NEW q \in Ports, NEW t \in Types, Attach(q, t) PROVE Track(p)'
  <2>1. PICK u \in {t, NoType} : Emit(AttachFrame(q, u))
    BY <1>9 DEF Attach
  <2> DEFINE f == AttachFrame(q, u)
  <2>2. f \in Frames /\ f.kind \in AttachKinds /\ f.port = q /\ f.type = u
    BY <1>9, <2>1, FrameTypes DEF AttachFrame, AttachKinds
  <2>3. phys[q] = NoDevice /\ phys' = [phys EXCEPT ![q] = Create(t)]
    BY <1>9 DEF Attach
  <2>4. Emit(f)
    BY <2>1
  <2> HIDE DEF f
  <2>5. CASE p # q
    <3>1. phys'[p] = phys[p]
      BY <2>3, <2>5 DEF TypeOK
    <3>2. Tells(f, p, View(phys[p]), View(phys[p]))
      BY <2>2, <2>5 DEF Tells, Concerns, AttachKinds
    <3> QED BY <1>4, <2>2, <2>4, <3>1, <3>2
  <2>6. CASE p = q
    <3>1. phys'[p] = Create(t)
      BY <2>3, <2>6 DEF TypeOK
    <3>2. View(phys'[p]) = Create(t) /\ View(phys'[p]) \in State
      BY <3>1, Views
    <3>3. Tells(f, p, View(phys[p]), Create(t))
      BY <2>1, <2>2, <2>6 DEF Tells, Concerns, AttachKinds
    <3> QED BY <1>1, <2>2, <2>4, <3>2, <3>3, TrackEmit
  <2> QED BY <2>5, <2>6
<1>10. ASSUME NEW q \in Ports, Detach(q) PROVE Track(p)'
  <2> DEFINE f == DetachFrame(q)
  <2>1. f \in Frames /\ f.kind = "DetachedIo" /\ f.port = q
    BY FrameTypes DEF DetachFrame
  <2>2. Emit(f) /\ phys' = [phys EXCEPT ![q] = NoDevice]
    BY <1>10 DEF Detach
  <2> HIDE DEF f
  <2>3. CASE p # q
    <3>1. phys'[p] = phys[p]
      BY <2>2, <2>3 DEF TypeOK
    <3>2. Tells(f, p, View(phys[p]), View(phys[p]))
      BY <2>1, <2>3 DEF Tells, Concerns, AttachKinds
    <3> QED BY <1>4, <2>1, <2>2, <3>1, <3>2
  <2>4. CASE p = q
    <3>1. View(phys'[p]) = NoDevice /\ View(phys'[p]) \in State
      BY <2>2, <2>4, Views DEF TypeOK, State
    <3>2. Tells(f, p, View(phys[p]), NoDevice)
      BY <2>1, <2>4 DEF Tells, Concerns, AttachKinds
    <3> QED BY <1>1, <2>1, <2>2, <3>1, <3>2, TrackEmit
  <2> QED BY <2>3, <2>4
<1>11. ASSUME NEW q \in Ports, Value(q) PROVE Track(p)'
  <2> DEFINE d == phys[q]
             f == ValueFrame(q, d.mode)
  <2>1. d \in Device
    BY <1>11 DEF Value, TypeOK
  <2>2. f \in Frames /\ f.kind = "PortValueSingle" /\ f.port = q /\ f.mode = d.mode
    <3>1. d.mode \in Modes
      BY <2>1 DEF Device
    <3> QED BY <3>1, FrameTypes DEF ValueFrame
  <2>3. Emit(f) /\ UNCHANGED phys
    BY <1>11 DEF Value
  <2> HIDE DEF f
  <2>4. p = q => View(phys[p]) # NoDevice
                 /\ (View(phys[p]).type \in ModalTypes => View(phys[p]).mode = d.mode)
    BY <2>1, Views
  <2>5. Tells(f, p, View(phys[p]), View(phys[p]))
    BY <2>2, <2>4 DEF Tells, Concerns, AttachKinds
  <2> QED BY <1>4, <2>2, <2>3, <2>5
<1> QED BY <1>6, <1>7, <1>8, <1>9, <1>10, <1>11
-----------------------------------------------------------------------------
(***************************************************************************)
(* The host follows what the hub says.                                     *)
(***************************************************************************)

\* What handle_message does to the entry of one port.
LEMMA DispatchedAt ==
  ASSUME NEW ds \in DeviceMap, NEW f \in Frames, NEW p \in Ports
  PROVE  /\ ~Concerns(f, p) => Dispatched(ds, f)[p] = ds[p]
         /\ f.kind \in AttachKinds /\ f.port = p /\ f.type # NoType => Dispatched(ds, f)[p] = Create(f.type)
         /\ f.kind = "DetachedIo" /\ f.port = p => Dispatched(ds, f)[p] = NoDevice
         /\ f.kind = "PortInputFormatSingle" /\ f.port = p /\ ds[p] # NoDevice =>
              Dispatched(ds, f)[p] = SetMode(ds[p], f.mode)
<1>1. CASE f.kind \in AttachKinds /\ f.type # NoType
  <2>1. Dispatched(ds, f) = [ds EXCEPT ![f.port] = Create(f.type)]
    BY <1>1 DEF Dispatched, AttachKinds
  <2>2. f.kind \notin {"DetachedIo", "PortInputFormatSingle"}
    BY <1>1 DEF AttachKinds
  <2> QED BY <1>1, <2>1, <2>2 DEF Concerns, DeviceMap
<1>2. CASE f.kind = "DetachedIo"
  <2>1. Dispatched(ds, f) = [ds EXCEPT ![f.port] = NoDevice] /\ f.kind \notin AttachKinds
    BY <1>2 DEF Dispatched, AttachKinds
  <2> QED BY <1>2, <2>1 DEF Concerns, DeviceMap
<1>3. CASE f.kind = "PortInputFormatSingle" /\ ds[f.port] # NoDevice
  <2>1. Dispatched(ds, f) = [ds EXCEPT ![f.port] = SetMode(ds[f.port], f.mode)] /\ f.kind \notin AttachKinds
    BY <1>3 DEF Dispatched, AttachKinds
  <2> QED BY <1>3, <2>1 DEF Concerns, DeviceMap
<1>4. CASE /\ ~(f.kind \in AttachKinds /\ f.type # NoType)
           /\ f.kind # "DetachedIo"
           /\ ~(f.kind = "PortInputFormatSingle" /\ ds[f.port] # NoDevice)
  <2>1. Dispatched(ds, f) = ds
    BY <1>4 DEF Dispatched
  <2> QED BY <1>4, <2>1
<1> QED BY <1>1, <1>2, <1>3, <1>4

\* Frames that parse rejects say nothing.
LEMMA BadIsQuiet ==
  ASSUME NEW frames \in Seq(Frames), NEW k \in DOMAIN frames, k \notin Parseable(frames), NEW p
  PROVE  ~Concerns(frames[k], p)
BY DEF Parseable, Concerns, AttachKinds

\* A chunk is consumed while Hub::initialize drains the channel ...
LEMMA TrackDrain ==
  ASSUME TypeOK, Tracked, NEW p \in Ports, Track(p), Drain
  PROVE  Track(p)'
<1>1. devices[p] = NoDevice /\ devices'[p] = NoDevice
  BY DEF Drain, Tracked, HubReady
<1>2. ASSUME p \notin missed' PROVE Quiet(Head(chan), p) /\ p \notin missed
  BY <1>2 DEF Drain, PortsAt, Quiet
<1>3. Head(chan) \in Seq(Frames)
  BY HeadChunk DEF Drain
<1>4. chan # <<>> /\ chan' = Tail(chan) /\ UNCHANGED <<air, phys, link>>
  BY DEF Drain, physVars
<1>5. ASSUME NEW a, NEW b, Chain(Head(chan), p, a, b), p \notin missed => a = devices[p], p \notin missed'
      PROVE  b = devices'[p]
  BY <1>1, <1>2, <1>3, <1>5, ChainEnds
<1> QED BY <1>4, <1>5, TrackConsume

\* ... by next_message, when no frame in it parses ...
LEMMA TrackSkip ==
  ASSUME TypeOK, NEW p \in Ports, Track(p), SkipChunk
  PROVE  Track(p)'
<1>1. chan # <<>> /\ chan' = Tail(chan) /\ UNCHANGED <<devices, missed, air, phys, link>>
  BY DEF SkipChunk, hostVars, fields, physVars
<1>2. Head(chan) \in Seq(Frames) /\ Parseable(Head(chan)) = {}
  BY HeadChunk DEF SkipChunk
<1>3. Quiet(Head(chan), p)
  BY <1>2, BadIsQuiet DEF Quiet
<1>4. ASSUME NEW a, NEW b, Chain(Head(chan), p, a, b), p \notin missed => a = devices[p], p \notin missed'
      PROVE  b = devices'[p]
  BY <1>1, <1>2, <1>3, <1>4, ChainEnds
<1> QED BY <1>1, <1>4, TrackConsume

\* Up to the first frame that parses a chain stands still.
LEMMA FirstFrame ==
  ASSUME NEW frames \in Seq(Frames), NEW p, NEW a, NEW b, Chain(frames, p, a, b),
         NEW i, IsNext(frames, i)
  PROVE  /\ i \in 1..Len(frames)
         /\ \E c \in State : /\ Tells(frames[i], p, a, c)
                             /\ (\A k \in DOMAIN frames : k > i => ~Concerns(frames[k], p)) => c = b
<1>1. PICK s \in [0..Len(frames) -> State] :
        /\ s[0] = a /\ s[Len(frames)] = b
        /\ \A j \in 1..Len(frames) : Tells(frames[j], p, s[j - 1], s[j])
        /\ \A j, l \in 0..Len(frames) :
             (j <= l /\ \A k \in j + 1 .. l : ~Concerns(frames[k], p)) => s[j] = s[l]
  BY Zenon DEF Chain
<1>2. i \in 1..Len(frames) /\ Len(frames) \in Nat /\ \A j \in Parseable(frames) : i <= j
  BY DEF IsNext, Parseable
<1>3. 0 \in 0..Len(frames) /\ i - 1 \in 0..Len(frames) /\ i \in 0..Len(frames) /\ Len(frames) \in 0..Len(frames)
  BY <1>2
<1>4. s[0] = s[i - 1]
  <2>1. \A k \in 0 + 1 .. i - 1 : k \in DOMAIN frames /\ k \notin Parseable(frames)
    BY <1>2
  <2>2. \A k \in 0 + 1 .. i - 1 : ~Concerns(frames[k], p)
    BY <2>1, BadIsQuiet
  <2>3. 0 <= i - 1
    BY <1>2
  <2> QED BY <1>1, <1>3, <2>2, <2>3
<1>5. (\A k \in DOMAIN frames : k > i => ~Concerns(frames[k], p)) => s[i] = b
  <2> SUFFICES ASSUME \A k \in DOMAIN frames : k > i => ~Concerns(frames[k], p) PROVE s[i] = b
    OBVIOUS
  <2>1. \A k \in i + 1 .. Len(frames) : k \in DOMAIN frames /\ k > i
    BY <1>2
  <2>2. \A k \in i + 1 .. Len(frames) : ~Concerns(frames[k], p)
    BY <2>1
  <2>3. i <= Len(frames)
    BY <1>2
  <2> QED BY <1>1, <1>3, <2>2, <2>3
<1>6. Tells(frames[i], p, a, s[i]) /\ s[i] \in State
  BY <1>1, <1>2, <1>3, <1>4
<1> QED BY <1>2, <1>5, <1>6

\* ... and by next_message, when one does.
LEMMA TrackNextMessage ==
  ASSUME TypeOK, NEW p \in Ports, Track(p), NextMessage
  PROVE  Track(p)'
<1> DEFINE q == Head(chan)
<1>1. PICK i : /\ IsNext(q, i)
               /\ devices' = Dispatched(devices, q[i])
               /\ missed' = (missed \ Heals(q[i])) \cup Unread(q[i])
                              \cup PortsAt(q, {j \in DOMAIN q : j > i})
  BY DEF NextMessage, IsNext
<1>2. chan # <<>> /\ chan' = Tail(chan) /\ UNCHANGED <<air, phys, link>>
  BY DEF NextMessage, physVars
<1>3. q \in Seq(Frames) /\ q[i] \in Frames /\ devices \in DeviceMap
  BY <1>1, <1>2, HeadChunk DEF IsNext, Parseable, TypeOK, DeviceMap
<1>4. ASSUME NEW a, NEW b, Chain(q, p, a, b), p \notin missed => a = devices[p], p \notin missed'
      PROVE  b = devices'[p]
  <2> DEFINE f == q[i]
  <2>1. /\ p \notin missed \ Heals(f) /\ p \notin Unread(f)
        /\ \A k \in DOMAIN q : k > i => ~Concerns(q[k], p)
    BY <1>1, <1>4 DEF PortsAt
  <2>2. Tells(f, p, a, b)
    BY <1>1, <1>3, <1>4, <2>1, FirstFrame
  <2>3. f \in Frames /\ devices'[p] = Dispatched(devices, f)[p]
    BY <1>1, <1>3
  <2> HIDE DEF f
  <2>4. CASE ~Concerns(f, p)
    <3>1. p \notin Heals(f)
      BY <2>4 DEF Heals
    <3> QED BY <1>3, <1>4, <2>1, <2>2, <2>3, <2>4, <3>1, DispatchedAt DEF Tells
  <2>5. CASE f.kind \in AttachKinds /\ f.port = p
    <3>1. f.type # NoType
      BY <2>1, <2>5 DEF Unread
    <3> QED BY <1>3, <2>2, <2>3, <2>5, <3>1, DispatchedAt DEF Tells
  <2>6. CASE f.kind = "DetachedIo" /\ f.port = p
    BY <1>3, <2>2, <2>3, <2>6, DispatchedAt DEF Tells
  <2>7. CASE f.kind = "PortInputFormatSingle" /\ f.port = p
    <3>1. p \notin missed
      BY <2>1, <2>7 DEF Heals
    <3> QED BY <1>3, <1>4, <2>2, <2>3, <2>7, <3>1, DispatchedAt DEF Tells
  <2> QED BY <2>4, <2>5, <2>6, <2>7 DEF Concerns
<1> HIDE DEF q
<1> QED BY <1>2, <1>4, TrackConsume DEF q
\* Every step keeps Tracked.
LEMMA TrackedStep ==
  ASSUME TypeOK, Tracked, [Next]_vars
  PROVE  Tracked'
<1> USE DEF hostVars, fields, physVars
<1>0. ASSUME pc' = "Disconnected" => link' = "down",
             pc' \notin HubReady => \A p \in Ports : devices'[p] = NoDevice,
             pc' # "Gone" => \A p \in Ports : Track(p)'
      PROVE  Tracked'
  BY <1>0 DEF Tracked
<1>1. ASSUME Freed PROVE Tracked'
  BY <1>0, <1>1 DEF Freed, HubReady
<1>2. ASSUME UNCHANGED <<devices, missed, chan, air, phys>>, link' # "lost" => link # "lost",
             pc # "Gone", pc' # "Disconnected", pc \in HubReady => pc' \in HubReady
      PROVE  Tracked'
  <2>1. /\ pc' = "Disconnected" => link' = "down"
        /\ pc' \notin HubReady => \A p \in Ports : devices'[p] = NoDevice
    BY <1>2 DEF Tracked
  <2>2. \A p \in Ports : Track(p)'
    BY <1>2, TrackKept DEF Tracked
  <2> QED BY <1>0, <2>1, <2>2
<1>3. CASE Connect
  <2>1. CASE Freed
    BY <1>1, <2>1
  <2>2. CASE link' = "up" /\ pc' = "Connecting" /\ UNCHANGED <<fields, chan>>
    BY <1>2, <1>3, <2>2 DEF Connect, HubReady, Tracked
  <2> QED BY <1>3, <2>1, <2>2 DEF Connect
<1>4. CASE Subscribe
  <2>1. CASE Freed
    BY <1>1, <2>1
  <2>2. CASE link = "up" /\ pc' = "Connected" /\ UNCHANGED <<fields, chan>>
    BY <1>2, <1>4, <2>2 DEF Subscribe, HubReady
  <2> QED BY <1>4, <2>1, <2>2 DEF Subscribe
<1>5. CASE Initialize \/ SendRequest
  <2>1. /\ pc \in {"Connected", "Enabling"} /\ pc' \in {"Enabling", "Draining"}
        /\ UNCHANGED <<devices, missed, chan, air, phys, link>>
    BY <1>5 DEF Initialize, SendRequest
  <2> QED BY <1>2, <2>1 DEF HubReady
<1>6. CASE SendRequestFails \/ DrainFails \/ Close \/ Drop
  BY <1>1, <1>6 DEF SendRequestFails, DrainFails, Close, Drop
<1>7. CASE Drain
  <2>1. pc = "Draining" /\ pc' \in {"Ready", "Draining"} /\ \A p \in Ports : devices'[p] = NoDevice
    BY <1>7 DEF Drain
  <2>2. \A p \in Ports : Track(p)'
    BY <1>7, <2>1, TrackDrain DEF Tracked
  <2> QED BY <1>0, <2>1, <2>2
<1>8. CASE Poll \/ PollCancel \/ NextNone \/ Disconnect
  <2>1. pc \in HubReady /\ pc' \in HubReady /\ UNCHANGED <<devices, missed, chan, air, phys, link>>
    BY <1>8 DEF Poll, PollCancel, NextNone, Disconnect, Idle, HubReady
  <2> QED BY <1>2, <2>1 DEF HubReady
<1>9. CASE NextMessage \/ SkipChunk
  <2>1. pc = "Polling" /\ pc' \in {"Ready", "Polling"}
    BY <1>9 DEF NextMessage, SkipChunk
  <2>2. \A p \in Ports : Track(p)'
    BY <1>9, <2>1, TrackNextMessage, TrackSkip DEF Tracked
  <2> QED BY <1>0, <2>1, <2>2 DEF HubReady
<1>10. ASSUME NEW p \in Ports, NEW m \in Modes, Write(p, m) PROVE Tracked'
  BY <1>2, <1>10 DEF Write, Idle
<1>11. ASSUME NEW n \in 1..MaxBurst, Notify(n) PROVE Tracked'
  <2>1. pc' = pc /\ pc \notin {"Gone", "Disconnected"} /\ devices' = devices
    BY <1>11 DEF Notify, Subscribed, HubConnected, HubReady
  <2>2. \A p \in Ports : Track(p)'
    BY <1>11, <2>1, TrackNotify DEF Tracked
  <2>3. pc' \notin HubReady => \A p \in Ports : devices'[p] = NoDevice
    BY <2>1 DEF Tracked
  <2> QED BY <1>0, <2>1, <2>2, <2>3
<1>12. CASE LinkLoss
  <2>1. link' = "lost" /\ pc' = pc /\ UNCHANGED <<devices, missed, chan>>
    BY <1>12 DEF LinkLoss
  <2>2. pc # "Gone" => \A p \in Ports : Track(p)'
    BY <2>1, TrackLost DEF Tracked
  <2>3. pc # "Disconnected"
    BY <1>12 DEF LinkLoss, Tracked
  <2>4. pc' \notin HubReady => \A p \in Ports : devices'[p] = NoDevice
    BY <1>12 DEF LinkLoss, Tracked
  <2> QED BY <1>0, <2>1, <2>2, <2>3, <2>4
<1>13. ASSUME \/ Serve \/ \E r \in Reports : Report(r)
              \/ \E q \in Ports : Detach(q) \/ Value(q) \/ \E t \in Types : Attach(q, t)
              \/ \E k \in {"Other", "Bad"} : Noise(k)
       PROVE  Tracked'
  <2>1. pc' = pc /\ pc \notin {"Gone", "Disconnected"} /\ devices' = devices
    BY <1>13 DEF Serve, Report, Detach, Value, Attach, Noise, Spontaneous, Subscribed, HubConnected, HubReady
  <2>2. \A p \in Ports : Track(p)'
    BY <1>13, <2>1, TrackHub DEF Tracked
  <2>3. pc' \notin HubReady => \A p \in Ports : devices'[p] = NoDevice
    BY <2>1 DEF Tracked
  <2> QED BY <1>0, <2>1, <2>2, <2>3
<1>14. CASE UNCHANGED vars
  <2>1. UNCHANGED <<devices, missed, chan, air, phys, link, pc>>
    BY <1>14 DEF vars
  <2>2. pc # "Gone" => \A p \in Ports : Track(p)'
    BY <2>1, TrackKept DEF Tracked
  <2>3. /\ pc' = "Disconnected" => link' = "down"
        /\ pc' \notin HubReady => \A p \in Ports : devices'[p] = NoDevice
    BY <2>1 DEF Tracked
  <2> QED BY <1>0, <2>1, <2>2, <2>3
<1> QED BY <1>3, <1>4, <1>5, <1>6, <1>7, <1>8, <1>9, <1>10, <1>11, <1>12, <1>13, <1>14 DEF Next

-----------------------------------------------------------------------------
(***************************************************************************)
(* The theorems.                                                           *)
(***************************************************************************)

(***************************************************************************)
(* In every behaviour, what is in flight leads from the device map to what *)
(* the hub knows.                                                          *)
(***************************************************************************)
THEOREM AlwaysTracked == Spec => []Tracked
<1>1. Init => Tracked
  <2> SUFFICES ASSUME Init PROVE Tracked
    OBVIOUS
  <2>1. chan = <<>> /\ air = <<>> /\ link = "down" /\ \A p \in Ports : devices[p] = NoDevice /\ phys[p] = NoDevice
    BY DEF Init
  <2> QED BY <2>1, TrackStart DEF Tracked
<1>2. TypeOK /\ Tracked /\ [Next]_vars => Tracked'
  BY TrackedStep
<1> QED BY <1>1, <1>2, TypeCorrect, PTL DEF Spec

(***************************************************************************)
(* The device map agrees with the hub about every port of which nothing is *)
(* in flight and the code has lost no frame, whatever the interleaving of  *)
(* events, notifications, polls and cancelled polls.                       *)
(***************************************************************************)
THEOREM MapMirrors == Spec => []Mirror
<1>1. TypeOK /\ Tracked => Mirror
  <2> SUFFICES ASSUME TypeOK, Tracked, pc \in {"Ready", "Polling"}, link = "up",
                      NEW p \in Ports \ missed, ~InFlight(p)
               PROVE  devices[p] = View(phys[p])
    BY DEF Mirror
  <2> DEFINE l == Len(chan) + 1
  <2>1. Track(p)
    BY DEF Tracked
  <2>2. PICK b \in [1..l -> State] :
          /\ b[1] = devices[p]
          /\ Chain(air, p, b[l], View(phys[p]))
          /\ \A c, d \in 1..l : (c <= d /\ \A e \in c .. d - 1 : Quiet(chan[e], p)) => b[c] = b[d]
    BY <2>1 DEF Track
  <2>3. Quiet(air, p) /\ \A e \in DOMAIN chan : Quiet(chan[e], p)
    BY DEF InFlight, Quiet
  <2>4. l \in Nat /\ 1 \in 1..l /\ l \in 1..l /\ 1 <= l /\ \A e \in 1 .. l - 1 : e \in DOMAIN chan
    BY DEF TypeOK
  <2> HIDE DEF l
  <2>5. b[1] = b[l]
    BY <2>2, <2>3, <2>4
  <2>6. b[l] = View(phys[p])
    BY <2>2, <2>3, ChainEnds DEF TypeOK
  <2> QED BY <2>2, <2>5, <2>6
<1> QED BY <1>1, TypeCorrect, AlwaysTracked, PTL

(***************************************************************************)
(* A sensor value that next_message hands to a device finds the device     *)
(* there, and in the mode the hub encoded the value in.                    *)
(***************************************************************************)
THEOREM ValuesSeeTheirModes == Spec => []ValueSeesItsMode
<1>1. TypeOK /\ Tracked => ValueSeesItsMode
  <2> SUFFICES ASSUME TypeOK, Tracked, pc \in {"Ready", "Polling"}, chan # <<>>,
                      NEW i \in DOMAIN Head(chan), IsNext(Head(chan), i),
                      Head(chan)[i].kind = "PortValueSingle", Head(chan)[i].port \notin missed
               PROVE  LET f == Head(chan)[i] IN
                      /\ devices[f.port] # NoDevice
                      /\ devices[f.port].type \in ModalTypes => devices[f.port].mode = f.mode
    BY DEF ValueSeesItsMode
  <2> DEFINE f == Head(chan)[i]
             p == f.port
  <2>1. Head(chan) \in Seq(Frames) /\ f \in Frames /\ Head(chan) = chan[1] /\ 1 \in 1..Len(chan)
    BY HeadChunk DEF TypeOK
  <2>2. p \in Ports
    BY <2>1 DEF Frames, AttachKinds
  <2>3. Track(p)
    BY <2>2 DEF Tracked
  <2>4. PICK a, b : Chain(Head(chan), p, a, b) /\ a = devices[p]
    BY <2>1, <2>3 DEF Track
  <2>5. \E c : Tells(f, p, a, c)
    BY <2>1, <2>4, FirstFrame
  <2> QED BY <2>4, <2>5 DEF Tells
<1> QED BY <1>1, TypeCorrect, AlwaysTracked, PTL
=============================================================================
