------------------------------ MODULE HubProofs ------------------------------
(***************************************************************************)
(* What TLAPS proves of Hub, for every set of ports, types and modes,      *)
(* every channel capacity and every burst size.                            *)
(***************************************************************************)
EXTENDS Hub, SequenceTheorems, TLAPS

DeviceMap == [Ports -> Device \cup {NoDevice}]

-----------------------------------------------------------------------------
(***************************************************************************)
(* The operators of the model are well typed.                              *)
(***************************************************************************)

\* Everything the hub may send is a frame (the constructors of LpfFrames).
LEMMA FrameTypes ==
  /\ \A q \in Props, w \in BOOLEAN : PropertyFrame(q, w) \in Frames
  /\ \A p \in Ports, t \in Types \cup {NoType} : AttachFrame(p, t) \in Frames
  /\ \A p \in Ports : DetachFrame(p) \in Frames
  /\ \A p \in Ports, m \in Modes : FormatFrame(p, m) \in Frames /\ ValueFrame(p, m) \in Frames
  /\ \A k \in {"Other", "Bad"} : [kind |-> k] \in Frames
BY DEF PropertyFrame, AttachFrame, DetachFrame, FormatFrame, ValueFrame, Frames, AttachKinds

\* Everything the host writes is a command.
LEMMA CommandTypes ==
  /\ \A i \in 1..6 : Requests[i] \in Commands
  /\ Len(Requests) = 6
  /\ Goodbye \in Commands
  /\ \A p \in Ports, m \in Modes : Setup(p, m) \in Commands
BY DEF Requests, EnableUpdates, RequestUpdate, Goodbye, Setup, Commands, Props, Reports, Mandatory

\* DeviceFactory::create and Device::set_mode return devices.
LEMMA DeviceTypes ==
  /\ \A t \in Types : Create(t) \in Device
  /\ \A d \in Device, m \in Modes : SetMode(d, m) \in Device
BY FrameAssumption DEF Create, SetMode, Device

\* handle_message keeps the device map a map from ports to devices.
LEMMA DispatchedType ==
  ASSUME NEW ds \in DeviceMap, NEW f \in Frames
  PROVE  Dispatched(ds, f) \in DeviceMap
<1>1. CASE f.kind \in AttachKinds /\ f.type # NoType
  <2>1. f.port \in Ports /\ f.type \in Types
    BY <1>1 DEF Frames, AttachKinds
  <2>2. Dispatched(ds, f) = [ds EXCEPT ![f.port] = Create(f.type)]
    BY <1>1 DEF Dispatched, AttachKinds
  <2> QED BY <2>1, <2>2, DeviceTypes DEF DeviceMap
<1>2. CASE f.kind = "DetachedIo"
  <2>1. f.port \in Ports
    BY <1>2 DEF Frames, AttachKinds
  <2>2. Dispatched(ds, f) = [ds EXCEPT ![f.port] = NoDevice]
    BY <1>2 DEF Dispatched, AttachKinds
  <2> QED BY <2>1, <2>2 DEF DeviceMap
<1>3. CASE f.kind = "PortInputFormatSingle" /\ ds[f.port] # NoDevice
  <2>1. f.port \in Ports /\ f.mode \in Modes
    BY <1>3 DEF Frames, AttachKinds
  <2>2. SetMode(ds[f.port], f.mode) \in Device
    BY <2>1, <1>3, DeviceTypes DEF DeviceMap
  <2>3. Dispatched(ds, f) = [ds EXCEPT ![f.port] = SetMode(ds[f.port], f.mode)]
    BY <1>3 DEF Dispatched, AttachKinds
  <2> QED BY <2>1, <2>2, <2>3 DEF DeviceMap
<1>4. CASE /\ ~(f.kind \in AttachKinds /\ f.type # NoType)
           /\ f.kind # "DetachedIo"
           /\ ~(f.kind = "PortInputFormatSingle" /\ ds[f.port] # NoDevice)
  BY <1>4 DEF Dispatched
<1> QED BY <1>1, <1>2, <1>3, <1>4

\* A frame taken from the channel is a frame, and what is left is a channel.
LEMMA HeadChunk ==
  ASSUME TypeOK, chan # <<>>
  PROVE  /\ Head(chan) \in Seq(Frames)
         /\ \A i \in DOMAIN Head(chan) : Head(chan)[i] \in Frames
         /\ Tail(chan) \in Seq(Seq(Frames))
         /\ Head(chan) = chan[1] /\ 1 \in DOMAIN chan
         /\ \A i \in DOMAIN Tail(chan) : i + 1 \in DOMAIN chan /\ Tail(chan)[i] = chan[i + 1]
<1>1. chan \in Seq(Seq(Frames))
  BY DEF TypeOK
<1>2. Head(chan) \in Seq(Frames) /\ Tail(chan) \in Seq(Seq(Frames))
  BY <1>1, HeadTailProperties
<1>3. Head(chan) = chan[1] /\ 1 \in DOMAIN chan
  BY <1>1
<1>4. \A i \in DOMAIN Tail(chan) : i + 1 \in DOMAIN chan /\ Tail(chan)[i] = chan[i + 1]
  BY <1>1
<1> QED BY <1>2, <1>3, <1>4, ElementOfSeq

\* What Notify moves from the air to the channel.
LEMMA NotifyChunk ==
  ASSUME TypeOK, NEW n \in 1..MaxBurst, n <= Len(air)
  PROVE  /\ SubSeq(air, 1, n) \in Seq(Frames)
         /\ SubSeq(air, n + 1, Len(air)) \in Seq(Frames)
         /\ \A i \in DOMAIN SubSeq(air, 1, n) :
              i \in DOMAIN air /\ SubSeq(air, 1, n)[i] = air[i]
         /\ \A i \in DOMAIN SubSeq(air, n + 1, Len(air)) :
              n + i \in DOMAIN air /\ SubSeq(air, n + 1, Len(air))[i] = air[n + i]
<1>1. air \in Seq(Frames) /\ n \in Nat /\ n >= 1 /\ Len(air) \in Nat
  BY HubAssumption DEF TypeOK
<1>2. \A i \in 1..n : air[i] \in Frames
  BY <1>1
<1>3. \A i \in n+1..Len(air) : air[i] \in Frames
  BY <1>1
<1>4. /\ SubSeq(air, 1, n) \in Seq(Frames) 
      /\ Len(SubSeq(air, 1, n)) = n
      /\ \A i \in 1..n : SubSeq(air, 1, n)[i] = air[i]
  BY <1>1, <1>2, SubSeqProperties, Z3
<1>5. /\ SubSeq(air, n + 1, Len(air)) \in Seq(Frames) 
      /\ Len(SubSeq(air, n + 1, Len(air))) = Len(air) - n
      /\ \A i \in 1..Len(air) - n : SubSeq(air, n + 1, Len(air))[i] = air[n + i]
  BY <1>1, <1>3, SubSeqProperties, Z3
<1> QED BY <1>1, <1>4, <1>5
-----------------------------------------------------------------------------
(***************************************************************************)
(* The inductive invariant.  The handshake is a chain: what the host has   *)
(* written so far is a prefix of Requests, an answer that is in flight or  *)
(* taken off `pending' goes back to a request the hub has acted on, and    *)
(* the hub acts on requests in the order they were written.                *)
(***************************************************************************)

\* The properties whose request the hub has acted on.
Answered == {q \in Mandatory : \E i \in 1..served : written[i] = RequestUpdate(q)}

\* Every answer among these frames was asked for, and is whole if the hub
\* sends whole properties.
AllAnswered(frames) ==
  \A i \in DOMAIN frames : frames[i].kind = "HubProperty" =>
    /\ frames[i].property \in Mandatory => frames[i].property \in Answered
    /\ "HubProperty" \notin Malformed => frames[i].whole

\* How far the writing of Requests has come, by the place the host is in.
WrittenInOrder ==
  /\ pc \in {"Disconnected", "Connecting", "Connected"} => written = <<>>
  /\ pc = "Enabling" => Len(written) < Len(Requests)
  /\ pc = "Draining" => Len(written) = Len(Requests)
  /\ pc # "Gone" => \A i \in 1..Len(Requests) :
                      i <= Len(written) => written[i] = Requests[i]

\* Answers come from requests the hub has acted on.
AnswersAreEarned ==
  /\ AllAnswered(air)
  /\ \A c \in DOMAIN chan : AllAnswered(chan[c])
  /\ pc = "Draining" => Mandatory \ pending \subseteq Answered
  /\ pc \in HubReady => served >= Len(Requests)

\* With whole properties, what has been taken off `pending' is known.
AnswersAreKnown ==
  "HubProperty" \notin Malformed =>
    /\ pc = "Draining" => Mandatory \ pending \subseteq known
    /\ pc \in HubReady => Mandatory \subseteq known

IInv ==
  /\ TypeOK /\ WrittenInOrder /\ AnswersAreEarned /\ AnswersAreKnown
  /\ GoodbyeIsLast

-----------------------------------------------------------------------------
(***************************************************************************)
(* Type correctness.                                                       *)
(***************************************************************************)

\* Freeing the handle resets every field to a value of its type.
LEMMA FreedTyped ==
  ASSUME Freed
  PROVE  /\ pc' \in PCs /\ pending' \subseteq Mandatory /\ known' \subseteq Props
         /\ devices' \in DeviceMap /\ chan' \in Seq(Seq(Frames)) /\ missed' \subseteq Ports
BY DEF Freed, PCs, DeviceMap

\* Sending a frame or writing a command appends a well-typed element.
LEMMA EmitTyped ==
  ASSUME TypeOK, NEW f \in Frames, Emit(f)
  PROVE  air' \in Seq(Frames)
BY DEF TypeOK, Emit

\* Writing a command appends a command.
LEMMA TransmitTyped ==
  ASSUME TypeOK, NEW c \in Commands, Transmit(c)
  PROVE  written' \in Seq(Commands) /\ served \in 0..Len(written')
BY DEF TypeOK, Transmit

\* Every step keeps every variable in its type.
LEMMA TypeStep == TypeOK /\ WrittenInOrder /\ [Next]_vars => TypeOK'
<1> SUFFICES ASSUME TypeOK, WrittenInOrder, [Next]_vars PROVE TypeOK'
  OBVIOUS
<1> USE DEF TypeOK, hostVars, fields, physVars
<1>1. CASE Connect
  BY <1>1, FreedTyped DEF Connect, PCs, DeviceMap
<1>2. CASE Subscribe
  BY <1>2, FreedTyped DEF Subscribe, PCs, DeviceMap
<1>3. CASE Initialize
  BY <1>3 DEF Initialize, PCs
<1>4. CASE SendRequest
  <2>1. Requests[Len(written) + 1] \in Commands
    BY <1>4, CommandTypes DEF SendRequest, WrittenInOrder
  <2>2. written' \in Seq(Commands) /\ served \in 0..Len(written')
    BY <1>4, <2>1, TransmitTyped DEF SendRequest
  <2> QED BY <1>4, <2>2 DEF SendRequest, PCs, Awaited
<1>5. CASE SendRequestFails
  BY <1>5, FreedTyped DEF SendRequestFails, DeviceMap
<1>6. CASE Drain
  <2>1. known' \subseteq Props
    BY <1>6 DEF Drain, Applied
  <2>2. missed' \subseteq Ports
    BY <1>6 DEF Drain, PortsAt
  <2>3. chan' \in Seq(Seq(Frames))
    BY <1>6, HeadChunk DEF Drain
  <2> QED BY <1>6, <2>1, <2>2, <2>3 DEF Drain, PCs
<1>7. CASE DrainFails
  BY <1>7, FreedTyped DEF DrainFails, DeviceMap
<1>8. CASE Poll \/ PollCancel \/ NextNone
  BY <1>8 DEF Poll, PollCancel, NextNone, PCs
<1>9. CASE NextMessage
  <2>1. PICK i \in Parseable(Head(chan)) :
          /\ devices' = Dispatched(devices, Head(chan)[i])
          /\ known' = AppliedReady(known, Head(chan)[i])
          /\ missed' = (missed \ Heals(Head(chan)[i])) \cup Unread(Head(chan)[i])
                         \cup PortsAt(Head(chan), {j \in DOMAIN Head(chan) : j > i})
    BY <1>9 DEF NextMessage
  <2>2. Head(chan)[i] \in Frames /\ chan' \in Seq(Seq(Frames))
    BY <1>9, HeadChunk DEF NextMessage, Parseable
  <2>3. devices' \in DeviceMap
    BY <2>1, <2>2, DispatchedType DEF DeviceMap
  <2>4. known' \subseteq Props
    BY <2>1 DEF AppliedReady, Applied
  <2>5. missed' \subseteq Ports
    BY <2>1 DEF Heals, Unread, PortsAt
  <2> QED BY <1>9, <2>2, <2>3, <2>4, <2>5 DEF NextMessage, PCs, DeviceMap
<1>10. CASE SkipChunk
  BY <1>10, HeadChunk DEF SkipChunk
<1>11. ASSUME NEW p \in Ports, NEW m \in Modes, Write(p, m) PROVE TypeOK'
  <2>1. written' \in Seq(Commands) /\ served \in 0..Len(written')
    BY <1>11, CommandTypes, TransmitTyped DEF Write
  <2> QED BY <1>11, <2>1 DEF Write
<1>12. CASE Disconnect
  <2>1. written' \in Seq(Commands) /\ served \in 0..Len(written')
    BY <1>12, CommandTypes, TransmitTyped DEF Disconnect
  <2>2. pc' \in PCs /\ UNCHANGED <<fields, physVars, link, chan, air>>
    BY <1>12 DEF Disconnect, PCs
  <2> QED BY <2>1, <2>2
<1>13. CASE Close
  <2>1. CASE link' = "down" /\ air' = <<>>
    BY <1>13, <2>1, FreedTyped DEF Close, DeviceMap
  <2>2. CASE UNCHANGED <<link, air>>
    BY <1>13, <2>2, FreedTyped DEF Close, DeviceMap
  <2> QED BY <1>13, <2>1, <2>2 DEF Close
<1>14. CASE Drop
  BY <1>14, FreedTyped DEF Drop, DeviceMap
<1>15. ASSUME NEW n \in 1..MaxBurst, Notify(n) PROVE TypeOK'
  <2>1. SubSeq(air, 1, n) \in Seq(Frames) /\ SubSeq(air, n + 1, Len(air)) \in Seq(Frames)
    BY <1>15, NotifyChunk DEF Notify
  <2> QED BY <1>15, <2>1 DEF Notify
<1>16. CASE LinkLoss
  BY <1>16 DEF LinkLoss
<1>17. CASE Serve
  <2>1. served' \in 0..Len(written') /\ written[served + 1] \in Commands
    BY <1>17 DEF Serve
  <2>2. air' \in Seq(Frames) /\ phys' \in [Ports -> Device \cup {NoDevice}]
    <3> DEFINE m == written[served + 1]
    <3>1. CASE m.kind = "RequestUpdateDownstream" 
      <4>1. m.property \in Props
        BY <2>1, <3>1 DEF Commands, Goodbye
      <4>2. PICK w \in BOOLEAN : Emit(PropertyFrame(m.property, w))
        BY <1>17, <3>1 DEF Serve, Wholeness
      <4>3. air' \in Seq(Frames)
        BY <4>1, <4>2, FrameTypes, EmitTyped
      <4> QED BY <1>17, <3>1, <4>3 DEF Serve
    <3>2. CASE m.kind = "PortInputFormatSetupSingle"
      <4>1. m.port \in Ports /\ m.mode \in Modes
        BY <2>1, <3>2 DEF Commands, Goodbye
      <4>2. CASE phys[m.port] # NoDevice
        <5>1. [phys[m.port] EXCEPT !.mode = m.mode] \in Device
          BY <4>1, <4>2 DEF Device
        <5>2. Emit(FormatFrame(m.port, m.mode)) /\ phys' = [phys EXCEPT ![m.port].mode = m.mode]
          BY <1>17, <3>2, <4>2 DEF Serve
        <5>3. air' \in Seq(Frames)
          BY <4>1, <5>2, FrameTypes, EmitTyped
        <5> QED BY <4>1, <5>1, <5>2, <5>3
      <4>3. CASE phys[m.port] = NoDevice
        <5>1. Emit([kind |-> "Other"]) /\ UNCHANGED phys
          BY <1>17, <3>2, <4>3 DEF Serve
        <5> QED BY <5>1, FrameTypes, EmitTyped
      <4> QED BY <4>2, <4>3
    <3>3. CASE m.kind \in {"EnableUpdatesDownstream", "HubActionDisconnect"}
      BY <1>17, <3>3 DEF Serve
    <3> QED BY <2>1, <3>1, <3>2, <3>3 DEF Commands, Goodbye
  <2> QED BY <1>17, <2>1, <2>2 DEF Serve
<1>18. ASSUME NEW p \in Reports, Report(p) PROVE TypeOK'
  <2>1. PICK w \in BOOLEAN : Emit(PropertyFrame(p, w))
    BY <1>18 DEF Report, Wholeness
  <2>2. air' \in Seq(Frames)
    BY <2>1, FrameTypes, EmitTyped DEF Props
  <2> QED BY <1>18, <2>2 DEF Report, Spontaneous
<1>19. ASSUME NEW p \in Ports, NEW t \in Types, Attach(p, t) PROVE TypeOK'
  <2>1. PICK w \in BOOLEAN : Emit(AttachFrame(p, IF w THEN t ELSE NoType))
    BY <1>19 DEF Attach, Wholeness
  <2>2. air' \in Seq(Frames)
    BY <2>1, FrameTypes, EmitTyped
  <2> QED BY <1>19, <2>2, DeviceTypes DEF Attach, Spontaneous
<1>20. ASSUME NEW p \in Ports, Detach(p) PROVE TypeOK'
  BY <1>20, FrameTypes, EmitTyped DEF Detach, Spontaneous
<1>21. ASSUME NEW p \in Ports, Value(p) PROVE TypeOK'
  <2>1. phys[p].mode \in Modes
    BY <1>21 DEF Value, Device
  <2> QED BY <1>21, <2>1, FrameTypes, EmitTyped DEF Value, Spontaneous
<1>22. ASSUME NEW k \in {"Other", "Bad"}, Noise(k) PROVE TypeOK'
  BY <1>22, FrameTypes, EmitTyped DEF Noise, Spontaneous
<1>23. CASE UNCHANGED vars
  BY <1>23 DEF vars
<1> QED
  BY <1>1, <1>2, <1>3, <1>4, <1>5, <1>6, <1>7, <1>8, <1>9, <1>10, <1>11, <1>12, <1>13,
     <1>14, <1>15, <1>16, <1>17, <1>18, <1>19, <1>20, <1>21, <1>22, <1>23 DEF Next
-----------------------------------------------------------------------------
(***************************************************************************)
(* The steps of the handshake.                                             *)
(***************************************************************************)

\* No step but the four of the host that write changes `written', and the
\* host is only in the places before the handshake or past it as its own
\* actions take it there.
LEMMA WrittenStep == TypeOK /\ WrittenInOrder /\ AnswersAreEarned /\ [Next]_vars => WrittenInOrder'
<1> SUFFICES ASSUME TypeOK, WrittenInOrder, AnswersAreEarned, [Next]_vars PROVE WrittenInOrder'
  OBVIOUS
<1> USE CommandTypes DEF WrittenInOrder, hostVars, fields, physVars
<1>1. CASE Connect \/ Subscribe \/ Initialize
  BY <1>1 DEF Connect, Subscribe, Initialize, Freed
<1>2. CASE SendRequest
  <2>1. pc = "Enabling" /\ Len(written) < 6 /\ written' = Append(written, Requests[Len(written) + 1])
    BY <1>2 DEF SendRequest, Transmit
  <2>2. \A i \in 1..6 : i <= Len(written') => written'[i] = Requests[i]
    BY <2>1 DEF TypeOK
  <2>3. Len(written') = Len(written) + 1 /\ Len(written) \in Nat
    BY <2>1 DEF TypeOK
  <2>4. \/ Len(written) + 1 = 6 /\ pc' = "Draining"
        \/ Len(written) + 1 # 6 /\ pc' = "Enabling"
    BY <1>2 DEF SendRequest
  <2> QED BY <2>1, <2>2, <2>3, <2>4
<1>3. CASE SendRequestFails \/ DrainFails \/ Close \/ Drop
  BY <1>3 DEF SendRequestFails, DrainFails, Close, Drop, Freed
<1>4. CASE Drain
  BY <1>4 DEF Drain
<1>5. CASE Poll \/ PollCancel \/ NextMessage \/ SkipChunk \/ NextNone
  BY <1>5 DEF Poll, PollCancel, NextMessage, SkipChunk, NextNone, Idle
<1>6. ASSUME NEW c \in Commands, pc \in Idle, Transmit(c), pc' \in HubReady PROVE WrittenInOrder'
  <2>1. written' = Append(written, c) /\ Len(written) >= 6
    BY <1>6 DEF Transmit, AnswersAreEarned, TypeOK, Idle, HubReady
  <2>2. \A i \in 1..6 : written'[i] = written[i]
    BY <2>1 DEF TypeOK
  <2> QED BY <1>6, <2>1, <2>2 DEF HubReady, Idle, TypeOK
<1>7. ASSUME NEW p \in Ports, NEW m \in Modes, Write(p, m) PROVE WrittenInOrder'
  BY <1>6, <1>7 DEF Write, Idle, HubReady
<1>8. CASE Disconnect
  <2>1. CASE Transmit(Goodbye)
    BY <1>6, <1>8, <2>1 DEF Disconnect, HubReady
  <2>2. CASE UNCHANGED written
    BY <1>8, <2>2 DEF Disconnect, Idle
  <2> QED BY <1>8, <2>1, <2>2 DEF Disconnect
<1>9. ASSUME UNCHANGED <<pc, written>> PROVE WrittenInOrder'
  BY <1>9
<1>10. ASSUME NEW n \in 1..MaxBurst, Notify(n) PROVE UNCHANGED <<pc, written>>
  BY <1>10 DEF Notify
<1>11. CASE LinkLoss \/ Serve
  BY <1>11 DEF LinkLoss, Serve
<1>12. ASSUME Spontaneous PROVE UNCHANGED <<pc, written>>
  BY <1>12 DEF Spontaneous
<1>13. CASE UNCHANGED vars
  BY <1>13 DEF vars
<1> QED
  BY <1>1, <1>2, <1>3, <1>4, <1>5, <1>7, <1>8, <1>9, <1>10, <1>11, <1>12, <1>13
  DEF Next, Report, Attach, Detach, Value, Noise

\* What was acted on stays acted on: written and served only grow.
LEMMA AnsweredGrows ==
  ASSUME TypeOK, TypeOK', served' >= served,
         written' = written \/ \E c \in Commands : written' = Append(written, c)
  PROVE  Answered \subseteq Answered'
<1>1. served \in Nat /\ served' \in Nat /\ written \in Seq(Commands) /\ served <= Len(written)
  BY DEF TypeOK
<1>2. \A i \in 1..served : i \in 1..served'
  BY <1>1
<1>3. \A i \in 1..served : written'[i] = written[i]
  BY <1>1
<1> QED BY <1>2, <1>3 DEF Answered

\* written and served only grow, in every step.
LEMMA LogGrows ==
  ASSUME TypeOK, TypeOK', WrittenInOrder, [Next]_vars
  PROVE  Answered \subseteq Answered'
<1> USE DEF hostVars, fields, physVars
<1>1. ASSUME UNCHANGED <<written, served>> PROVE Answered \subseteq Answered'
  BY <1>1 DEF Answered
<1>2. ASSUME NEW c \in Commands, Transmit(c), UNCHANGED served PROVE Answered \subseteq Answered'
  <2>1. served' >= served
    BY <1>2 DEF TypeOK
  <2> QED BY <1>2, <2>1, AnsweredGrows DEF Transmit
<1>3. CASE SendRequest
  <2>1. Requests[Len(written) + 1] \in Commands
    BY <1>3, CommandTypes DEF SendRequest, WrittenInOrder, TypeOK
  <2> QED BY <1>2, <1>3, <2>1 DEF SendRequest
<1>4. ASSUME NEW p \in Ports, NEW m \in Modes, Write(p, m) PROVE Answered \subseteq Answered'
  BY <1>2, <1>4, CommandTypes DEF Write
<1>5. CASE Disconnect
  <2>1. CASE Transmit(Goodbye)
    BY <1>2, <1>5, <2>1, CommandTypes DEF Disconnect
  <2>2. CASE UNCHANGED written
    BY <1>1, <1>5, <2>2 DEF Disconnect
  <2> QED BY <1>5, <2>1, <2>2 DEF Disconnect
<1>6. CASE Serve
  <2>1. served' >= served /\ written' = written
    BY <1>6 DEF Serve, TypeOK
  <2> QED BY <2>1, AnsweredGrows
<1>7. CASE Connect \/ Subscribe \/ Initialize \/ SendRequestFails \/ Drain \/ DrainFails
  BY <1>1, <1>7 DEF Connect, Subscribe, Initialize, SendRequestFails, Drain, DrainFails
<1>8. CASE Poll \/ PollCancel \/ NextMessage \/ SkipChunk \/ NextNone \/ Close \/ Drop \/ LinkLoss
  BY <1>1, <1>8 DEF Poll, PollCancel, NextMessage, SkipChunk, NextNone, Close, Drop, LinkLoss
<1>9. ASSUME NEW n \in 1..MaxBurst, Notify(n) PROVE UNCHANGED <<written, served>>
  BY <1>9 DEF Notify
<1>10. ASSUME Spontaneous PROVE UNCHANGED <<written, served>>
  BY <1>10 DEF Spontaneous
<1>11. CASE UNCHANGED vars
  BY <1>1, <1>11 DEF vars
<1> QED
  BY <1>1, <1>3, <1>4, <1>5, <1>6, <1>7, <1>8, <1>9, <1>10, <1>11
  DEF Next, Report, Attach, Detach, Value, Noise
\* Frames in the air stay answered: a property frame of the identity is sent
\* only by Serve, which counts its request in the same step.
LEMMA AirStep ==
  ASSUME TypeOK, TypeOK', WrittenInOrder, AnswersAreEarned, [Next]_vars
  PROVE  AllAnswered(air)'
<1> USE DEF hostVars, fields, physVars
<1> DEFINE Earned(f) == f.kind = "HubProperty" =>
             /\ f.property \in Mandatory => f.property \in Answered'
             /\ "HubProperty" \notin Malformed => f.whole
<1>1. \A i \in DOMAIN air : Earned(air[i])
  BY LogGrows DEF AnswersAreEarned, AllAnswered
<1> SUFFICES \A i \in DOMAIN air' : Earned(air'[i])
  BY DEF AllAnswered
<1> HIDE DEF Earned
<1>2. ASSUME UNCHANGED air PROVE \A i \in DOMAIN air' : Earned(air'[i])
  BY <1>1, <1>2
<1>3. ASSUME air' = <<>> PROVE \A i \in DOMAIN air' : Earned(air'[i])
  BY <1>3
<1>4. ASSUME NEW f, Earned(f), Emit(f) PROVE \A i \in DOMAIN air' : Earned(air'[i])
  <2>1. /\ air' = Append(air, f) /\ air \in Seq(Frames)
    BY <1>4 DEF Emit, TypeOK
  <2>2. \A i \in DOMAIN air' : air'[i] = f \/ (i \in DOMAIN air /\ air'[i] = air[i])
    BY <2>1
  <2> QED BY <1>1, <1>4, <2>2
<1>5. ASSUME NEW n \in 1..MaxBurst, Notify(n) PROVE \A i \in DOMAIN air' : Earned(air'[i])
  BY <1>1, <1>5, NotifyChunk DEF Notify
<1>6. CASE Serve
  <2> DEFINE m == written[served + 1]
  <2>1. m \in Commands
    BY <1>6 DEF Serve, TypeOK
  <2>2. CASE m.kind = "RequestUpdateDownstream"
    <3>1. PICK w \in Wholeness("HubProperty") : Emit(PropertyFrame(m.property, w))
      BY <1>6, <2>2 DEF Serve
    <3>2. m = RequestUpdate(m.property)
      BY <2>1, <2>2 DEF RequestUpdate, Commands, Goodbye
    <3>3. served + 1 \in 1..served' /\ written' = written
      BY <1>6 DEF Serve, TypeOK
    <3>4. m.property \in Mandatory => m.property \in Answered'
      BY <3>2, <3>3 DEF Answered
    <3>5. Earned(PropertyFrame(m.property, w))
      BY <3>4 DEF Earned, PropertyFrame, Wholeness
    <3> QED BY <1>4, <3>1, <3>5
  <2>3. CASE m.kind = "PortInputFormatSetupSingle" /\ phys[m.port] # NoDevice
    <3>1. Emit(FormatFrame(m.port, m.mode))
      BY <1>6, <2>3 DEF Serve
    <3> QED BY <1>4, <3>1 DEF Earned, FormatFrame
  <2>4. CASE m.kind = "PortInputFormatSetupSingle" /\ phys[m.port] = NoDevice
    <3>1. Emit([kind |-> "Other"])
      BY <1>6, <2>4 DEF Serve
    <3> QED BY <1>4, <3>1 DEF Earned
  <2>5. CASE m.kind \in {"EnableUpdatesDownstream", "HubActionDisconnect"}
    BY <1>2, <1>6, <2>5 DEF Serve
  <2> QED BY <2>1, <2>2, <2>3, <2>4, <2>5 DEF Commands, Goodbye
<1>7. ASSUME NEW p \in Reports, Report(p) PROVE \A i \in DOMAIN air' : Earned(air'[i])
  <2>1. PICK w \in Wholeness("HubProperty") : Emit(PropertyFrame(p, w))
    BY <1>7 DEF Report
  <2>2. Earned(PropertyFrame(p, w))
    BY DEF Earned, PropertyFrame, Reports, Mandatory, Wholeness
  <2> QED BY <1>4, <2>1, <2>2
<1>8. ASSUME NEW p \in Ports, NEW t \in Types, Attach(p, t) PROVE \A i \in DOMAIN air' : Earned(air'[i])
  <2>1. PICK w \in BOOLEAN : Emit(AttachFrame(p, IF w THEN t ELSE NoType))
    BY <1>8 DEF Attach, Wholeness
  <2>2. Earned(AttachFrame(p, IF w THEN t ELSE NoType))
    BY DEF Earned, AttachFrame
  <2> QED BY <1>4, <2>1, <2>2
<1>9. ASSUME NEW p \in Ports, Detach(p) PROVE \A i \in DOMAIN air' : Earned(air'[i])
  BY <1>4, <1>9 DEF Detach, Earned, DetachFrame
<1>10. ASSUME NEW p \in Ports, Value(p) PROVE \A i \in DOMAIN air' : Earned(air'[i])
  BY <1>4, <1>10 DEF Value, Earned, ValueFrame
<1>11. ASSUME NEW k \in {"Other", "Bad"}, Noise(k) PROVE \A i \in DOMAIN air' : Earned(air'[i])
  BY <1>4, <1>11 DEF Noise, Earned
<1>12. CASE Connect \/ Subscribe \/ Initialize \/ SendRequest \/ SendRequestFails \/ Drain \/ DrainFails
  BY <1>2, <1>12
  DEF Connect, Subscribe, Initialize, SendRequest, SendRequestFails, Drain, DrainFails
<1>13. CASE Poll \/ PollCancel \/ NextMessage \/ SkipChunk \/ NextNone \/ Disconnect \/ Drop
  BY <1>2, <1>13 DEF Poll, PollCancel, NextMessage, SkipChunk, NextNone, Disconnect, Drop
<1>14. CASE Close \/ LinkLoss
  BY <1>2, <1>3, <1>14 DEF Close, LinkLoss
<1>15. ASSUME NEW p \in Ports, NEW m \in Modes, Write(p, m) PROVE UNCHANGED air
  BY <1>15 DEF Write
<1>16. CASE UNCHANGED vars
  BY <1>2, <1>16 DEF vars
<1> QED
  BY <1>2, <1>5, <1>6, <1>7, <1>8, <1>9, <1>10, <1>11, <1>12, <1>13, <1>14, <1>15, <1>16
  DEF Next

\* Frames in the channel stay answered: they were in the air before.
LEMMA ChanStep ==
  ASSUME TypeOK, TypeOK', WrittenInOrder, AnswersAreEarned, [Next]_vars
  PROVE  (\A c \in DOMAIN chan : AllAnswered(chan[c]))'
<1> USE DEF hostVars, fields, physVars
<1> DEFINE Earned(frames) ==
      \A i \in DOMAIN frames : frames[i].kind = "HubProperty" =>
        /\ frames[i].property \in Mandatory => frames[i].property \in Answered'
        /\ "HubProperty" \notin Malformed => frames[i].whole
<1>1. Earned(air) /\ \A c \in DOMAIN chan : Earned(chan[c])
  BY LogGrows DEF AnswersAreEarned, AllAnswered
<1> SUFFICES \A c \in DOMAIN chan' : Earned(chan'[c])
  BY DEF AllAnswered
<1>2. ASSUME NEW n \in 1..MaxBurst, Notify(n) PROVE \A c \in DOMAIN chan' : Earned(chan'[c])
  <2>1. Earned(SubSeq(air, 1, n)) /\ chan' = Append(chan, SubSeq(air, 1, n))
    BY <1>1, <1>2, NotifyChunk DEF Notify
  <2> HIDE DEF Earned
  <2>2. \A c \in DOMAIN chan' : chan'[c] = SubSeq(air, 1, n) \/ (c \in DOMAIN chan /\ chan'[c] = chan[c])
    BY <2>1 DEF TypeOK
  <2> QED BY <1>1, <2>1, <2>2
<1> HIDE DEF Earned
<1>3. ASSUME UNCHANGED chan PROVE \A c \in DOMAIN chan' : Earned(chan'[c])
  BY <1>1, <1>3
<1>4. ASSUME chan' = <<>> PROVE \A c \in DOMAIN chan' : Earned(chan'[c])
  BY <1>4
<1>5. ASSUME chan # <<>>, chan' = Tail(chan) PROVE \A c \in DOMAIN chan' : Earned(chan'[c])
  BY <1>1, <1>5, HeadChunk
<1>6. CASE Connect \/ Subscribe \/ Initialize \/ SendRequest \/ SendRequestFails \/ DrainFails
  BY <1>3, <1>4, <1>6
  DEF Connect, Subscribe, Initialize, SendRequest, SendRequestFails, DrainFails, Freed
<1>7. CASE Drain \/ NextMessage \/ SkipChunk
  BY <1>5, <1>7 DEF Drain, NextMessage, SkipChunk
<1>8. CASE Poll \/ PollCancel \/ NextNone \/ Disconnect \/ Close \/ Drop \/ LinkLoss \/ Serve
  BY <1>3, <1>4, <1>8 DEF Poll, PollCancel, NextNone, Disconnect, Close, Drop, LinkLoss, Serve, Freed
<1>9. ASSUME NEW p \in Ports, NEW m \in Modes, Write(p, m) PROVE UNCHANGED chan
  BY <1>9 DEF Write
<1>10. ASSUME Spontaneous PROVE UNCHANGED chan
  BY <1>10 DEF Spontaneous
<1>11. CASE UNCHANGED vars
  BY <1>3, <1>11 DEF vars
<1> QED
  BY <1>2, <1>3, <1>6, <1>7, <1>8, <1>9, <1>10, <1>11
  DEF Next, Report, Attach, Detach, Value, Noise
\* What drain_until_initialized takes off `pending' has been answered.
LEMMA DrainedAnswered ==
  ASSUME TypeOK, AnswersAreEarned, Drain
  PROVE  Mandatory \ pending' \subseteq Answered
<1>1. Mandatory \ pending \subseteq Answered /\ AllAnswered(Head(chan))
  BY HeadChunk DEF Drain, AnswersAreEarned
<1>2. \A q \in Mandatory : q \in Named(Head(chan)) => q \in Answered
  BY <1>1 DEF AllAnswered, Named
<1> QED BY <1>1, <1>2 DEF Drain

\* A drain with nothing left to wait for has seen the last request answered,
\* and the hub answers in order.
LEMMA DrainedServed ==
  ASSUME TypeOK, WrittenInOrder, pc = "Draining", "PrimaryMacAddress" \in Answered
  PROVE  served >= Len(Requests)
<1>1. PICK i \in 1..served : written[i] = RequestUpdate("PrimaryMacAddress")
  BY DEF Answered
<1>2. served \in Nat /\ served <= Len(written) /\ Len(written) = 6 /\ Len(Requests) = 6
  BY CommandTypes DEF TypeOK, WrittenInOrder
<1>3. Requests[i] = RequestUpdate("PrimaryMacAddress")
  BY <1>1, <1>2 DEF WrittenInOrder
<1>4. i = 6
  BY <1>1, <1>2, <1>3 DEF Requests, RequestUpdate, EnableUpdates
<1> QED BY <1>1, <1>2, <1>4

\* The two conjuncts of AnswersAreEarned that speak of the host.
LEMMA HostStep ==
  ASSUME TypeOK, TypeOK', WrittenInOrder, AnswersAreEarned, [Next]_vars
  PROVE  /\ (pc = "Draining" => Mandatory \ pending \subseteq Answered)'
         /\ (pc \in HubReady => served >= Len(Requests))'
<1> DEFINE Goal == /\ (pc = "Draining" => Mandatory \ pending \subseteq Answered)'
                   /\ (pc \in HubReady => served >= Len(Requests))'
<1> SUFFICES Goal
  OBVIOUS
<1> USE CommandTypes DEF hostVars, fields, physVars, HubReady
<1>1. Answered \subseteq Answered'
  BY LogGrows
<1>2. ASSUME pc' = pc, pending' = pending, served' = served \/ served' = served + 1 PROVE Goal
  BY <1>1, <1>2 DEF AnswersAreEarned, TypeOK
<1>3. ASSUME pc' \notin HubReady \cup {"Draining"} PROVE Goal
  BY <1>3
<1>4. ASSUME pc \in HubReady, pc' \in HubReady, UNCHANGED served PROVE Goal
  BY <1>4 DEF AnswersAreEarned
<1>5. CASE Connect \/ Subscribe \/ Initialize \/ SendRequestFails \/ DrainFails \/ Close \/ Drop
  <2>1. pc' \in {"Connecting", "Connected", "Enabling", "Gone"}
    BY <1>5 DEF Connect, Subscribe, Initialize, SendRequestFails, DrainFails, Close, Drop, Freed
  <2> QED BY <1>3, <2>1
<1>6. CASE SendRequest
  BY <1>3, <1>6 DEF SendRequest, Awaited
<1>7. CASE Drain
  <2>1. Mandatory \ pending' \subseteq Answered'
    BY <1>1, <1>7, DrainedAnswered
  <2>2. CASE pending' = {}
    <3>1. "PrimaryMacAddress" \in Answered
      BY <1>7, <2>2, DrainedAnswered DEF Mandatory
    <3> QED BY <1>7, <2>2, <3>1, DrainedServed DEF Drain
  <2>3. CASE pending' # {}
    BY <1>7, <2>1, <2>3 DEF Drain
  <2> QED BY <2>2, <2>3
<1>8. CASE Poll \/ PollCancel \/ NextMessage \/ SkipChunk \/ NextNone \/ Disconnect
  BY <1>4, <1>8 DEF Poll, PollCancel, NextMessage, SkipChunk, NextNone, Disconnect, Idle
<1>9. CASE LinkLoss \/ Serve
  BY <1>2, <1>9 DEF LinkLoss, Serve
<1>10. ASSUME NEW p \in Ports, NEW m \in Modes, Write(p, m) PROVE Goal
  BY <1>2, <1>10 DEF Write
<1>11. ASSUME NEW n \in 1..MaxBurst, Notify(n) PROVE Goal
  BY <1>2, <1>11 DEF Notify
<1>12. ASSUME Spontaneous PROVE Goal
  BY <1>2, <1>12 DEF Spontaneous
<1>13. CASE UNCHANGED vars
  BY <1>2, <1>13 DEF vars
<1> QED
  BY <1>5, <1>6, <1>7, <1>8, <1>9, <1>10, <1>11, <1>12, <1>13
  DEF Next, Report, Attach, Detach, Value, Noise

-----------------------------------------------------------------------------
(***************************************************************************)
(* The identity of the hub.                                                *)
(***************************************************************************)

\* A chunk of whole properties makes known every property it names.
LEMMA WholeChunkApplied ==
  ASSUME NEW k \in SUBSET Props, NEW chunk \in Seq(Frames),
         \A i \in DOMAIN chunk : chunk[i].kind = "HubProperty" => chunk[i].whole
  PROVE  \A q \in Mandatory : q \in k \cup Named(chunk) => q \in Applied(k, chunk)
BY DEF Applied, Assigns, Named, Mandatory, Props

\* connected_apply_hub_property leaves what the handshake learnt alone.
LEMMA IdentityKept ==
  ASSUME NEW k, NEW f
  PROVE  \A q \in Mandatory : q \in k => q \in AppliedReady(k, f)
BY DEF AppliedReady, Mandatory, Reports

\* What is taken off `pending' by a whole frame is known from then on.
LEMMA KnownStep ==
  ASSUME TypeOK, AnswersAreEarned, AnswersAreKnown, [Next]_vars
  PROVE  AnswersAreKnown'
<1> SUFFICES ASSUME "HubProperty" \notin Malformed PROVE AnswersAreKnown'
  BY DEF AnswersAreKnown
<1> USE DEF AnswersAreKnown, hostVars, fields, physVars, HubReady
<1>1. ASSUME UNCHANGED <<pc, pending, known>> PROVE AnswersAreKnown'
  BY <1>1
<1>2. ASSUME pc' \notin HubReady \cup {"Draining"} PROVE AnswersAreKnown'
  BY <1>2
<1>3. ASSUME pc \in HubReady, \A q \in Mandatory : q \in known => q \in known',
             pc' \in HubReady
      PROVE  AnswersAreKnown'
  BY <1>3
<1>4. CASE Connect \/ Subscribe \/ Initialize \/ SendRequestFails \/ DrainFails \/ Close \/ Drop
  <2>1. pc' \in {"Connecting", "Connected", "Enabling", "Gone"}
    BY <1>4 DEF Connect, Subscribe, Initialize, SendRequestFails, DrainFails, Close, Drop, Freed
  <2> QED BY <1>2, <2>1
<1>5. CASE SendRequest
  BY <1>5 DEF SendRequest, Awaited
<1>6. CASE Drain
  <2>1. \A i \in DOMAIN Head(chan) : Head(chan)[i].kind = "HubProperty" => Head(chan)[i].whole
    BY <1>6, HeadChunk DEF Drain, AnswersAreEarned, AllAnswered
  <2>2. \A q \in Mandatory : q \in known \cup Named(Head(chan)) => q \in known'
    BY <1>6, <2>1, HeadChunk, WholeChunkApplied DEF Drain, TypeOK
  <2>3. Mandatory \ pending' \subseteq known'
    BY <1>6, <2>2 DEF Drain
  <2>4. pending' = {} => Mandatory \subseteq known'
    BY <2>3
  <2> QED BY <1>6, <2>3, <2>4 DEF Drain
<1>7. CASE NextMessage
  BY <1>3, <1>7, IdentityKept DEF NextMessage
<1>8. CASE Poll \/ PollCancel \/ SkipChunk \/ NextNone \/ Disconnect
  BY <1>3, <1>8 DEF Poll, PollCancel, SkipChunk, NextNone, Disconnect, Idle
<1>9. CASE LinkLoss \/ Serve
  BY <1>1, <1>9 DEF LinkLoss, Serve
<1>10. ASSUME NEW p \in Ports, NEW m \in Modes, Write(p, m) PROVE AnswersAreKnown'
  BY <1>1, <1>10 DEF Write
<1>11. ASSUME NEW n \in 1..MaxBurst, Notify(n) PROVE AnswersAreKnown'
  BY <1>1, <1>11 DEF Notify
<1>12. ASSUME Spontaneous PROVE AnswersAreKnown'
  BY <1>1, <1>12 DEF Spontaneous
<1>13. CASE UNCHANGED vars
  BY <1>1, <1>13 DEF vars
<1> QED
  BY <1>4, <1>5, <1>6, <1>7, <1>8, <1>9, <1>10, <1>11, <1>12, <1>13
  DEF Next, Report, Attach, Detach, Value, Noise

-----------------------------------------------------------------------------
(***************************************************************************)
(* The end of a connection.                                                *)
(***************************************************************************)

\* Only disconnect writes the goodbye.
LEMMA NotGoodbye ==
  /\ \A i \in 1..6 : Requests[i] # Goodbye
  /\ \A p \in Ports, m \in Modes : Setup(p, m) # Goodbye
BY DEF Requests, EnableUpdates, RequestUpdate, Setup, Goodbye

\* Whoever is still able to write has not said goodbye, and disconnect
\* consumes the handle.
LEMMA GoodbyeStep ==
  ASSUME TypeOK, WrittenInOrder, GoodbyeIsLast, [Next]_vars
  PROVE  GoodbyeIsLast'
<1> USE DEF GoodbyeIsLast, hostVars, fields, physVars
<1>1. ASSUME UNCHANGED written, pc' \in {"Closing", "Gone"} PROVE GoodbyeIsLast'
  BY <1>1
<1>2. ASSUME UNCHANGED written, pc \notin {"Closing", "Gone"} PROVE GoodbyeIsLast'
  BY <1>2
<1>3. ASSUME NEW c \in Commands, c # Goodbye, Transmit(c), pc \notin {"Closing", "Gone"}
      PROVE  GoodbyeIsLast'
  <2>1. \A i \in DOMAIN written : written[i] # Goodbye
    BY <1>3
  <2>2. \A i \in DOMAIN written' : written'[i] = c \/ (i \in DOMAIN written /\ written'[i] = written[i])
    BY <1>3 DEF Transmit, TypeOK
  <2> QED BY <1>3, <2>1, <2>2
<1>4. CASE SendRequestFails \/ DrainFails \/ Close \/ Drop
  BY <1>1, <1>4 DEF SendRequestFails, DrainFails, Close, Drop, Freed
<1>5. CASE Connect \/ Subscribe \/ Initialize \/ Drain
  BY <1>2, <1>5 DEF Connect, Subscribe, Initialize, Drain
<1>6. CASE SendRequest
  <2>1. Len(written) + 1 \in 1..6
    BY <1>6, CommandTypes DEF SendRequest, WrittenInOrder, TypeOK
  <2> QED BY <1>3, <1>6, <2>1, CommandTypes, NotGoodbye DEF SendRequest
<1>7. CASE Poll \/ PollCancel \/ NextMessage \/ SkipChunk \/ NextNone
  BY <1>2, <1>7 DEF Poll, PollCancel, NextMessage, SkipChunk, NextNone, Idle
<1>8. ASSUME NEW p \in Ports, NEW m \in Modes, Write(p, m) PROVE GoodbyeIsLast'
  BY <1>3, <1>8, CommandTypes, NotGoodbye DEF Write, Idle
<1>9. CASE Disconnect
  <2>1. pc \notin {"Closing", "Gone"} /\ pc' = "Closing"
    BY <1>9 DEF Disconnect, Idle
  <2>2. CASE UNCHANGED written
    BY <1>1, <2>1, <2>2
  <2>3. CASE Transmit(Goodbye)
    <3>1. \A i \in DOMAIN written : written[i] # Goodbye
      BY <2>1
    <3>2. \A i \in DOMAIN written' :
            i = Len(written') \/ (i \in DOMAIN written /\ written'[i] = written[i])
      BY <2>3 DEF Transmit, TypeOK
    <3> QED BY <2>1, <3>1, <3>2
  <2> QED BY <1>9, <2>2, <2>3 DEF Disconnect
<1>10. ASSUME UNCHANGED <<pc, written>> PROVE GoodbyeIsLast'
  BY <1>10
<1>11. CASE LinkLoss \/ Serve \/ UNCHANGED vars
  BY <1>10, <1>11 DEF LinkLoss, Serve, vars
<1>12. ASSUME NEW n \in 1..MaxBurst, Notify(n) PROVE GoodbyeIsLast'
  BY <1>10, <1>12 DEF Notify
<1>13. ASSUME Spontaneous PROVE GoodbyeIsLast'
  BY <1>10, <1>13 DEF Spontaneous
<1> QED
  BY <1>4, <1>5, <1>6, <1>7, <1>8, <1>9, <1>11, <1>12, <1>13
  DEF Next, Report, Attach, Detach, Value, Noise

-----------------------------------------------------------------------------
(***************************************************************************)
(* The theorems.                                                           *)
(***************************************************************************)

\* The inductive invariant holds at the start and is kept by every step.
THEOREM Inductive == Spec => []IInv
<1>1. Init => IInv
  <2> SUFFICES ASSUME Init PROVE IInv
    OBVIOUS
  <2>1. TypeOK
    BY FrameAssumption DEF Init, TypeOK, PCs
  <2>2. WrittenInOrder /\ AnswersAreEarned /\ AnswersAreKnown /\ GoodbyeIsLast
    BY DEF Init, WrittenInOrder, AnswersAreEarned, AnswersAreKnown, AllAnswered, GoodbyeIsLast,
           HubReady
  <2> QED BY <2>1, <2>2 DEF IInv
<1>2. IInv /\ [Next]_vars => IInv'
  <2> SUFFICES ASSUME IInv, [Next]_vars PROVE IInv'
    OBVIOUS
  <2>1. TypeOK'
    BY TypeStep DEF IInv
  <2>2. WrittenInOrder'
    BY WrittenStep DEF IInv
  <2>3. AnswersAreEarned'
    BY <2>1, AirStep, ChanStep, HostStep DEF IInv, AnswersAreEarned
  <2>4. GoodbyeIsLast'
    BY GoodbyeStep DEF IInv
  <2>5. AnswersAreKnown'
    BY KnownStep DEF IInv
  <2> QED BY <2>1, <2>2, <2>3, <2>4, <2>5 DEF IInv
<1> QED BY <1>1, <1>2, PTL DEF Spec

\* Every variable keeps its type in every behaviour.
THEOREM TypeCorrect == Spec => []TypeOK
BY Inductive, PTL DEF IInv

\* A caller holds a Hub<Ready> only if the hub acted on all six requests of
\* Hub::initialize, which were written in the order of the code.
THEOREM ReadyEarned == Spec => []ReadyIsEarned
<1>1. IInv => ReadyIsEarned
  <2> SUFFICES ASSUME IInv, pc \in HubReady PROVE ReadyIsEarned
    BY DEF ReadyIsEarned
  <2>1. served >= 6 /\ Len(written) >= 6 /\ written \in Seq(Commands) /\ Len(Requests) = 6
    BY CommandTypes DEF IInv, AnswersAreEarned, TypeOK
  <2>2. \A i \in 1..6 : written[i] = Requests[i] /\ written[i] \in Commands
    BY <2>1 DEF IInv, WrittenInOrder, HubReady
  <2>3. /\ SubSeq(written, 1, 6) \in Seq(Commands) /\ Len(SubSeq(written, 1, 6)) = 6
        /\ \A i \in 1..6 : SubSeq(written, 1, 6)[i] = Requests[i]
    BY <2>1, <2>2, SubSeqProperties
  <2>4. Requests \in Seq(Commands)
    BY CommandTypes DEF Requests
  <2>5. SubSeq(written, 1, 6) = Requests
    BY <2>1, <2>3, <2>4, SeqEqual
  <2> QED BY <2>1, <2>5 DEF ReadyIsEarned
<1> QED BY <1>1, Inductive, PTL

\* A Hub<Ready> of a hub that sends whole properties knows firmware, hardware
\* version and MAC, and keeps knowing them whatever reports come later.
THEOREM IdentityKnown == Spec => []ReadyKnowsIdentity
<1>1. IInv => ReadyKnowsIdentity
  BY DEF IInv, AnswersAreKnown, ReadyKnowsIdentity
<1> QED BY <1>1, Inductive, PTL

\* Nothing is ever written behind the goodbye, whether or not its write or
\* the closing of the link succeeds.
THEOREM GoodbyeIsFinal == Spec => []GoodbyeIsLast
BY Inductive, PTL DEF IInv
=============================================================================
