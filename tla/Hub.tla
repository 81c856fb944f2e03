--------------------------------- MODULE Hub ---------------------------------
(***************************************************************************)
(* The life cycle of a hub handle (hub/mod.rs), from Hub<Disconnected> to  *)
(* the end, together with the two parties it lives on: the BLE transport   *)
(* (ble/mod.rs, through a bounded notification channel) and the physical   *)
(* hub, which answers what was written to it and reports what happens on   *)
(* its ports.                                                              *)
(*                                                                         *)
(* The three run concurrently.  One step of the host is what the async     *)
(* code does between two awaits; a notification carries one or more        *)
(* complete frames (module FrameBuffer shows how chunks become frames).    *)
(***************************************************************************)
EXTENDS LpfFrames, SequencesExt

CONSTANTS
  Capacity,     (* chunks the channel holds; 64 in the code                *)
  MaxBurst,     (* bound: frames carried by one notification               *)
  MaxEvents,    (* bound: spontaneous events of the physical hub           *)
  MaxWrites,    (* bound: messages ever written to the hub                 *)
  Malformed     (* frame kinds the hub may send with too short a payload   *)

ASSUME HubAssumption ==
  /\ Capacity \in Nat \ {0} /\ MaxBurst \in Nat \ {0}
  /\ MaxEvents \in Nat /\ MaxWrites \in Nat
  /\ Malformed \subseteq {"HubProperty", "HubAttachedIo"}

VARIABLES
  pc,       (* where the host is; Hub<S>'s S and the await inside it       *)
  pending,  (* drain_until_initialized: properties still awaited           *)
  known,    (* HubProperties: the fields that hold a value of the hub      *)
  devices,  (* Ready::devices                                              *)
  link,     (* the BLE link                                                *)
  chan,     (* the chunks in the subscription channel, oldest first        *)
  air,      (* frames sent by the hub and not yet notified                 *)
  written,  (* messages written to the characteristic                      *)
  served,   (* how many of them the hub has acted on                       *)
  phys,     (* what the hub has announced on each port                     *)
  events,   (* spontaneous events so far                                   *)
  missed    (* history: ports of which the host let a frame go by unread   *)

fields   == <<pending, known, devices, missed>>
hostVars == <<pc, fields>>
physVars == <<served, phys, events>>
vars == <<pc, pending, known, devices, link, chan, air, written, served, phys, events, missed>>

PCs == {"Disconnected", "Connecting", "Connected", "Enabling", "Draining",
        "Ready", "Polling", "Ended", "Closing", "Gone"}

\* The places where the host owns a Hub<Connected> or a Hub<Ready>.
HubConnected   == {"Connected", "Enabling", "Draining"}
HubReady == {"Ready", "Polling", "Ended", "Closing"}
\* The places where an application holding a Hub<Ready> may call a method.
Idle      == {"Ready", "Ended"}

Init ==
  /\ pc = "Disconnected" /\ pending = {} /\ known = {}
  /\ devices = [p \in Ports |-> NoDevice]
  /\ link = "down" /\ chan = <<>> /\ air = <<>>
  /\ written = <<>> /\ served = 0
  /\ phys = [p \in Ports |-> NoDevice]
  /\ events = 0 /\ missed = {}

-----------------------------------------------------------------------------
(***************************************************************************)
(* The transport as the host sees it.                                      *)
(***************************************************************************)

\* The characteristic is subscribed: the hub's frames reach the channel.
Subscribed == link = "up" /\ pc \in HubConnected \cup HubReady

\* recv() yields None: the sender is gone and the channel is drained.
StreamOver == link # "up" /\ chan = <<>>

\* BleTransport::write succeeds.  It may also fail, over a live link too (the
\* trait returns a Result): then nothing is written.
Transmit(m) ==
  /\ link = "up"
  /\ written' = Append(written, m)

\* One notification delivers the oldest frames to the channel; the sender
\* waits while the channel is full.
Notify(n) ==
  /\ Subscribed /\ Len(chan) < Capacity
  /\ n \in 1..MaxBurst /\ n <= Len(air)
  /\ chan' = Append(chan, SubSeq(air, 1, n))
  /\ air' = SubSeq(air, n + 1, Len(air))
  /\ UNCHANGED <<hostVars, physVars, link, written>>

\* The link breaks.  Chunks already in the channel stay readable.
LinkLoss ==
  /\ link = "up"
  /\ link' = "lost" /\ air' = <<>>
  /\ UNCHANGED <<hostVars, physVars, chan, written>>

-----------------------------------------------------------------------------
(***************************************************************************)
(* What the host does with a frame.                                        *)
(***************************************************************************)

\* Frame f assigns the field of property p.
Assigns(f, p) ==
  /\ f.kind = "HubProperty" /\ f.property = p
  /\ p \in Mandatory => f.whole

\* A mutant of Applied: the first frame of a chunk is the only one applied.
Applied_first(k, chunk) == k \cup {p \in Props : Assigns(chunk[1], p)}

\* apply_hub_property for every frame of a chunk: the last assignment of a
\* property wins, and an empty battery report resets its field.
Applied(k, chunk) ==
  {p \in Props :
     LET hits == {i \in DOMAIN chunk : Assigns(chunk[i], p)}
     IN  IF hits = {} THEN p \in k
         ELSE p = "BatteryVoltage" =>
                \E i \in hits : chunk[i].whole /\ \A j \in hits : j <= i}

\* connected_apply_hub_property, the Ready state's own version: it leaves
\* the identity of the hub alone.
AppliedReady(k, f) ==
  (k \ Reports) \cup (Applied(k, <<f>>) \cap Reports)

\* Mutants of Dispatched: an attach without a type is entered all the same;
\* a detach is overlooked; a known device is not told its new mode.
Dispatched_untyped(ds, f) ==
  IF f.kind \in AttachKinds THEN [ds EXCEPT ![f.port] = Create(f.type)] ELSE ds

Dispatched_keepsDetached(ds, f) ==
  CASE f.kind \in AttachKinds /\ f.type # NoType -> [ds EXCEPT ![f.port] = Create(f.type)]
    [] f.kind = "PortInputFormatSingle" /\ ds[f.port] # NoDevice ->
         [ds EXCEPT ![f.port] = SetMode(@, f.mode)]
    [] OTHER -> ds

Dispatched_modeIgnored(ds, f) ==
  CASE f.kind \in AttachKinds /\ f.type # NoType -> [ds EXCEPT ![f.port] = Create(f.type)]
    [] f.kind = "DetachedIo" -> [ds EXCEPT ![f.port] = NoDevice]
    [] OTHER -> ds

\* handle_message: the device map after frame f.
Dispatched(ds, f) ==
  CASE f.kind \in AttachKinds /\ f.type # NoType ->
         [ds EXCEPT ![f.port] = Create(f.type)]
    [] f.kind = "DetachedIo" ->
         [ds EXCEPT ![f.port] = NoDevice]
    [] f.kind = "PortInputFormatSingle" /\ ds[f.port] # NoDevice ->
         [ds EXCEPT ![f.port] = SetMode(@, f.mode)]
    [] OTHER -> ds

\* The ports frame f brings back in step once it is handled.
Heals(f) == {p \in Ports : /\ Concerns(f, p)
                           /\ f.kind \in AttachKinds => f.type # NoType
                           /\ f.kind # "PortInputFormatSingle"}

\* The ports a handled frame still leaves unknown: an attach without a type.
Unread(f) == {p \in Ports : f.kind \in AttachKinds /\ f.port = p /\ f.type = NoType}

\* The ports of which the frames of chunk at positions S tell something.
PortsAt(chunk, S) == {p \in Ports : \E i \in S : Concerns(chunk[i], p)}

-----------------------------------------------------------------------------
(***************************************************************************)
(* The host.                                                               *)
(***************************************************************************)

\* The handle is freed: its fields, the device map and the receiver of the
\* channel with what is in it.  No Drop runs: the link is left alone.
Freed ==
  /\ pc' = "Gone" /\ pending' = {} /\ known' = {} /\ missed' = {}
  /\ devices' = [p \in Ports |-> NoDevice]
  /\ chan' = <<>>

\* Hub<Disconnected>::connect, first await: transport.connect().
Connect ==
  /\ pc = "Disconnected"
  /\ \/ link' = "up" /\ pc' = "Connecting" /\ UNCHANGED <<fields, chan>>
     \/ link' = link /\ Freed
  /\ UNCHANGED <<physVars, air, written>>

\* Second await: transport.subscribe().  An error consumes the handle and
\* leaves the link as it is.
Subscribe ==
  /\ pc = "Connecting"
  /\ \/ link = "up" /\ pc' = "Connected" /\ UNCHANGED <<fields, chan>>
     \/ Freed
  /\ UNCHANGED <<physVars, link, air, written>>

Initialize ==
  /\ pc = "Connected" /\ pc' = "Enabling"
  /\ UNCHANGED <<fields, physVars, link, chan, air, written>>

\* A mutant of Awaited: the last request is not waited for.
Awaited_noMac == Mandatory \ {"PrimaryMacAddress"}

\* The properties drain_until_initialized waits for.
Awaited == Mandatory

\* One of the six writes of initialize; the last one starts the drain.
SendRequest ==
  /\ pc = "Enabling"
  /\ Transmit(Requests[Len(written) + 1])
  /\ IF Len(written) + 1 = Len(Requests)
       THEN pc' = "Draining" /\ pending' = Awaited
       ELSE UNCHANGED <<pc, pending>>
  /\ UNCHANGED <<known, devices, missed, physVars, link, chan, air>>

\* ... which propagates the error of a write, whatever its reason.
SendRequestFails ==
  /\ pc = "Enabling" /\ Freed
  /\ UNCHANGED <<physVars, link, air, written>>

\* The properties named by the frames of a chunk, whatever their payload.
Named(chunk) == {p \in Props : \E i \in DOMAIN chunk :
                    chunk[i].kind = "HubProperty" /\ chunk[i].property = p}

\* drain_until_initialized: one chunk, all of its frames; everything that
\* is not a property is ignored.  The device map starts out empty.
Drain ==
  /\ pc = "Draining" /\ chan # <<>>
  /\ known' = Applied(known, Head(chan))
  /\ pending' = pending \ Named(Head(chan))
  /\ missed' = missed \cup PortsAt(Head(chan), DOMAIN Head(chan))
  /\ chan' = Tail(chan)
  /\ pc' = IF pending' = {} THEN "Ready" ELSE "Draining"
  /\ devices' = [p \in Ports |-> NoDevice]
  /\ UNCHANGED <<physVars, link, air, written>>

\* A mutant of DrainFails: a closed channel is polled again, for ever.
DrainFails_spins ==
  /\ pc = "Draining" /\ StreamOver
  /\ UNCHANGED vars

\* ... and recv() returning None is an error.
DrainFails ==
  /\ pc = "Draining" /\ StreamOver
  /\ Freed
  /\ UNCHANGED <<physVars, link, air, written>>

\* next_message is called; its future may be dropped while it waits.
Poll ==
  /\ pc \in Idle /\ pc' = "Polling"
  /\ UNCHANGED <<fields, physVars, link, chan, air, written>>

PollCancel ==
  /\ pc = "Polling" /\ pc' = "Ready"
  /\ UNCHANGED <<fields, physVars, link, chan, air, written>>

\* next_message returns the first frame of the chunk that parses.  The frames
\* behind it have left the FrameBuffer and go away with the call.
NextMessage ==
  /\ pc = "Polling" /\ chan # <<>>
  /\ \E i \in Parseable(Head(chan)) :
       LET f == Head(chan)[i] IN
       /\ \A j \in Parseable(Head(chan)) : i <= j
       /\ devices' = Dispatched(devices, f)
       /\ known' = AppliedReady(known, f)
       /\ missed' = (missed \ Heals(f)) \cup Unread(f)
                      \cup PortsAt(Head(chan), {j \in DOMAIN Head(chan) : j > i})
  /\ chan' = Tail(chan) /\ pc' = "Ready"
  /\ UNCHANGED <<pending, physVars, link, air, written>>

\* No frame of the chunk parses: warn and wait for the next one.
SkipChunk ==
  /\ pc = "Polling" /\ chan # <<>> /\ Parseable(Head(chan)) = {}
  /\ chan' = Tail(chan)
  /\ UNCHANGED <<hostVars, physVars, link, air, written>>

\* A mutant of NextNone: only a link closed by the host itself ends the stream.
NextNone_ownClose ==
  /\ pc = "Polling" /\ link = "down" /\ chan = <<>>
  /\ pc' = "Ended"
  /\ UNCHANGED <<fields, physVars, link, chan, air, written>>

\* next_message returns None.
NextNone ==
  /\ pc = "Polling" /\ StreamOver
  /\ pc' = "Ended"
  /\ UNCHANGED <<fields, physVars, link, chan, air, written>>

\* Hub<Ready>::write, of the one message that changes what the hub reports.
\* A write that fails is an error and changes nothing.
Write(p, m) ==
  /\ pc \in Idle /\ Len(written) < MaxWrites
  /\ Transmit(Setup(p, m))
  /\ UNCHANGED <<hostVars, physVars, link, chan, air>>

\* disconnect, first await: say goodbye; an error of the write is discarded.
Disconnect ==
  /\ pc \in Idle /\ pc' = "Closing"
  /\ Transmit(Goodbye) \/ UNCHANGED written
  /\ UNCHANGED <<fields, physVars, link, chan, air>>

\* A mutant of Close: a handle that could not close its link stays in use.
Close_keepsHandle ==
  /\ pc = "Closing"
  /\ \/ Freed /\ link' = "down" /\ air' = <<>>
     \/ pc' = "Ready" /\ UNCHANGED <<fields, chan, link, air>>
  /\ UNCHANGED <<physVars, written>>

\* Second await: transport.disconnect() clears the senders, and the handle is
\* consumed.  A transport may also fail to close the link.
Close ==
  /\ pc = "Closing" /\ Freed
  /\ \/ link' = "down" /\ air' = <<>>
     \/ UNCHANGED <<link, air>>
  /\ UNCHANGED <<physVars, written>>

\* The handle, or a future that owns it, is dropped without a word to the hub.
Drop ==
  /\ pc \notin {"Disconnected", "Gone"} /\ Freed
  /\ UNCHANGED <<physVars, link, air, written>>

-----------------------------------------------------------------------------
(***************************************************************************)
(* The physical hub.                                                       *)
(***************************************************************************)
Emit(f) == air' = Append(air, f)

Wholeness(kind) == IF kind \in Malformed THEN BOOLEAN ELSE {TRUE}

\* The hub acts on the oldest message it has not acted on yet.
Serve ==
  /\ Subscribed /\ served < Len(written)
  /\ served' = served + 1
  /\ LET m == written[served + 1] IN
     \/ /\ m.kind = "EnableUpdatesDownstream"
        /\ UNCHANGED <<phys, air>>
     \/ /\ m.kind = "RequestUpdateDownstream"
        /\ \E w \in Wholeness("HubProperty") : Emit(PropertyFrame(m.property, w))
        /\ UNCHANGED phys
     \/ /\ m.kind = "PortInputFormatSetupSingle" /\ phys[m.port] # NoDevice
        /\ phys' = [phys EXCEPT ![m.port].mode = m.mode]
        /\ Emit(FormatFrame(m.port, m.mode))
     \/ /\ m.kind = "PortInputFormatSetupSingle" /\ phys[m.port] = NoDevice
        /\ Emit([kind |-> "Other"])
        /\ UNCHANGED phys
     \/ /\ m.kind = "HubActionDisconnect"
        /\ UNCHANGED <<phys, air>>
  /\ UNCHANGED <<hostVars, events, link, chan, written>>

Spontaneous ==
  /\ Subscribed /\ events < MaxEvents
  /\ events' = events + 1
  /\ UNCHANGED <<hostVars, served, link, chan, written>>

\* A property whose updates were enabled is reported.
Report(p) ==
  /\ Spontaneous
  /\ \E i \in 1..served : written[i] = EnableUpdates(p)
  /\ \E w \in Wholeness("HubProperty") : Emit(PropertyFrame(p, w))
  /\ UNCHANGED phys

Attach(p, t) ==
  /\ Spontaneous /\ phys[p] = NoDevice
  /\ phys' = [phys EXCEPT ![p] = Create(t)]
  /\ \E w \in Wholeness("HubAttachedIo") : Emit(AttachFrame(p, IF w THEN t ELSE NoType))

Detach(p) ==
  /\ Spontaneous /\ phys[p] # NoDevice
  /\ phys' = [phys EXCEPT ![p] = NoDevice]
  /\ Emit(DetachFrame(p))

Value(p) ==
  /\ Spontaneous /\ phys[p] # NoDevice
  /\ Emit(ValueFrame(p, phys[p].mode))
  /\ UNCHANGED phys

Noise(k) ==
  /\ Spontaneous
  /\ Emit([kind |-> k])
  /\ UNCHANGED phys

-----------------------------------------------------------------------------
\* Steps the executor owes to a host that is inside a call.
HostProgress ==
  \/ Subscribe \/ SendRequest \/ SendRequestFails
  \/ Drain \/ DrainFails
  \/ NextMessage \/ SkipChunk \/ NextNone
  \/ Close

Next ==
  \/ Connect \/ Subscribe \/ Initialize
  \/ SendRequest \/ SendRequestFails \/ Drain \/ DrainFails
  \/ Poll \/ PollCancel \/ NextMessage \/ SkipChunk \/ NextNone
  \/ \E p \in Ports, m \in Modes : Write(p, m)
  \/ Disconnect \/ Close \/ Drop
  \/ \E n \in 1..MaxBurst : Notify(n)
  \/ LinkLoss
  \/ Serve
  \/ \E p \in Reports : Report(p)
  \/ \E p \in Ports : \/ \E t \in Types : Attach(p, t)
                      \/ Detach(p)
                      \/ Value(p)
  \/ \E k \in {"Other", "Bad"} : Noise(k)

Fairness ==
  /\ WF_vars(HostProgress)
  /\ WF_vars(\E n \in 1..MaxBurst : Notify(n))
  /\ WF_vars(Serve)

Spec == Init /\ [][Next]_vars /\ Fairness
-----------------------------------------------------------------------------
(***************************************************************************)
(* Properties.                                                             *)
(***************************************************************************)

\* Every variable has its type.
TypeOK ==
  /\ pc \in PCs
  /\ pending \subseteq Mandatory
  /\ known \subseteq Props
  /\ devices \in [Ports -> Device \cup {NoDevice}]
  /\ link \in {"down", "up", "lost"}
  /\ chan \in Seq(Seq(Frames))
  /\ air \in Seq(Frames)
  /\ written \in Seq(Commands)
  /\ served \in 0..Len(written)
  /\ phys \in [Ports -> Device \cup {NoDevice}]
  /\ events \in Nat
  /\ missed \subseteq Ports

\* A frame about port p is on its way to the host.
InFlight(p) ==
  \/ \E i \in DOMAIN air : Concerns(air[i], p)
  \/ \E i \in DOMAIN chan : \E j \in DOMAIN chan[i] : Concerns(chan[i][j], p)

\* What Ready::devices can know of a device: its mode only if its type
\* follows mode changes.
View(d) == IF d = NoDevice THEN NoDevice ELSE SetMode(Create(d.type), d.mode)

(***************************************************************************)
(* Once nothing about a port is in flight, the device map agrees with the  *)
(* hub about it: presence, type and mode, through any interleaving of      *)
(* attaches, detaches and mode changes with polls and cancelled polls.     *)
(* The ports the code demonstrably lost a frame of are excepted.           *)
(***************************************************************************)
Mirror ==
  (pc \in {"Ready", "Polling"} /\ link = "up") =>
    \A p \in Ports \ missed : ~InFlight(p) => devices[p] = View(phys[p])

\* The first frame of a chunk that parses, if it is frame i.
IsNext(chunk, i) == i \in Parseable(chunk) /\ \A j \in Parseable(chunk) : i <= j

(***************************************************************************)
(* A sensor value is decoded in the mode the hub encoded it in: when the   *)
(* next frame handed to Device::receive is a value, the device on that     *)
(* port exists, and if it decodes by mode, is in the value's mode, however *)
(* many mode changes are still behind it in the channel.                   *)
(***************************************************************************)
ValueSeesItsMode ==
  (pc \in {"Ready", "Polling"} /\ chan # <<>>) =>
    \A i \in DOMAIN Head(chan) :
      LET f == Head(chan)[i] IN
      (IsNext(Head(chan), i) /\ f.kind = "PortValueSingle" /\ f.port \notin missed) =>
        /\ devices[f.port] # NoDevice
        /\ devices[f.port].type \in ModalTypes => devices[f.port].mode = f.mode

(***************************************************************************)
(* Hub<Ready> is earned: a caller only ever holds one after the hub acted  *)
(* on all six requests of initialize, in the order of the code.            *)
(***************************************************************************)
ReadyIsEarned ==
  pc \in HubReady =>
    /\ served >= Len(Requests)
    /\ SubSeq(written, 1, Len(Requests)) = Requests

(***************************************************************************)
(* A Ready handle of a hub that sends whole properties knows firmware,     *)
(* hardware version and MAC.                                               *)
(* (A payload that is too short is taken for the answer and leaves its     *)
(* field empty: drain_until_initialized looks at the property only.)       *)
(***************************************************************************)
ReadyKnowsIdentity == (pc \in HubReady /\ "HubProperty" \notin Malformed) => Mandatory \subseteq known

(***************************************************************************)
(* The goodbye is the last word: however disconnect goes on, whether the   *)
(* transport closes the link or not, and whether the future is dropped in  *)
(* between, nothing is written to a hub that was told the host has left.   *)
(***************************************************************************)
GoodbyeIsLast ==
  \A i \in DOMAIN written : written[i] = Goodbye => i = Len(written) /\ pc \in {"Closing", "Gone"}

(***************************************************************************)
(* initialize always returns, if the hub acts on its requests or the link  *)
(* breaks.  (With a hub that keeps the link and stays silent it does not:  *)
(* there is no timeout.)                                                   *)
(***************************************************************************)
InitializeReturns == pc = "Enabling" ~> pc \notin {"Enabling", "Draining"}

\* A next_message waiting on a broken link does not wait for ever.
PollReturns == (pc = "Polling" /\ link = "lost") ~> pc # "Polling"
-----------------------------------------------------------------------------
(***************************************************************************)
(* What comments of the source say and the code does not do.               *)
(***************************************************************************)

\* hub/mod.rs:53, 355 on the device map: devices currently attached.
DevicesAreCurrent ==
  (pc = "Ready" /\ link = "up") =>
    \A p \in Ports : ~InFlight(p) => (devices[p] = NoDevice <=> phys[p] = NoDevice)

\* hub/mod.rs:361 on next_message: every call polls for the next message, so
\* none that parses is passed over between two calls.
NoMessageSkipped ==
  [][(pc = "Polling" /\ pc' = "Ready" /\ chan' # chan)
       => \E i \in DOMAIN Head(chan) : Parseable(Head(chan)) = {i}]_vars

\* hub/mod.rs:48 on Ready: firmware, hardware version and MAC are known,
\* however the hub answered.
ReadyKnowsAnswers ==
  [][(pc = "Draining" /\ pc' = "Ready") => Mandatory \subseteq known']_vars
=============================================================================
