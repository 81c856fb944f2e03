# Verification of rust-poweredup

TLA+ models of the Rust crate `src/poweredup`, the TLC runs that check them on
small instances, and TLAPS proofs about them. The crate talks to LEGO Powered
UP hubs over BLE: it connects, performs a handshake, keeps a map of the devices
plugged into the hub, and decodes what they report. (The root `README.md` of
the repository describes the TypeScript library the crate is a port of, and
`target/` holds build output; neither is modelled.)

Paths below are relative to `src/poweredup/src/`.

## Contents

| file | what it is |
|---|---|
| `LpfFrames.tla` | the vocabulary: properties, messages of the host, frames of the hub, devices |
| `Hub.tla`, `MCHub.tla`, `Hub*.cfg` | life cycle of the hub handle, the transport it sees and the physical hub; its instances |
| `HubProofs.tla`, `MirrorProofs.tla` | proofs about `Hub`: the handshake; the device map |
| `MockTransport.tla`, `MCMockTransport.tla`, `MockOrder.cfg` | the in-process transport and its instance |
| `MockTransportProofs.tla` | proofs about `MockTransport` |
| `LinkOwner.tla` | what handles that share a transport promise each other about the link |
| `SharedTransport.tla`, `MCSharedTransport.tla`, `Shared.cfg` | several hub handles on clones of a `MockTransport`, shown to implement `LinkOwner` |
| `SharedTransportProofs.tla` | proofs about `SharedTransport`, the refinement included |
| `FrameFifo.tla` | what a frame buffer promises |
| `FrameBuffer.tla`, `MCFrameBuffer.tla`, `FrameBuffer.cfg` | framing, shown to implement `FrameFifo` |
| `FrameBufferProofs.tla` | proofs about `FrameBuffer` |
| `Codec.tla`, `MCCodec.tla`, `Codec*.cfg` | the message codec on bytes, and its instances |
| `CodecProofs.tla` | proofs about `Codec` |
| `LittleEndian.tla`, `Sensors.tla`, `Motors.tla`, `Lights.tla` | the decoders and encoders of the devices, and the integers they are made of |
| `Devices.tla`, `MCDevices.tla`, `Devices.cfg` | a port: the thing plugged in, the object the factory made for it, and the caller's own |
| `DeviceProofs.tla` | proofs about `Devices` and the arithmetic below it |
| `Scanner.tla`, `Wedo2.tla` | advertisements, hub types, port maps, constructors; the WeDo 2.0 codec |
| `Discovery.tla`, `MCDiscovery.tla`, `Discovery.cfg` | finding a hub, from the first advertisement to a handle |
| `DiscoveryProofs.tla` | proofs about `Discovery` |
| `PROJECT.json` | components, runs, mutants, map from definitions to source lines, findings, hazards, theorems |

## Inventory

**Hub handle** (`hub/mod.rs`). A typestate handle `Hub<Disconnected>` ->
`Hub<Connected>` -> `Hub<Ready>`. State: the transport, `HubProperties`, and,
once connected, the receiver of the notification channel and a `FrameBuffer`;
once ready, the map from ports to devices. Operations: `connect`, `initialize`
(six writes, then `drain_until_initialized`), `next_message` with
`handle_message`, `write`, `disconnect`; the handle or the future of any call may
be dropped. Hard: everything the hub sends is asynchronous to what the host asks;
chunks hold several frames; a call may fail half-way; there is no timeout. Correct
means: `Ready` is earned by the whole handshake; the device map mirrors the
hub; values are decoded in the right mode; the end of the stream is
told when it is the end; nothing follows the goodbye; calls return.

**Transport trait** (`ble/mod.rs`). `connect`, `disconnect`, `write`,
`subscribe`. No state. `ble/mod.rs:9` names a `btleplug` module the repository does
not contain; the mock is the only implementation.

**Mock transport** (`ble/mock.rs`). Clones of a handle share an `Inner` behind a
mutex: connected flag, queue of scripted frames, writes, and the senders of the
subscriptions. `flush_inbound` takes the queue under the lock, then clones the
matching senders of each frame under the lock and sends outside it. Hard: other tasks act
between these steps; the channels are bounded; a flush can be
cancelled. Correct means: per-task order, nothing twice, nothing lost to a
subscriber that stays, no sender without a connection, nothing from a later connection, and
everyone hears the end.

**Frame buffer and framing** (`protocol/message.rs`, `FrameBuffer`, `encode`).
State: the bytes not yet cut. Operation: `push(chunk)`, returning all complete frames.
Correct means: whatever the chunking, it hands over the frames that
were sent, each once, in order, as soon as they are complete.

**Codec** (`parse`, `encode_inner`; `protocol/consts.rs`). Pure functions between
bytes and `LpfMessage`. Hard: each of ten parsers tests lengths by hand before it
indexes. Correct means: `parse` is total (an error, never a panic), it is inverse to
`encode_inner` where both exist, and it understands a message from a later
firmware that is longer than today's.

**Device factory and trait** (`device/mod.rs`), **sensors** (`device/sensor`),
**motors** (`device/motor`), **lights** (`device/light.rs`). A device holds its
type, port and mode, a motor its braking style, power limit and profiles too;
`set_mode` and `receive` decode values by mode; motors and lights encode
commands. The hub hands out its objects as `dyn Device`, which has neither encoders nor
setters: a caller encodes with a motor or light object of its own. Hard: signs, widths and
byte orders are written out by hand, and the settings go into later commands. Correct means: what
the thing measured is what the event says, what the caller asked for is what
the thing does, for every device type that can be announced.

**Scanner and port maps** (`scanner.rs`, `hub/port_maps.rs`). From advertisements
to hub types, handles and their port tables. Hard: an advertisement arrives in
parts, and UUIDs are spelled differently by platform. Correct means: nothing is
taken for what it is not, a hub that is heard is found. **WeDo 2.0** (`protocol/wedo2.rs`). A codec nobody calls yet. Correct
means: it understands a peer, and numbers ports as the port map does.
**Errors** (`error.rs`, `lib.rs`). Declarations.

**Interactions.** An application calls the hub handle. The handle calls the
transport (`connect`, then `subscribe`, then `write`s) and reads the channel
`subscribe` gave it. The transport fills that channel with chunks, `FrameBuffer`
turns chunks into frames, `parse` turns frames into messages, `handle_message`
turns messages into changes of the properties and of the device map, creating devices
with the factory and passing values to `Device::receive`.

## The modules and the code

### Hub

`pc` is the type parameter of the handle together with the await the host is
in: `Disconnected`, `Connecting` (between connect and subscribe),
`Connected`, `Enabling` and `Draining` (inside `initialize`), `Ready`, `Polling` (inside
`next_message`), `Ended` (it returned `None`), `Closing` (between the goodbye
and the transport's disconnect), `Gone` (the handle is freed).

| code | in `Hub.tla` |
|---|---|
| `connect` | `Connect`, `Subscribe`; each may fail, which consumes the handle (`Freed`) |
| `initialize` | `Initialize`, six times `SendRequest` (or `SendRequestFails`), then `Drain` per chunk, or `DrainFails` |
| `apply_hub_property` / `connected_apply_hub_property` | `Applied` / `AppliedReady` |
| `next_message` + `handle_message` | `Poll`, then `NextMessage`, `SkipChunk` or `NextNone`; `PollCancel` when the future is dropped |
| `handle_message` | `Dispatched` (device map) and `AppliedReady` (properties) |
| `write` | `Write`, of the one message that changes what the hub reports, a mode change |
| `disconnect` | `Disconnect`, `Close` |
| drop of handle or future | `Drop`: no `Drop` implementation exists, so the link stays as it is |

A step is what the async code does between two awaits. Errors that leave
everything as it was (a `write` on a broken link) are stutters. `known`
is the set of `HubProperties` fields the hub has set; values are abstracted away. In
`Ready` only button, RSSI and battery can change (`AppliedReady`), the identity is left alone,
as in the code. An empty battery report resets the field, a version or MAC that is
too short changes nothing; `whole` says which it is. `missed` is a
history variable: the ports of which the host dropped a frame
unread (in `Drain`, which ignores everything but properties, and behind the
first frame of a chunk in `NextMessage`) or read one without a type. It
excepts from `Mirror` exactly the ports where the losses reported under *Findings* bite, and a
later attach or detach of the port ends the exception.

The **transport** is a bounded channel `chan` of chunks; `Notify(n)` moves
the next `n` frames of the `air` into it as one chunk and waits while it is full;
`recv` yields `None` when the link is gone and the channel is empty. A chunk
carries whole frames here: that arbitrary chunks come out as whole frames is
what `FrameBuffer` shows. `connect`, `subscribe`, `write` and `disconnect` return a `Result`
(`ble/mod.rs:19-23`) and may fail over a live link too, as they may in a transport over a
radio; what the mock makes of them (it fails on a link that is down, `mock.rs:148`) is a part
of that. A `write` that fails has written nothing. So a `disconnect` may close a live link
without the goodbye, say goodbye and fail to close, or be dropped in between.

The **physical hub** is not in the repository and is modelled from how the code
uses it: it acts on the messages in the order they were written, answers a property request
with a property frame, confirms a mode change, reports properties it was asked to report, and
announces what is attached, detached and measured, in the order it happens. Device announcements
are those of the current connection. It may send frames the host ignores or that
`parse` rejects, and payloads that are too short (`Malformed`).

### MockTransport

One action per acquisition of the mutex, and one per awaited send:
`FlushTake` takes the queue (`mock.rs:71-75`), `FlushNext` takes the next frame and clones
the senders of its characteristic, `FlushSend` is one `send().await`
(enabled while the channel has a slot, or when the receiver is gone, whose error is
ignored), `FlushDone` is the return and `FlushCancel` the drop of the future at an
await. `Recv`, `RecvNone` and `DropReceiver` are the receiver half of tokio's
channel. A frame is the number of its push. `taker`, `pushed`, `lost` and
the fields `since` and `until` of a subscription are history variables. A task that
flushes more frames than the channel has slots and receives in the same task
afterwards waits for ever; the runs have the receivers in tasks of their own.

### SharedTransport

Hub handles on clones of one transport, each step of which is a step of
`MockTransport` joined with one of the handle: `HubConnect` and
`HubConnectRefused` (the transport is connected already: the error consumes the
handle), `HubSubscribe` and `HubSubscribeFails` (nobody closes the link),
`HubReceive` and `HubNone` (a poll), `HubDisconnect`, `HubClose` and `HubFree`
(`disconnect`, await by await), `HubDrop`. The handshake is in `Hub` and left
out. `Script` is what test code does with a clone, `Meddle` a `disconnect` on a
clone behind the back of the owner; after it (`meddled`) the properties about
owners promise nothing. `LinkOwner` is the abstract view: the link belongs to nobody or to one
handle, which took it while it was free and gives it back; a handle that goes
away without a disconnect leaves an orphan, for good.

### FrameBuffer

`stream` is every byte the peer sent, `ends` the places where its frames end,
`cuts` the places where `push` has cut. `Push(n)` appends the next `n` bytes to
`buf` and cuts as long as the length byte is not 0 and the frame is complete,
which is `Drained`: the cuts are the least set closed under "a complete frame
starts here", characterised without recursion. `Encode` writes the length as a byte, and a
body of 254 bytes or more makes it wrap. `SoundEnds` are the frame ends before the first
wrapped length: what lies behind is out of step and promised nothing, what lies before
must not be touched. The refinement mapping reads the frames off the cuts: what lies between two
sound ends is `sent`, between two cuts `received`. `FrameFifo` states what is never wrong
(`Safety`) apart from what happens in the end.

### Codec

One operator per parser, on the payload behind the three bytes of the header, with
the outcomes a parser of the code has: a message, `Error` (an `Err` from a length
test, `Needs`, or from a discriminant `try_from` does not know, `Known`), and
`Panic` (an index past the end, `Reads`). `HubAttachedIo` is the only parser that reads
more than it tested for. Bytes and u16 are numbers; an i32 or u32 stays its four bytes,
and `Version` cuts it into the digits `from_le_i32` takes from its hexadecimal form. The
state is one frame, `buf`, whose length byte is true, as `FrameBuffer` guarantees
and `parse` demands; `Grow` adds a byte, so that a step relates a frame to one
that is a byte longer. `HostMessages` are the messages a host can build, whether
or not `parse` could return them.

### Devices

`thing` is what is plugged into a port and the mode it is in, `dev` the object the
factory made for it (`Create`), `motor` the settings of the motor object the caller made to
encode orders. Steps: something is attached (`Attach`), the mode changes on both sides
(`SwitchMode`, which module `Hub` shows to stay in step), the caller makes another motor
object (`NewMotor`) or a setting on it (`SetBrakingStyle`, `SetMaxPower`, `SetProfiles`).
The two objects are strangers: no attach or mode change reaches the caller's. `receive` and
the encoders leave an object as it is, so they are operators on its state (`Receive`,
`Encode...` in `Sensors`, `Motors`, `Lights`), and the properties quantify over
what is measured (`Readings`) and asked for (`Orders`). What the thing puts on
the wire for a reading (`Wire`) and understands of an order (`Understood`) is
external, taken from the comments and tests beside the decoders and encoders. An angle to turn by
is a `u32` in the code (`motor/mod.rs:168`, `269`), and the model has all of them, given as two halves of
16 bits because TLC's integers end at 2^31; nothing in the repository says how a motor takes the
four bytes of one above that, and the model has it take the number the encoder was given.
`LittleEndian` has the integers: an i8, i16 or i32 is an integer and its bytes
are computed, two's complement and all. The f32 arithmetic of voltage and
current is modelled with its rounding, to 24 bits.

### Discovery

`heard` grows by services and by bytes of manufacturer data, and after each piece the
caller has `FromAdvertisement` look at what is there (`adv`); `Take` makes a
handle (`IntoHub`: the constructor of the type, with its port map). A UUID is a
record of which one it is (`Services`) and how it is spelled (dashes, capitals). What is in
the air is external: `Genuine`, a part of `DiscoveryAssumption`, says what LEGO's hubs
advertise, as the comments on `from_advertisement` have it, and that nothing else does. Once a WeDo 2.0
handle exists, the properties use the codec of `Wedo2` and the buzzer of `Lights` with it.

## Runs

| run | shows |
|---|---|
| `hub_devices` | the map mirrors the hub (`Mirror`), values see their modes (`ValueSeesItsMode`), `ReadyKnowsIdentity`, nothing follows the goodbye (`GoodbyeIsLast`), `TypeOK` |
| `hub_startup` | the handshake is completed, and calls return: `ReadyIsEarned`, `InitializeReturns`, `PollReturns` |
| `hub_doc_devices`, `hub_doc_next`, `hub_doc_answers` | one claim of a comment each, refuted (see *Findings*) |
| `mock_order` | `TypeOK`, `InOrder`, `NoDuplicates`, `NothingLost`, `SendersNeedConnection`, `NothingAfterDisconnect` |
| `shared` | connect is a lock (`OneHolder`), handles share no frame (`NoFrameTwice`), an orphan stays one (`ImplementsLinkOwner`), a flush returns (`FlushReturns`), everyone hears of the end of a connection (`EveryoneHearsTheEnd`), `HubTypeOK` |
| `frame_buffer` | `TypeOK`, `CutsAtFrameEnds`, `BufferIsPartial`, `ImplementsFifo` |
| `codec` | `TypeOK`, `RoundTrip`, `OnlyShortAttachPanics`, `ToleratesMore` |
| `codec_doc_short` | the claim of a comment on `parse`, refuted (see *Findings*) |
| `devices` | events say what was measured (`ReportsTheTruth`), to the accuracy of the arithmetic (`MeasuresAreClose`); orders do what was asked (`DoesWhatWasAsked`); `TypeOK` |
| `discovery` | `NeverMistaken`, `Found`, `Wedo2PortsAgree`, `Wedo2Understood`, `TypeOK` |

**Bounds.** `hub_devices`: one port, because `Dispatched` treats
each port on its own; one type that follows mode changes and one that does
not; two modes; three spontaneous events, enough for attach,
detach, attach again or attach, value, value around a mode change; seven writes, the
six of the handshake and one command, so that its confirmation is in flight with
everything else; a channel of two chunks of one or two frames, so that chunks with
several frames, a full channel and frames still in the air all occur. A payload of an attach event
may be too short; property answers are whole, which is what `ReadyKnowsIdentity` is about.
`hub_startup`: two ports, one virtual, a one-slot channel, so that the hub is held
up, an event in the middle of the handshake, and every payload may be too short.
The runs `hub_doc_*` have the least instance that shows the case.
`mock_order`: two tasks, two subscriptions, two characteristics, two frames, one-slot
channels, so that a flush waits at every send, and two connections, so that what the
first one leaves behind meets the second. Frames without a subscriber occur. Tasks are interchangeable, and so are
characteristics: both are taken up to symmetry.
`shared`: two handles, two connections and one flushing task, so that one handle is dropped or
disconnects in the middle of a flush and the other connects; a one-slot channel,
so that the flush waits; two frames, so that one of each connection is under way. The
proofs cover more handles and tasks.
`frame_buffer`: three frames, their bodies of
0 and 2, both of which look like lengths (0 is "no frame", 2 an empty body), and all
chunkings. `ByteWrap` stands for the 256 values of a byte and is 5, so that bodies of
three and four bytes wrap the length to 0 and to 1.
`codec`: frames of up to 16 bytes, one more than the longest that is looked into (an
attach event, 15); all ten message types that are decoded and two that are not;
at the first two payload positions, known and unknown discriminants of each type and
the least and greatest byte, further on two or three values at the positions of
fields and a fixed one elsewhere, different at every position so that swapped bytes show.
`devices`: every device type of `consts.rs` and three unknown ones, two of them
beyond a byte; every mode that is decoded and one that is not; all 65536 voltage and
current readings, all distances; elsewhere the edges of each width and coding (signs,
limits, carries, the speeds 100, 101, 127, angles to turn by on both sides of 2^31).
`discovery`: every hub model, in every spelling of its service, alone or with others, with manufacturer data
that is cut at every byte or goes on behind the model's; things that are no hubs.

**Deadlock** is not checked (`CHECK_DEADLOCK FALSE`) in `Hub`, `MockTransport` and
`SharedTransport`, where a handle that is gone and a bounded number of events end every behaviour,
in `FrameBuffer`, where everything may have been delivered, and in `Discovery`, where a hub may have been
found. `Codec` and `Devices` always have a step.

**Fairness.** `Hub`: weak fairness of the steps of a host inside a call (the
executor polls a future that is ready), of `Notify` (the transport delivers while
there is room) and of `Serve` (the hub acts on what was written). The last is an
assumption on the hub: there is no timeout in `initialize`, and with a hub that keeps the link
and stays silent it does not return. Nothing is owed to calls
the application need not make, to `LinkLoss`, or to spontaneous events. `SharedTransport`: weak
fairness of the steps inside a flush (`FlushStep`), and for each handle of the steps of a
poll and of `disconnect` (`HubStep`), so that receivers receive; of no `connect`, `disconnect` or drop.
`MockTransport` alone is checked for safety.
`FrameBuffer`: the link delivers something if something is underway.
`Discovery`: a peer repeats its advertisement until all of it is heard, and the caller takes
a match; both are assumptions on what is around the code.

## Proofs

Each theorem holds for every value of the constants that the named assumptions of the modules
allow: any sets of ports, types, modes, handles and tasks, every capacity and
every bound. The bounds of the runs play no part.

`HubProofs` (assumptions `FrameAssumption`, `HubAssumption`) proves

* `TypeCorrect`: `Spec => []TypeOK`,
* `ReadyEarned`: `Spec => []ReadyIsEarned`,
* `IdentityKnown`: `Spec => []ReadyKnowsIdentity`,
* `GoodbyeIsFinal`: `Spec => []GoodbyeIsLast`.

They rest on one inductive invariant, `IInv` (theorem `Inductive`), the conjunction of
`TypeOK`, `WrittenInOrder`, `AnswersAreEarned`, `AnswersAreKnown` and `GoodbyeIsLast`.
`ReadyIsEarned` is not inductive: that `pending` is empty says something about
the hub only because every property frame with the name of a mandatory
property, wherever it is (air, channel, or already taken off `pending`), goes back to
a request the hub has acted on (`AnswersAreEarned`), and because the hub acts in
order and the host writes in order (`WrittenInOrder`): if the last of the three
requests was acted on, so were the five before it. `AnswersAreKnown` says that what was taken off
`pending` is known. `GoodbyeIsLast` is inductive as it is: no state but `Closing` and `Gone` has the
goodbye among its messages, and from them no step leads back to a handle that writes.
The proof has a lemma per operator (what `Dispatched`, `Applied`, `Notify`
keep), then one step per action.

`MirrorProofs` proves

* `MapMirrors`: `Spec => []Mirror`,
* `ValuesSeeTheirModes`: `Spec => []ValueSeesItsMode`.

Both are about frames the host has yet to read, so the invariant, `Tracked` (theorem
`AlwaysTracked`), is about the frames in flight: seen from one port, they are a chain of states
that starts with what the device map says and ends with what the hub knows; a frame in between says
how one state becomes the next (`Tells`). A chain per chunk and one for the air, glued together
(`Track`), follow the way of a frame: `Announce` and `Serve` extend the last chain, `Notify` splits it
and makes its front a chunk's, `NextMessage` consumes the first one, or gives the port up
(`missed`). When nothing is in flight the chain is one state, which is `Mirror`;
the first frame of the first chunk finds the device in the mode it was sent in, which is
`ValueSeesItsMode`. The chain is said to exist rather than computed with a fold, and that
stretches of any length without a word about a port leave it alone is part of the
invariant, because the prover cannot instantiate an induction theorem.

`MockTransportProofs` (`MockAssumption`) proves `MockTypeCorrect` (`TypeOK`),
`FramesInOrder` (`InOrder`), `NeverTwice` (`NoDuplicates`), `Lossless` (`NothingLost`),
`SendersConnected` (`SendersNeedConnection`) and `EndLimits`
(`NothingAfterDisconnect`). The inductive invariant `MInv` (theorem `MockInductive`) adds
where a frame is: in the queue under its number (`Numbering`), then with the task that took
it, ascending (`InTurn`), then on its way to the senders of that moment (`FlushShape`); what
has reached a subscription comes before whatever its task still has for it
(`ReachedPast`), which makes the order strict (`StrictlyInOrder`) and gives
`InOrder` and `NoDuplicates` at once; and no sender, clones in a flush included, outlives its
connection but for a frame pushed before the end (`Limited`).

`SharedTransportProofs` (`SharedAssumption`) extends it. Every step of the composition is a step
of `MockTransport` or a stutter, so `MInv` carries over; `SInv` (theorem `SharedInductive`) adds
`HubTypeOK` and `OneHolder`, which needs no more than the test in `connect`. It gives

* `HubTypeCorrect`: `SharedSpec => []HubTypeOK`,
* `ConnectLocks`: `SharedSpec => []OneHolder`,
* `LinkRefined`: `SharedSpec => ImplementsLinkOwner`, initial states to initial states, every
  step to a step of `LinkOwner` or a stutter,
* `NotShared`: `SharedSpec => []NoFrameTwice`. Its invariant `NInv` adds that a receiver belongs to
  one handle (`Distinct`), that the transport, and a flush, have one sender at most (`OneSender`), that
  the frame being sent has reached nobody yet (`Fresh`), and that no frame has reached two
  subscriptions (`Apart`): a handle that disconnects in the middle of a flush leaves the flush its
  sender, so that one connection follows another does not by itself keep them apart.

`FrameBufferProofs` proves, for bodies of any length and bytes, any number of frames, any width of
the length byte (`FramingAssumption`: a positive `ByteWrap`) and any chunking of the stream:

* `FrameTypeCorrect`: `Spec => []TypeOK`,
* `CutsAreRight`: `Spec => []CutsAtFrameEnds`,
* `BufferHoldsNothingBack`: `Spec => []BufferIsPartial`.

The inductive invariant, `FInv` (theorem `FrameInductive`), adds to `TypeOK` and `CutsAtFrameEnds` that
the first byte of every frame is its length, cast to a byte (`Framed`), and that the
buffer is what came in behind the last cut and holds no complete frame (`Buffered`). One `push` may cut any
number of frames; that its walk stops at frame ends only, and at all of them, is `WalkOfPush`. It
argues by the least end of a frame that would be missed (or the least cut that would be wrong):
that a non-empty set of naturals has a least member comes from the well-foundedness of an order
on finite sets (`LeastMember`), since an induction theorem cannot be used. `BufferIsPartial`
follows as the next end behind the last cut is less than `ByteWrap` away and has not arrived.

`DeliversInOrder` is the safety part of the refinement, `Spec => Fifo!Safety`: the initial state is the
empty queue, and each step is one of `FrameFifo` or a stutter. A frame is found by the number of cuts in front
of it (`Rank`, `At`); that there is one cut of each rank below the number of cuts, and no more, is
a count of an injection (`EveryRank`). Cuts that come later change no rank (`EarlierCuts`), so a push
lengthens what was received by the next frames (`FirstFrames`, `PushReceives`) and a message sent
appends one frame, or none once a length has wrapped (`OneMoreFrame`, `SendAppends`).

`CodecProofs` proves, for frames of every length up to 255 and of any bytes (the choices
of `MCCodec` play no part):

* `TypeCorrect`: `Spec => []TypeOK`,
* `PanicFree`: `Spec => []OnlyShortAttachPanics`,
* `ParseUndoesEncode`: `Spec => []RoundTrip`,
* `EncodedIsParsed`: a message of `HostMessages` whose body has at most 253 bytes
  comes back from `parse` after `encode`.

The inductive invariant is `IsFrame(buf)` (theorem `Frames`): the length byte is true, which
is what keeps `parse` from reading behind the frame or slicing backwards. `PanicFree`
then goes parser by parser (`PayloadTotal`). The round trip of each
kind of message rests on two facts about sequences, `Glue` (lengths and bytes of a
concatenation) and `DropFront` (what is left behind a prefix), and on `ParseEncoded`: if the
body fits, its length survives the cast to a byte, and `parse` sees the type and
the payload `encode_inner` wrote. `ParseUndoesEncode` adds `ParsedFits`: what
`parse` returns is a message of `HostMessages` that fits. The assumption is
`CodecAssumption` (frames have at most 255 bytes).

`LaterFirmware` is `Spec => ToleratesMore`, the action property about a byte more. It goes
parser by parser (`PayloadTolerates`): a length test that holds goes on holding, and every field read before stands
where it stood (`Longer`, `SameFront`); the parsers that take all that is left have it in the
part that is not the subject of the message. That the step from `buf` to `buf'` keeps what lies behind the length byte
is `GrowthKeeps`.

`DeviceProofs` proves, for every announced type id of 16 bits, every mode, and every reading and
argument of its width (`DevicesAssumption` says what is a width: subsets of u16, byte, i8, i32 and
u32 and sequences of colours; the choices of `MCDevices` play no part):

* `DevicesTypeCorrect`: `Spec => []TypeOK`,
* `Truthful`: `Spec => []ReportsTheTruth`,
* `Faithful`: `Spec => []MeasuresAreClose`,
* `Obedient`: `Spec => []DoesWhatWasAsked`.

The inductive invariant `VInv` (theorem `DevicesInductive`) is the types and `InStep`: the object is the one
for the thing, in its mode if it follows modes. The rest is about
values. A number comes back from its bytes at every width (`U16Back`, `I32Back`, `U32Seq` and their like, from division
with remainder, the sign bit apart). A partial inch is bounded by division. The f32 arithmetic is bounded for all 65536
counts at once: `ToF32` of a number between two powers of two is a multiple of a step that a table of
powers (`Pow`) gives, rounding moves it by half a step, and what the rounding of the quotient can add is less than the
distance to the next integer (`Spare`). Only for the largest voltages could the two roundings add up to one unit too
many, and there divisibility rules it out: no multiple of 9615 lies half way between two f32 and one above a
multiple of 3893. For
orders, the bytes of a command are put together from its parts (`Glue` and its like), and a
thing takes each part back out of its place; a speed survives `map_speed` within its limits, and the
settings survive their bytes, the two profile flags in one. Of a picture nothing is claimed where it
has `Color::None`, whose pixel is brighter than the comments allow (see *Findings*).

`DiscoveryProofs` (`DiscoveryAssumption`) proves, for whatever is in the air that is `Genuine`:

* `DiscoveryTypeCorrect`: `Spec => []TypeOK`,
* `NoMistake`: `Spec => []NeverMistaken`,
* `Wedo2TablesAgree`: `Spec => []Wedo2PortsAgree`,
* `Wedo2Speaks`: `Spec => []Wedo2Understood`, for all bytes and names.

The inductive invariant `DInv` (theorem `DiscoveryInductive`) says that what was heard is a part of what the peer
sends (`HeardPart`), and that what the scanner made of it is the model of the peer or nothing, the
handle the one of that model (`Honest`). A part of an advertisement never looks like
another model: services are only added, and the fourth byte, once there, is the peer's.

Model-checked only: the liveness properties (`InitializeReturns`, `PollReturns`, `FlushReturns`,
`EveryoneHearsTheEnd`, `Found`, and that `FrameBuffer` hands over every frame
in the end, the liveness part of `ImplementsFifo`), which rest on fairness and ENABLED, out of
the prover's reach. Every other property of a passing run is proved.

## Findings

1. `hub_doc_devices`: the device map (`hub/mod.rs:53`) misses the devices announced during
   `initialize`: the drain ignores them (`hub/mod.rs:304`), and nothing asks again.
   A real hub announces its devices right after the connection.
2. `hub_doc_next`: `next_message` returns at the first frame of a chunk that
   parses; the frames behind it have left the `FrameBuffer` and are lost.
3. `codec_doc_short`: the comment on `parse` (`protocol/message.rs:229`) promises an error
   for a frame that is too short. A `HubAttachedIo` frame that ends after the port
   passes the emptiness test (`message.rs:311`) and is indexed at 1
   (`message.rs:315`), a panic. `PanicFree` shows it is the only such frame.
4. `hub_doc_answers`: `hub/mod.rs:48-49` calls a `Ready` handle fully initialised, versions and MAC
   known. An answer that is too short sets no field and is taken off `pending` all the same
   (`hub/mod.rs:302`). `ReadyKnowsIdentity` holds for whole answers.

Comments that say something else than the code, where no run is needed to see it; the models
follow the code:

* `hub/mod.rs:48-49` also has battery, RSSI and button known in `Ready`; `initialize` waits for firmware, hardware
  and MAC only (`hub/mod.rs:287-292`), so they may come later or never.
* `hub/mod.rs:7-8` promises a Disconnect message on drop; no `Drop` exists, as `hub/mod.rs:483` explains.
* `hub/mod.rs:470` says `disconnect` sends the goodbye, then closes; the error of a write that fails over a live
  link is discarded (`hub/mod.rs:476`), and the link is closed without a goodbye. What holds is
  `GoodbyeIsLast`.
* `light.rs:131` and `154` say that the brightness of a matrix pixel is at most and always 10. `Color::None` is 255 and
  fills the brightness nibble too (`light.rs:146`, `160`), which becomes 15; `DoesWhatWasAsked` says nothing of
  pixels of that colour.
* `device/mod.rs:54` says `device_type_id` is the id of the device; a `MoveHubTiltSensor` (40)
  answers 34, as `TiltSensor` does (`TypeId`).
* `sensor/mod.rs:3` says sensors decode by mode; motion, voltage, current and remote button do not look at it.
* `motor/mod.rs:5` draws a hierarchy in which each motor has the operations of the one above; a tacho motor has
  no `set_power`, `stop` or `brake`, an absolute motor no `set_speed` nor acceleration times, and `ramp_power` is nowhere.
* `scanner.rs:66` gives the Mario family the generic port map; the code passes an empty one.
* `wedo2.rs:18` leaves subscriptions and writes to the hub layer, whose handles, those of WeDo 2.0
  included, use the LPF2 characteristic only.

## What the properties except

Some hazards go wrong in the code, and the properties that hold step around them. `Mirror` and
`ValueSeesItsMode` except the ports of which the host lost a frame (`missed`): the losses themselves are
findings 1 and 2. `CutsAtFrameEnds` and `ImplementsFifo` end at the first length that wraps (`SoundEnds`); behind
it the buffer may be stuck at a length of 0 for good, in the model as in the code, and as
a comment (`message.rs:271`) rules such messages out, no property is about that. `NoFrameTwice` and
`ImplementsLinkOwner` end when a clone that is no handle disconnects (`meddled`): a subscription made after it
belongs to the next connection, and two handles may then hear the same frames; the repository does
not say what should happen. `FlushReturns` assumes that receivers receive.

## Not modelled

The error type (declarations; where an error is an outcome the modules say so), and the enums that nothing uses
(`ButtonState`, `DuploTrainBaseSound`, `BleManufacturerData`, the WeDo 2.0 characteristics). In `Hub`, the
values of properties (battery percentages, version numbers: `Codec` has their bytes) and the panic of finding 3 (there, a
short attach event is one without a type). A frame given to `parse` with a false length byte, which no caller does;
the tests; the absent btleplug transport; a hub that keeps device state across
connections; formatting, logging and error texts.

## Plan

Written in the order of what is hard, the handle and its transport first: `LpfFrames`, `Hub`,
`HubProofs`, `MockTransport`, `FrameFifo`, `FrameBuffer`, `Codec`, `CodecProofs`, `SharedTransport` with
`LinkOwner`, `Devices`, `Discovery`, `MockTransportProofs`, `SharedTransportProofs`, `MirrorProofs`,
`FrameBufferProofs`, `DiscoveryProofs`, `DeviceProofs`.

Left: that the transport module `Hub` assumes (a bounded channel of chunks, `None` when the link is gone and
the channel empty) is what a subscription of `MockTransport` is, as a refinement of its own; and a
composition of `FrameBuffer` and `Codec`, so that a message sent is the message parsed, whatever the chunking.
