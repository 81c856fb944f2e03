------------------------------ MODULE LpfFrames ------------------------------
(***************************************************************************)
(* The LPF2 vocabulary the hub life cycle is written in: hub properties,   *)
(* the messages a host writes, and the frames a hub sends, each as         *)
(* message::parse returns it.  Payload bytes are abstracted to what        *)
(* hub/mod.rs tells apart: which property, port, device type and mode a    *)
(* frame names, and whether its payload has the length the code asks for.  *)
(***************************************************************************)
EXTENDS Naturals, Sequences

CONSTANTS
  Ports,        (* port IDs of the hub                                     *)
  VirtualPorts, (* the ports the hub announces with AttachedVirtualIo      *)
  Types,        (* device type IDs                                         *)
  ModalTypes,   (* the types whose Device overrides Device::set_mode       *)
  Modes,        (* sensor modes; a fresh device is in mode 0               *)
  NoType,       (* an attach frame too short to carry a device type        *)
  NoDevice      (* the port has no entry in the device map                 *)

ASSUME FrameAssumption ==
  /\ VirtualPorts \subseteq Ports
  /\ ModalTypes \subseteq Types
  /\ Modes \subseteq Nat /\ 0 \in Modes
  /\ NoType \notin Types
  /\ NoDevice \notin [type : Types, mode : Modes]

(***************************************************************************)
(* Hub properties.  Reports are pushed by the hub once enabled; Mandatory  *)
(* are asked for once, and their payload has a minimal length.             *)
(***************************************************************************)
Reports   == {"Button", "Rssi", "BatteryVoltage"}
Mandatory == {"FwVersion", "HwVersion", "PrimaryMacAddress"}
Props     == Reports \cup Mandatory

(***************************************************************************)
(* Messages the host writes.                                               *)
(***************************************************************************)
EnableUpdates(p) == [kind |-> "EnableUpdatesDownstream", property |-> p]
RequestUpdate(p) == [kind |-> "RequestUpdateDownstream", property |-> p]
Setup(p, m)      == [kind |-> "PortInputFormatSetupSingle", port |-> p, mode |-> m]
Goodbye          == [kind |-> "HubActionDisconnect"]

Commands ==
  [kind : {"EnableUpdatesDownstream", "RequestUpdateDownstream"}, property : Props]
    \cup [kind : {"PortInputFormatSetupSingle"}, port : Ports, mode : Modes]
    \cup {Goodbye}

\* What Hub::initialize writes, in order.
Requests == << EnableUpdates("Button"),
               EnableUpdates("Rssi"),
               EnableUpdates("BatteryVoltage"),
               RequestUpdate("FwVersion"),
               RequestUpdate("HwVersion"),
               RequestUpdate("PrimaryMacAddress") >>

(***************************************************************************)
(* Frames the hub sends.  `whole' says that the payload of a property is   *)
(* long enough to be read; the mode of a PortValueSingle is the one the    *)
(* hub encoded the value in, which the frame itself does not carry.        *)
(* "Other" is a message hub/mod.rs ignores, "Bad" one that parse rejects.  *)
(***************************************************************************)
AttachKinds == {"AttachedIo", "AttachedVirtualIo"}

Frames ==
  [kind : {"HubProperty"}, property : Props, whole : BOOLEAN]
    \cup [kind : AttachKinds, port : Ports, type : Types \cup {NoType}]
    \cup [kind : {"DetachedIo"}, port : Ports]
    \cup [kind : {"PortInputFormatSingle", "PortValueSingle"}, port : Ports, mode : Modes]
    \cup [kind : {"Other", "Bad"}]

PropertyFrame(p, w) == [kind |-> "HubProperty", property |-> p, whole |-> w]
AttachFrame(p, t)   == [kind |-> IF p \in VirtualPorts THEN "AttachedVirtualIo" ELSE "AttachedIo",
                        port |-> p, type |-> t]
DetachFrame(p)      == [kind |-> "DetachedIo", port |-> p]
FormatFrame(p, m)   == [kind |-> "PortInputFormatSingle", port |-> p, mode |-> m]
ValueFrame(p, m)    == [kind |-> "PortValueSingle", port |-> p, mode |-> m]

\* A frame that changes what the host should know about port p.
Concerns(f, p) ==
  f.kind \in AttachKinds \cup {"DetachedIo", "PortInputFormatSingle"} /\ f.port = p

\* The positions of a chunk whose frame message::parse accepts.
Parseable(chunk) == {i \in DOMAIN chunk : chunk[i].kind # "Bad"}

(***************************************************************************)
(* Devices: DeviceFactory::create gives every device mode 0; only the      *)
(* types that override set_mode follow the hub to another one.             *)
(***************************************************************************)
Device    == [type : Types, mode : Modes]
Create(t) == [type |-> t, mode |-> 0]
SetMode(d, m) == IF d.type \in ModalTypes THEN [d EXCEPT !.mode = m] ELSE d
=============================================================================
