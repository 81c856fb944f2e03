-------------------------------- MODULE Codec --------------------------------
(***************************************************************************)
(* The LPF2 message codec (protocol/message.rs): parse, from the bytes of  *)
(* one frame to a message, and encode, from a message to bytes.            *)
(*                                                                         *)
(* A byte is a number.  A u16 is a number; an i32 or u32 is kept as its    *)
(* four bytes, least significant first.  A parser that indexes a payload   *)
(* past its end panics, which is an outcome of its own.                    *)
(***************************************************************************)
EXTENDS Naturals, Sequences

CONSTANTS
  Choices,    (* the bytes a frame may have at each position               *)
  MaxLen      (* bound: length of a frame                                  *)

Byte == 0..255
Word == {n \in Nat : n < 65536}

ASSUME CodecAssumption ==
  /\ MaxLen \in 1..255
  /\ Choices \in [2..MaxLen -> SUBSET Byte]

VARIABLE buf  \* one frame, as FrameBuffer hands it over: Len(buf) = buf[1]

-----------------------------------------------------------------------------
(***************************************************************************)
(* protocol/consts.rs: discriminants.                                      *)
(***************************************************************************)
HubProperties == 1
HubActions == 2
HubAlerts == 3
HubAttachedIo == 4
GenericErrorMessages == 5
PortInputFormatSetupSingle == 65
PortValueSingle == 69
PortInputFormatSingle == 71
PortOutputCommand == 129
PortOutputCommandFeedback == 130

PropertyReferences == 1..15
Operations    == 1..6
Actions       == (1..6) \cup (47..50)
AlertTypes    == 1..4
AlertPayloads == {0, 255}
Feedbacks     == {0, 16, 32, 33, 34, 36, 38, 68, 102}

DetachedIo        == 0
AttachedIo        == 1
AttachedVirtualIo == 2
IoEvents == {DetachedIo, AttachedIo, AttachedVirtualIo}

-----------------------------------------------------------------------------
(***************************************************************************)
(* parse.                                                                  *)
(***************************************************************************)
Error == [kind |-> "Error"]  \* Err(Error::Parse(..))
Panic == [kind |-> "Panic"]

\* An explicit length test in front of m.
Needs(p, n, m) == IF Len(p) < n THEN Error ELSE m
\* Result m indexes the first n bytes of p.
Reads(p, n, m) == IF Len(p) < n THEN Panic ELSE m
\* m if every discriminant it converts is known.
Known(discriminants, m) == IF discriminants THEN m ELSE Error

From(p, n) == SubSeq(p, n, Len(p))
U16(lo, hi) == lo + 256 * hi

\* The fields of a version, with their widths.
VersionType == [major : 0..15, minor : 0..15, patch : Byte, build : Word]

\* A mutant of Version: the build takes in the byte of the patch.
Version_wide(b) == [major |-> b[4] \div 16, minor |-> b[4] % 16, patch |-> b[3],
                    build |-> U16(b[1], b[2]) + 65536 * b[3]]

\* Version::from_le_i32: the hex digits of the number, cut as 1, 1, 2 and 4.
Version(b) == [major |-> b[4] \div 16, minor |-> b[4] % 16, patch |-> b[3],
               build |-> U16(b[1], b[2])]

ParseHubProperty(p) ==
  Needs(p, 2, Known(p[1] \in PropertyReferences /\ p[2] \in Operations,
    [kind |-> "HubProperty", property |-> p[1], operation |-> p[2], payload |-> From(p, 3)]))

\* A mutant of ParseHubAction: trailing bytes are not tolerated.
ParseHubAction_exact(p) ==
  IF Len(p) # 1 THEN Error
  ELSE Known(p[1] \in Actions, [kind |-> "HubAction", action |-> p[1]])

ParseHubAction(p) ==
  Needs(p, 1, Known(p[1] \in Actions, [kind |-> "HubAction", action |-> p[1]]))

ParseHubAlert(p) ==
  Needs(p, 2, Known(p[1] \in AlertTypes /\ p[2] \in AlertPayloads,
    [kind |-> "HubAlert", alert |-> p[1], payload |-> p[2]]))

\* `attached' or `virtual_attached' of an attach event; neither if the
\* payload is too short.
AttachInfo(p) ==
  CASE p[2] = AttachedIo /\ Len(p) >= 12 ->
         <<[type |-> U16(p[3], p[4]), hw |-> Version(SubSeq(p, 5, 8)),
            sw |-> Version(SubSeq(p, 9, 12))]>>
    [] p[2] = AttachedVirtualIo /\ Len(p) >= 6 ->
         <<[type |-> U16(p[3], p[4]), first |-> p[5], second |-> p[6]]>>
    [] OTHER -> <<>>

\* The test is for one byte, the code reads two.
ParseHubAttachedIo(p) ==
  Needs(p, 1, Reads(p, 2, Known(p[2] \in IoEvents,
    [kind |-> "HubAttachedIo", port |-> p[1], event |-> p[2], info |-> AttachInfo(p)])))

ParseGenericError(p) ==
  Needs(p, 2, [kind |-> "GenericError", command |-> p[1], code |-> p[2]])

\* A mutant of ParseInputFormatSetup: the interval is read as big-endian.
ParseInputFormatSetup_bigEndian(p) ==
  Needs(p, 7, [kind |-> "PortInputFormatSetupSingle", port |-> p[1], mode |-> p[2],
               delta |-> <<p[6], p[5], p[4], p[3]>>, enable |-> p[7] # 0])

ParseInputFormatSetup(p) ==
  Needs(p, 7, [kind |-> "PortInputFormatSetupSingle", port |-> p[1], mode |-> p[2],
               delta |-> SubSeq(p, 3, 6), enable |-> p[7] # 0])

ParsePortValueSingle(p) ==
  Needs(p, 1, [kind |-> "PortValueSingle", port |-> p[1], data |-> From(p, 2)])

\* A mutant of ParseInputFormatSingle: the test is for one byte only.
ParseInputFormatSingle_short(p) ==
  Needs(p, 1, Reads(p, 2, [kind |-> "PortInputFormatSingle", port |-> p[1], mode |-> p[2]]))

ParseInputFormatSingle(p) ==
  Needs(p, 2, [kind |-> "PortInputFormatSingle", port |-> p[1], mode |-> p[2]])

ParseOutputCommand(p) ==
  Needs(p, 2, [kind |-> "PortOutputCommand", port |-> p[1], startup |-> p[2],
               payload |-> From(p, 3)])

\* Pairs of a port and its feedback; one unknown feedback spoils them all.
ParseOutputFeedback(p) ==
  Needs(p, 2, Known(Len(p) % 2 = 0 /\ \A i \in 1..Len(p) \div 2 : p[2*i] \in Feedbacks,
    [kind |-> "PortOutputCommandFeedback",
     entries |-> [i \in 1..Len(p) \div 2 |-> [port |-> p[2*i - 1], feedback |-> p[2*i]]]]))

\* parse, behind the header.
ParsePayload(type, p) ==
  CASE type = HubProperties              -> ParseHubProperty(p)
    [] type = HubActions                 -> ParseHubAction(p)
    [] type = HubAlerts                  -> ParseHubAlert(p)
    [] type = HubAttachedIo              -> ParseHubAttachedIo(p)
    [] type = GenericErrorMessages       -> ParseGenericError(p)
    [] type = PortInputFormatSetupSingle -> ParseInputFormatSetup(p)
    [] type = PortValueSingle            -> ParsePortValueSingle(p)
    [] type = PortInputFormatSingle      -> ParseInputFormatSingle(p)
    [] type = PortOutputCommand          -> ParseOutputCommand(p)
    [] type = PortOutputCommandFeedback  -> ParseOutputFeedback(p)
    [] OTHER -> [kind |-> "Unknown", type |-> type, payload |-> p]

\* The payload is the slice from 3 to the declared length, which must not be
\* less than 3.
Parse(b) ==
  IF Len(b) < 3 \/ Len(b) < b[1] THEN Error
  ELSE IF b[1] < 3 THEN Panic
  ELSE ParsePayload(b[3], SubSeq(b, 4, b[1]))

-----------------------------------------------------------------------------
(***************************************************************************)
(* encode.                                                                 *)
(***************************************************************************)
\* The types parse looks into.
Decoded == {HubProperties, HubActions, HubAlerts, HubAttachedIo, GenericErrorMessages,
            PortInputFormatSetupSingle, PortValueSingle, PortInputFormatSingle,
            PortOutputCommand, PortOutputCommandFeedback}

\* LpfMessage, as far as a host builds and sends it.
HostMessages ==
  [kind : {"HubProperty"}, property : PropertyReferences, operation : Operations,
   payload : Seq(Byte)]
    \cup [kind : {"HubAction"}, action : Actions]
    \cup [kind : {"PortInputFormatSetupSingle"}, port : Byte, mode : Byte,
          delta : {d \in Seq(Byte) : Len(d) = 4}, enable : BOOLEAN]
    \cup [kind : {"PortOutputCommand"}, port : Byte, startup : Byte, payload : Seq(Byte)]
    \cup [kind : {"Unknown"}, type : Byte \ Decoded, payload : Seq(Byte)]

Encodable == {"HubProperty", "HubAction", "PortInputFormatSetupSingle",
              "PortOutputCommand", "Unknown"}

\* encode_inner; what a host does not send has no body.
EncodeInner(m) ==
  CASE m.kind = "HubProperty" -> <<HubProperties, m.property, m.operation>> \o m.payload
    [] m.kind = "HubAction"   -> <<HubActions, m.action>>
    [] m.kind = "PortInputFormatSetupSingle" ->
         <<PortInputFormatSetupSingle, m.port, m.mode>> \o m.delta
           \o <<IF m.enable THEN 1 ELSE 0>>
    [] m.kind = "PortOutputCommand" -> <<PortOutputCommand, m.port, m.startup>> \o m.payload
    [] m.kind = "Unknown" -> <<m.type>> \o m.payload
    [] OTHER -> <<>>

\* The total length is cast to a byte.
Encode(m) == <<(Len(EncodeInner(m)) + 2) % 256, 0>> \o EncodeInner(m)

-----------------------------------------------------------------------------
(***************************************************************************)
(* The frames a peer may send, each one byte longer than the one before.   *)
(***************************************************************************)
Init == buf = <<1>>

Grow(byte) ==
  /\ Len(buf) < MaxLen
  /\ byte \in Choices[Len(buf) + 1]
  /\ buf' = <<Len(buf) + 1>> \o Tail(buf) \o <<byte>>

Next == \E byte \in Byte : Grow(byte)

Spec == Init /\ [][Next]_buf

-----------------------------------------------------------------------------
(***************************************************************************)
(* Properties.                                                             *)
(***************************************************************************)

\* The versions of an attach event, if it has any.
Versions(m) ==
  IF m.kind = "HubAttachedIo" /\ m.info # <<>> /\ m.event = AttachedIo
    THEN {m.info[1].hw, m.info[1].sw} ELSE {}

\* buf is a frame, and what is parsed from it has the types of the code:
\* every field of a version fits its width.
TypeOK ==
  /\ buf \in Seq(Byte) /\ Len(buf) = buf[1]
  /\ Parse(buf).kind \in Encodable => Parse(buf) \in HostMessages
  /\ Versions(Parse(buf)) \subseteq VersionType

\* What a message is about.
Subject(m) ==
  CASE m.kind = "HubProperty" -> <<m.kind, m.property, m.operation>>
    [] m.kind = "HubAction" -> <<m.kind, m.action>>
    [] m.kind = "HubAlert" -> <<m.kind, m.alert>>
    [] m.kind = "HubAttachedIo" -> <<m.kind, m.port, m.event>>
    [] m.kind = "GenericError" -> <<m.kind, m.command, m.code>>
    [] m.kind \in {"PortInputFormatSetupSingle", "PortInputFormatSingle"} ->
         <<m.kind, m.port, m.mode>>
    [] m.kind = "PortValueSingle" -> <<m.kind, m.port>>
    [] m.kind = "PortOutputCommand" -> <<m.kind, m.port, m.startup>>
    [] m.kind = "PortOutputCommandFeedback" -> <<m.kind, m.entries[1]>>
    [] OTHER -> <<m.kind>>

Failed(m) == m.kind \in {"Error", "Panic"}

(***************************************************************************)
(* A message the host can encode comes back from its own bytes: parse      *)
(* after encode is the identity on everything parse can return.            *)
(***************************************************************************)
RoundTrip == Parse(buf).kind \in Encodable => Parse(Encode(Parse(buf))) = Parse(buf)

(***************************************************************************)
(* A parser tolerates what a later firmware appends: a frame that is       *)
(* understood stays understood, and about the same thing, with one more    *)
(* byte behind it.  Read backwards, what is left of a frame that lost its  *)
(* end is an error or about the same thing.  Feedback comes in pairs and   *)
(* is the exception.                                                       *)
(***************************************************************************)
ToleratesMore ==
  [][(~Failed(Parse(buf)) /\ Parse(buf).kind # "PortOutputCommandFeedback")
       => Subject(Parse(buf')) = Subject(Parse(buf))]_buf

(***************************************************************************)
(* No frame makes parse panic, but for an attach event that ends after the *)
(* port.                                                                   *)
(***************************************************************************)
OnlyShortAttachPanics ==
  Parse(buf) = Panic => Len(buf) = 4 /\ buf[3] = HubAttachedIo

\* message.rs:226 on parse: a frame that is too short is an error.
TooShortIsAnError == Parse(buf) # Panic
=============================================================================
