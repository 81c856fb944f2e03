-------------------------------- MODULE Wedo2 --------------------------------
(***************************************************************************)
(* The WeDo 2.0 codec (protocol/wedo2.rs), byte by byte.                   *)
(***************************************************************************)
EXTENDS Naturals, Sequences

ParseError == [kind |-> "Error"]  \* Err(Error::Parse(..))

\* Wedo2PortMessage.
Attached(port, type) == [kind |-> "Attached", port |-> port, type |-> type]
Detached(port)       == [kind |-> "Detached", port |-> port, type |-> 0]

\* An attach that is cut off before its type is one of type 0.
ParsePortMessage(d) ==
  CASE Len(d) >= 2 /\ d[2] = 1 -> Attached(d[1], IF Len(d) >= 4 THEN d[4] ELSE 0)
    [] Len(d) >= 2 /\ d[2] = 0 -> Detached(d[1])
    [] OTHER                   -> ParseError

\* Wedo2SensorMessage.
Button(pressed)      == [kind |-> "Button", pressed |-> pressed]
PortData(port, data) == [kind |-> "PortData", port |-> port, data |-> data]

\* A mutant of ParseSensorMessage: the first byte alone tells a button.
ParseSensorMessage_prefix(d) ==
  CASE Len(d) = 0                   -> ParseError
    [] Len(d) >= 1 /\ d[1] \in {0, 1} -> Button(d[1] # 0)
    [] OTHER                        -> PortData(d[2], SubSeq(d, 3, Len(d)))

ParseSensorMessage(d) ==
  CASE Len(d) = 0 -> ParseError
    [] Len(d) = 1 -> Button(d[1] # 0)
    [] OTHER      -> PortData(d[2], SubSeq(d, 3, Len(d)))

\* A port is subscribed, or unsubscribed, in a mode of its device.
EncodeInputFormat(port, type, mode, on) == <<1, 2, port, type, mode, 1, 0, 0, 0, 0, on>>
EncodeSubscribe(port, type, mode)       == EncodeInputFormat(port, type, mode, 1)
EncodeUnsubscribe(port, type, mode)     == EncodeInputFormat(port, type, mode, 0)

EncodeDisconnect == <<0>>

\* The name is a sequence of characters, each a sequence of bytes.
EncodeSetName(name) == SubSeq(name, 1, IF Len(name) > 14 THEN 14 ELSE Len(name))
=============================================================================
