------------------------------- MODULE Devices -------------------------------
(***************************************************************************)
(* One port of a hub: the thing that is plugged in, the object the         *)
(* DeviceFactory made for it (device/mod.rs), and the object the caller    *)
(* made to encode orders for it.  The thing sends readings, which the      *)
(* factory's object turns into events; it carries out the orders the       *)
(* caller sends.  The two objects are strangers: the hub hands out its own *)
(* as dyn Device, which has no encoders and no setters.  Readings and      *)
(* orders change no object: they are operators on their states, and the    *)
(* properties quantify over them.                                          *)
(*                                                                         *)
(* The thing is external.  What it sends and understands is taken from the *)
(* comments and tests beside the decoders and encoders.                    *)
(***************************************************************************)
EXTENDS Motors, Lights

CONSTANTS
  Types,       (* device type ids that may be announced, u16               *)
  Modes,       (* modes a thing may be switched to                         *)
  Raws,        (* bound: u16 readings                                      *)
  Words,       (* bound: u16 arguments of orders                           *)
  Bytes,       (* bound: byte readings and byte arguments of orders        *)
  Positions,   (* bound: i32 encoder positions and angles                  *)
  Turns,       (* bound: u32 angles to turn by                             *)
  Speeds,      (* bound: i8 speeds and powers                              *)
  Pictures     (* bound: colour lists for the light matrix                 *)

ASSUME DevicesAssumption ==
  /\ Types \subseteq U16Type /\ Raws \subseteq U16Type /\ Words \subseteq U16Type
  /\ Modes \subseteq Byte /\ Bytes \subseteq Byte
  /\ Positions \subseteq I32Type /\ Turns \subseteq U32Type /\ Speeds \subseteq -128..127
  /\ Pictures \subseteq Seq(Colors)

VARIABLES
  thing,   (* the type plugged in and the mode it is in                    *)
  dev,     (* the object of the factory                                    *)
  motor    (* the settings of the caller's motor object                    *)

vars == <<thing, dev, motor>>

\* An order: what to do, how fast (0 where that is no question), the rest.
Job(do, speed, args) == [do |-> do, speed |-> speed, args |-> args]

-----------------------------------------------------------------------------
(***************************************************************************)
(* DeviceFactory::create, over the types of protocol/consts.rs.            *)
(***************************************************************************)
DeviceTypes   == {0, 1, 2, 8} \cup (20..23) \cup {34, 35} \cup (37..44) \cup (46..49)
                   \cup (54..65) \cup {71} \cup (73..76)
BasicTypes    == {1, 2, 41}
TachoTypes    == {38, 39, 46, 47}
AbsoluteTypes == {48, 49, 65, 75, 76}
TiltTypes     == {34, 40}
SensorKinds   == {"ColorDistance", "Motion", "Tilt", "Voltage", "Current", "RemoteButton"}
MotorKinds    == {"BasicMotor", "TachoMotor", "AbsoluteMotor"}
LightKinds    == {"HubLed", "Light", "PiezoBuzzer", "ColorLightMatrix"}
ModalKinds    == {"ColorDistance", "Tilt", "TachoMotor", "AbsoluteMotor", "Generic"}

KindOfByte(type) ==
  CASE type = 37 -> "ColorDistance"
    [] type = 35 -> "Motion"
    [] type \in TiltTypes -> "Tilt"
    [] type = 20 -> "Voltage"
    [] type = 21 -> "Current"
    [] type = 55 -> "RemoteButton"
    [] type \in BasicTypes -> "BasicMotor"
    [] type \in TachoTypes -> "TachoMotor"
    [] type \in AbsoluteTypes -> "AbsoluteMotor"
    [] type = 23 -> "HubLed"
    [] type = 8 -> "Light"
    [] type = 22 -> "PiezoBuzzer"
    [] type = 64 -> "ColorLightMatrix"
    [] OTHER -> "Generic"

\* A mutant of Kind: the type id is cut to a byte.
Kind_cut(type) == KindOfByte(type % 256)

Kind(type) == IF type \in DeviceTypes THEN KindOfByte(type) ELSE "Generic"

\* device_type_id: the motors and the generic device remember what they
\* were made for, the others answer with a constant.
TypeId(kind, type) == IF kind = "Tilt" THEN 34 ELSE type

Create(type) ==
  [kind |-> Kind(type), type |-> TypeId(Kind(type), type), mode |-> 0]

SetMode(d, mode) == IF d.kind \in ModalKinds THEN [d EXCEPT !.mode = mode] ELSE d

Receive(d, data) ==
  CASE d.kind = "ColorDistance" -> ColorDistanceReceive(d.mode, data)
    [] d.kind = "Motion"        -> MotionReceive(data)
    [] d.kind = "Tilt"          -> TiltReceive(d.mode, data)
    [] d.kind = "Voltage"       -> VoltageReceive(data)
    [] d.kind = "Current"       -> CurrentReceive(data)
    [] d.kind = "RemoteButton"  -> RemoteButtonReceive(data)
    [] d.kind = "TachoMotor"    -> TachoReceive(d.mode, data)
    [] d.kind = "AbsoluteMotor" -> AbsoluteReceive(d.mode, data)
    [] d.kind = "Generic"       -> [kind |-> "Raw", mode |-> d.mode, data |-> data]
    [] OTHER                    -> None

-----------------------------------------------------------------------------
(***************************************************************************)
(* The thing: what it measures in a mode, the bytes it sends for that, and *)
(* what it takes the bytes of an order for.                                *)
(***************************************************************************)
Opaque(data) == [kind |-> "Opaque", data |-> data]
Whole(inches) == [kind |-> "Whole", inches |-> inches]
Inches(color, inches, partial) ==
  [kind |-> "Inches", color |-> color, inches |-> inches, partial |-> partial]
Centimetres(n) == [kind |-> "Centimetres", n |-> n]
Count(n) == [kind |-> "Count", n |-> n]

\* What a thing may send in a mode its object has no decoder for.
Payloads == {<<>>} \cup {<<b, 1, 2, 3>> : b \in Bytes}

Readings(type, mode) ==
  CASE type = 37 /\ mode = ColorMode    -> {Color(c) : c \in Colors}
    [] type = 37 /\ mode = DistanceMode -> {Whole(b) : b \in Bytes}
    [] type = 37 /\ mode = ReflectMode  -> {Reflect(b) : b \in Bytes}
    [] type = 37 /\ mode = AmbientMode  -> {Ambient(b) : b \in Bytes}
    [] type = 37 /\ mode = ColorAndDistanceMode ->
         {Inches(c, i, p) : c \in {0, 10, NoColor}, i, p \in Bytes}
    [] type = 35 /\ mode = 0 -> {Centimetres(n) : n \in 0..510}
    [] type \in TiltTypes /\ mode = 0 -> {Tilt(I8(x), I8(y)) : x, y \in Bytes}
    [] type \in {20, 21} /\ mode = 0 -> {Count(n) : n \in Raws}
    [] type = 55 /\ mode = 0 -> {RemoteButton(b) : b \in Bytes}
    [] type \in TachoTypes \cup AbsoluteTypes /\ mode = 2 -> {MotorRotate(n) : n \in Positions}
    [] type \in AbsoluteTypes /\ mode = 3 -> {MotorAngle(I16(lo, hi)) : lo, hi \in Bytes}
    [] OTHER -> {Opaque(data) : data \in Payloads}

Wire(r) ==
  CASE r.kind = "Color" -> <<r.color>>
    [] r.kind = "Whole" -> <<r.inches>>
    [] r.kind \in {"Reflect", "Ambient"} -> <<r.percent>>
    [] r.kind = "Inches" -> <<r.color, 0, r.inches, r.partial>>
    [] r.kind = "Centimetres" -> IF r.n > 255 THEN <<r.n - 255, 1>> ELSE <<r.n, 0>>
    [] r.kind = "Tilt" -> <<I8Byte(r.x), I8Byte(r.y)>>
    [] r.kind = "Count" -> U16Bytes(r.n)
    [] r.kind = "RemoteButton" -> <<r.state>>
    [] r.kind = "MotorRotate" -> I32Bytes(r.degrees)
    [] r.kind = "MotorAngle" -> I16Bytes(r.angle)
    [] OTHER -> r.data

Steering(maxPower, brake, profile) ==
  [maxPower |-> maxPower, brake |-> brake, accel |-> profile % 2 = 1, decel |-> profile \div 2 = 1]

Shown(pixel) == [color |-> pixel % 16, brightness |-> pixel \div 16]

UnderstoodByMotor(b) ==
  CASE b[1] = 81 /\ b[2] = 0 -> Job("Power", I8(b[3]), <<>>)
    [] b[1] = 81 /\ b[2] = 2 -> Job("Preset", 0, <<I32(SubSeq(b, 3, 6))>>)
    [] b[1] = 5              -> Job("RampUp", 0, <<U16(b[2], b[3]), b[4]>>)
    [] b[1] = 6              -> Job("RampDown", 0, <<U16(b[2], b[3]), b[4]>>)
    [] b[1] = 7              -> Job("Run", I8(b[2]), <<Steering(b[3], Float, b[4])>>)
    [] b[1] = 9              -> Job("RunFor", I8(b[4]), <<U16(b[2], b[3]), Steering(b[5], b[6], b[7])>>)
    [] b[1] = 11             -> Job("Rotate", I8(b[6]), <<U32(SubSeq(b, 2, 5)), Steering(b[7], b[8], b[9])>>)
    [] b[1] = 13             -> Job("Goto", I8(b[6]), <<I32(SubSeq(b, 2, 5)), Steering(b[7], b[8], b[9])>>)
    [] OTHER                 -> Job("Nothing", 0, <<>>)

Understood(type, b) ==
  CASE type = 22 -> Job("Tone", 0, <<U16(b[4], b[5]), U16(b[6], b[7])>>)
    [] type = 8  -> Job("Brightness", 0, <<b[3]>>)
    [] type = 23 -> Job(IF b[2] = 0 THEN "Color" ELSE "Rgb", 0, SubSeq(b, 3, Len(b)))
    [] type = 64 -> Job("Pixels", 0, [k \in 1..Len(b) - 2 |-> Shown(b[k + 2])])
    [] OTHER     -> UnderstoodByMotor(b)

-----------------------------------------------------------------------------
(***************************************************************************)
(* What a caller may encode for the thing, with an object of its own: the  *)
(* job that is meant, and the bytes.                                       *)
(***************************************************************************)
Order(job, bytes) == [job |-> job, bytes |-> bytes]

BasicMotorOrders ==
  {Order(Job("Power", v, <<>>), EncodeSetPower(v)) : v \in Speeds}
    \cup {Order(Job("Power", 0, <<>>), EncodeStop), Order(Job("Power", 127, <<>>), EncodeBrake)}

\* The angle to turn by has no sign: the speed gives the direction.
RotateOrders ==
  {Order(Job("Rotate", v, <<n, motor>>), EncodeRotateByDegrees(motor, n, v)) :
     v \in Speeds, n \in Turns}

TachoMotorOrders ==
  {Order(Job("RampUp", 0, <<t, p>>), EncodeSetAccelerationTime(t, p)) : t \in Words, p \in Bytes}
    \cup {Order(Job("RampDown", 0, <<t, p>>), EncodeSetDecelerationTime(t, p)) :
            t \in Words, p \in Bytes}
    \cup {Order(Job("Run", v, <<[motor EXCEPT !.brake = Float]>>),
                EncodeSetSpeed(motor, v)) : v \in Speeds}
    \cup {Order(Job("RunFor", v, <<t, motor>>), EncodeSetSpeedForTime(motor, v, t)) :
            v \in Speeds, t \in Words}
    \cup RotateOrders

AbsoluteMotorOrders ==
  {Order(Job("Goto", v, <<n, motor>>), EncodeGotoAngle(motor, n, v)) :
     v \in Speeds, n \in Positions}
    \cup {Order(Job("Preset", 0, <<0>>), EncodeResetZero)}
    \cup RotateOrders

HubLedOrders ==
  {Order(Job("Color", 0, <<c>>), EncodeSetColor(c)) : c \in Colors}
    \cup {Order(Job("Rgb", 0, <<r, g, b>>), EncodeSetRgb(r, g, b)) : r, g, b \in Bytes}

LightOrders == {Order(Job("Brightness", 0, <<b>>), EncodeSetBrightness(b)) : b \in Bytes}

BuzzerOrders ==
  {Order(Job("Tone", 0, <<f, t>>), EncodePlayTone(f, t)) : f \in Words, t \in Words}

MatrixOrders ==
  {Order(Job("Pixels", 0, [k \in 1..9 |-> c]), EncodeMatrixColor(c)) : c \in Colors}
    \cup {Order(Job("Pixels", 0, p), EncodeSetMatrix(p)) : p \in Pictures}

Orders ==
  LET kind == Kind(thing.type) IN
  CASE kind = "BasicMotor"    -> BasicMotorOrders
    [] kind = "TachoMotor"    -> TachoMotorOrders
    [] kind = "AbsoluteMotor" -> AbsoluteMotorOrders
    [] kind = "HubLed"        -> HubLedOrders
    [] kind = "Light"         -> LightOrders
    [] kind = "PiezoBuzzer"   -> BuzzerOrders
    [] kind = "ColorLightMatrix" -> MatrixOrders
    [] OTHER -> {}

-----------------------------------------------------------------------------
(***************************************************************************)
(* Steps.  The hub creates its object when it announces a device, and      *)
(* keeps its mode in step with the thing (module Hub).  The caller makes   *)
(* its motor object and its settings when it likes.                        *)
(***************************************************************************)
Attached(type) == [type |-> type, mode |-> 0]

Init ==
  /\ \E type \in Types : thing = Attached(type) /\ dev = Create(type)
  /\ motor = NewSettings

\* Something else is plugged in, or the same thing is announced again.  The
\* caller's object is left alone; a thing of another kind takes another one.
Attach(type) ==
  /\ thing' = Attached(type)
  /\ dev' = Create(type)
  /\ motor' = IF Kind(type) = Kind(thing.type) THEN motor ELSE NewSettings

SwitchMode(mode) ==
  /\ thing' = [thing EXCEPT !.mode = mode]
  /\ dev' = SetMode(dev, mode)
  /\ UNCHANGED motor

\* The caller makes settings s on its object, or another object of its own.
Adjusted(s) ==
  /\ Kind(thing.type) \in {"TachoMotor", "AbsoluteMotor"}
  /\ motor' = s
  /\ UNCHANGED <<thing, dev>>

NewMotor                == Adjusted(NewSettings)
SetBrakingStyle(style)  == Adjusted([motor EXCEPT !.brake = style])
SetMaxPower(power)      == Adjusted([motor EXCEPT !.maxPower = power])

\* The profile flags are public.
SetProfiles(up, down)   == Adjusted([motor EXCEPT !.accel = up, !.decel = down])

Next ==
  \/ \E type \in Types : Attach(type)
  \/ \E mode \in Modes : SwitchMode(mode)
  \/ NewMotor
  \/ \E style \in BrakingStyles : SetBrakingStyle(style)
  \/ \E power \in Bytes : SetMaxPower(power)
  \/ \E up, down \in BOOLEAN : SetProfiles(up, down)

Spec == Init /\ [][Next]_vars

-----------------------------------------------------------------------------
(***************************************************************************)
(* Properties.                                                             *)
(***************************************************************************)

\* What the thing measures now, and what the object makes of it.
Measured == Readings(thing.type, thing.mode)
Event(r) == Receive(dev, Wire(r))

\* The fields of device/mod.rs, Event have their Rust types.
EventOK(e) ==
  CASE e.kind \in {"Color"} -> e.color \in Colors
    [] e.kind = "Distance" -> e.mm \in Nat
    [] e.kind = "ColorAndDistance" -> e.color \in Colors /\ e.mm \in Nat
    [] e.kind \in {"Reflect", "Ambient"} -> e.percent \in Byte
    [] e.kind = "Tilt" -> e.x \in -128..127 /\ e.y \in -128..127
    [] e.kind = "Voltage" -> e.mv \in Nat
    [] e.kind = "Current" -> e.ma \in Nat
    [] e.kind = "RemoteButton" -> e.state \in Byte
    [] e.kind = "MotorRotate" -> e.degrees \in I32Type
    [] e.kind = "MotorAngle" -> e.angle \in I16Type
    [] e.kind = "Raw" -> e.mode \in Byte /\ e.data \in Seq(Byte)
    [] OTHER -> e = None

\* The type of an object of the factory.
DeviceType ==
  [kind : SensorKinds \cup MotorKinds \cup LightKinds \cup {"Generic"},
   type : U16Type, mode : Byte]

\* Every variable has its type.
TypeOK ==
  /\ thing \in [type : U16Type, mode : Byte]
  /\ dev \in DeviceType
  /\ motor \in SettingsType
  /\ \A r \in Measured : EventOK(Event(r))
  /\ \A o \in Orders : o.bytes \in Seq(Byte)

(***************************************************************************)
(* Whatever the announced type, the object that is made for it reads from  *)
(* a payload what the thing measured, sign and all, reports a missing      *)
(* colour as no event, passes on what it does not know, and is silent in   *)
(* a mode it cannot decode.  (Sensors that do not look at the mode and are *)
(* put in another one are the exception: nothing is said of their events.) *)
(***************************************************************************)
Reported(r, e) ==
  CASE r.kind \in {"Color", "Inches"} /\ r.color = NoColor -> e = None
    [] r.kind = "Inches" /\ r.color # NoColor -> e.kind = "ColorAndDistance" /\ e.color = r.color
    [] r.kind = "Whole" -> e.kind = (IF r.inches > 10 THEN "None" ELSE "Distance")
    [] r.kind = "Centimetres" -> e = Distance(10 * r.n)
    [] r.kind = "Count" -> e.kind = (IF thing.type = 20 THEN "Voltage" ELSE "Current")
    [] r.kind = "Opaque" /\ dev.kind = "Generic" -> e = [kind |-> "Raw", mode |-> thing.mode, data |-> r.data]
    [] r.kind = "Opaque" /\ dev.kind # "Generic" -> e = None \/ dev.kind \notin ModalKinds \cup LightKinds
    [] OTHER -> e = r

ReportsTheTruth == \A r \in Measured : Reported(r, Event(r))

\* n counts of num/den each, off by one at most.
WithinOne(value, n, num, den) ==
  /\ value * den <= n * num + den
  /\ n * num <= value * den + den

(***************************************************************************)
(* What is scaled on the way is not distorted.  A distance in whole inches *)
(* is right to a millimetre; with a partial inch it lies between those of  *)
(* the whole inches around it, and two sensor modes agree on it.  The f32  *)
(* arithmetic puts a voltage or a current off by one unit at most.          *)
(***************************************************************************)
Close(r, e) ==
  e # None =>
    CASE r.kind = "Whole" ->
           IF r.inches = 0 THEN e.mm = 0 ELSE WithinOne(e.mm + 20, r.inches, 254, 10)
      [] r.kind = "Inches" ->
           /\ DistanceMm(r.inches) <= e.mm /\ e.mm <= DistanceMm(r.inches + 1)
           /\ r.partial = 0 => e.mm = DistanceMm(r.inches)
      [] r.kind = "Count" ->
           IF e.kind = "Voltage" THEN WithinOne(e.mv, r.n, 9615, 3893)
           ELSE WithinOne(e.ma, r.n, 2444, 4095)
      [] OTHER -> TRUE

MeasuresAreClose == \A r \in Measured : Close(r, Event(r))

\* The speed a thing runs at when it is asked for v: the same, within what
\* it can do; 127 is not a speed but the order to brake.
Limited(v, got) ==
  /\ got \in -100..100 \cup {127}
  /\ got = 127 <=> v = 127
  /\ v \in -100..100 => got = v
  /\ v # 127 => 0 <= v * got /\ got * got <= v * v

\* The brightness of every pixel, as the comments of the matrix have it.
MaxBrightness == 10

\* The pixels of a picture: nine of them at most, of full brightness.  Of the
\* missing colour, whose pixel exceeds it, nothing is said.
Displayed(picture, pixels) ==
  /\ Len(pixels) = (IF Len(picture) < 9 THEN Len(picture) ELSE 9)
  /\ \A k \in DOMAIN pixels :
       picture[k] # NoColor => pixels[k] = [color |-> picture[k], brightness |-> MaxBrightness]

(***************************************************************************)
(* The thing does what the caller asked for: goes the way and the distance *)
(* that was meant, within its limits, under the settings the caller made   *)
(* on its own object, whatever is plugged in or switched in between.       *)
(***************************************************************************)
DoneAs(asked, did) ==
  /\ did.do = asked.do
  /\ Limited(asked.speed, did.speed)
  /\ CASE asked.do = "Pixels"     -> Displayed(asked.args, did.args)
       [] asked.do = "Brightness" -> did.args[1] = (IF asked.args[1] < 100 THEN asked.args[1] ELSE 100)
       [] OTHER                   -> did.args = asked.args

DoesWhatWasAsked == \A o \in Orders : DoneAs(o.job, Understood(thing.type, o.bytes))
=============================================================================
