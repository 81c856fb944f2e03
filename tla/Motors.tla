------------------------------- MODULE Motors -------------------------------
(***************************************************************************)
(* device/motor: the payloads of the motor commands, as bytes, and the     *)
(* events of the rotation encoder.  A speed or a power is an i8, an angle  *)
(* to turn by a u32; s holds the settings of a motor object.               *)
(***************************************************************************)
EXTENDS Sensors

\* protocol/consts.rs, BrakingStyle.
Float == 0
Hold  == 126
Brake == 127
BrakingStyles == {Float, Hold, Brake}

MotorRotate(degrees) == [kind |-> "MotorRotate", degrees |-> degrees]
MotorAngle(angle)    == [kind |-> "MotorAngle", angle |-> angle]

SettingsType == [brake : BrakingStyles, maxPower : Byte, accel : BOOLEAN, decel : BOOLEAN]
NewSettings  == [brake |-> Brake, maxPower |-> 100, accel |-> TRUE, decel |-> TRUE]

\* A mutant of MapSpeed: the speed that stands for braking is limited, too.
MapSpeed_limitsAll(speed) ==
  I8Byte(CASE speed > 100 -> 100 [] speed < -100 -> -100 [] OTHER -> speed)

MapSpeed(speed) ==
  IF speed = 127 THEN 127
  ELSE I8Byte(CASE speed > 100 -> 100 [] speed < -100 -> -100 [] OTHER -> speed)

UseProfile(s) == (IF s.accel THEN 1 ELSE 0) + (IF s.decel THEN 2 ELSE 0)

-----------------------------------------------------------------------------
EncodeSetPower(power) == <<81, 0, MapSpeed(power)>>
EncodeStop            == EncodeSetPower(0)
EncodeBrake           == EncodeSetPower(Brake)

EncodeSetAccelerationTime(time, profile) == <<5>> \o U16Bytes(time) \o <<profile>>
EncodeSetDecelerationTime(time, profile) == <<6>> \o U16Bytes(time) \o <<profile>>

EncodeSetSpeed(s, speed) == <<7, MapSpeed(speed), s.maxPower, UseProfile(s)>>

\* How a command that ends by itself is carried out.
Finish(s, speed) == <<MapSpeed(speed), s.maxPower, s.brake, UseProfile(s)>>

EncodeSetSpeedForTime(s, speed, time)      == <<9>> \o U16Bytes(time) \o Finish(s, speed)
EncodeRotateByDegrees(s, degrees, speed)   == <<11>> \o U32Bytes(degrees) \o Finish(s, speed)
EncodeGotoAngle(s, angle, speed)           == <<13>> \o I32Bytes(angle) \o Finish(s, speed)
EncodeResetZero                            == <<81, 2, 0, 0, 0, 0>>

-----------------------------------------------------------------------------
TachoReceive(mode, d) ==
  IF mode = 2 /\ Len(d) >= 4 THEN MotorRotate(I32(d)) ELSE None

AbsoluteReceive(mode, d) ==
  CASE mode = 2 /\ Len(d) >= 4 -> MotorRotate(I32(d))
    [] mode = 3 /\ Len(d) >= 2 -> MotorAngle(I16(d[1], d[2]))
    [] OTHER -> None
=============================================================================
