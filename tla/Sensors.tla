------------------------------- MODULE Sensors -------------------------------
(***************************************************************************)
(* What the sensors of device/sensor make of the payload d of a            *)
(* PortValueSingle: an event or None.  The port of an event is added by    *)
(* module Devices.                                                         *)
(***************************************************************************)
EXTENDS LittleEndian

\* protocol/consts.rs, Color.
NoColor == 255
Colors  == (0..10) \cup {NoColor}

None == [kind |-> "None"]

Color(c)            == [kind |-> "Color", color |-> c]
Distance(mm)        == [kind |-> "Distance", mm |-> mm]
ColorAndDistance(c, mm) == [kind |-> "ColorAndDistance", color |-> c, mm |-> mm]
Reflect(percent)    == [kind |-> "Reflect", percent |-> percent]
Ambient(percent)    == [kind |-> "Ambient", percent |-> percent]
Tilt(x, y)          == [kind |-> "Tilt", x |-> x, y |-> y]
Voltage(mv)         == [kind |-> "Voltage", mv |-> mv]
Current(ma)         == [kind |-> "Current", ma |-> ma]
RemoteButton(state) == [kind |-> "RemoteButton", state |-> state]

\* ColorDistanceMode.
ColorMode == 0
DistanceMode == 1
ReflectMode == 3
AmbientMode == 4
ColorAndDistanceMode == 8

-----------------------------------------------------------------------------
(***************************************************************************)
(* ColorDistanceSensor.                                                    *)
(***************************************************************************)
\* A mutant of Offset: without the `max(0)'.
Offset_signed(mm) == mm - 20

\* Both distances are measured from 20 mm in front of the sensor.
Offset(mm) == IF mm > 20 THEN mm - 20 ELSE 0

\* Whole inches, with integer arithmetic.
DistanceMm(raw) == Offset((254 * raw) \div 10)

\* A mutant of PartialMm: the test for 0 is missing, and 1/0 is infinity,
\* which the cast to i32 saturates.
PartialMm_infinite(raw, partial) ==
  Offset(IF partial = 0 THEN 2147483647 ELSE (127 * (raw * partial + 1)) \div (5 * partial))

\* Inches and 1/partial of an inch, in f32 arithmetic.  Its rounding shows
\* in one place: 17 + 1/127 inches, which are 432 mm, come out below.
PartialMm(raw, partial) ==
  Offset(IF partial = 0 THEN (127 * raw) \div 5
         ELSE (127 * (raw * partial + 1)) \div (5 * partial)
                - (IF raw = 17 /\ partial = 127 THEN 1 ELSE 0))

ColorDistanceReceive(mode, d) ==
  CASE mode = ColorMode /\ Len(d) >= 1 /\ d[1] <= 10 -> Color(d[1])
    [] mode = DistanceMode /\ Len(d) >= 1 /\ d[1] <= 10 -> Distance(DistanceMm(d[1]))
    [] mode = ReflectMode /\ Len(d) >= 1 -> Reflect(d[1])
    [] mode = AmbientMode /\ Len(d) >= 1 -> Ambient(d[1])
    [] mode = ColorAndDistanceMode /\ Len(d) >= 4 /\ d[1] <= 10 ->
         ColorAndDistance(d[1], PartialMm(d[3], d[4]))
    [] OTHER -> None

-----------------------------------------------------------------------------
(***************************************************************************)
(* MotionSensor, TiltSensor and RemoteControlButton.  Only the second of   *)
(* them looks at the mode.                                                 *)
(***************************************************************************)
MotionReceive(d) == IF Len(d) >= 2 THEN Distance((d[1] + d[2] * 255) * 10) ELSE None

TiltReceive(mode, d) ==
  IF mode = 0 /\ Len(d) >= 2 THEN Tilt(I8(d[1]), I8(d[2])) ELSE None

RemoteButtonReceive(d) == IF Len(d) >= 1 THEN RemoteButton(d[1]) ELSE None

-----------------------------------------------------------------------------
(***************************************************************************)
(* VoltageSensor and CurrentSensor: (raw * num / den) as u32 in f32.       *)
(***************************************************************************)
\* The significant bits of an f32.
Significand == 24

Log2(n) == CHOOSE k \in 0..30 : 2^k <= n /\ (k = 30 \/ n < 2^(k + 1))

\* n, rounded to an f32, to even when half way.
ToF32(n) ==
  IF n < 2^Significand THEN n
  ELSE LET unit == 2^(Log2(n) + 1 - Significand)
           low  == n - (n % unit)
           up   == 2 * (n % unit) > unit \/ (2 * (n % unit) = unit /\ (low \div unit) % 2 = 1)
       IN  IF up THEN low + unit ELSE low

\* The quotient is the next integer if it is too close to it.
Scaled(raw, num, den) ==
  LET p == ToF32(raw * num)
      q == p \div den
  IN  IF q > 0 /\ (q + 1) * den - p <= den \div 2^(Significand - Log2(q)) THEN q + 1 ELSE q

VoltageReceive(d) ==
  IF Len(d) >= 2 THEN Voltage(Scaled(U16(d[1], d[2]), 9615, 3893)) ELSE None

CurrentReceive(d) ==
  IF Len(d) >= 2 THEN Current(Scaled(U16(d[1], d[2]), 2444, 4095)) ELSE None
=============================================================================
