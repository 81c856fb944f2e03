------------------------------- MODULE Lights -------------------------------
(***************************************************************************)
(* device/light: the payloads of the commands to lamps and to the buzzer.  *)
(* None of these devices produces an event.                                *)
(***************************************************************************)
EXTENDS LittleEndian

EncodeSetColor(color)            == <<81, 0, color>>
EncodeSetRgb(red, green, blue)   == <<81, 1, red, green, blue>>

EncodeSetBrightness(brightness)  == <<81, 0, IF brightness > 100 THEN 100 ELSE brightness>>

EncodePlayTone(frequency, time)  == <<5, 2, 4>> \o U16Bytes(frequency) \o U16Bytes(time)

\* color | (10 << 4): bits 5 and 7 of the byte are set.
Pixel(color) ==
  color + (IF (color \div 32) % 2 = 0 THEN 32 ELSE 0) + (IF color < 128 THEN 128 ELSE 0)

EncodeMatrixColor(color) == <<81, 2>> \o [k \in 1..9 |-> Pixel(color)]

EncodeSetMatrix(colors) ==
  <<81, 2>> \o [k \in 1..(IF Len(colors) > 9 THEN 9 ELSE Len(colors)) |-> Pixel(colors[k])]
=============================================================================
