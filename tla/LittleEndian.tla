---------------------------- MODULE LittleEndian ----------------------------
(***************************************************************************)
(* Fixed-width integers and their little-endian bytes: to_le_bytes,        *)
(* from_le_bytes and the casts between signed and unsigned of the same     *)
(* width, as device/motor, device/sensor and device/light use them.        *)
(***************************************************************************)
EXTENDS Integers, Sequences

Byte == 0..255
U16Type == {n \in Nat : n < 65536}
I16Type == {n \in Int : -32768 <= n /\ n < 32768}
I32Type == {n \in Int : -2147483647 - 1 <= n /\ n <= 2147483647}

\* A u32 is given by its two halves, the lower one first, so that TLC's
\* integers reach all of them.
U32Type == U16Type \X U16Type

\* cast_signed of an unsigned value of width w, cast_unsigned of a signed
\* one, for the number 2^w of values.
Signed(n, values)   == IF 2 * n < values THEN n ELSE n - values
Unsigned(n, values) == IF n < 0 THEN n + values ELSE n

I8(byte)      == Signed(byte, 256)
I8Byte(n)     == Unsigned(n, 256)

U16(lo, hi)   == lo + 256 * hi
U16Bytes(n)   == <<n % 256, n \div 256>>
I16(lo, hi)   == Signed(U16(lo, hi), 65536)
I16Bytes(n)   == U16Bytes(Unsigned(n, 65536))

\* The top byte is read as signed, so that no intermediate value needs more
\* than 32 bits.
I32(b)        == U16(b[1], b[2]) + 65536 * I16(b[3], b[4])
I32Bytes(n)   == U16Bytes(n % 65536) \o I16Bytes(n \div 65536)
U32(b)        == <<U16(b[1], b[2]), U16(b[3], b[4])>>
U32Bytes(n)   == U16Bytes(n[1]) \o U16Bytes(n[2])
=============================================================================
