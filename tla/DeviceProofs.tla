---------------------------- MODULE DeviceProofs ----------------------------
(***************************************************************************)
(* Proofs about module Devices: the decoders of the sensors and motors and *)
(* the encoders of the motors, lamps and the buzzer.                       *)
(***************************************************************************)
EXTENDS Devices, SequenceTheorems, TLAPS

-----------------------------------------------------------------------------
(***************************************************************************)
(* Integers of a width.                                                    *)
(***************************************************************************)
\* What concatenation does with pairs.
LEMMA Join ==
  ASSUME NEW a \in Byte, NEW b \in Byte, NEW c \in Byte, NEW d \in Byte
  PROVE  <<a, b>> \o <<c, d>> = <<a, b, c, d>>
<1> DEFINE s == <<a, b>> \o <<c, d>>
           t == <<a, b, c, d>>
<1>1. <<a, b>> \in Seq(Byte) /\ <<c, d>> \in Seq(Byte) /\ t \in Seq(Byte) /\ Len(t) = 4
  OBVIOUS
<1>2. s \in Seq(Byte) /\ Len(s) = 4
  BY <1>1, ConcatProperties
<1>3. s[1] = a /\ s[2] = b /\ s[3] = c /\ s[4] = d
  BY <1>1, ConcatProperties
<1>4. t[1] = a /\ t[2] = b /\ t[3] = c /\ t[4] = d
  OBVIOUS
<1> HIDE DEF s, t
<1>5. \A i \in 1..4 : s[i] = t[i]
  BY <1>3, <1>4
<1>6. s = t
  BY <1>1, <1>2, <1>5, SeqEqual
<1> QED BY <1>6 DEF s, t

\* An i8 comes back from its byte, and a byte from its i8.
LEMMA I8Back ==
  /\ \A n \in -128..127 : I8Byte(n) \in Byte /\ I8(I8Byte(n)) = n
  /\ \A b \in Byte : I8(b) \in -128..127 /\ I8Byte(I8(b)) = b
BY DEF I8, I8Byte, Signed, Unsigned, Byte

\* Two bytes are a u16.
LEMMA U16Is ==
  ASSUME NEW lo \in Byte, NEW hi \in Byte
  PROVE  U16(lo, hi) \in U16Type /\ U16Bytes(U16(lo, hi)) = <<lo, hi>>
<1>1. U16(lo, hi) \in U16Type /\ U16(lo, hi) % 256 = lo /\ U16(lo, hi) \div 256 = hi
  BY DEF U16, U16Type, Byte
<1> QED BY <1>1 DEF U16Bytes

\* A u16 is two bytes.
LEMMA U16Back ==
  ASSUME NEW n \in U16Type
  PROVE  /\ U16Bytes(n) = <<U16Bytes(n)[1], U16Bytes(n)[2]>>
         /\ U16Bytes(n)[1] \in Byte /\ U16Bytes(n)[2] \in Byte
         /\ U16(U16Bytes(n)[1], U16Bytes(n)[2]) = n
BY DEF U16Bytes, U16, U16Type, Byte

\* Two bytes are an i16.
LEMMA I16Is ==
  ASSUME NEW lo \in Byte, NEW hi \in Byte
  PROVE  I16(lo, hi) \in I16Type /\ I16Bytes(I16(lo, hi)) = <<lo, hi>>
<1> DEFINE n == U16(lo, hi)
<1>1. n \in U16Type /\ U16Bytes(n) = <<lo, hi>>
  BY U16Is
<1> HIDE DEF n
<1>2. Signed(n, 65536) \in I16Type /\ Unsigned(Signed(n, 65536), 65536) = n
  BY <1>1 DEF Signed, Unsigned, I16Type, U16Type
<1> QED BY <1>1, <1>2 DEF n, I16, I16Bytes

\* An i16 is two bytes.
LEMMA I16Back ==
  ASSUME NEW n \in I16Type
  PROVE  /\ I16Bytes(n) = <<I16Bytes(n)[1], I16Bytes(n)[2]>>
         /\ I16Bytes(n)[1] \in Byte /\ I16Bytes(n)[2] \in Byte
         /\ I16(I16Bytes(n)[1], I16Bytes(n)[2]) = n
<1> DEFINE u == Unsigned(n, 65536)
<1>1. u \in U16Type /\ Signed(u, 65536) = n
  BY DEF Signed, Unsigned, I16Type, U16Type
<1> HIDE DEF u
<1>2. /\ U16Bytes(u) = <<U16Bytes(u)[1], U16Bytes(u)[2]>>
      /\ U16Bytes(u)[1] \in Byte /\ U16Bytes(u)[2] \in Byte
      /\ U16(U16Bytes(u)[1], U16Bytes(u)[2]) = u
  BY <1>1, U16Back
<1>3. I16Bytes(n) = U16Bytes(u)
  BY DEF u, I16Bytes
<1> QED BY <1>1, <1>2, <1>3 DEF I16

\* An i32 is four bytes.
LEMMA I32Back ==
  ASSUME NEW n \in I32Type
  PROVE  /\ I32Bytes(n) = <<I32Bytes(n)[1], I32Bytes(n)[2], I32Bytes(n)[3], I32Bytes(n)[4]>>
         /\ \A i \in 1..4 : I32Bytes(n)[i] \in Byte
         /\ I32(I32Bytes(n)) = n
<1> DEFINE low  == n % 65536
           high == n \div 65536
           l == U16Bytes(low)
           h == I16Bytes(high)
<1>1. low \in U16Type /\ high \in I16Type /\ n = low + 65536 * high
  BY DEF U16Type, I16Type, I32Type
<1>2. I32Bytes(n) = l \o h
  BY DEF I32Bytes
<1> HIDE DEF low, high
<1>3. l = <<l[1], l[2]>> /\ l[1] \in Byte /\ l[2] \in Byte /\ U16(l[1], l[2]) = low
  BY <1>1, U16Back
<1>4. h = <<h[1], h[2]>> /\ h[1] \in Byte /\ h[2] \in Byte /\ I16(h[1], h[2]) = high
  BY <1>1, I16Back
<1> HIDE DEF l, h
<1>5. l \o h = <<l[1], l[2], h[1], h[2]>>
  <2>1. <<l[1], l[2]>> \o <<h[1], h[2]>> = <<l[1], l[2], h[1], h[2]>>
    BY <1>3, <1>4, Join
  <2> QED BY <1>3, <1>4, <2>1
<1> DEFINE b == I32Bytes(n)
<1>6. b[1] = l[1] /\ b[2] = l[2] /\ b[3] = h[1] /\ b[4] = h[2]
  BY <1>2, <1>5
<1> HIDE DEF b
<1>7. I32(b) = n
  BY <1>1, <1>3, <1>4, <1>6 DEF I32
<1>8. \A i \in 1..4 : b[i] \in Byte
  BY <1>3, <1>4, <1>6
<1>9. b = <<b[1], b[2], b[3], b[4]>>
  BY <1>2, <1>5, <1>6 DEF b
<1> QED BY <1>7, <1>8, <1>9 DEF b

-----------------------------------------------------------------------------
(***************************************************************************)
(* The f32 arithmetic of the voltage and the current.                      *)
(***************************************************************************)
\* Powers of two as a function, of which the provers can use a table.
Pow == [k \in 0..31 |-> 2^k]

\* The table.
LEMMA PowTable ==
  /\ Pow[0] = 1 /\ Pow[1] = 2 /\ Pow[2] = 4 /\ Pow[3] = 8
  /\ Pow[4] = 16 /\ Pow[5] = 32 /\ Pow[6] = 64 /\ Pow[7] = 128
  /\ Pow[8] = 256 /\ Pow[9] = 512 /\ Pow[10] = 1024 /\ Pow[11] = 2048
  /\ Pow[12] = 4096 /\ Pow[13] = 8192 /\ Pow[14] = 16384 /\ Pow[15] = 32768
  /\ Pow[16] = 65536 /\ Pow[17] = 131072 /\ Pow[18] = 262144 /\ Pow[19] = 524288
  /\ Pow[20] = 1048576 /\ Pow[21] = 2097152 /\ Pow[22] = 4194304 /\ Pow[23] = 8388608
  /\ Pow[24] = 16777216 /\ Pow[25] = 33554432 /\ Pow[26] = 67108864 /\ Pow[27] = 134217728
  /\ Pow[28] = 268435456 /\ Pow[29] = 536870912 /\ Pow[30] = 1073741824 /\ Pow[31] = 2147483648
BY DEF Pow

\* What the function computes.
LEMMA PowIs ==
  ASSUME NEW k \in 0..31
  PROVE  2^k = Pow[k]
BY DEF Pow

\* Powers of two grow.
LEMMA PowGrows ==
  ASSUME NEW j \in 0..30, NEW k \in 0..31, j < k
  PROVE  Pow[j + 1] <= Pow[k]
BY PowTable

\* They are positive numbers.
LEMMA PowPositive ==
  ASSUME NEW k \in 0..31
  PROVE  Pow[k] \in Nat \ {0}
BY PowTable

\* How to recognize the logarithm of module Sensors.
LEMMA LogIs ==
  ASSUME NEW n \in Nat, NEW k \in 0..30, Pow[k] <= n, k = 30 \/ n < Pow[k + 1]
  PROVE  Log2(n) = k
<1>1. ASSUME NEW j \in 0..30, Pow[j] <= n, j = 30 \/ n < Pow[j + 1] PROVE j = k
  <2>0. j \in 0..31 /\ k \in 0..31 /\ j + 1 \in 0..31 /\ k + 1 \in 0..31
    OBVIOUS
  <2>1. CASE j < k
    <3>1. Pow[j + 1] <= Pow[k] /\ Pow[j + 1] \in Nat /\ Pow[k] \in Nat
      BY <2>1, <2>0, PowGrows, PowPositive
    <3> QED BY <3>1, <1>1, <2>1
  <2>2. CASE k < j
    <3>1. Pow[k + 1] <= Pow[j] /\ Pow[k + 1] \in Nat /\ Pow[j] \in Nat
      BY <2>2, <2>0, PowGrows, PowPositive
    <3> QED BY <3>1, <1>1, <2>2
  <2> QED BY <2>1, <2>2
<1>2. ASSUME NEW j \in 0..30
      PROVE  (2^j <= n /\ (j = 30 \/ n < 2^(j + 1)))
               <=> (Pow[j] <= n /\ (j = 30 \/ n < Pow[j + 1]))
  <2>1. j \in 0..31 /\ j + 1 \in 0..31
    OBVIOUS
  <2>2. 2^j = Pow[j] /\ 2^(j + 1) = Pow[j + 1]
    BY <2>1, PowIs
  <2> QED BY <2>2, Zenon
<1>3. \A j \in 0..30 : (2^j <= n /\ (j = 30 \/ n < 2^(j + 1))) <=> j = k
  BY <1>1, <1>2
<1> QED BY <1>3, Zenon DEF Log2

\* The units in the last place of products below 2^30.
Units == {2, 4, 8, 16, 32, 64}

\* p is a multiple c of u as close to n as any, with an even c when n is half
\* way between two of them.
Nearest(n, p, u) ==
  /\ 2 * p <= 2 * n + u /\ 2 * n <= 2 * p + u
  /\ \E c \in Nat : /\ p = u * c
                    /\ 2 * p = 2 * n + u \/ 2 * n = 2 * p + u => c % 2 = 0

\* p is n, a number of more than 24 bits, rounded to the unit in the last place.
Rounded(n, p, u) ==
  /\ 8388608 * u <= n /\ n < 16777216 * u
  /\ Nearest(n, p, u)

\* p is n as an f32.
Stored(n, p) == (n < 16777216 /\ p = n) \/ \E u \in Units : Rounded(n, p, u)

\* The denominators of the two sensors.
Denominators == {3893, 4095}

\* The products a sensor with this denominator can come to.
Product(n, den) ==
  /\ n \in Nat /\ n <= 630119025
  /\ den = 4095 => n <= 160167540
  /\ den = 3893 => \E r \in Nat : r < 65536 /\ n = 9615 * r

\* The unit in the last place of a number of more than 24 bits.
LEMMA UnitIs ==
  ASSUME NEW k \in 24..29, NEW n \in Nat, Pow[k] <= n, n < Pow[k + 1]
  PROVE  2^(Log2(n) + 1 - Significand) = Pow[k - 23]
<1>1. Log2(n) = k
  BY LogIs
<1>2. k - 23 \in 0..31
  OBVIOUS
<1>3. 2^(k - 23) = Pow[k - 23]
  BY <1>2, PowIs
<1>4. k + 1 - Significand = k - 23
  BY DEF Significand
<1> QED BY <1>1, <1>3, <1>4, Zenon

\* Division by a unit in the last place.
LEMMA UnitDivides ==
  ASSUME NEW n \in Nat, NEW u \in Units
  PROVE  /\ u \in Nat /\ n \div u \in Nat /\ n % u \in 0..u - 1 /\ u * (n \div u) \in Nat
         /\ n - (n % u) = u * (n \div u)
         /\ (n - (n % u)) \div u = n \div u
<1>1. CASE u = 2
  BY <1>1
<1>2. CASE u = 4
  BY <1>2
<1>3. CASE u = 8
  BY <1>3
<1>4. CASE u = 16
  BY <1>4
<1>5. CASE u = 32
  BY <1>5
<1>6. CASE u = 64
  BY <1>6
<1> QED BY <1>1, <1>2, <1>3, <1>4, <1>5, <1>6 DEF Units

\* Rounding to a multiple of the unit, to an even one when half way.
LEMMA RoundsTo ==
  ASSUME NEW u \in Nat, NEW c \in Nat, NEW r \in Nat, r < u, NEW n, n = u * c + r, NEW p,
         p = (IF 2 * r > u \/ (2 * r = u /\ c % 2 = 1) THEN u * c + u ELSE u * c)
  PROVE  Nearest(n, p, u)
<1> DEFINE w == u * c
<1>1. w \in Nat /\ u * (c + 1) = w + u
  OBVIOUS
<1> HIDE DEF w
<1>2. CASE 2 * r > u \/ (2 * r = u /\ c % 2 = 1)
  <2>1. p = w + u /\ n = w + r
    BY <1>2 DEF w
  <2>2. 2 * p <= 2 * n + u /\ 2 * n <= 2 * p + u
    BY <1>1, <1>2, <2>1
  <2>3. 2 * p = 2 * n + u \/ 2 * n = 2 * p + u => (c + 1) % 2 = 0
    BY <1>1, <1>2, <2>1
  <2> QED BY <1>1, <2>1, <2>2, <2>3 DEF Nearest
<1>3. CASE ~(2 * r > u \/ (2 * r = u /\ c % 2 = 1))
  <2>1. p = w /\ n = w + r
    BY <1>3 DEF w
  <2>2. 2 * p <= 2 * n + u /\ 2 * n <= 2 * p + u
    BY <1>1, <1>3, <2>1
  <2>3. 2 * p = 2 * n + u \/ 2 * n = 2 * p + u => c % 2 = 0
    BY <1>1, <1>3, <2>1
  <2> QED BY <2>1, <2>2, <2>3 DEF w, Nearest
<1> QED BY <1>2, <1>3

\* How a number that has a unit in the last place is rounded.
LEMMA ToF32Is ==
  ASSUME NEW n \in Nat, NEW u \in Units,
         ~(n < 2^Significand), u = 2^(Log2(n) + 1 - Significand)
  PROVE  Nearest(n, ToF32(n), u)
<1> DEFINE low == n - (n % u)
           c == n \div u
           r == n % u
           p == ToF32(n)
<1>1. p = IF 2 * (n % u) > u \/ (2 * (n % u) = u /\ (low \div u) % 2 = 1)
          THEN low + u ELSE low
  BY Zenon DEF ToF32
<1>2. /\ u \in Nat /\ c \in Nat /\ r \in 0..u - 1 /\ u * c \in Nat
      /\ low = u * c
      /\ low \div u = c
  BY UnitDivides
<1>3. p = IF 2 * r > u \/ (2 * r = u /\ c % 2 = 1) THEN u * c + u ELSE u * c
  BY <1>1, <1>2, Zenon
<1> HIDE DEF c, r
<1>4. n = low + r
  BY <1>2 DEF r
<1> HIDE DEF low, p
<1>5. n = u * c + r /\ r \in Nat /\ r < u
  BY <1>2, <1>4
<1>6. Nearest(n, p, u)
  BY <1>2, <1>3, <1>5, RoundsTo, Zenon
<1> QED BY <1>6 DEF p

\* The conversion to f32 is exact up to 24 bits and rounds above.
LEMMA Rounds ==
  ASSUME NEW n \in Nat, n < 1073741824
  PROVE  Stored(n, ToF32(n))
<1>0. 2^Significand = 16777216
  BY DEF Significand
<1>1. CASE n < 16777216
  BY <1>0, <1>1 DEF ToF32, Stored
<1>2. ASSUME NEW u \in Units, 8388608 * u <= n, n < 16777216 * u,
             2^(Log2(n) + 1 - Significand) = u
      PROVE Rounded(n, ToF32(n), u)
  <2>1. 2 <= u /\ u \in Nat
    BY DEF Units
  <2>2. ~(n < 2^Significand) /\ u = 2^(Log2(n) + 1 - Significand)
    BY <1>0, <1>2, <2>1
  <2> DEFINE p == ToF32(n)
  <2>3. Nearest(n, p, u)
    BY <2>2, ToF32Is
  <2> HIDE DEF p
  <2>4. Rounded(n, p, u)
    BY <1>2, <2>3 DEF Rounded
  <2> QED BY <2>4 DEF p
<1>3. CASE ~(n < 16777216)
  <2>1. \A k \in 24..29 : /\ Pow[k] = 8388608 * Pow[k - 23]
                          /\ Pow[k + 1] = 16777216 * Pow[k - 23]
                          /\ Pow[k - 23] \in Units
    BY PowTable DEF Units
  <2>2. \E k \in 24..29 : Pow[k] <= n /\ n < Pow[k + 1]
    <3>1. Pow[24] <= n /\ n < Pow[30]
      BY <1>3, PowTable
    <3> QED BY <3>1, PowTable
  <2>3. PICK k \in 24..29 : Pow[k] <= n /\ n < Pow[k + 1]
    BY <2>2
  <2>4. 2^(Log2(n) + 1 - Significand) = Pow[k - 23]
    BY <2>3, UnitIs
  <2> QED BY <2>1, <2>3, <2>4, <1>2 DEF Stored
<1> QED BY <1>1, <1>3

\* What rounding may cost.
LEMMA RoundedBounds ==
  ASSUME NEW n, NEW p, NEW u \in Units, Rounded(n, p, u)
  PROVE  /\ u \in Nat /\ 2 <= u /\ u <= 64
         /\ u = 64 \/ u <= 32
         /\ 8388608 * u <= n
         /\ 2 * p <= 2 * n + u /\ 2 * n <= 2 * p + u
<1>1. u \in Nat /\ 2 <= u /\ u <= 64 /\ (u = 64 \/ u <= 32)
  BY DEF Units
<1>2. 8388608 * u <= n
  BY DEF Rounded
<1>3. Nearest(n, p, u)
  BY DEF Rounded
<1>4. 2 * p <= 2 * n + u /\ 2 * n <= 2 * p + u
  BY <1>3 DEF Nearest
<1> QED BY <1>1, <1>2, <1>4

\* How close to the next integer a quotient q becomes that integer.
Spare(den, q) == den \div 2^(Significand - Log2(q))

\* The logarithm of a quotient.
LEMMA LogExists ==
  ASSUME NEW q \in Nat, 0 < q, q < 262144
  PROVE  \E k \in 0..17 : Log2(q) = k /\ Pow[k] <= q /\ q < Pow[k + 1]
<1>1. \E k \in 0..17 : Pow[k] <= q /\ q < Pow[k + 1]
  BY PowTable
<1> QED BY <1>1, LogIs

\* It follows from the logarithm.
LEMMA SpareFrom ==
  ASSUME NEW den, NEW q, NEW k \in 0..17, Log2(q) = k
  PROVE  Spare(den, q) = den \div Pow[24 - k]
<1> DEFINE j == 24 - k
<1>1. Significand - Log2(q) = j /\ j \in 0..31
  BY DEF Significand
<1> HIDE DEF j
<1>2. 2^j = Pow[j]
  BY <1>1, PowIs
<1>3. Spare(den, q) = den \div Pow[j]
  BY <1>1, <1>2, Zenon DEF Spare
<1> QED BY <1>3 DEF j

\* Bounds for it: the larger the quotient, the coarser its f32.
LEMMA SpareIs ==
  ASSUME NEW den \in {3893, 4095}, NEW q \in Nat, 0 < q, q < 262144
  PROVE  /\ Spare(den, q) \in 0..31
         /\ q >= 8192 => Spare(den, q) >= 1
         /\ q >= 16384 => Spare(den, q) >= 3
         /\ q >= 32768 => Spare(den, q) >= 7
         /\ q >= 65536 => Spare(den, q) >= 15
         /\ q >= 131072 => Spare(den, q) >= 30
<1>1. PICK k \in 0..17 : Log2(q) = k /\ Pow[k] <= q /\ q < Pow[k + 1]
  BY LogExists
<1>3. Spare(den, q) = den \div Pow[24 - k]
  BY <1>1, SpareFrom
<1>4. den \div Pow[24 - k] \in 0..31
  BY PowTable
<1>5. /\ q >= 8192 => k >= 13
      /\ q >= 16384 => k >= 14
      /\ q >= 32768 => k >= 15
      /\ q >= 65536 => k >= 16
      /\ q >= 131072 => k >= 17
  BY <1>1, PowTable
<1>6. \A j \in 0..17 :
        /\ j >= 13 => den \div Pow[24 - j] >= 1
        /\ j >= 14 => den \div Pow[24 - j] >= 3
        /\ j >= 15 => den \div Pow[24 - j] >= 7
        /\ j >= 16 => den \div Pow[24 - j] >= 15
        /\ j >= 17 => den \div Pow[24 - j] >= 30
  BY PowTable
<1> QED BY <1>3, <1>4, <1>5, <1>6

(***************************************************************************)
(* What Scaled makes of the exact product n is off by one unit at most.    *)
(* The rounding of the product and that of the quotient are both downward  *)
(* in the worst case; then the first costs half a unit of the product and  *)
(* the second less than the spare.  They could add up to one too many in   *)
(* one place only, for the largest voltages, where the product would have  *)
(* to be half way between two f32 and exceed a multiple of 3893 by one: no *)
(* multiple of 9615 does both.                                             *)
(***************************************************************************)
LEMMA QuotientClose ==
  ASSUME NEW den \in Denominators, NEW n, Product(n, den), NEW p \in Nat, Stored(n, p),
         NEW q \in Nat, q = p \div den, NEW value,
         value = (IF q > 0 /\ (q + 1) * den - p <= Spare(den, q) THEN q + 1 ELSE q)
  PROVE  value \in Nat /\ value * den <= n + den /\ n <= value * den + den
<1>0. /\ n \in Nat /\ n <= 630119025
      /\ den = 4095 => n <= 160167540
      /\ den \in {3893, 4095}
  BY DEF Product, Denominators
<1>9. (n < 16777216 /\ p = n) \/ \E u \in Units : Rounded(n, p, u)
  BY DEF Stored
<1>1. q * den <= p /\ p < (q + 1) * den
  BY <1>0
<1>2. q < 262143 /\ 2 * p <= 2 * n + 64 /\ 2 * n <= 2 * p + 64
  <2>1. ASSUME NEW u \in Units, Rounded(n, p, u)
        PROVE  2 * p <= 2 * n + 64 /\ 2 * n <= 2 * p + 64
    BY <1>0, <2>1, RoundedBounds
  <2>2. 2 * p <= 2 * n + 64 /\ 2 * n <= 2 * p + 64
    BY <1>0, <1>9, <2>1
  <2> QED BY <1>0, <1>1, <2>2
<1>3. CASE q = 0
  <2>1. ASSUME NEW u \in Units, Rounded(n, p, u)
        PROVE  FALSE
    <3>1. 16777216 <= n
      BY <1>0, <2>1, RoundedBounds
    <3> QED BY <1>0, <1>1, <1>2, <1>3, <3>1
  <2>2. n < 16777216 /\ p = n
    BY <1>9, <2>1
  <2> QED BY <1>0, <2>2, <1>1, <1>3
<1>4. CASE q > 0
  <2> DEFINE h == Spare(den, q)
  <2>1. /\ h \in 0..31
        /\ q >= 8192 => h >= 1
        /\ q >= 16384 => h >= 3
        /\ q >= 32768 => h >= 7
        /\ q >= 65536 => h >= 15
        /\ q >= 131072 => h >= 30
    BY <1>0, <1>2, <1>4, SpareIs
  <2>2. value = (IF (q + 1) * den - p <= h THEN q + 1 ELSE q)
    BY <1>4
  <2> HIDE DEF h
  <2>3. CASE (q + 1) * den - p <= h
    BY <1>0, <1>1, <1>2, <2>1, <2>2, <2>3
  <2>4. CASE ~((q + 1) * den - p <= h)
    <3>1. value = q
      BY <2>2, <2>4
    <3>2. CASE n < 16777216 /\ p = n
      BY <1>0, <3>1, <3>2, <1>1
    <3>3. ASSUME NEW u \in Units, Rounded(n, p, u), u # 64
          PROVE  n <= q * den + den
      <4>1. /\ u \in Nat /\ u <= 32 /\ 8388608 * u <= n
            /\ 2 * n <= 2 * p + u
        BY <3>3, RoundedBounds
      <4>2. u <= 2 * h + 2
        <5>1. u \in {2, 4, 8, 16, 32}
          BY <3>3 DEF Units
        <5> QED BY <1>0, <4>1, <5>1, <1>1, <1>2, <2>1
      <4> QED BY <1>0, <4>1, <4>2, <2>1, <2>4
    <3>4. CASE Rounded(n, p, 64)
      <4>1. den = 3893 /\ 536870912 <= n
        BY <1>0, <3>4 DEF Rounded
      <4>2. PICK r \in Nat : r < 65536 /\ n = 9615 * r
        BY <4>1 DEF Product
      <4>3. PICK c \in Nat : p = 64 * c /\ 2 * n <= 2 * p + 64 /\ (2 * n = 2 * p + 64 => c % 2 = 0)
        BY <1>0, <3>4 DEF Rounded, Nearest
      <4>4. h >= 30
        BY <1>0, <4>1, <1>1, <1>2, <2>1
      <4>5. (q + 1) * 3893 - p >= 31 /\ q \in Nat
        BY <4>1, <4>4, <2>4, <2>1
      <4>6. n <= (q + 1) * 3893
        <5>1. CASE n <= p + 31
          BY <1>0, <4>5, <5>1
        <5>2. CASE n = p + 32
          <6>1. n - (q + 1) * 3893 # 1
            BY <4>1, <4>2, <4>3, <5>2
          <6> QED BY <4>5, <5>2, <6>1
        <5> QED BY <1>0, <4>3, <5>1, <5>2
      <4>7. value \in Nat /\ value * den <= n + den
        BY <1>0, <3>1, <1>1, <1>2, <4>1
      <4> QED BY <1>0, <4>1, <4>5, <4>6, <4>7, <3>1
    <3>5. value \in Nat /\ value * den <= n + den
      BY <1>0, <3>1, <1>1, <1>2
    <3>6. CASE \E u \in Units : Rounded(n, p, u)
      BY <1>0, <3>1, <3>3, <3>4, <3>5, <3>6
    <3> QED BY <1>9, <3>2, <3>6
  <2> QED BY <2>3, <2>4
<1> QED BY <1>3, <1>4

\* The quotient, and the next integer if that is within the spare.
LEMMA ScaledIs ==
  ASSUME NEW raw, NEW num, NEW den, NEW p, NEW q, p = ToF32(raw * num), q = p \div den
  PROVE  Scaled(raw, num, den)
           = (IF q > 0 /\ (q + 1) * den - p <= Spare(den, q) THEN q + 1 ELSE q)
BY Zenon DEF Scaled, Spare

\* What a voltage or current sensor makes of a reading is off by one at most.
LEMMA ScaledClose ==
  ASSUME NEW raw \in U16Type
  PROVE  /\ Scaled(raw, 9615, 3893) \in Nat
         /\ Scaled(raw, 2444, 4095) \in Nat
         /\ WithinOne(Scaled(raw, 9615, 3893), raw, 9615, 3893)
         /\ WithinOne(Scaled(raw, 2444, 4095), raw, 2444, 4095)
<1>1. ASSUME NEW n \in Nat, n < 1073741824 PROVE ToF32(n) \in Nat
  <2>1. Stored(n, ToF32(n))
    BY <1>1, Rounds
  <2>2. ASSUME NEW u \in Units, Nearest(n, ToF32(n), u) PROVE ToF32(n) \in Nat
    BY <2>2 DEF Nearest, Units
  <2> QED BY <2>1, <2>2 DEF Stored, Rounded
<1>2. ASSUME NEW num \in Nat, NEW den \in Denominators,
             (num = 9615 /\ den = 3893) \/ (num = 2444 /\ den = 4095)
      PROVE  /\ Scaled(raw, num, den) \in Nat
             /\ Scaled(raw, num, den) * den <= raw * num + den
             /\ raw * num <= Scaled(raw, num, den) * den + den
  <2> DEFINE n == raw * num
             p == ToF32(n)
             q == p \div den
             v == Scaled(raw, num, den)
  <2>1. Product(n, den)
    BY <1>2 DEF U16Type, Product
  <2>6. n \in Nat /\ n < 1073741824
    BY <2>1 DEF Product
  <2>2. v = (IF q > 0 /\ (q + 1) * den - p <= Spare(den, q) THEN q + 1 ELSE q)
    BY ScaledIs
  <2> HIDE DEF n
  <2>3. /\ p \in Nat
        /\ Stored(n, p)
    BY <1>1, <2>6, Rounds
  <2> HIDE DEF p
  <2>4. q \in Nat /\ q = p \div den
    BY <2>3 DEF Denominators
  <2> HIDE DEF q, v
  <2>5. v \in Nat /\ v * den <= n + den /\ n <= v * den + den
    BY <2>1, <2>2, <2>3, <2>4, QuotientClose
  <2> QED BY <2>5 DEF n, v
<1>3. /\ Scaled(raw, 9615, 3893) \in Nat
      /\ Scaled(raw, 9615, 3893) * 3893 <= raw * 9615 + 3893
      /\ raw * 9615 <= Scaled(raw, 9615, 3893) * 3893 + 3893
  BY <1>2 DEF Denominators
<1>4. /\ Scaled(raw, 2444, 4095) \in Nat
      /\ Scaled(raw, 2444, 4095) * 4095 <= raw * 2444 + 4095
      /\ raw * 2444 <= Scaled(raw, 2444, 4095) * 4095 + 4095
  BY <1>2 DEF Denominators
<1> QED BY <1>3, <1>4 DEF WithinOne

-----------------------------------------------------------------------------
(***************************************************************************)
(* The factory.                                                            *)
(***************************************************************************)
\* Which object is made for which type.
LEMMA KindOf ==
  ASSUME NEW type \in U16Type
  PROVE  /\ Kind(type) \in SensorKinds \cup MotorKinds \cup LightKinds \cup {"Generic"}
         /\ Kind(type) = "ColorDistance" <=> type = 37
         /\ Kind(type) = "Motion" <=> type = 35
         /\ Kind(type) = "Tilt" <=> type \in TiltTypes
         /\ Kind(type) = "Voltage" <=> type = 20
         /\ Kind(type) = "Current" <=> type = 21
         /\ Kind(type) = "RemoteButton" <=> type = 55
         /\ Kind(type) = "BasicMotor" <=> type \in BasicTypes
         /\ Kind(type) = "TachoMotor" <=> type \in TachoTypes
         /\ Kind(type) = "AbsoluteMotor" <=> type \in AbsoluteTypes
         /\ Kind(type) = "HubLed" <=> type = 23
         /\ Kind(type) = "Light" <=> type = 8
         /\ Kind(type) = "PiezoBuzzer" <=> type = 22
         /\ Kind(type) = "ColorLightMatrix" <=> type = 64
<1> DEFINE K == Kind(type)
<1>1. /\ type = 37 => K = "ColorDistance"
      /\ type = 35 => K = "Motion"
      /\ type = 20 => K = "Voltage"
      /\ type = 21 => K = "Current"
      /\ type = 55 => K = "RemoteButton"
  BY DEF Kind, KindOfByte, DeviceTypes, TiltTypes, BasicTypes, TachoTypes, AbsoluteTypes
<1>2. Kind(23) = "HubLed"
  BY DEF Kind, KindOfByte, DeviceTypes, TiltTypes, BasicTypes, TachoTypes, AbsoluteTypes
<1>3. Kind(8) = "Light"
  BY DEF Kind, KindOfByte, DeviceTypes, TiltTypes, BasicTypes, TachoTypes, AbsoluteTypes
<1>4. Kind(22) = "PiezoBuzzer"
  BY DEF Kind, KindOfByte, DeviceTypes, TiltTypes, BasicTypes, TachoTypes, AbsoluteTypes
<1>5. Kind(64) = "ColorLightMatrix"
  BY DEF Kind, KindOfByte, DeviceTypes, TiltTypes, BasicTypes, TachoTypes, AbsoluteTypes
<1>6. type \in TiltTypes => K = "Tilt"
  BY DEF Kind, KindOfByte, DeviceTypes, TiltTypes, BasicTypes, TachoTypes, AbsoluteTypes
<1>7. type \in BasicTypes => K = "BasicMotor"
  BY DEF Kind, KindOfByte, DeviceTypes, TiltTypes, BasicTypes, TachoTypes, AbsoluteTypes
<1>8. type \in TachoTypes => K = "TachoMotor"
  BY DEF Kind, KindOfByte, DeviceTypes, TiltTypes, BasicTypes, TachoTypes, AbsoluteTypes
<1>9. type \in AbsoluteTypes => K = "AbsoluteMotor"
  BY DEF Kind, KindOfByte, DeviceTypes, TiltTypes, BasicTypes, TachoTypes, AbsoluteTypes
<1>10. type \notin {8, 20, 21, 22, 23, 35, 37, 55, 64} \cup TiltTypes \cup BasicTypes
                     \cup TachoTypes \cup AbsoluteTypes
        => K = "Generic"
  BY DEF Kind, KindOfByte
<1>11. /\ TiltTypes \cap {8, 20, 21, 22, 23, 35, 37, 55, 64} = {}
      /\ BasicTypes \cap ({8, 20, 21, 22, 23, 35, 37, 55, 64} \cup TiltTypes) = {}
      /\ TachoTypes \cap ({8, 20, 21, 22, 23, 35, 37, 55, 64} \cup TiltTypes \cup BasicTypes) = {}
      /\ AbsoluteTypes \cap ({8, 20, 21, 22, 23, 35, 37, 55, 64} \cup TiltTypes \cup BasicTypes
                               \cup TachoTypes) = {}
  BY DEF TiltTypes, BasicTypes, TachoTypes, AbsoluteTypes
<1>12. /\ type = 23 => K = "HubLed"
       /\ type = 8 => K = "Light"
       /\ type = 22 => K = "PiezoBuzzer"
       /\ type = 64 => K = "ColorLightMatrix"
  BY <1>2, <1>3, <1>4, <1>5
<1> HIDE DEF K
<1> QED BY <1>1, <1>6, <1>7, <1>8, <1>9, <1>10, <1>11, <1>12 DEF K, SensorKinds, MotorKinds, LightKinds

-----------------------------------------------------------------------------
(***************************************************************************)
(* The inductive invariant.                                                *)
(***************************************************************************)
(***************************************************************************)
(* The object is the one for the thing, in the mode of the thing if it     *)
(* keeps one.                                                              *)
(***************************************************************************)
InStep ==
  /\ dev.kind = Kind(thing.type)
  /\ dev.type = TypeId(dev.kind, thing.type)
  /\ dev.kind \in ModalKinds => dev.mode = thing.mode

VInv ==
  /\ thing \in [type : U16Type, mode : Byte]
  /\ dev \in DeviceType
  /\ motor \in SettingsType
  /\ InStep

\* A new object is the right one.
LEMMA CreateRight ==
  ASSUME NEW type \in Types
  PROVE  /\ Attached(type) \in [type : U16Type, mode : Byte]
         /\ Attached(type).type = type /\ Attached(type).mode = 0
         /\ Create(type) \in DeviceType
         /\ Create(type).kind = Kind(type) /\ Create(type).mode = 0
         /\ Create(type).type = TypeId(Kind(type), type)
         /\ NewSettings \in SettingsType
<1>1. type \in U16Type /\ 0 \in Byte /\ 34 \in U16Type
  BY DevicesAssumption DEF Byte, U16Type
<1>2. NewSettings \in SettingsType
  BY DEF NewSettings, SettingsType, BrakingStyles, Byte, Brake, Float, Hold
<1>3. Kind(type) \in SensorKinds \cup MotorKinds \cup LightKinds \cup {"Generic"}
  BY <1>1, KindOf
<1>4. TypeId(Kind(type), type) \in U16Type
  BY <1>1 DEF TypeId
<1> QED BY <1>1, <1>2, <1>3, <1>4 DEF Attached, Create, DeviceType

\* What a change of mode does to it.
LEMMA Switching ==
  ASSUME NEW d \in DeviceType, NEW mode \in Byte
  PROVE  /\ SetMode(d, mode) \in DeviceType
         /\ SetMode(d, mode).kind = d.kind
         /\ SetMode(d, mode).type = d.type
         /\ d.kind \in ModalKinds => SetMode(d, mode).mode = mode
BY DEF DeviceType, SetMode

\* The settings that follow from others.
LEMMA NewerSettings ==
  ASSUME NEW s \in SettingsType
  PROVE  /\ \A style \in BrakingStyles : [s EXCEPT !.brake = style] \in SettingsType
         /\ \A power \in Byte : [s EXCEPT !.maxPower = power] \in SettingsType
         /\ \A up, down \in BOOLEAN : [s EXCEPT !.accel = up, !.decel = down] \in SettingsType
BY DEF SettingsType

\* Settings of the right type on the caller's object disturb nothing else.
LEMMA AdjustKeeps ==
  ASSUME VInv, NEW s \in SettingsType, Adjusted(s)
  PROVE  VInv'
BY DEF VInv, InStep, Adjusted

\* VInv is inductive.
LEMMA StepVInv == VInv /\ [Next]_vars => VInv'
<1> SUFFICES ASSUME VInv, [Next]_vars PROVE VInv'
  OBVIOUS
<1>1. CASE UNCHANGED vars
  BY <1>1 DEF vars, VInv, InStep
<1>2. ASSUME NEW type \in Types, Attach(type) PROVE VInv'
  BY <1>2, CreateRight DEF Attach, VInv, InStep
<1>3. ASSUME NEW mode \in Modes, SwitchMode(mode) PROVE VInv'
  <2>1. mode \in Byte
    BY DevicesAssumption
  <2>2. /\ thing' = [thing EXCEPT !.mode = mode] /\ dev' = SetMode(dev, mode) /\ motor' = motor
    BY <1>3 DEF SwitchMode
  <2>3. thing' \in [type : U16Type, mode : Byte] /\ thing'.type = thing.type /\ thing'.mode = mode
    BY <2>1, <2>2 DEF VInv
  <2>4. /\ dev' \in DeviceType /\ dev'.kind = dev.kind
        /\ dev'.type = dev.type
        /\ dev.kind \in ModalKinds => dev'.mode = mode
    BY <2>1, <2>2, Switching DEF VInv
  <2> QED BY <2>2, <2>3, <2>4 DEF VInv, InStep
<1>4. motor \in SettingsType
  BY DEF VInv
<1>5. ASSUME NEW style \in BrakingStyles, SetBrakingStyle(style) PROVE VInv'
  BY <1>4, <1>5, NewerSettings, AdjustKeeps DEF SetBrakingStyle
<1>6. ASSUME NEW power \in Bytes, SetMaxPower(power) PROVE VInv'
  <2>1. power \in Byte
    BY DevicesAssumption
  <2> QED BY <1>4, <1>6, <2>1, NewerSettings, AdjustKeeps DEF SetMaxPower
<1>7. ASSUME NEW up \in BOOLEAN, NEW down \in BOOLEAN, SetProfiles(up, down) PROVE VInv'
  BY <1>4, <1>7, NewerSettings, AdjustKeeps DEF SetProfiles
<1>8. ASSUME NewMotor PROVE VInv'
  <2>1. NewSettings \in SettingsType
    BY DEF NewSettings, SettingsType, BrakingStyles, Byte, Brake, Float, Hold
  <2> QED BY <1>8, <2>1, AdjustKeeps DEF NewMotor
<1> QED BY <1>1, <1>2, <1>3, <1>5, <1>6, <1>7, <1>8 DEF Next

\* VInv holds in every reachable state.
THEOREM DevicesInductive == Spec => []VInv
<1>1. Init => VInv
  BY CreateRight DEF Init, VInv, InStep
<1> QED BY <1>1, StepVInv, PTL DEF Spec

-----------------------------------------------------------------------------
(***************************************************************************)
(* Distances.                                                              *)
(***************************************************************************)
\* The offset keeps the order.
LEMMA OffsetOrder ==
  ASSUME NEW a \in Nat, NEW b \in Nat, a <= b
  PROVE  Offset(a) \in Nat /\ Offset(a) <= Offset(b)
BY DEF Offset

\* A distance in whole inches is right to a millimetre.
LEMMA WholeInches ==
  ASSUME NEW raw \in Nat
  PROVE  /\ DistanceMm(raw) \in Nat
         /\ raw = 0 => DistanceMm(raw) = 0
         /\ raw # 0 => WithinOne(DistanceMm(raw) + 20, raw, 254, 10)
<1> DEFINE x == (254 * raw) \div 10
<1>1. x \in Nat /\ 10 * x <= 254 * raw /\ 254 * raw < 10 * x + 10
  OBVIOUS
<1>2. DistanceMm(raw) = IF x > 20 THEN x - 20 ELSE 0
  BY DEF DistanceMm, Offset
<1> HIDE DEF x
<1>3. raw # 0 => DistanceMm(raw) = x - 20
  BY <1>1, <1>2
<1> QED BY <1>1, <1>2, <1>3 DEF WithinOne

\* What a division by a product is, without the division.
LEMMA DivisionBounds ==
  ASSUME NEW n \in Nat, NEW d \in Nat, d > 0
  PROVE  /\ n \div d \in Nat
         /\ (n \div d) * d <= n
         /\ \A x \in Nat : x * d <= n => x <= n \div d
<1> DEFINE q == n \div d
           r == n % d
<1>1. q \in Nat /\ r \in Nat /\ r < d /\ n = d * q + r
  OBVIOUS
<1> HIDE DEF q, r
<1>2. q * d <= n
  BY <1>1
<1>3. ASSUME NEW x \in Nat, x * d <= n PROVE x <= q
  <2>1. CASE x >= q + 1
    <3>1. x * d >= (q + 1) * d
      BY <1>1, <2>1
    <3>2. (q + 1) * d = d * q + d
      BY <1>1
    <3> QED BY <1>1, <1>3, <3>1, <3>2
  <2> QED BY <1>1, <2>1
<1> QED BY <1>1, <1>2, <1>3 DEF q

\* With a partial inch, the distance lies between those of the whole inches.
LEMMA PartialInches ==
  ASSUME NEW raw \in Nat, NEW partial \in Nat
  PROVE  /\ PartialMm(raw, partial) \in Nat
         /\ DistanceMm(raw) <= PartialMm(raw, partial)
         /\ PartialMm(raw, partial) <= DistanceMm(raw + 1)
         /\ partial = 0 => PartialMm(raw, partial) = DistanceMm(raw)
<1> DEFINE x == (127 * raw) \div 5
           z == (127 * (raw + 1)) \div 5
<1>1. (254 * raw) \div 10 = x /\ (254 * (raw + 1)) \div 10 = z
  OBVIOUS
<1>2. /\ x \in Nat /\ 5 * x <= 127 * raw
      /\ z \in Nat /\ 127 * raw + 127 < 5 * z + 5
      /\ x <= z
  OBVIOUS
<1>3. DistanceMm(raw) = Offset(x) /\ DistanceMm(raw + 1) = Offset(z)
  BY <1>1 DEF DistanceMm
<1>4. CASE partial = 0
  <2>1. PartialMm(raw, partial) = Offset(x)
    BY <1>4 DEF PartialMm
  <2> HIDE DEF x, z
  <2> QED BY <1>2, <1>3, <2>1, OffsetOrder
<1>5. CASE partial # 0
  <2> DEFINE n == 127 * (raw * partial + 1)
             d == 5 * partial
             y == n \div d
             less == IF raw = 17 /\ partial = 127 THEN 1 ELSE 0
  <2>1. PartialMm(raw, partial) = Offset(y - less)
    BY <1>5 DEF PartialMm
  <2>2. n \in Nat /\ d \in Nat /\ d > 0
    BY <1>5
  <2>3. n = 127 * (raw * partial) + 127 /\ d = 5 * partial
    BY <2>2
  <2>4. raw * partial \in Nat /\ x * d = 5 * x * partial /\ (z + 1) * d = (5 * z + 5) * partial
    BY <1>2, <2>3
  <2>5. 5 * x * partial <= 127 * raw * partial
    BY <1>2
  <2>6. (127 * raw + 127) * partial < (5 * z + 5) * partial
    BY <1>2, <1>5
  <2>7. 127 <= 127 * partial /\ (127 * raw + 127) * partial = 127 * (raw * partial) + 127 * partial
        /\ 127 * raw * partial = 127 * (raw * partial)
    BY <1>5
  <2> HIDE DEF n, d
  <2>8. y \in Nat /\ y * d <= n /\ \A k \in Nat : k * d <= n => k <= y
    BY <2>2, DivisionBounds
  <2>9. x * d <= n /\ n < (z + 1) * d
    BY <1>2, <1>5, <2>3, <2>4, <2>5, <2>6, <2>7
  <2>10. less = 0 => x <= y - less /\ y - less <= z
    <3>1. x <= y
      BY <1>2, <2>8, <2>9
    <3>2. CASE y >= z + 1
      <4> HIDE DEF y, z
      <4>1. y * d >= (z + 1) * d
        BY <1>2, <2>2, <2>8, <3>2
      <4>2. y * d \in Nat /\ (z + 1) * d \in Nat
        BY <1>2, <2>2, <2>8
      <4> QED BY <2>2, <2>8, <2>9, <4>1, <4>2
    <3> QED BY <1>2, <2>8, <3>1, <3>2
  <2>11. less # 0 => x <= y - less /\ y - less <= z
    <3>1. less # 0 => raw = 17 /\ partial = 127 /\ less = 1
      OBVIOUS
    <3>2. raw = 17 /\ partial = 127 => x = 431 /\ z = 457 /\ y = 432
      BY DEF n, d
    <3> QED BY <3>1, <3>2
  <2>12. y - less \in Nat /\ x <= y - less /\ y - less <= z
    BY <1>2, <2>8, <2>10, <2>11
  <2> HIDE DEF x, z, y, less
  <2> QED BY <1>2, <1>3, <1>5, <2>1, <2>12, OffsetOrder
<1> QED BY <1>4, <1>5

-----------------------------------------------------------------------------
(***************************************************************************)
(* The readings of a thing.                                                *)
(***************************************************************************)
\* A thing in a mode of which Devices knows no readings.
Unread(type, mode) ==
  /\ type = 37 => mode \notin {ColorMode, DistanceMode, ReflectMode, AmbientMode, ColorAndDistanceMode}
  /\ type \in TiltTypes => mode # 0
  /\ type \in TachoTypes \cup AbsoluteTypes => mode # 2
  /\ type \in AbsoluteTypes => mode # 3

\* The readings, one kind after the other.
LEMMA ReadingsAre ==
  ASSUME NEW type \in U16Type, NEW mode \in Byte, NEW r \in Readings(type, mode)
  PROVE  \/ type = 37 /\ mode = ColorMode /\ \E c \in Colors : r = Color(c)
         \/ type = 37 /\ mode = DistanceMode /\ \E b \in Bytes : r = Whole(b)
         \/ type = 37 /\ mode = ReflectMode /\ \E b \in Bytes : r = Reflect(b)
         \/ type = 37 /\ mode = AmbientMode /\ \E b \in Bytes : r = Ambient(b)
         \/ /\ type = 37 /\ mode = ColorAndDistanceMode
            /\ \E c \in {0, 10, NoColor}, i, p \in Bytes : r = Inches(c, i, p)
         \/ type = 35 /\ mode = 0 /\ \E n \in 0..510 : r = Centimetres(n)
         \/ type \in TiltTypes /\ mode = 0 /\ \E x, y \in Bytes : r = Tilt(I8(x), I8(y))
         \/ type \in {20, 21} /\ mode = 0 /\ \E n \in Raws : r = Count(n)
         \/ type = 55 /\ mode = 0 /\ \E b \in Bytes : r = RemoteButton(b)
         \/ /\ type \in TachoTypes \cup AbsoluteTypes /\ mode = 2
            /\ \E n \in Positions : r = MotorRotate(n)
         \/ /\ type \in AbsoluteTypes /\ mode = 3
            /\ \E lo, hi \in Bytes : r = MotorAngle(I16(lo, hi))
         \/ Unread(type, mode) /\ \E data \in Payloads : r = Opaque(data)
<1>1. /\ 37 \notin TiltTypes \cup TachoTypes \cup AbsoluteTypes
      /\ 35 \notin TiltTypes \cup TachoTypes \cup AbsoluteTypes
      /\ 20 \notin TiltTypes \cup TachoTypes \cup AbsoluteTypes
      /\ 21 \notin TiltTypes \cup TachoTypes \cup AbsoluteTypes
      /\ 55 \notin TiltTypes \cup TachoTypes \cup AbsoluteTypes
      /\ TiltTypes \cap (TachoTypes \cup AbsoluteTypes) = {}
  BY DEF TiltTypes, TachoTypes, AbsoluteTypes
<1>2. ColorMode = 0 /\ DistanceMode = 1 /\ ReflectMode = 3 /\ AmbientMode = 4 /\ ColorAndDistanceMode = 8
  BY DEF ColorMode, DistanceMode, ReflectMode, AmbientMode, ColorAndDistanceMode
<1>3. CASE type = 37 /\ mode \in {ColorMode, DistanceMode, ReflectMode, AmbientMode, ColorAndDistanceMode}
  BY <1>1, <1>2, <1>3 DEF Readings
<1>4. CASE mode = 0 /\ type \in {20, 21, 35, 55} \cup TiltTypes
  <2>1. CASE type = 35
    BY <1>1, <1>2, <1>4, <2>1 DEF Readings
  <2>2. CASE type \in {20, 21}
    BY <1>1, <1>2, <1>4, <2>2 DEF Readings
  <2>3. CASE type = 55
    BY <1>1, <1>2, <1>4, <2>3 DEF Readings
  <2>4. CASE type \in TiltTypes
    BY <1>1, <1>2, <1>4, <2>4 DEF Readings
  <2> QED BY <1>4, <2>1, <2>2, <2>3, <2>4
<1>5. CASE type \in TachoTypes \cup AbsoluteTypes /\ mode = 2
  BY <1>1, <1>2, <1>5 DEF Readings
<1>6. CASE type \in AbsoluteTypes /\ mode = 3
  BY <1>1, <1>2, <1>6 DEF Readings
<1>7. CASE /\ ~(type = 37 /\ mode \in {ColorMode, DistanceMode, ReflectMode, AmbientMode, ColorAndDistanceMode})
           /\ ~(mode = 0 /\ type \in {20, 21, 35, 55} \cup TiltTypes)
           /\ ~(type \in TachoTypes \cup AbsoluteTypes /\ mode = 2)
           /\ ~(type \in AbsoluteTypes /\ mode = 3)
  <2>1. Readings(type, mode) = {Opaque(data) : data \in Payloads}
    <3>1. /\ ~(type = 37 /\ mode = ColorMode)
          /\ ~(type = 37 /\ mode = DistanceMode)
          /\ ~(type = 37 /\ mode = ReflectMode)
          /\ ~(type = 37 /\ mode = AmbientMode)
          /\ ~(type = 37 /\ mode = ColorAndDistanceMode)
          /\ ~(type = 35 /\ mode = 0)
          /\ ~(type \in TiltTypes /\ mode = 0)
          /\ ~(type \in {20, 21} /\ mode = 0)
          /\ ~(type = 55 /\ mode = 0)
          /\ ~(type \in TachoTypes \cup AbsoluteTypes /\ mode = 2)
          /\ ~(type \in AbsoluteTypes /\ mode = 3)
      BY <1>7
    <3> QED BY <3>1 DEF Readings
  <2>2. Unread(type, mode)
    BY <1>7 DEF Unread
  <2> QED BY <2>1, <2>2
<1> QED BY <1>3, <1>4, <1>5, <1>6, <1>7

-----------------------------------------------------------------------------
(***************************************************************************)
(* The events.                                                             *)
(***************************************************************************)
\* Which decoder an object has.
LEMMA ReceiveIs ==
  ASSUME NEW d, NEW data
  PROVE  /\ d.kind = "ColorDistance" => Receive(d, data) = ColorDistanceReceive(d.mode, data)
         /\ d.kind = "Motion" => Receive(d, data) = MotionReceive(data)
         /\ d.kind = "Tilt" => Receive(d, data) = TiltReceive(d.mode, data)
         /\ d.kind = "Voltage" => Receive(d, data) = VoltageReceive(data)
         /\ d.kind = "Current" => Receive(d, data) = CurrentReceive(data)
         /\ d.kind = "RemoteButton" => Receive(d, data) = RemoteButtonReceive(data)
         /\ d.kind = "TachoMotor" => Receive(d, data) = TachoReceive(d.mode, data)
         /\ d.kind = "AbsoluteMotor" => Receive(d, data) = AbsoluteReceive(d.mode, data)
         /\ d.kind = "Generic" => Receive(d, data) = [kind |-> "Raw", mode |-> d.mode, data |-> data]
         /\ d.kind \in {"BasicMotor"} \cup LightKinds => Receive(d, data) = None
BY DEF Receive, LightKinds

\* What is to be shown of a reading.
Right(r) == EventOK(Event(r)) /\ Reported(r, Event(r)) /\ Close(r, Event(r))

\* No event is right for a missing colour.
LEMMA NoneRight ==
  ASSUME NEW r, Event(r) = None, Reported(r, None)
  PROVE  Right(r)
<1>1. EventOK(None)
  <2>1. None.kind = "None"
    BY DEF None
  <2> QED BY <2>1 DEF EventOK
<1>2. Close(r, None)
  BY DEF Close
<1> QED BY <1>1, <1>2 DEF Right

\* The object of a colour and distance sensor.
LEMMA ColorDistanceObject ==
  ASSUME VInv, thing.type = 37, NEW data
  PROVE  Receive(dev, data) = ColorDistanceReceive(thing.mode, data)
<1>1. thing.type \in U16Type
  BY DEF VInv
<1>2. dev.kind = "ColorDistance" /\ dev.mode = thing.mode
  BY <1>1, KindOf DEF VInv, InStep, ModalKinds
<1> QED BY <1>2, ReceiveIs

\* A colour is reported, a missing one is not.
LEMMA ColorRight ==
  ASSUME VInv, thing.type = 37, thing.mode = ColorMode, NEW c \in Colors
  PROVE  Right(Color(c))
<1> DEFINE r == Color(c)
           e == Event(r)
<1>1. r.kind = "Color" /\ r.color = c /\ Wire(r) = <<c>>
  BY DEF Color, Wire
<1>2. e = ColorDistanceReceive(ColorMode, <<c>>)
  BY <1>1, ColorDistanceObject DEF Event
<1>3. e = IF c <= 10 THEN r ELSE None
  BY <1>2 DEF ColorDistanceReceive, ColorMode, DistanceMode, ReflectMode, AmbientMode,
              ColorAndDistanceMode
<1> HIDE DEF r, e
<1>4. CASE c = NoColor
  <2>1. e = None
    BY <1>3, <1>4 DEF NoColor
  <2>2. Reported(r, None)
    BY <1>1, <1>4 DEF Reported
  <2> QED BY <2>1, <2>2, NoneRight DEF r, e
<1>5. CASE c # NoColor
  <2>1. e = r
    BY <1>3, <1>5 DEF Colors
  <2>2. EventOK(r)
    BY <1>1 DEF EventOK
  <2>3. Reported(r, r)
    BY <1>1, <1>5 DEF Reported
  <2>4. Close(r, r)
    BY <1>1 DEF Close, None
  <2> QED BY <2>1, <2>2, <2>3, <2>4 DEF Right, r, e
<1> QED BY <1>4, <1>5

\* A distance in whole inches.
LEMMA WholeRight ==
  ASSUME VInv, thing.type = 37, thing.mode = DistanceMode, NEW b \in Byte
  PROVE  Right(Whole(b))
<1> DEFINE r == Whole(b)
           e == Event(r)
<1>1. r.kind = "Whole" /\ r.inches = b /\ Wire(r) = <<b>>
  BY DEF Whole, Wire
<1>2. e = ColorDistanceReceive(DistanceMode, <<b>>)
  BY <1>1, ColorDistanceObject DEF Event
<1>3. e = IF b <= 10 THEN Distance(DistanceMm(b)) ELSE None
  BY <1>2 DEF ColorDistanceReceive, ColorMode, DistanceMode, ReflectMode, AmbientMode,
              ColorAndDistanceMode
<1>4. /\ b \in Nat /\ DistanceMm(b) \in Nat
      /\ b = 0 => DistanceMm(b) = 0
      /\ b # 0 => WithinOne(DistanceMm(b) + 20, b, 254, 10)
  BY WholeInches DEF Byte
<1> HIDE DEF r, e
<1>5. CASE b > 10
  <2>1. e = None
    BY <1>3, <1>4, <1>5
  <2>2. Reported(r, None)
    BY <1>1, <1>5 DEF Reported, None
  <2> QED BY <2>1, <2>2, NoneRight DEF r, e
<1>6. CASE ~(b > 10)
  <2>1. e = Distance(DistanceMm(b))
    BY <1>3, <1>4, <1>6
  <2>2. e.kind = "Distance" /\ e.mm = DistanceMm(b)
    BY <2>1 DEF Distance
  <2>3. EventOK(e)
    BY <1>4, <2>2 DEF EventOK
  <2>4. Reported(r, e)
    BY <1>1, <1>6, <2>2 DEF Reported
  <2>5. Close(r, e)
    BY <1>1, <1>4, <2>2 DEF Close
  <2> QED BY <2>3, <2>4, <2>5 DEF Right, r, e
<1> QED BY <1>5, <1>6

\* Reflected light and ambient light.
LEMMA LightRight ==
  ASSUME VInv, thing.type = 37, NEW b \in Byte
  PROVE  /\ thing.mode = ReflectMode => Right(Reflect(b))
         /\ thing.mode = AmbientMode => Right(Ambient(b))
<1>1. ASSUME thing.mode = ReflectMode PROVE Right(Reflect(b))
  <2> DEFINE r == Reflect(b)
  <2>1. r.kind = "Reflect" /\ r.percent = b /\ Wire(r) = <<b>>
    BY DEF Reflect, Wire
  <2>2. Event(r) = ColorDistanceReceive(ReflectMode, <<b>>)
    BY <1>1, <2>1, ColorDistanceObject DEF Event
  <2>3. Event(r) = r
    BY <2>2 DEF ColorDistanceReceive, ColorMode, DistanceMode, ReflectMode, AmbientMode,
                ColorAndDistanceMode
  <2> HIDE DEF r
  <2>4. EventOK(r) /\ Reported(r, r) /\ Close(r, r)
    BY <2>1 DEF EventOK, Reported, Close, None
  <2> QED BY <2>3, <2>4 DEF Right, r
<1>2. ASSUME thing.mode = AmbientMode PROVE Right(Ambient(b))
  <2> DEFINE r == Ambient(b)
  <2>1. r.kind = "Ambient" /\ r.percent = b /\ Wire(r) = <<b>>
    BY DEF Ambient, Wire
  <2>2. Event(r) = ColorDistanceReceive(AmbientMode, <<b>>)
    BY <1>2, <2>1, ColorDistanceObject DEF Event
  <2>3. Event(r) = r
    BY <2>2 DEF ColorDistanceReceive, ColorMode, DistanceMode, ReflectMode, AmbientMode,
                ColorAndDistanceMode
  <2> HIDE DEF r
  <2>4. EventOK(r) /\ Reported(r, r) /\ Close(r, r)
    BY <2>1 DEF EventOK, Reported, Close, None
  <2> QED BY <2>3, <2>4 DEF Right, r
<1> QED BY <1>1, <1>2

\* A colour and a distance with a partial inch.
LEMMA InchesRight ==
  ASSUME VInv, thing.type = 37, thing.mode = ColorAndDistanceMode,
         NEW c \in Colors, NEW i \in Byte, NEW p \in Byte
  PROVE  Right(Inches(c, i, p))
<1> DEFINE r == Inches(c, i, p)
           e == Event(r)
<1>1. /\ r.kind = "Inches" /\ r.color = c /\ r.inches = i /\ r.partial = p
      /\ Wire(r) = <<c, 0, i, p>>
  BY DEF Inches, Wire
<1>2. e = ColorDistanceReceive(ColorAndDistanceMode, <<c, 0, i, p>>)
  BY <1>1, ColorDistanceObject DEF Event
<1>3. e = IF c <= 10 THEN ColorAndDistance(c, PartialMm(i, p)) ELSE None
  <2> DEFINE d == <<c, 0, i, p>>
  <2>1. Len(d) = 4 /\ d[1] = c /\ d[3] = i /\ d[4] = p
    OBVIOUS
  <2> HIDE DEF d
  <2>2. ColorDistanceReceive(ColorAndDistanceMode, d)
          = IF c <= 10 THEN ColorAndDistance(c, PartialMm(i, p)) ELSE None
    BY <2>1 DEF ColorDistanceReceive, ColorMode, DistanceMode, ReflectMode, AmbientMode,
                ColorAndDistanceMode
  <2> QED BY <1>2, <2>2 DEF d
<1>4. /\ PartialMm(i, p) \in Nat
      /\ DistanceMm(i) <= PartialMm(i, p)
      /\ PartialMm(i, p) <= DistanceMm(i + 1)
      /\ p = 0 => PartialMm(i, p) = DistanceMm(i)
  <2>1. i \in Nat /\ p \in Nat
    BY DEF Byte
  <2> QED BY <2>1, PartialInches
<1> HIDE DEF r, e
<1>5. CASE c = NoColor
  <2>1. e = None
    BY <1>3, <1>5 DEF NoColor
  <2>2. Reported(r, None)
    BY <1>1, <1>5 DEF Reported
  <2> QED BY <2>1, <2>2, NoneRight DEF r, e
<1>6. CASE c # NoColor
  <2>1. e = ColorAndDistance(c, PartialMm(i, p))
    BY <1>3, <1>6 DEF Colors
  <2>2. e.kind = "ColorAndDistance" /\ e.color = c /\ e.mm = PartialMm(i, p)
    BY <2>1 DEF ColorAndDistance
  <2>3. EventOK(e)
    BY <1>4, <2>2 DEF EventOK
  <2>4. Reported(r, e)
    BY <1>1, <1>6, <2>2 DEF Reported
  <2>5. Close(r, e)
    BY <1>1, <1>4, <2>2 DEF Close
  <2> QED BY <2>3, <2>4, <2>5 DEF Right, r, e
<1> QED BY <1>5, <1>6

\* A distance in centimetres.
LEMMA CentimetresRight ==
  ASSUME VInv, thing.type = 35, NEW n \in 0..510
  PROVE  Right(Centimetres(n))
<1> DEFINE r == Centimetres(n)
           e == Event(r)
<1>1. /\ r.kind = "Centimetres" /\ r.n = n
      /\ Wire(r) = IF n > 255 THEN <<n - 255, 1>> ELSE <<n, 0>>
  BY DEF Centimetres, Wire
<1>2. thing.type \in U16Type
  BY DEF VInv
<1>3. dev.kind = "Motion"
  BY <1>2, KindOf DEF VInv, InStep
<1>4. e = MotionReceive(Wire(r))
  BY <1>3, ReceiveIs DEF Event
<1>5. e = Distance(10 * n)
  BY <1>1, <1>4 DEF MotionReceive
<1>6. e.kind = "Distance" /\ e.mm = 10 * n
  BY <1>5 DEF Distance
<1> HIDE DEF r, e
<1>7. EventOK(e)
  BY <1>6 DEF EventOK
<1>8. Reported(r, e)
  BY <1>1, <1>5 DEF Reported
<1>9. Close(r, e)
  BY <1>1 DEF Close
<1> QED BY <1>7, <1>8, <1>9 DEF Right, r, e

\* An inclination, sign and all.
LEMMA TiltRight ==
  ASSUME VInv, thing.type \in TiltTypes, thing.mode = 0, NEW x \in Byte, NEW y \in Byte
  PROVE  Right(Tilt(I8(x), I8(y)))
<1> DEFINE r == Tilt(I8(x), I8(y))
           e == Event(r)
<1>1. /\ I8(x) \in -128..127 /\ I8(y) \in -128..127
      /\ I8Byte(I8(x)) = x /\ I8Byte(I8(y)) = y
  BY I8Back
<1>2. r.kind = "Tilt" /\ r.x = I8(x) /\ r.y = I8(y) /\ Wire(r) = <<x, y>>
  BY <1>1 DEF Tilt, Wire
<1>3. thing.type \in U16Type
  BY DEF VInv
<1>4. dev.kind = "Tilt" /\ dev.mode = 0
  BY <1>3, KindOf DEF VInv, InStep, ModalKinds
<1>5. e = TiltReceive(0, <<x, y>>)
  BY <1>2, <1>4, ReceiveIs DEF Event
<1>6. e = r
  BY <1>5 DEF TiltReceive
<1> HIDE DEF r, e
<1>7. EventOK(r) /\ Reported(r, r) /\ Close(r, r)
  BY <1>1, <1>2 DEF EventOK, Reported, Close, None
<1> QED BY <1>6, <1>7 DEF Right, r, e

\* A voltage or a current is off by one at most.
LEMMA CountRight ==
  ASSUME VInv, thing.type \in {20, 21}, NEW n \in U16Type
  PROVE  Right(Count(n))
<1> DEFINE r == Count(n)
           e == Event(r)
           lo == U16Bytes(n)[1]
           hi == U16Bytes(n)[2]
<1>1. r.kind = "Count" /\ r.n = n /\ Wire(r) = U16Bytes(n)
  BY DEF Count, Wire
<1>2. U16Bytes(n) = <<lo, hi>> /\ U16(lo, hi) = n
  BY U16Back
<1>3. thing.type \in U16Type
  BY DEF VInv
<1>4. /\ Scaled(n, 9615, 3893) \in Nat
      /\ Scaled(n, 2444, 4095) \in Nat
      /\ WithinOne(Scaled(n, 9615, 3893), n, 9615, 3893)
      /\ WithinOne(Scaled(n, 2444, 4095), n, 2444, 4095)
  BY ScaledClose
<1> HIDE DEF lo, hi
<1>5. CASE thing.type = 20
  <2>1. dev.kind = "Voltage"
    BY <1>3, <1>5, KindOf DEF VInv, InStep
  <2>2. e = VoltageReceive(<<lo, hi>>)
    BY <1>1, <1>2, <2>1, ReceiveIs DEF Event
  <2>3. e = Voltage(Scaled(n, 9615, 3893))
    BY <1>2, <2>2 DEF VoltageReceive
  <2>4. e.kind = "Voltage" /\ e.mv = Scaled(n, 9615, 3893)
    BY <2>3 DEF Voltage
  <2> HIDE DEF r, e
  <2>5. EventOK(e)
    BY <1>4, <2>4 DEF EventOK
  <2>6. Reported(r, e)
    BY <1>1, <1>5, <2>4 DEF Reported
  <2>7. Close(r, e)
    BY <1>1, <1>4, <2>4 DEF Close
  <2> QED BY <2>5, <2>6, <2>7 DEF Right, r, e
<1>6. CASE thing.type = 21
  <2>1. dev.kind = "Current"
    BY <1>3, <1>6, KindOf DEF VInv, InStep
  <2>2. e = CurrentReceive(<<lo, hi>>)
    BY <1>1, <1>2, <2>1, ReceiveIs DEF Event
  <2>3. e = Current(Scaled(n, 2444, 4095))
    BY <1>2, <2>2 DEF CurrentReceive
  <2>4. e.kind = "Current" /\ e.ma = Scaled(n, 2444, 4095)
    BY <2>3 DEF Current
  <2> HIDE DEF r, e
  <2>5. EventOK(e)
    BY <1>4, <2>4 DEF EventOK
  <2>6. Reported(r, e)
    BY <1>1, <1>6, <2>4 DEF Reported
  <2>7. Close(r, e)
    BY <1>1, <1>4, <2>4 DEF Close
  <2> QED BY <2>5, <2>6, <2>7 DEF Right, r, e
<1> QED BY <1>5, <1>6

\* The buttons of a remote control.
LEMMA RemoteButtonRight ==
  ASSUME VInv, thing.type = 55, NEW b \in Byte
  PROVE  Right(RemoteButton(b))
<1> DEFINE r == RemoteButton(b)
           e == Event(r)
<1>1. r.kind = "RemoteButton" /\ r.state = b /\ Wire(r) = <<b>>
  BY DEF RemoteButton, Wire
<1>2. thing.type \in U16Type
  BY DEF VInv
<1>3. dev.kind = "RemoteButton"
  BY <1>2, KindOf DEF VInv, InStep
<1>4. e = RemoteButtonReceive(<<b>>)
  BY <1>1, <1>3, ReceiveIs DEF Event
<1>5. e = r
  BY <1>4 DEF RemoteButtonReceive
<1> HIDE DEF r, e
<1>6. EventOK(r) /\ Reported(r, r) /\ Close(r, r)
  BY <1>1 DEF EventOK, Reported, Close, None
<1> QED BY <1>5, <1>6 DEF Right, r, e

\* The position of a motor, of 32 bits and signed.
LEMMA RotateRight ==
  ASSUME VInv, thing.type \in TachoTypes \cup AbsoluteTypes, thing.mode = 2, NEW n \in I32Type
  PROVE  Right(MotorRotate(n))
<1> DEFINE r == MotorRotate(n)
           e == Event(r)
           b == I32Bytes(n)
<1>1. r.kind = "MotorRotate" /\ r.degrees = n /\ Wire(r) = b
  BY DEF MotorRotate, Wire
<1>2. b = <<b[1], b[2], b[3], b[4]>> /\ I32(b) = n
  BY I32Back
<1>3. Len(b) = 4
  BY <1>2
<1>4. thing.type \in U16Type
  BY DEF VInv
<1> HIDE DEF b
<1>5. \/ dev.kind = "TachoMotor" /\ dev.mode = 2
      \/ dev.kind = "AbsoluteMotor" /\ dev.mode = 2
  BY <1>4, KindOf DEF VInv, InStep, ModalKinds
<1>6. e = TachoReceive(2, b) \/ e = AbsoluteReceive(2, b)
  BY <1>1, <1>5, ReceiveIs DEF Event
<1>7. e = r
  BY <1>2, <1>3, <1>6 DEF TachoReceive, AbsoluteReceive
<1> HIDE DEF r, e
<1>8. EventOK(r) /\ Reported(r, r) /\ Close(r, r)
  BY <1>1 DEF EventOK, Reported, Close, None
<1> QED BY <1>7, <1>8 DEF Right, r, e

\* The angle of a motor, of 16 bits and signed.
LEMMA AngleRight ==
  ASSUME VInv, thing.type \in AbsoluteTypes, thing.mode = 3, NEW lo \in Byte, NEW hi \in Byte
  PROVE  Right(MotorAngle(I16(lo, hi)))
<1> DEFINE r == MotorAngle(I16(lo, hi))
           e == Event(r)
<1>1. I16(lo, hi) \in I16Type /\ I16Bytes(I16(lo, hi)) = <<lo, hi>>
  BY I16Is
<1>2. r.kind = "MotorAngle" /\ r.angle = I16(lo, hi) /\ Wire(r) = <<lo, hi>>
  BY <1>1 DEF MotorAngle, Wire
<1>3. thing.type \in U16Type
  BY DEF VInv
<1>4. dev.kind = "AbsoluteMotor" /\ dev.mode = 3
  BY <1>3, KindOf DEF VInv, InStep, ModalKinds
<1>5. e = AbsoluteReceive(3, <<lo, hi>>)
  BY <1>2, <1>4, ReceiveIs DEF Event
<1>6. e = r
  BY <1>5 DEF AbsoluteReceive
<1> HIDE DEF r, e
<1>7. EventOK(r) /\ Reported(r, r) /\ Close(r, r)
  BY <1>1, <1>2 DEF EventOK, Reported, Close, None
<1> QED BY <1>6, <1>7 DEF Right, r, e

\* What payloads are.
LEMMA PayloadsAre ==
  ASSUME NEW data \in Payloads
  PROVE  /\ data \in Seq(Byte)
         /\ Len(data) = 0 \/ Len(data) = 4
<1>1. \A b \in Bytes : b \in Byte
  BY DevicesAssumption
<1>2. 1 \in Byte /\ 2 \in Byte /\ 3 \in Byte
  BY DEF Byte
<1>3. CASE data = <<>>
  BY <1>3
<1>4. ASSUME NEW b \in Bytes, data = <<b, 1, 2, 3>> PROVE data \in Seq(Byte) /\ Len(data) = 4
  BY <1>1, <1>2, <1>4
<1> QED BY <1>3, <1>4 DEF Payloads

\* What is plugged in, for an object that looks at the mode or is a light.
LEMMA TypeOf ==
  ASSUME NEW type \in U16Type
  PROVE  /\ Kind(type) = "ColorDistance" => type = 37
         /\ Kind(type) = "Tilt" => type \in TiltTypes
         /\ Kind(type) = "TachoMotor" => type \in TachoTypes
         /\ Kind(type) = "AbsoluteMotor" => type \in AbsoluteTypes
         /\ Kind(type) = "HubLed" => type = 23
         /\ Kind(type) = "Light" => type = 8
         /\ Kind(type) = "PiezoBuzzer" => type = 22
         /\ Kind(type) = "ColorLightMatrix" => type = 64
BY KindOf

\* An object that looks at the mode is silent in one it cannot decode.
LEMMA SilentIfModal ==
  ASSUME VInv, Unread(thing.type, thing.mode), NEW data,
         dev.kind \in ModalKinds \cup LightKinds, dev.kind # "Generic"
  PROVE  Receive(dev, data) = None
<1>1. /\ dev.kind = "ColorDistance" => thing.type = 37
      /\ dev.kind = "Tilt" => thing.type \in TiltTypes
      /\ dev.kind = "TachoMotor" => thing.type \in TachoTypes
      /\ dev.kind = "AbsoluteMotor" => thing.type \in AbsoluteTypes
  <2>1. thing.type \in U16Type /\ dev.kind = Kind(thing.type)
    BY DEF VInv, InStep
  <2> QED BY <2>1, TypeOf, Zenon
<1>2. CASE dev.kind = "ColorDistance"
  <2>1. thing.type = 37
    BY <1>1, <1>2 DEF VInv, InStep
  <2>2. Receive(dev, data) = ColorDistanceReceive(thing.mode, data)
    BY <2>1, ColorDistanceObject
  <2> QED BY <2>1, <2>2 DEF Unread, ColorDistanceReceive
<1>3. CASE dev.kind = "Tilt"
  <2>1. thing.type \in TiltTypes /\ dev.mode = thing.mode
    BY <1>1, <1>3 DEF VInv, InStep, ModalKinds
  <2>2. Receive(dev, data) = TiltReceive(thing.mode, data)
    BY <1>3, <2>1, ReceiveIs
  <2> QED BY <2>1, <2>2 DEF Unread, TiltReceive
<1>4. CASE dev.kind = "TachoMotor"
  <2>1. thing.type \in TachoTypes /\ dev.mode = thing.mode
    BY <1>1, <1>4 DEF VInv, InStep, ModalKinds
  <2>2. Receive(dev, data) = TachoReceive(thing.mode, data)
    BY <1>4, <2>1, ReceiveIs
  <2> QED BY <2>1, <2>2 DEF Unread, TachoReceive
<1>5. CASE dev.kind = "AbsoluteMotor"
  <2>1. thing.type \in AbsoluteTypes /\ dev.mode = thing.mode
    BY <1>1, <1>5 DEF VInv, InStep, ModalKinds
  <2>2. Receive(dev, data) = AbsoluteReceive(thing.mode, data)
    BY <1>5, <2>1, ReceiveIs
  <2> QED BY <2>1, <2>2 DEF Unread, AbsoluteReceive
<1>6. CASE dev.kind \in LightKinds
  BY <1>6, ReceiveIs
<1> QED BY <1>2, <1>3, <1>4, <1>5, <1>6 DEF ModalKinds

\* The sensors that do not look at the mode say something of a kind of theirs.
LEMMA SaidAnyway ==
  ASSUME NEW data \in Seq(Byte), Len(data) = 0 \/ Len(data) = 4
  PROVE  /\ EventOK(MotionReceive(data))
         /\ EventOK(VoltageReceive(data))
         /\ EventOK(CurrentReceive(data))
         /\ EventOK(RemoteButtonReceive(data))
<1>1. EventOK(None)
  <2>1. None.kind = "None"
    BY DEF None
  <2> QED BY <2>1 DEF EventOK
<1>2. CASE Len(data) = 0
  BY <1>1, <1>2 DEF MotionReceive, VoltageReceive, CurrentReceive, RemoteButtonReceive
<1>3. CASE Len(data) = 4
  <2>1. data[1] \in Byte /\ data[2] \in Byte
    BY <1>3
  <2>2. (data[1] + data[2] * 255) * 10 \in Nat
    <3>1. Byte \subseteq Nat
      BY DEF Byte
    <3>2. data[1] \in Nat /\ data[2] \in Nat
      BY <2>1, <3>1
    <3> QED BY <3>2
  <2>3. U16(data[1], data[2]) \in U16Type
    BY <2>1, U16Is
  <2>4. /\ Scaled(U16(data[1], data[2]), 9615, 3893) \in Nat
        /\ Scaled(U16(data[1], data[2]), 2444, 4095) \in Nat
    BY <2>3, ScaledClose
  <2>5. ASSUME NEW n \in Nat
        PROVE  EventOK(Distance(n)) /\ EventOK(Voltage(n)) /\ EventOK(Current(n))
    BY DEF EventOK, Distance, Voltage, Current
  <2>6. ASSUME NEW b \in Byte
        PROVE  EventOK(RemoteButton(b))
    BY DEF EventOK, RemoteButton
  <2>7. EventOK(MotionReceive(data))
    BY <1>3, <2>2, <2>5 DEF MotionReceive
  <2>8. EventOK(VoltageReceive(data))
    BY <1>3, <2>4, <2>5 DEF VoltageReceive
  <2>9. EventOK(CurrentReceive(data))
    BY <1>3, <2>4, <2>5 DEF CurrentReceive
  <2>10. EventOK(RemoteButtonReceive(data))
    BY <1>3, <2>1, <2>6 DEF RemoteButtonReceive
  <2> QED BY <2>7, <2>8, <2>9, <2>10
<1> QED BY <1>2, <1>3

\* What the object does not know is passed on, and the rest is not made up.
LEMMA OpaqueRight ==
  ASSUME VInv, Unread(thing.type, thing.mode), NEW data \in Payloads
  PROVE  Right(Opaque(data))
<1> DEFINE r == Opaque(data)
           e == Event(r)
<1>1. r.kind = "Opaque" /\ r.data = data /\ Wire(r) = data
  BY DEF Opaque, Wire
<1>2. data \in Seq(Byte) /\ (Len(data) = 0 \/ Len(data) = 4)
  BY PayloadsAre
<1>3. e = Receive(dev, data)
  BY <1>1 DEF Event
<1>4. EventOK(None)
  <2>1. None.kind = "None"
    BY DEF None
  <2> QED BY <2>1 DEF EventOK
<1>5. dev.kind \in SensorKinds \cup MotorKinds \cup LightKinds \cup {"Generic"}
  BY DEF VInv, DeviceType
<1> HIDE DEF r, e
<1>6. Close(r, e)
  BY <1>1 DEF Close
<1>7. CASE dev.kind = "Generic"
  <2>1. dev.mode = thing.mode /\ thing.mode \in Byte
    BY <1>7 DEF VInv, InStep, ModalKinds
  <2>2. e = [kind |-> "Raw", mode |-> thing.mode, data |-> data]
    BY <1>3, <1>7, <2>1, ReceiveIs
  <2>3. e.kind = "Raw" /\ e.mode = thing.mode /\ e.data = data
    BY <2>2
  <2>4. EventOK(e)
    BY <1>2, <2>1, <2>3 DEF EventOK
  <2>5. Reported(r, e)
    BY <1>1, <1>7, <2>2 DEF Reported
  <2> QED BY <1>6, <2>4, <2>5 DEF Right, r, e
<1>8. CASE dev.kind \in ModalKinds \cup LightKinds /\ dev.kind # "Generic"
  <2>1. e = None
    BY <1>3, <1>8, SilentIfModal
  <2>2. Reported(r, e)
    BY <1>1, <1>8, <2>1 DEF Reported
  <2> QED BY <1>4, <1>6, <2>1, <2>2 DEF Right, r, e
<1>9. CASE dev.kind \notin ModalKinds \cup LightKinds
  <2>1. dev.kind # "Generic"
    BY <1>9 DEF ModalKinds
  <2>2. Reported(r, e)
    BY <1>1, <1>9, <2>1 DEF Reported
  <2>3. dev.kind \in {"Motion", "Voltage", "Current", "RemoteButton", "BasicMotor"}
    BY <1>5, <1>9 DEF SensorKinds, MotorKinds, ModalKinds
  <2>4. \/ e = MotionReceive(data) \/ e = VoltageReceive(data) \/ e = CurrentReceive(data)
        \/ e = RemoteButtonReceive(data) \/ e = None
    BY <1>3, <2>3, ReceiveIs
  <2>5. EventOK(e)
    BY <1>2, <1>4, <2>4, SaidAnyway
  <2> QED BY <1>6, <2>2, <2>5 DEF Right, r, e
<1> QED BY <1>7, <1>8, <1>9

\* Every reading.
LEMMA EveryReadingRight ==
  ASSUME VInv, NEW r \in Measured
  PROVE  Right(r)
<1>1. /\ thing.type \in U16Type /\ thing.mode \in Byte /\ r \in Readings(thing.type, thing.mode)
  BY DEF VInv, Measured
<1>2. /\ Bytes \subseteq Byte /\ Raws \subseteq U16Type /\ Positions \subseteq I32Type
      /\ 0 \in Colors /\ 10 \in Colors /\ NoColor \in Colors
  BY DevicesAssumption DEF Colors, NoColor
<1>3. CASE thing.type = 37 /\ thing.mode = ColorMode /\ \E c \in Colors : r = Color(c)
  BY <1>3, ColorRight
<1>4. CASE thing.type = 37 /\ thing.mode = DistanceMode /\ \E b \in Bytes : r = Whole(b)
  BY <1>2, <1>4, WholeRight
<1>5. CASE thing.type = 37 /\ thing.mode = ReflectMode /\ \E b \in Bytes : r = Reflect(b)
  BY <1>2, <1>5, LightRight
<1>6. CASE thing.type = 37 /\ thing.mode = AmbientMode /\ \E b \in Bytes : r = Ambient(b)
  BY <1>2, <1>6, LightRight
<1>7. CASE /\ thing.type = 37 /\ thing.mode = ColorAndDistanceMode
           /\ \E c \in {0, 10, NoColor}, i, p \in Bytes : r = Inches(c, i, p)
  BY <1>2, <1>7, InchesRight
<1>8. CASE thing.type = 35 /\ thing.mode = 0 /\ \E n \in 0..510 : r = Centimetres(n)
  BY <1>8, CentimetresRight
<1>9. CASE thing.type \in TiltTypes /\ thing.mode = 0 /\ \E x, y \in Bytes : r = Tilt(I8(x), I8(y))
  BY <1>2, <1>9, TiltRight
<1>10. CASE thing.type \in {20, 21} /\ thing.mode = 0 /\ \E n \in Raws : r = Count(n)
  BY <1>2, <1>10, CountRight
<1>11. CASE thing.type = 55 /\ thing.mode = 0 /\ \E b \in Bytes : r = RemoteButton(b)
  BY <1>2, <1>11, RemoteButtonRight
<1>12. CASE /\ thing.type \in TachoTypes \cup AbsoluteTypes /\ thing.mode = 2
            /\ \E n \in Positions : r = MotorRotate(n)
  BY <1>2, <1>12, RotateRight
<1>13. CASE /\ thing.type \in AbsoluteTypes /\ thing.mode = 3
            /\ \E lo, hi \in Bytes : r = MotorAngle(I16(lo, hi))
  BY <1>2, <1>13, AngleRight
<1>14. CASE Unread(thing.type, thing.mode) /\ \E data \in Payloads : r = Opaque(data)
  BY <1>14, OpaqueRight
<1> QED BY <1>1, <1>3, <1>4, <1>5, <1>6, <1>7, <1>8, <1>9, <1>10, <1>11, <1>12, <1>13, <1>14,
           ReadingsAre

-----------------------------------------------------------------------------
(***************************************************************************)
(* The bytes of an order.                                                  *)
(***************************************************************************)
\* What concatenation does.
LEMMA Glue ==
  ASSUME NEW s \in Seq(Byte), NEW t \in Seq(Byte)
  PROVE  /\ s \o t \in Seq(Byte)
         /\ Len(s \o t) = Len(s) + Len(t)
         /\ \A i \in 1..Len(s) : (s \o t)[i] = s[i]
         /\ \A i \in 1..Len(t) : (s \o t)[Len(s) + i] = t[i]
<1>1. /\ s \o t \in Seq(Byte)
      /\ Len(s \o t) = Len(s) + Len(t)
      /\ \A i \in 1..Len(s) + Len(t) : (s \o t)[i] = IF i <= Len(s) THEN s[i] ELSE t[i - Len(s)]
  BY ConcatProperties
<1>2. Len(s) \in Nat /\ Len(t) \in Nat
  OBVIOUS
<1>3. ASSUME NEW i \in 1..Len(s) PROVE (s \o t)[i] = s[i]
  BY <1>1, <1>2
<1>4. ASSUME NEW i \in 1..Len(t) PROVE (s \o t)[Len(s) + i] = t[i]
  <2>1. Len(s) + i \in 1..Len(s) + Len(t) /\ ~(Len(s) + i <= Len(s)) /\ Len(s) + i - Len(s) = i
    BY <1>2
  <2> QED BY <1>1, <2>1
<1> QED BY <1>1, <1>3, <1>4

\* What an opcode before other bytes does.
LEMMA Led ==
  ASSUME NEW op \in Byte, NEW t \in Seq(Byte)
  PROVE  /\ <<op>> \o t \in Seq(Byte)
         /\ Len(<<op>> \o t) = 1 + Len(t)
         /\ (<<op>> \o t)[1] = op
         /\ \A i \in 1..Len(t) : (<<op>> \o t)[1 + i] = t[i]
<1> DEFINE s == <<op>>
<1>1. s \in Seq(Byte) /\ Len(s) = 1 /\ s[1] = op
  OBVIOUS
<1> HIDE DEF s
<1>2. /\ s \o t \in Seq(Byte)
      /\ Len(s \o t) = Len(s) + Len(t)
      /\ \A i \in 1..Len(s) : (s \o t)[i] = s[i]
      /\ \A i \in 1..Len(t) : (s \o t)[Len(s) + i] = t[i]
  BY <1>1, Glue
<1>3. 1 \in 1..1
  OBVIOUS
<1>4. (s \o t)[1] = op
  BY <1>1, <1>2, <1>3
<1>5. \A i \in 1..Len(t) : (s \o t)[1 + i] = t[i]
  BY <1>1, <1>2
<1> QED BY <1>1, <1>2, <1>4, <1>5 DEF s

\* The bytes of a u16 are bytes.
LEMMA U16Seq ==
  ASSUME NEW n \in U16Type
  PROVE  /\ U16Bytes(n) \in Seq(Byte) /\ Len(U16Bytes(n)) = 2
         /\ U16(U16Bytes(n)[1], U16Bytes(n)[2]) = n
<1> DEFINE lo == U16Bytes(n)[1]
           hi == U16Bytes(n)[2]
<1>1. U16Bytes(n) = <<lo, hi>> /\ lo \in Byte /\ hi \in Byte /\ U16(lo, hi) = n
  BY U16Back
<1> HIDE DEF lo, hi
<1>2. <<lo, hi>> \in Seq(Byte) /\ Len(<<lo, hi>>) = 2
  BY <1>1
<1> QED BY <1>1, <1>2 DEF lo, hi

\* The bytes of an i32 are bytes.
LEMMA I32Seq ==
  ASSUME NEW n \in I32Type
  PROVE  I32Bytes(n) \in Seq(Byte) /\ Len(I32Bytes(n)) = 4 /\ I32(I32Bytes(n)) = n
<1> DEFINE b == I32Bytes(n)
<1>1. b = <<b[1], b[2], b[3], b[4]>> /\ (\A i \in 1..4 : b[i] \in Byte) /\ I32(b) = n
  BY I32Back
<1> HIDE DEF b
<1>2. b[1] \in Byte /\ b[2] \in Byte /\ b[3] \in Byte /\ b[4] \in Byte
  BY <1>1
<1>3. <<b[1], b[2], b[3], b[4]>> \in Seq(Byte) /\ Len(<<b[1], b[2], b[3], b[4]>>) = 4
  BY <1>2
<1> QED BY <1>1, <1>3 DEF b

\* An opcode, a u16 and what follows.
Short(op, n, rest) == <<op>> \o U16Bytes(n) \o rest

\* They are read back from their places.
LEMMA WithU16 ==
  ASSUME NEW op \in Byte, NEW n \in U16Type, NEW rest \in Seq(Byte)
  PROVE  /\ Short(op, n, rest) \in Seq(Byte) /\ Len(Short(op, n, rest)) = 3 + Len(rest)
         /\ Short(op, n, rest)[1] = op
         /\ U16(Short(op, n, rest)[2], Short(op, n, rest)[3]) = n
         /\ \A i \in 1..Len(rest) : Short(op, n, rest)[3 + i] = rest[i]
<1> DEFINE u == U16Bytes(n)
           h == <<op>> \o u
           b == Short(op, n, rest)
<1>1. u \in Seq(Byte) /\ Len(u) = 2 /\ U16(u[1], u[2]) = n
  BY U16Seq
<1> HIDE DEF u
<1>2. /\ h \in Seq(Byte) /\ Len(h) = 1 + Len(u) /\ h[1] = op
      /\ \A i \in 1..Len(u) : h[1 + i] = u[i]
  BY <1>1, Led
<1> HIDE DEF h
<1>3. Len(h) = 3 /\ h[2] = u[1] /\ h[3] = u[2]
  BY <1>1, <1>2
<1>4. b = h \o rest
  BY DEF h, u, Short
<1> HIDE DEF b
<1>5. /\ b \in Seq(Byte) /\ Len(b) = Len(h) + Len(rest)
      /\ \A i \in 1..Len(h) : b[i] = h[i]
      /\ \A i \in 1..Len(rest) : b[Len(h) + i] = rest[i]
  <2>1. h \in Seq(Byte)
    BY <1>2
  <2>2. /\ h \o rest \in Seq(Byte)
        /\ Len(h \o rest) = Len(h) + Len(rest)
        /\ \A i \in 1..Len(h) : (h \o rest)[i] = h[i]
        /\ \A i \in 1..Len(rest) : (h \o rest)[Len(h) + i] = rest[i]
    BY <2>1, Glue, Zenon
  <2> QED BY <1>4, <2>2
<1>6. Len(b) = 3 + Len(rest) /\ b[1] = op /\ b[2] = u[1] /\ b[3] = u[2]
  <2>1. 1 \in 1..3 /\ 2 \in 1..3 /\ 3 \in 1..3
    OBVIOUS
  <2>2. b[1] = h[1] /\ b[2] = h[2] /\ b[3] = h[3]
    BY <1>3, <1>5, <2>1
  <2>3. Len(b) = 3 + Len(rest)
    BY <1>3, <1>5
  <2> QED BY <1>2, <1>3, <2>2, <2>3
<1>7. \A i \in 1..Len(rest) : b[3 + i] = rest[i]
  BY <1>3, <1>5
<1> QED BY <1>1, <1>5, <1>6, <1>7 DEF b

\* The bytes of a u32 are bytes.
LEMMA U32Seq ==
  ASSUME NEW n \in U32Type
  PROVE  U32Bytes(n) \in Seq(Byte) /\ Len(U32Bytes(n)) = 4 /\ U32(U32Bytes(n)) = n
<1> DEFINE l == U16Bytes(n[1])
           h == U16Bytes(n[2])
           b == U32Bytes(n)
<1>1. n[1] \in U16Type /\ n[2] \in U16Type /\ n = <<n[1], n[2]>>
  BY DEF U32Type
<1>2. l \in Seq(Byte) /\ Len(l) = 2 /\ U16(l[1], l[2]) = n[1]
  BY <1>1, U16Seq
<1>3. h \in Seq(Byte) /\ Len(h) = 2 /\ U16(h[1], h[2]) = n[2]
  BY <1>1, U16Seq
<1>4. b = l \o h
  BY DEF U32Bytes
<1> HIDE DEF l, h, b
<1>5. b \in Seq(Byte) /\ Len(b) = 4 /\ b[1] = l[1] /\ b[2] = l[2] /\ b[3] = h[1] /\ b[4] = h[2]
  <2>1. /\ l \o h \in Seq(Byte) /\ Len(l \o h) = Len(l) + Len(h)
        /\ \A i \in 1..Len(l) : (l \o h)[i] = l[i]
        /\ \A i \in 1..Len(h) : (l \o h)[Len(l) + i] = h[i]
    BY <1>2, <1>3, Glue
  <2>2. 1 \in 1..2 /\ 2 \in 1..2 /\ 2 + 1 = 3 /\ 2 + 2 = 4
    OBVIOUS
  <2> QED BY <1>2, <1>3, <1>4, <2>1, <2>2
<1>6. U32(b) = <<n[1], n[2]>>
  BY <1>2, <1>3, <1>5 DEF U32
<1> QED BY <1>1, <1>5, <1>6 DEF b

\* An opcode, four bytes and what follows.
Long(op, four, rest) == <<op>> \o four \o rest

\* They are read back from their places.
LEMMA WithFour ==
  ASSUME NEW op \in Byte, NEW u \in Seq(Byte), Len(u) = 4, NEW rest \in Seq(Byte)
  PROVE  /\ Long(op, u, rest) \in Seq(Byte) /\ Len(Long(op, u, rest)) = 5 + Len(rest)
         /\ Long(op, u, rest)[1] = op
         /\ I32(SubSeq(Long(op, u, rest), 2, 5)) = I32(u)
         /\ U32(SubSeq(Long(op, u, rest), 2, 5)) = U32(u)
         /\ \A i \in 1..Len(rest) : Long(op, u, rest)[5 + i] = rest[i]
<1> DEFINE h == <<op>> \o u
           b == Long(op, u, rest)
           m == SubSeq(b, 2, 5)
<1>1. u \in Seq(Byte) /\ Len(u) = 4
  OBVIOUS
<1>2. /\ h \in Seq(Byte) /\ Len(h) = 1 + Len(u) /\ h[1] = op
      /\ \A i \in 1..Len(u) : h[1 + i] = u[i]
  BY <1>1, Led
<1> HIDE DEF h
<1>3. Len(h) = 5 /\ h[2] = u[1] /\ h[3] = u[2] /\ h[4] = u[3] /\ h[5] = u[4]
  BY <1>1, <1>2
<1>4. b = h \o rest
  BY DEF h, Long
<1> HIDE DEF b
<1>5. /\ b \in Seq(Byte) /\ Len(b) = Len(h) + Len(rest)
      /\ \A i \in 1..Len(h) : b[i] = h[i]
      /\ \A i \in 1..Len(rest) : b[Len(h) + i] = rest[i]
  <2>1. h \in Seq(Byte)
    BY <1>2
  <2>2. /\ h \o rest \in Seq(Byte)
        /\ Len(h \o rest) = Len(h) + Len(rest)
        /\ \A i \in 1..Len(h) : (h \o rest)[i] = h[i]
        /\ \A i \in 1..Len(rest) : (h \o rest)[Len(h) + i] = rest[i]
    BY <2>1, Glue, Zenon
  <2> QED BY <1>4, <2>2
<1>6. m[1] = u[1] /\ m[2] = u[2] /\ m[3] = u[3] /\ m[4] = u[4]
  BY <1>3, <1>5
<1> HIDE DEF m
<1>7. I32(m) = I32(u) /\ U32(m) = U32(u)
  BY <1>6 DEF I32, U32
<1>8. Len(b) = 5 + Len(rest) /\ b[1] = op
  <2>1. 1 \in 1..5
    OBVIOUS
  <2>2. b[1] = h[1]
    BY <1>3, <1>5, <2>1
  <2>3. Len(b) = 5 + Len(rest)
    BY <1>3, <1>5
  <2> QED BY <1>2, <2>2, <2>3
<1>9. \A i \in 1..Len(rest) : b[5 + i] = rest[i]
  BY <1>3, <1>5
<1> QED BY <1>1, <1>5, <1>7, <1>8, <1>9 DEF m, b

-----------------------------------------------------------------------------
(***************************************************************************)
(* Speeds and settings.                                                    *)
(***************************************************************************)
\* A speed goes out as a byte and is kept within what a motor can do.
LEMMA SpeedLimited ==
  ASSUME NEW v \in -128..127
  PROVE  MapSpeed(v) \in Byte /\ Limited(v, I8(MapSpeed(v)))
<1>1. CASE v = 127
  <2>1. MapSpeed(v) = 127 /\ I8(127) = 127
    BY <1>1 DEF MapSpeed, I8, Signed
  <2> QED BY <1>1, <2>1 DEF Limited, Byte
<1>2. CASE v # 127
  <2> DEFINE w == IF v > 100 THEN 100 ELSE IF v < -100 THEN -100 ELSE v
  <2>1. w \in -100..100 /\ MapSpeed(v) = I8Byte(w)
    BY <1>2 DEF MapSpeed
  <2>2. w \in -128..127
    BY <2>1
  <2>3. MapSpeed(v) \in Byte /\ I8(MapSpeed(v)) = w
    BY <2>1, <2>2, I8Back
  <2>4. v \in -100..100 => w = v
    OBVIOUS
  <2>5. 0 <= v * w /\ w * w <= v * v
    <3>1. CASE v > 100
      BY <3>1
    <3>2. CASE v < -100
      BY <3>2
    <3>3. CASE v \in -100..100
      <4>1. w = v
        BY <2>4, <3>3
      <4>2. 0 <= v * v
        OBVIOUS
      <4> QED BY <4>1, <4>2
    <3> QED BY <3>1, <3>2, <3>3
  <2> HIDE DEF w
  <2>6. Limited(v, w)
    BY <1>2, <2>1, <2>4, <2>5 DEF Limited
  <2> QED BY <2>3, <2>6
<1> QED BY <1>1, <1>2

\* Settings go out as bytes and come back as they were.
LEMMA Steered ==
  ASSUME NEW s \in SettingsType
  PROVE  /\ s.maxPower \in Byte /\ s.brake \in Byte /\ UseProfile(s) \in Byte
         /\ Steering(s.maxPower, s.brake, UseProfile(s)) = s
         /\ Steering(s.maxPower, Float, UseProfile(s)) = [s EXCEPT !.brake = Float]
<1>1. /\ s.maxPower \in Byte /\ s.brake \in Byte
      /\ s.accel \in BOOLEAN /\ s.decel \in BOOLEAN
  BY DEF SettingsType, BrakingStyles, Float, Hold, Brake, Byte
<1>2. /\ UseProfile(s) \in 0..3
      /\ UseProfile(s) % 2 = 1 <=> s.accel
      /\ UseProfile(s) \div 2 = 1 <=> s.decel
  <2>1. CASE s.accel /\ s.decel
    <3>1. UseProfile(s) = 3
      BY <2>1 DEF UseProfile
    <3>2. 3 % 2 = 1 /\ 3 \div 2 = 1
      OBVIOUS
    <3> QED BY <2>1, <3>1, <3>2
  <2>2. CASE s.accel /\ ~s.decel
    <3>1. UseProfile(s) = 1
      BY <2>2 DEF UseProfile
    <3>2. 1 % 2 = 1 /\ 1 \div 2 # 1
      OBVIOUS
    <3> QED BY <2>2, <3>1, <3>2
  <2>3. CASE ~s.accel /\ s.decel
    <3>1. UseProfile(s) = 2
      BY <2>3 DEF UseProfile
    <3>2. 2 % 2 # 1 /\ 2 \div 2 = 1
      OBVIOUS
    <3> QED BY <2>3, <3>1, <3>2
  <2>4. CASE ~s.accel /\ ~s.decel
    <3>1. UseProfile(s) = 0
      BY <2>4 DEF UseProfile
    <3>2. 0 % 2 # 1 /\ 0 \div 2 # 1
      OBVIOUS
    <3> QED BY <2>4, <3>1, <3>2
  <2> QED BY <1>1, <2>1, <2>2, <2>3, <2>4
<1>3. UseProfile(s) \in Byte
  BY <1>2 DEF Byte
<1>4. s = [brake |-> s.brake, maxPower |-> s.maxPower, accel |-> s.accel, decel |-> s.decel]
  BY DEF SettingsType
<1>5. \A style : Steering(s.maxPower, style, UseProfile(s))
                   = [brake |-> style, maxPower |-> s.maxPower, accel |-> s.accel, decel |-> s.decel]
  <2> TAKE style
  <2>1. (UseProfile(s) % 2 = 1) = s.accel /\ (UseProfile(s) \div 2 = 1) = s.decel
    BY <1>1, <1>2
  <2> QED BY <2>1 DEF Steering
<1>6. [s EXCEPT !.brake = Float]
        = [brake |-> Float, maxPower |-> s.maxPower, accel |-> s.accel, decel |-> s.decel]
  BY DEF SettingsType
<1> QED BY <1>1, <1>3, <1>4, <1>5, <1>6

-----------------------------------------------------------------------------
(***************************************************************************)
(* Orders.                                                                 *)
(***************************************************************************)
\* An order is right: its bytes are bytes and the thing does what was asked.
Good(o) == o.bytes \in Seq(Byte) /\ DoneAs(o.job, Understood(thing.type, o.bytes))

\* Where no speed is asked for, none is meant.
LEMMA NoSpeed == Limited(0, 0)
<1>1. 0 \in -100..100 \cup {127}
  OBVIOUS
<1> QED BY <1>1 DEF Limited

\* The same job at a speed within the limits is the job that was asked for.
LEMMA SameJob ==
  ASSUME NEW o, NEW do, NEW v, NEW got, NEW args, do \notin {"Pixels", "Brightness"},
         o.job = Job(do, v, args), o.bytes \in Seq(Byte),
         Understood(thing.type, o.bytes) = Job(do, got, args), Limited(v, got)
  PROVE  Good(o)
<1> DEFINE asked == Job(do, v, args)
           did == Job(do, got, args)
<1>1. asked.do = do /\ asked.speed = v /\ asked.args = args
  BY DEF Job
<1>2. did.do = do /\ did.speed = got /\ did.args = args
  BY DEF Job
<1> HIDE DEF asked, did
<1>3. DoneAs(asked, did)
  BY <1>1, <1>2 DEF DoneAs
<1> QED BY <1>3 DEF Good, asked, did

\* Motors are told apart from the lights and the buzzer by their type.
LEMMA MotorsUnderstand ==
  ASSUME VInv, dev.kind \in MotorKinds, NEW b
  PROVE  Understood(thing.type, b) = UnderstoodByMotor(b)
<1>1. thing.type \in U16Type /\ dev.kind = Kind(thing.type)
  BY DEF VInv, InStep
<1>2. thing.type \notin {8, 22, 23, 64}
  <2>1. /\ thing.type = 8 => dev.kind = "Light"
        /\ thing.type = 22 => dev.kind = "PiezoBuzzer"
        /\ thing.type = 23 => dev.kind = "HubLed"
        /\ thing.type = 64 => dev.kind = "ColorLightMatrix"
    BY <1>1, KindOf
  <2> QED BY <2>1 DEF MotorKinds
<1> QED BY <1>2 DEF Understood

\* An order of any length is made of its job and its bytes.
LEMMA OrderIs ==
  ASSUME NEW job, NEW b
  PROVE  Order(job, b).job = job /\ Order(job, b).bytes = b
BY DEF Order

\* Power, for the motors without an encoder.
LEMMA PowerGood ==
  ASSUME VInv, dev.kind = "BasicMotor", NEW v \in -128..127
  PROVE  Good(Order(Job("Power", v, <<>>), EncodeSetPower(v)))
<1> DEFINE m == MapSpeed(v)
           b == EncodeSetPower(v)
           o == Order(Job("Power", v, <<>>), b)
<1>1. m \in Byte /\ Limited(v, I8(m))
  BY SpeedLimited
<1> HIDE DEF m
<1>2. b = <<81, 0, m>>
  BY DEF EncodeSetPower, m
<1> HIDE DEF b
<1>3. b \in Seq(Byte) /\ b[1] = 81 /\ b[2] = 0 /\ b[3] = m
  BY <1>1, <1>2 DEF Byte
<1>4. UnderstoodByMotor(b) = Job("Power", I8(m), <<>>)
  BY <1>3 DEF UnderstoodByMotor
<1>5. Understood(thing.type, b) = Job("Power", I8(m), <<>>)
  BY <1>4, MotorsUnderstand DEF MotorKinds
<1>6. o.job = Job("Power", v, <<>>) /\ o.bytes = b
  BY OrderIs
<1> HIDE DEF o
<1>7. Good(o)
  BY <1>1, <1>3, <1>5, <1>6, SameJob
<1> QED BY <1>7 DEF o, b

\* All that a motor without an encoder can be asked for.
LEMMA BasicMotorGood ==
  ASSUME VInv, dev.kind = "BasicMotor", NEW o \in BasicMotorOrders
  PROVE  Good(o)
<1>1. CASE \E v \in Speeds : o = Order(Job("Power", v, <<>>), EncodeSetPower(v))
  BY <1>1, PowerGood, DevicesAssumption
<1>2. CASE o = Order(Job("Power", 0, <<>>), EncodeStop)
  BY <1>2, PowerGood DEF EncodeStop
<1>3. CASE o = Order(Job("Power", 127, <<>>), EncodeBrake)
  BY <1>3, PowerGood DEF EncodeBrake, Brake
<1> QED BY <1>1, <1>2, <1>3 DEF BasicMotorOrders

\* Ramps.
LEMMA RampGood ==
  ASSUME VInv, dev.kind = "TachoMotor", NEW t \in U16Type, NEW p \in Byte
  PROVE  /\ Good(Order(Job("RampUp", 0, <<t, p>>), EncodeSetAccelerationTime(t, p)))
         /\ Good(Order(Job("RampDown", 0, <<t, p>>), EncodeSetDecelerationTime(t, p)))
<1>1. <<p>> \in Seq(Byte) /\ Len(<<p>>) = 1 /\ <<p>>[1] = p
  OBVIOUS
<1>2. 5 \in Byte /\ 6 \in Byte
  BY DEF Byte
<1>3. ASSUME NEW op \in Byte, NEW b, b = <<op>> \o U16Bytes(t) \o <<p>>
      PROVE  b \in Seq(Byte) /\ b[1] = op /\ U16(b[2], b[3]) = t /\ b[4] = p
  <2> DEFINE rest == <<p>>
             c == Short(op, t, rest)
  <2>1. rest \in Seq(Byte) /\ Len(rest) = 1 /\ rest[1] = p
    BY <1>1
  <2>2. b = c
    BY <1>3 DEF Short
  <2> HIDE DEF rest
  <2>3. /\ c \in Seq(Byte) /\ c[1] = op /\ U16(c[2], c[3]) = t
        /\ \A i \in 1..Len(rest) : c[3 + i] = rest[i]
    BY <2>1, WithU16
  <2>4. 1 \in 1..1 /\ 3 + 1 = 4
    OBVIOUS
  <2> HIDE DEF c
  <2> QED BY <2>1, <2>2, <2>3, <2>4
<1>4. Good(Order(Job("RampUp", 0, <<t, p>>), EncodeSetAccelerationTime(t, p)))
  <2> DEFINE b == EncodeSetAccelerationTime(t, p)
             o == Order(Job("RampUp", 0, <<t, p>>), b)
  <2>1. b = <<5>> \o U16Bytes(t) \o <<p>>
    BY DEF EncodeSetAccelerationTime
  <2> HIDE DEF b
  <2>2. b \in Seq(Byte) /\ b[1] = 5 /\ U16(b[2], b[3]) = t /\ b[4] = p
    BY <1>2, <1>3, <2>1
  <2>3. UnderstoodByMotor(b) = Job("RampUp", 0, <<t, p>>)
    BY <2>2 DEF UnderstoodByMotor
  <2>4. Understood(thing.type, b) = Job("RampUp", 0, <<t, p>>)
    BY <2>3, MotorsUnderstand DEF MotorKinds
  <2>5. o.job = Job("RampUp", 0, <<t, p>>) /\ o.bytes = b
    BY OrderIs
  <2> HIDE DEF o
  <2>6. Good(o)
    BY <2>2, <2>4, <2>5, NoSpeed, SameJob
  <2> QED BY <2>6 DEF o, b
<1>5. Good(Order(Job("RampDown", 0, <<t, p>>), EncodeSetDecelerationTime(t, p)))
  <2> DEFINE b == EncodeSetDecelerationTime(t, p)
             o == Order(Job("RampDown", 0, <<t, p>>), b)
  <2>1. b = <<6>> \o U16Bytes(t) \o <<p>>
    BY DEF EncodeSetDecelerationTime
  <2> HIDE DEF b
  <2>2. b \in Seq(Byte) /\ b[1] = 6 /\ U16(b[2], b[3]) = t /\ b[4] = p
    BY <1>2, <1>3, <2>1
  <2>3. UnderstoodByMotor(b) = Job("RampDown", 0, <<t, p>>)
    BY <2>2 DEF UnderstoodByMotor
  <2>4. Understood(thing.type, b) = Job("RampDown", 0, <<t, p>>)
    BY <2>3, MotorsUnderstand DEF MotorKinds
  <2>5. o.job = Job("RampDown", 0, <<t, p>>) /\ o.bytes = b
    BY OrderIs
  <2> HIDE DEF o
  <2>6. Good(o)
    BY <2>2, <2>4, <2>5, NoSpeed, SameJob
  <2> QED BY <2>6 DEF o, b
<1> QED BY <1>4, <1>5

\* The last bytes of an order that ends by itself.
LEMMA Finishing ==
  ASSUME VInv, NEW v \in -128..127, NEW f, f = Finish(motor, v)
  PROVE  /\ f \in Seq(Byte) /\ Len(f) = 4
         /\ Limited(v, I8(f[1]))
         /\ Steering(f[2], f[3], f[4]) = motor
<1> DEFINE m == MapSpeed(v)
           u == UseProfile(motor)
<1>1. motor \in SettingsType
  BY DEF VInv
<1>2. m \in Byte /\ Limited(v, I8(m))
  BY SpeedLimited
<1>3. /\ motor.maxPower \in Byte /\ motor.brake \in Byte /\ u \in Byte
      /\ Steering(motor.maxPower, motor.brake, u) = motor
  BY <1>1, Steered
<1>4. f = <<m, motor.maxPower, motor.brake, u>>
  BY <1>1 DEF Finish
<1> HIDE DEF m, u
<1>5. /\ f \in Seq(Byte) /\ Len(f) = 4
      /\ f[1] = m /\ f[2] = motor.maxPower /\ f[3] = motor.brake /\ f[4] = u
  BY <1>2, <1>3, <1>4
<1> QED BY <1>2, <1>3, <1>5

\* Running until told otherwise.
LEMMA RunGood ==
  ASSUME VInv, dev.kind = "TachoMotor", NEW v \in -128..127
  PROVE  Good(Order(Job("Run", v, <<[motor EXCEPT !.brake = Float]>>),
                    EncodeSetSpeed(motor, v)))
<1> DEFINE m == MapSpeed(v)
           u == UseProfile(motor)
           s == [motor EXCEPT !.brake = Float]
           b == EncodeSetSpeed(motor, v)
           o == Order(Job("Run", v, <<s>>), b)
<1>1. motor \in SettingsType
  BY DEF VInv
<1>2. m \in Byte /\ Limited(v, I8(m))
  BY SpeedLimited
<1>3. motor.maxPower \in Byte /\ u \in Byte /\ Steering(motor.maxPower, Float, u) = s
  BY <1>1, Steered
<1>4. b = <<7, m, motor.maxPower, u>>
  BY <1>1 DEF EncodeSetSpeed
<1> HIDE DEF m, u, b, s
<1>5. b \in Seq(Byte) /\ b[1] = 7 /\ b[2] = m /\ b[3] = motor.maxPower /\ b[4] = u
  BY <1>2, <1>3, <1>4 DEF Byte
<1>6. UnderstoodByMotor(b) = Job("Run", I8(m), <<s>>)
  BY <1>3, <1>5 DEF UnderstoodByMotor
<1>7. Understood(thing.type, b) = Job("Run", I8(m), <<s>>)
  BY <1>6, MotorsUnderstand DEF MotorKinds
<1>8. o.job = Job("Run", v, <<s>>) /\ o.bytes = b
  BY OrderIs
<1> HIDE DEF o
<1>9. Good(o)
  BY <1>2, <1>5, <1>7, <1>8, SameJob
<1> QED BY <1>9 DEF o, s, b

\* Running for a time.
LEMMA RunForGood ==
  ASSUME VInv, dev.kind = "TachoMotor", NEW v \in -128..127, NEW t \in U16Type
  PROVE  Good(Order(Job("RunFor", v, <<t, motor>>), EncodeSetSpeedForTime(motor, v, t)))
<1> DEFINE f == Finish(motor, v)
           b == EncodeSetSpeedForTime(motor, v, t)
           o == Order(Job("RunFor", v, <<t, motor>>), b)
<1>1. f \in Seq(Byte) /\ Len(f) = 4 /\ Limited(v, I8(f[1])) /\ Steering(f[2], f[3], f[4]) = motor
  BY Finishing
<1>2. b = Short(9, t, f)
  BY DEF EncodeSetSpeedForTime, Short
<1> HIDE DEF f, b
<1>3. 9 \in Byte
  BY DEF Byte
<1>4. /\ b \in Seq(Byte) /\ b[1] = 9 /\ U16(b[2], b[3]) = t
      /\ \A i \in 1..Len(f) : b[3 + i] = f[i]
  <2> DEFINE c == Short(9, t, f)
  <2>1. /\ c \in Seq(Byte) /\ c[1] = 9 /\ U16(c[2], c[3]) = t
        /\ \A i \in 1..Len(f) : c[3 + i] = f[i]
    BY <1>1, <1>3, WithU16
  <2> HIDE DEF c
  <2>2. b = c
    BY <1>2 DEF c
  <2> QED BY <2>1, <2>2
<1>5. Limited(v, I8(b[4])) /\ Steering(b[5], b[6], b[7]) = motor
  <2>1. 1 \in 1..4 /\ 2 \in 1..4 /\ 3 \in 1..4 /\ 4 \in 1..4
    OBVIOUS
  <2>2. 3 + 1 = 4 /\ 3 + 2 = 5 /\ 3 + 3 = 6 /\ 3 + 4 = 7
    OBVIOUS
  <2>3. b[3 + 1] = f[1] /\ b[3 + 2] = f[2] /\ b[3 + 3] = f[3] /\ b[3 + 4] = f[4]
    BY <1>1, <1>4, <2>1
  <2>4. b[4] = f[1] /\ b[5] = f[2] /\ b[6] = f[3] /\ b[7] = f[4]
    BY <2>2, <2>3
  <2> QED BY <1>1, <2>4
<1>6. UnderstoodByMotor(b) = Job("RunFor", I8(b[4]), <<t, motor>>)
  BY <1>4, <1>5 DEF UnderstoodByMotor
<1>7. Understood(thing.type, b) = Job("RunFor", I8(b[4]), <<t, motor>>)
  BY <1>6, MotorsUnderstand DEF MotorKinds
<1>8. o.job = Job("RunFor", v, <<t, motor>>) /\ o.bytes = b
  BY OrderIs
<1> HIDE DEF o
<1>9. Good(o)
  BY <1>4, <1>5, <1>7, <1>8, SameJob
<1> QED BY <1>9 DEF o, b

\* The bytes of an order about an angle, which is four bytes.
Angled(op, four, v) == Long(op, four, Finish(motor, v))

\* The angle and the settings are read back from their places.
LEMMA WithAngle ==
  ASSUME VInv, NEW v \in -128..127, NEW op \in Byte,
         NEW four \in Seq(Byte), Len(four) = 4
  PROVE  /\ Angled(op, four, v) \in Seq(Byte) /\ Angled(op, four, v)[1] = op
         /\ I32(SubSeq(Angled(op, four, v), 2, 5)) = I32(four)
         /\ U32(SubSeq(Angled(op, four, v), 2, 5)) = U32(four)
         /\ Limited(v, I8(Angled(op, four, v)[6]))
         /\ Steering(Angled(op, four, v)[7], Angled(op, four, v)[8], Angled(op, four, v)[9])
              = motor
<1> DEFINE f == Finish(motor, v)
           b == Long(op, four, f)
<1>1. f \in Seq(Byte) /\ Len(f) = 4 /\ Limited(v, I8(f[1])) /\ Steering(f[2], f[3], f[4]) = motor
  BY Finishing
<1>2. Angled(op, four, v) = b
  BY DEF Angled
<1> HIDE DEF f
<1>3. /\ b \in Seq(Byte) /\ b[1] = op
      /\ I32(SubSeq(b, 2, 5)) = I32(four) /\ U32(SubSeq(b, 2, 5)) = U32(four)
      /\ \A i \in 1..Len(f) : b[5 + i] = f[i]
  BY <1>1, WithFour
<1> HIDE DEF b
<1>4. b[6] = f[1] /\ b[7] = f[2] /\ b[8] = f[3] /\ b[9] = f[4]
  <2>1. 1 \in 1..4 /\ 2 \in 1..4 /\ 3 \in 1..4 /\ 4 \in 1..4
    OBVIOUS
  <2>2. 5 + 1 = 6 /\ 5 + 2 = 7 /\ 5 + 3 = 8 /\ 5 + 4 = 9
    OBVIOUS
  <2>3. b[5 + 1] = f[1] /\ b[5 + 2] = f[2] /\ b[5 + 3] = f[3] /\ b[5 + 4] = f[4]
    BY <1>1, <1>3, <2>1
  <2> QED BY <2>2, <2>3
<1> QED BY <1>1, <1>2, <1>3, <1>4

\* Turning by an angle.
LEMMA RotateGood ==
  ASSUME VInv, dev.kind \in {"TachoMotor", "AbsoluteMotor"}, NEW v \in -128..127,
         NEW n \in U32Type
  PROVE  Good(Order(Job("Rotate", v, <<n, motor>>), EncodeRotateByDegrees(motor, n, v)))
<1> DEFINE u == U32Bytes(n)
           b == EncodeRotateByDegrees(motor, n, v)
           o == Order(Job("Rotate", v, <<n, motor>>), b)
<1>1. b = Angled(11, u, v) /\ 11 \in Byte
  BY DEF EncodeRotateByDegrees, Angled, Long, Byte
<1>2. u \in Seq(Byte) /\ Len(u) = 4 /\ U32(u) = n
  BY U32Seq
<1> HIDE DEF u, b
<1>3. /\ b \in Seq(Byte) /\ b[1] = 11 /\ U32(SubSeq(b, 2, 5)) = n
      /\ Limited(v, I8(b[6])) /\ Steering(b[7], b[8], b[9]) = motor
  <2> DEFINE c == Angled(11, u, v)
  <2>1. /\ c \in Seq(Byte) /\ c[1] = 11 /\ U32(SubSeq(c, 2, 5)) = n
        /\ Limited(v, I8(c[6])) /\ Steering(c[7], c[8], c[9]) = motor
    BY <1>1, <1>2, WithAngle
  <2> HIDE DEF c
  <2>2. b = c
    BY <1>1 DEF c
  <2> QED BY <2>1, <2>2
<1>4. UnderstoodByMotor(b) = Job("Rotate", I8(b[6]), <<n, motor>>)
  BY <1>3 DEF UnderstoodByMotor
<1>5. Understood(thing.type, b) = Job("Rotate", I8(b[6]), <<n, motor>>)
  BY <1>4, MotorsUnderstand DEF MotorKinds
<1>6. o.job = Job("Rotate", v, <<n, motor>>) /\ o.bytes = b
  BY OrderIs
<1> HIDE DEF o
<1>7. Good(o)
  BY <1>3, <1>5, <1>6, SameJob
<1> QED BY <1>7 DEF o, b

\* Turning by whatever angle the caller may ask for.
LEMMA RotateOrdersGood ==
  ASSUME VInv, dev.kind \in {"TachoMotor", "AbsoluteMotor"}, NEW o \in RotateOrders
  PROVE  Good(o)
<1>1. Speeds \subseteq -128..127 /\ Turns \subseteq U32Type
  BY DevicesAssumption
<1>2. PICK v \in Speeds, n \in Turns :
        o = Order(Job("Rotate", v, <<n, motor>>), EncodeRotateByDegrees(motor, n, v))
  BY DEF RotateOrders
<1> QED BY <1>1, <1>2, RotateGood

\* Going to an angle.
LEMMA GotoGood ==
  ASSUME VInv, dev.kind = "AbsoluteMotor", NEW v \in -128..127, NEW n \in I32Type
  PROVE  Good(Order(Job("Goto", v, <<n, motor>>), EncodeGotoAngle(motor, n, v)))
<1> DEFINE u == I32Bytes(n)
           b == EncodeGotoAngle(motor, n, v)
           o == Order(Job("Goto", v, <<n, motor>>), b)
<1>1. b = Angled(13, u, v) /\ 13 \in Byte
  BY DEF EncodeGotoAngle, Angled, Long, Byte
<1>0. u \in Seq(Byte) /\ Len(u) = 4 /\ I32(u) = n
  BY I32Seq
<1> HIDE DEF u, b
<1>2. /\ b \in Seq(Byte) /\ b[1] = 13 /\ I32(SubSeq(b, 2, 5)) = n
      /\ Limited(v, I8(b[6])) /\ Steering(b[7], b[8], b[9]) = motor
  <2> DEFINE c == Angled(13, u, v)
  <2>1. /\ c \in Seq(Byte) /\ c[1] = 13 /\ I32(SubSeq(c, 2, 5)) = n
        /\ Limited(v, I8(c[6])) /\ Steering(c[7], c[8], c[9]) = motor
    BY <1>0, <1>1, WithAngle
  <2> HIDE DEF c
  <2>2. b = c
    BY <1>1 DEF c
  <2> QED BY <2>1, <2>2
<1>3. UnderstoodByMotor(b) = Job("Goto", I8(b[6]), <<n, motor>>)
  BY <1>2 DEF UnderstoodByMotor
<1>4. Understood(thing.type, b) = Job("Goto", I8(b[6]), <<n, motor>>)
  BY <1>3, MotorsUnderstand DEF MotorKinds
<1>5. o.job = Job("Goto", v, <<n, motor>>) /\ o.bytes = b
  BY OrderIs
<1> HIDE DEF o
<1>6. Good(o)
  BY <1>2, <1>4, <1>5, SameJob
<1> QED BY <1>6 DEF o, b

\* Where a motor stands becomes its zero.
LEMMA PresetGood ==
  ASSUME VInv, dev.kind = "AbsoluteMotor"
  PROVE  Good(Order(Job("Preset", 0, <<0>>), EncodeResetZero))
<1> DEFINE b == EncodeResetZero
           p == SubSeq(b, 3, 6)
           o == Order(Job("Preset", 0, <<0>>), b)
<1>1. b = <<81, 2, 0, 0, 0, 0>>
  BY DEF EncodeResetZero
<1> HIDE DEF b
<1>2. 81 \in Byte /\ 2 \in Byte /\ 0 \in Byte
  BY DEF Byte
<1>3. /\ b \in Seq(Byte) /\ Len(b) = 6 /\ b[1] = 81 /\ b[2] = 2
      /\ b[3] = 0 /\ b[4] = 0 /\ b[5] = 0 /\ b[6] = 0
  BY <1>1, <1>2
<1>4. p[1] = 0 /\ p[2] = 0 /\ p[3] = 0 /\ p[4] = 0
  BY <1>3
<1> HIDE DEF p
<1>5. I32(p) = 0
  BY <1>4 DEF I32, I16, U16, Signed
<1>6. UnderstoodByMotor(b) = Job("Preset", 0, <<0>>)
  BY <1>3, <1>5 DEF UnderstoodByMotor, p
<1>7. Understood(thing.type, b) = Job("Preset", 0, <<0>>)
  BY <1>6, MotorsUnderstand DEF MotorKinds
<1>8. o.job = Job("Preset", 0, <<0>>) /\ o.bytes = b
  BY OrderIs
<1> HIDE DEF o
<1>9. Good(o)
  BY <1>3, <1>7, <1>8, NoSpeed, SameJob
<1> QED BY <1>9 DEF o, b

\* All that a motor with an encoder can be asked for.
LEMMA TachoMotorGood ==
  ASSUME VInv, dev.kind = "TachoMotor", NEW o \in TachoMotorOrders
  PROVE  Good(o)
<1>1. Speeds \subseteq -128..127 /\ Words \subseteq U16Type /\ Bytes \subseteq Byte
  BY DevicesAssumption
<1>2. CASE \E t \in Words, p \in Bytes :
             o = Order(Job("RampUp", 0, <<t, p>>), EncodeSetAccelerationTime(t, p))
  BY <1>1, <1>2, RampGood
<1>3. CASE \E t \in Words, p \in Bytes :
             o = Order(Job("RampDown", 0, <<t, p>>), EncodeSetDecelerationTime(t, p))
  BY <1>1, <1>3, RampGood
<1>4. CASE \E v \in Speeds : o = Order(Job("Run", v, <<[motor EXCEPT !.brake = Float]>>),
                                       EncodeSetSpeed(motor, v))
  BY <1>1, <1>4, RunGood
<1>5. CASE \E v \in Speeds, t \in Words :
             o = Order(Job("RunFor", v, <<t, motor>>), EncodeSetSpeedForTime(motor, v, t))
  BY <1>1, <1>5, RunForGood
<1>6. CASE o \in RotateOrders
  BY <1>6, RotateOrdersGood
<1> QED BY <1>2, <1>3, <1>4, <1>5, <1>6 DEF TachoMotorOrders

\* All that a motor with an absolute encoder can be asked for.
LEMMA AbsoluteMotorGood ==
  ASSUME VInv, dev.kind = "AbsoluteMotor", NEW o \in AbsoluteMotorOrders
  PROVE  Good(o)
<1>1. Speeds \subseteq -128..127 /\ Positions \subseteq I32Type
  BY DevicesAssumption
<1>2. CASE \E v \in Speeds, n \in Positions :
             o = Order(Job("Goto", v, <<n, motor>>), EncodeGotoAngle(motor, n, v))
  BY <1>1, <1>2, GotoGood
<1>3. CASE o = Order(Job("Preset", 0, <<0>>), EncodeResetZero)
  BY <1>3, PresetGood
<1>4. CASE o \in RotateOrders
  BY <1>4, RotateOrdersGood
<1> QED BY <1>2, <1>3, <1>4 DEF AbsoluteMotorOrders

\* The colours.
LEMMA ColorBytes ==
  ASSUME NEW c \in Colors
  PROVE  c \in Byte /\ (c \in 0..10 \/ c = NoColor)
BY DEF Colors, NoColor, Byte

\* What is left of an order behind its first two bytes.
LEMMA Behind ==
  ASSUME NEW a \in Byte, NEW b \in Byte
  PROVE  /\ \A x \in Byte : /\ <<a, b, x>> \in Seq(Byte)
                            /\ SubSeq(<<a, b, x>>, 3, Len(<<a, b, x>>)) = <<x>>
         /\ \A x, y, z \in Byte : /\ <<a, b, x, y, z>> \in Seq(Byte)
                                  /\ SubSeq(<<a, b, x, y, z>>, 3, Len(<<a, b, x, y, z>>)) = <<x, y, z>>
<1>1. ASSUME NEW x \in Byte
      PROVE  /\ <<a, b, x>> \in Seq(Byte)
             /\ SubSeq(<<a, b, x>>, 3, Len(<<a, b, x>>)) = <<x>>
  <2> DEFINE s == <<a, b, x>>
             t == SubSeq(s, 3, 3)
             u == <<x>>
  <2>1. s \in Seq(Byte) /\ Len(s) = 3 /\ s[3] = x
    OBVIOUS
  <2>2. u \in Seq(Byte) /\ Len(u) = 1 /\ u[1] = x
    OBVIOUS
  <2> HIDE DEF s, u
  <2>3. t \in Seq(Byte) /\ Len(t) = 1 /\ t[1] = x
    BY <2>1
  <2> HIDE DEF t
  <2>4. \A i \in 1..Len(t) : t[i] = u[i]
    BY <2>2, <2>3
  <2>5. t = u
    BY <2>2, <2>3, <2>4, SeqEqual
  <2> QED BY <2>1, <2>5 DEF s, t, u
<1>2. ASSUME NEW x \in Byte, NEW y \in Byte, NEW z \in Byte
      PROVE  /\ <<a, b, x, y, z>> \in Seq(Byte)
             /\ SubSeq(<<a, b, x, y, z>>, 3, Len(<<a, b, x, y, z>>)) = <<x, y, z>>
  <2> DEFINE s == <<a, b, x, y, z>>
             t == SubSeq(s, 3, 5)
             u == <<x, y, z>>
  <2>1. s \in Seq(Byte) /\ Len(s) = 5 /\ s[3] = x /\ s[4] = y /\ s[5] = z
    OBVIOUS
  <2>2. u \in Seq(Byte) /\ Len(u) = 3 /\ u[1] = x /\ u[2] = y /\ u[3] = z
    OBVIOUS
  <2> HIDE DEF s, u
  <2>3. t \in Seq(Byte) /\ Len(t) = 3 /\ t[1] = x /\ t[2] = y /\ t[3] = z
    BY <2>1
  <2> HIDE DEF t
  <2>4. \A i \in 1..Len(t) : t[i] = u[i]
    BY <2>2, <2>3
  <2>5. t = u
    BY <2>2, <2>3, <2>4, SeqEqual
  <2> QED BY <2>1, <2>5 DEF s, t, u
<1> QED BY <1>1, <1>2

\* What lights and the buzzer are.
LEMMA LightTypes ==
  ASSUME VInv
  PROVE  /\ dev.kind = "HubLed" => thing.type = 23
         /\ dev.kind = "Light" => thing.type = 8
         /\ dev.kind = "PiezoBuzzer" => thing.type = 22
         /\ dev.kind = "ColorLightMatrix" => thing.type = 64
<1>1. thing.type \in U16Type /\ dev.kind = Kind(thing.type)
  BY DEF VInv, InStep
<1> QED BY <1>1, TypeOf

\* What the lamp of the hub makes of an order.
LEMMA LedUnderstands ==
  ASSUME NEW b, NEW rest, SubSeq(b, 3, Len(b)) = rest
  PROVE  /\ b[2] = 0 => Understood(23, b) = Job("Color", 0, rest)
         /\ b[2] = 1 => Understood(23, b) = Job("Rgb", 0, rest)
<1> DEFINE s == SubSeq(b, 3, Len(b))
<1>1. Understood(23, b) = Job(IF b[2] = 0 THEN "Color" ELSE "Rgb", 0, s)
  BY DEF Understood
<1>2. s = rest
  OBVIOUS
<1> HIDE DEF s
<1>3. b[2] = 0 => Understood(23, b) = Job("Color", 0, rest)
  BY <1>1, <1>2
<1>4. b[2] = 1 => b[2] # 0
  OBVIOUS
<1>5. b[2] = 1 => Understood(23, b) = Job("Rgb", 0, rest)
  BY <1>1, <1>2, <1>4
<1> QED BY <1>3, <1>5

\* The lamp of the hub, one of its colours.
LEMMA HubLedColorGood ==
  ASSUME VInv, dev.kind = "HubLed", NEW c \in Byte
  PROVE  Good(Order(Job("Color", 0, <<c>>), EncodeSetColor(c)))
<1> DEFINE b == EncodeSetColor(c)
           o == Order(Job("Color", 0, <<c>>), b)
<1>1. thing.type = 23
  BY LightTypes
<1>2. b = <<81, 0, c>> /\ 81 \in Byte /\ 0 \in Byte
  BY DEF EncodeSetColor, Byte
<1> HIDE DEF b
<1>3. b \in Seq(Byte) /\ SubSeq(b, 3, Len(b)) = <<c>>
  BY <1>2, Behind
<1>4. b[2] = 0
  BY <1>2
<1>5. Understood(thing.type, b) = Job("Color", 0, <<c>>)
  BY <1>1, <1>3, <1>4, LedUnderstands
<1>6. o.job = Job("Color", 0, <<c>>) /\ o.bytes = b
  BY OrderIs
<1> HIDE DEF o
<1>7. Good(o)
  BY <1>3, <1>5, <1>6, NoSpeed, SameJob
<1> QED BY <1>7 DEF o, b

\* The lamp of the hub, any other colour.
LEMMA HubLedRgbGood ==
  ASSUME VInv, dev.kind = "HubLed", NEW red \in Byte, NEW green \in Byte, NEW blue \in Byte
  PROVE  Good(Order(Job("Rgb", 0, <<red, green, blue>>), EncodeSetRgb(red, green, blue)))
<1> DEFINE b == EncodeSetRgb(red, green, blue)
           rgb == <<red, green, blue>>
           o == Order(Job("Rgb", 0, rgb), b)
<1>1. thing.type = 23
  BY LightTypes
<1>2. b = <<81, 1, red, green, blue>> /\ 81 \in Byte /\ 1 \in Byte
  BY DEF EncodeSetRgb, Byte
<1> HIDE DEF b
<1>3. b \in Seq(Byte) /\ SubSeq(b, 3, Len(b)) = rgb
  BY <1>2, Behind
<1>4. b[2] = 1
  BY <1>2
<1> HIDE DEF rgb
<1>5. Understood(thing.type, b) = Job("Rgb", 0, rgb)
  BY <1>1, <1>3, <1>4, LedUnderstands
<1>6. o.job = Job("Rgb", 0, rgb) /\ o.bytes = b
  BY OrderIs
<1> HIDE DEF o
<1>7. Good(o)
  BY <1>3, <1>5, <1>6, NoSpeed, SameJob
<1> QED BY <1>7 DEF o, b, rgb

\* Lamps are set as bright as they can be at most.
LEMMA LightGood ==
  ASSUME VInv, dev.kind = "Light", NEW p \in Byte
  PROVE  Good(Order(Job("Brightness", 0, <<p>>), EncodeSetBrightness(p)))
<1> DEFINE n == IF p > 100 THEN 100 ELSE p
           b == EncodeSetBrightness(p)
           asked == Job("Brightness", 0, <<p>>)
           did == Job("Brightness", 0, <<n>>)
           o == Order(asked, b)
<1>1. thing.type = 8
  BY LightTypes
<1>2. p \in Nat /\ n \in Byte /\ n = (IF p < 100 THEN p ELSE 100)
  BY DEF Byte
<1>3. b = <<81, 0, n>> /\ 81 \in Byte /\ 0 \in Byte
  BY DEF EncodeSetBrightness, Byte
<1> HIDE DEF n, b
<1>4. b \in Seq(Byte) /\ b[3] = n
  BY <1>2, <1>3
<1>5. Understood(thing.type, b) = did
  BY <1>1, <1>4 DEF Understood
<1>6. o.job = asked /\ o.bytes = b
  BY OrderIs
<1>7. /\ asked.do = "Brightness" /\ asked.speed = 0 /\ asked.args[1] = p
      /\ did.do = "Brightness" /\ did.speed = 0 /\ did.args[1] = n
  BY DEF Job
<1> HIDE DEF o, asked, did
<1>8. DoneAs(asked, did)
  BY <1>2, <1>7, NoSpeed DEF DoneAs
<1>9. Good(o)
  BY <1>4, <1>5, <1>6, <1>8 DEF Good
<1> QED BY <1>9 DEF o, asked, b

\* The buzzer.
LEMMA ToneGood ==
  ASSUME VInv, dev.kind = "PiezoBuzzer", NEW f \in U16Type, NEW t \in U16Type
  PROVE  Good(Order(Job("Tone", 0, <<f, t>>), EncodePlayTone(f, t)))
<1> DEFINE b == EncodePlayTone(f, t)
           h == <<5, 2, 4>>
           x == U16Bytes(f)
           y == U16Bytes(t)
           o == Order(Job("Tone", 0, <<f, t>>), b)
<1>1. thing.type = 22
  BY LightTypes
<1>2. x \in Seq(Byte) /\ Len(x) = 2 /\ U16(x[1], x[2]) = f
  BY U16Seq
<1>3. y \in Seq(Byte) /\ Len(y) = 2 /\ U16(y[1], y[2]) = t
  BY U16Seq
<1>4. b = (h \o x) \o y
  BY DEF EncodePlayTone
<1>5. h \in Seq(Byte) /\ Len(h) = 3
  <2>1. 5 \in Byte /\ 2 \in Byte /\ 4 \in Byte
    BY DEF Byte
  <2> QED BY <2>1
<1> HIDE DEF b, h, x, y
<1>6. /\ h \o x \in Seq(Byte) /\ Len(h \o x) = 5
      /\ (h \o x)[3 + 1] = x[1] /\ (h \o x)[3 + 2] = x[2]
  <2>1. /\ h \o x \in Seq(Byte) /\ Len(h \o x) = Len(h) + Len(x)
        /\ \A i \in 1..Len(x) : (h \o x)[Len(h) + i] = x[i]
    BY <1>2, <1>5, Glue
  <2>2. 1 \in 1..2 /\ 2 \in 1..2
    OBVIOUS
  <2> QED BY <1>2, <1>5, <2>1, <2>2
<1> DEFINE g == h \o x
<1> HIDE DEF g
<1>7. /\ g \in Seq(Byte) /\ Len(g) = 5 /\ g[4] = x[1] /\ g[5] = x[2]
      /\ b = g \o y
  BY <1>4, <1>6 DEF g
<1>8. /\ g \o y \in Seq(Byte)
      /\ (g \o y)[4] = g[4] /\ (g \o y)[5] = g[5]
      /\ (g \o y)[5 + 1] = y[1] /\ (g \o y)[5 + 2] = y[2]
  <2>1. /\ g \o y \in Seq(Byte)
        /\ \A i \in 1..Len(g) : (g \o y)[i] = g[i]
        /\ \A i \in 1..Len(y) : (g \o y)[Len(g) + i] = y[i]
    BY <1>3, <1>7, Glue
  <2>2. 1 \in 1..2 /\ 2 \in 1..2 /\ 4 \in 1..5 /\ 5 \in 1..5
    OBVIOUS
  <2> QED BY <1>3, <1>7, <2>1, <2>2
<1>9. b \in Seq(Byte) /\ b[4] = x[1] /\ b[5] = x[2] /\ b[6] = y[1] /\ b[7] = y[2]
  <2>1. 5 + 1 = 6 /\ 5 + 2 = 7
    OBVIOUS
  <2> QED BY <1>7, <1>8, <2>1
<1>10. U16(b[4], b[5]) = f /\ U16(b[6], b[7]) = t
  BY <1>2, <1>3, <1>9
<1>11. Understood(thing.type, b) = Job("Tone", 0, <<f, t>>)
  BY <1>1, <1>10 DEF Understood
<1>12. o.job = Job("Tone", 0, <<f, t>>) /\ o.bytes = b
  BY OrderIs
<1> HIDE DEF o
<1>13. Good(o)
  BY <1>9, <1>11, <1>12, NoSpeed, SameJob
<1> QED BY <1>13 DEF o, b

\* A pixel shows its colour in full brightness.
LEMMA PixelShown ==
  ASSUME NEW c \in Colors
  PROVE  /\ Pixel(c) \in Byte
         /\ c # NoColor => Shown(Pixel(c)) = [color |-> c, brightness |-> MaxBrightness]
<1>1. CASE c = NoColor
  <2>1. c = 255
    BY <1>1 DEF NoColor
  <2>2. (255 \div 32) % 2 = 1
    OBVIOUS
  <2>3. Pixel(c) = 255
    BY <2>1, <2>2 DEF Pixel
  <2> QED BY <1>1, <2>3 DEF Byte
<1>2. CASE c # NoColor
  <2>1. c \in Nat /\ c <= 10
    BY <1>2 DEF Colors
  <2>2. c \div 32 = 0 /\ 0 % 2 = 0
    BY <2>1
  <2>3. Pixel(c) = c + 160
    BY <2>1, <2>2 DEF Pixel
  <2>4. (c + 160) % 16 = c /\ (c + 160) \div 16 = 10
    BY <2>1
  <2> DEFINE p == Pixel(c)
  <2>5. p \in Byte
    BY <2>1, <2>3 DEF Byte
  <2>6. p % 16 = c /\ p \div 16 = MaxBrightness
    BY <2>3, <2>4 DEF MaxBrightness
  <2> HIDE DEF p
  <2>7. Shown(p) = [color |-> c, brightness |-> MaxBrightness]
    BY <2>6 DEF Shown
  <2> QED BY <1>2, <2>5, <2>7 DEF p
<1> QED BY <1>1, <1>2

\* A sequence given by its elements.
LEMMA Listed ==
  ASSUME NEW n \in Nat, NEW S, NEW f, f = [k \in 1..n |-> f[k]], \A k \in 1..n : f[k] \in S
  PROVE  f \in Seq(S) /\ Len(f) = n /\ DOMAIN f = 1..n
<1>1. f \in [1..n -> S]
  OBVIOUS
<1> QED BY <1>1

\* As much of a picture as the matrix has room for, and its bytes.
Room(picture)    == IF Len(picture) < 9 THEN Len(picture) ELSE 9
Row(picture)     == [k \in 1..Room(picture) |-> Pixel(picture[k])]
Painted(picture) == <<81, 2>> \o Row(picture)
Seen(b)          == [k \in 1..Len(b) - 2 |-> Shown(b[k + 2])]

\* What the matrix shows of a picture.
LEMMA PictureShown ==
  ASSUME NEW picture \in Seq(Colors)
  PROVE  Painted(picture) \in Seq(Byte) /\ Displayed(picture, Seen(Painted(picture)))
<1> DEFINE n == Room(picture)
           row == Row(picture)
           b == Painted(picture)
           h == <<81, 2>>
           shown == [k \in 1..n |-> Shown(b[k + 2])]
<1>0. n \in Nat /\ n = (IF Len(picture) < 9 THEN Len(picture) ELSE 9)
  BY DEF Room
<1> HIDE DEF n
<1>1. \A k \in 1..n : picture[k] \in Colors
  <2>1. n <= Len(picture) /\ Len(picture) \in Nat
    BY <1>0
  <2> QED BY <1>0, <2>1
<1>2. row \in Seq(Byte) /\ Len(row) = n /\ \A k \in 1..n : row[k] = Pixel(picture[k])
  <2>1. \A k \in 1..n : row[k] = Pixel(picture[k]) /\ row[k] \in Byte
    BY <1>1, PixelShown DEF Row, n
  <2>2. row = [k \in 1..n |-> row[k]]
    BY DEF Row, n
  <2> HIDE DEF row
  <2>3. row \in Seq(Byte) /\ Len(row) = n
    BY <1>0, <2>1, <2>2, Listed
  <2> QED BY <2>1, <2>3
<1>3. h \in Seq(Byte) /\ Len(h) = 2
  <2>1. 81 \in Byte /\ 2 \in Byte
    BY DEF Byte
  <2> QED BY <2>1
<1>4. b = h \o row
  BY DEF Painted
<1> HIDE DEF h, row, b
<1>5. /\ b \in Seq(Byte) /\ Len(b) = 2 + n
      /\ \A k \in 1..n : b[2 + k] = row[k]
  <2>1. /\ h \o row \in Seq(Byte) /\ Len(h \o row) = Len(h) + Len(row)
        /\ \A k \in 1..Len(row) : (h \o row)[Len(h) + k] = row[k]
    BY <1>2, <1>3, Glue
  <2> QED BY <1>2, <1>3, <1>4, <2>1
<1>6. Seen(b) = shown
  BY <1>0, <1>5 DEF Seen
<1>7. \A k \in 1..n : shown[k] = Shown(Pixel(picture[k]))
  BY <1>0, <1>2, <1>5
<1>8. Len(shown) = n /\ DOMAIN shown = 1..n
  BY <1>0
<1> HIDE DEF shown
<1>9. Displayed(picture, shown)
  BY <1>0, <1>1, <1>7, <1>8, PixelShown DEF Displayed
<1> QED BY <1>5, <1>6, <1>9 DEF b

\* An order to the matrix whose bytes are those of a picture.
LEMMA PictureGood ==
  ASSUME VInv, dev.kind = "ColorLightMatrix", NEW picture \in Seq(Colors)
  PROVE  Good(Order(Job("Pixels", 0, picture), Painted(picture)))
<1> DEFINE b == Painted(picture)
           pixels == Seen(b)
           asked == Job("Pixels", 0, picture)
           did == Job("Pixels", 0, pixels)
           o == Order(asked, b)
<1>1. b \in Seq(Byte) /\ Displayed(picture, pixels)
  BY PictureShown
<1> HIDE DEF b
<1>2. thing.type = 64
  BY LightTypes
<1>3. Understood(64, b) = did
  BY DEF Understood, Seen
<1> HIDE DEF pixels
<1>4. /\ asked.do = "Pixels" /\ asked.speed = 0 /\ asked.args = picture
      /\ did.do = "Pixels" /\ did.speed = 0 /\ did.args = pixels
  BY DEF Job
<1>5. o.job = asked /\ o.bytes = b
  BY OrderIs
<1> HIDE DEF asked, did, o
<1>6. DoneAs(asked, did)
  BY <1>1, <1>4, NoSpeed DEF DoneAs
<1>7. Good(o)
  BY <1>1, <1>2, <1>3, <1>5, <1>6 DEF Good
<1> QED BY <1>7 DEF o, asked, b

\* A picture the caller drew.
LEMMA SetMatrixGood ==
  ASSUME VInv, dev.kind = "ColorLightMatrix", NEW p \in Seq(Colors)
  PROVE  Good(Order(Job("Pixels", 0, p), EncodeSetMatrix(p)))
<1>1. Room(p) = IF Len(p) > 9 THEN 9 ELSE Len(p)
  BY DEF Room
<1>2. EncodeSetMatrix(p) = Painted(p)
  BY <1>1 DEF EncodeSetMatrix, Painted, Row
<1> QED BY <1>2, PictureGood

\* All of the matrix in one colour.
LEMMA MatrixColorGood ==
  ASSUME VInv, dev.kind = "ColorLightMatrix", NEW c \in Colors
  PROVE  Good(Order(Job("Pixels", 0, [k \in 1..9 |-> c]), EncodeMatrixColor(c)))
<1> DEFINE p == [k \in 1..9 |-> c]
<1>1. p \in Seq(Colors) /\ Len(p) = 9 /\ \A k \in 1..9 : p[k] = c
  OBVIOUS
<1> HIDE DEF p
<1>2. Room(p) = 9
  BY <1>1 DEF Room
<1>3. EncodeMatrixColor(c) = Painted(p)
  BY <1>1, <1>2 DEF EncodeMatrixColor, Painted, Row
<1>4. Good(Order(Job("Pixels", 0, p), Painted(p)))
  BY <1>1, PictureGood
<1> QED BY <1>3, <1>4 DEF p

\* Every order.
LEMMA EveryOrderGood ==
  ASSUME VInv, NEW o \in Orders
  PROVE  Good(o)
<1>1. /\ Bytes \subseteq Byte /\ Words \subseteq U16Type /\ Pictures \subseteq Seq(Colors)
      /\ \A c \in Colors : c \in Byte
  BY DevicesAssumption, ColorBytes
<1>0. dev.kind = Kind(thing.type)
  BY DEF VInv, InStep
<1>2. CASE dev.kind = "BasicMotor"
  BY <1>0, <1>2, BasicMotorGood DEF Orders
<1>3. CASE dev.kind = "TachoMotor"
  BY <1>0, <1>3, TachoMotorGood DEF Orders
<1>4. CASE dev.kind = "AbsoluteMotor"
  BY <1>0, <1>4, AbsoluteMotorGood DEF Orders
<1>5. CASE dev.kind = "HubLed"
  <2>1. \/ \E c \in Colors : o = Order(Job("Color", 0, <<c>>), EncodeSetColor(c))
        \/ \E r, g, b \in Bytes : o = Order(Job("Rgb", 0, <<r, g, b>>), EncodeSetRgb(r, g, b))
    BY <1>0, <1>5 DEF Orders, HubLedOrders
  <2> QED BY <1>1, <1>5, <2>1, HubLedColorGood, HubLedRgbGood
<1>6. CASE dev.kind = "Light"
  <2>1. \E b \in Bytes : o = Order(Job("Brightness", 0, <<b>>), EncodeSetBrightness(b))
    BY <1>0, <1>6 DEF Orders, LightOrders
  <2> QED BY <1>1, <1>6, <2>1, LightGood
<1>7. CASE dev.kind = "PiezoBuzzer"
  <2>1. o \in BuzzerOrders
    BY <1>0, <1>7 DEF Orders
  <2>2. PICK f \in Words, t \in Words :
          o = Order(Job("Tone", 0, <<f, t>>), EncodePlayTone(f, t))
    BY <2>1 DEF BuzzerOrders
  <2> QED BY <1>1, <1>7, <2>2, ToneGood
<1>8. CASE dev.kind = "ColorLightMatrix"
  <2>1. \/ \E c \in Colors :
             o = Order(Job("Pixels", 0, [k \in 1..9 |-> c]), EncodeMatrixColor(c))
        \/ \E p \in Pictures : o = Order(Job("Pixels", 0, p), EncodeSetMatrix(p))
    BY <1>0, <1>8 DEF Orders, MatrixOrders
  <2> QED BY <1>1, <1>8, <2>1, MatrixColorGood, SetMatrixGood
<1>9. CASE dev.kind \notin {"BasicMotor", "TachoMotor", "AbsoluteMotor", "HubLed", "Light",
                           "PiezoBuzzer", "ColorLightMatrix"}
  BY <1>0, <1>9 DEF Orders
<1> QED BY <1>2, <1>3, <1>4, <1>5, <1>6, <1>7, <1>8, <1>9

-----------------------------------------------------------------------------
(***************************************************************************)
(* The theorems.                                                           *)
(***************************************************************************)
(***************************************************************************)
(* Whatever is announced, the object made for it, the events it makes of   *)
(* what the thing sends and the bytes of its commands have the types of    *)
(* device/mod.rs.                                                          *)
(***************************************************************************)
THEOREM DevicesTypeCorrect == Spec => []TypeOK
<1>1. VInv => TypeOK
  <2> SUFFICES ASSUME VInv PROVE TypeOK
    OBVIOUS
  <2>1. \A r \in Measured : EventOK(Event(r))
    BY EveryReadingRight DEF Right
  <2>2. \A o \in Orders : o.bytes \in Seq(Byte)
    BY EveryOrderGood DEF Good
  <2> QED BY <2>1, <2>2 DEF TypeOK, VInv
<1> QED BY <1>1, DevicesInductive, PTL

(***************************************************************************)
(* Whatever is announced, in whatever mode, for every payload: what the    *)
(* object reports is what the thing measured.                              *)
(***************************************************************************)
THEOREM Truthful == Spec => []ReportsTheTruth
<1>1. VInv => ReportsTheTruth
  BY EveryReadingRight DEF Right, ReportsTheTruth
<1> QED BY <1>1, DevicesInductive, PTL

(***************************************************************************)
(* Scaling, f32 rounding included, distorts no distance, voltage or        *)
(* current by more than a unit, for every u16 and every byte.              *)
(***************************************************************************)
THEOREM Faithful == Spec => []MeasuresAreClose
<1>1. VInv => MeasuresAreClose
  BY EveryReadingRight DEF Right, MeasuresAreClose
<1> QED BY <1>1, DevicesInductive, PTL

(***************************************************************************)
(* Every order the caller encodes on its own object, with every argument   *)
(* its Rust type allows, the whole of u32 for an angle to turn by, makes   *)
(* the thing do what was asked under the settings of that object; of a     *)
(* picture nothing is said where it asks for no colour.                    *)
(***************************************************************************)
THEOREM Obedient == Spec => []DoesWhatWasAsked
<1>1. VInv => DoesWhatWasAsked
  BY EveryOrderGood DEF Good, DoesWhatWasAsked
<1> QED BY <1>1, DevicesInductive, PTL
=============================================================================
