--------------------------- MODULE RequestIdProofs ---------------------------
(***************************************************************************)
(* Proofs about the codec of request ids, for every tag, timestamp, slot   *)
(* and random bytes: decode reads the fields an id was made with, and an   *)
(* id that decode accepts is the only spelling of its fields.  The digits  *)
(* and the bytes of an id have the same bits, and a byte is the sum of its *)
(* bits.                                                                   *)
(***************************************************************************)
EXTENDS RequestId, TLAPS

\* The powers of two.
LEMMA Powers ==
  /\ Pow2[1] = 1 /\ Pow2[2] = 2 /\ Pow2[3] = 4 /\ Pow2[4] = 8
  /\ Pow2[5] = 16 /\ Pow2[6] = 32 /\ Pow2[7] = 64 /\ Pow2[8] = 128
BY DEF Pow2

BitOf(v, j) == (v \div Pow2[j + 1]) % 2

\* A byte or digit is the sum of its bits.
LEMMA BitSum ==
  ASSUME NEW v \in 0..255
  PROVE  /\ \A j \in 0..7 : BitOf(v, j) \in {0, 1}
         /\ v = BitOf(v, 0) + BitOf(v, 1) * 2 + BitOf(v, 2) * 4 + BitOf(v, 3) * 8
                + BitOf(v, 4) * 16 + BitOf(v, 5) * 32 + BitOf(v, 6) * 64 + BitOf(v, 7) * 128
         /\ v < 32 => BitOf(v, 5) = 0 /\ BitOf(v, 6) = 0 /\ BitOf(v, 7) = 0
         /\ v < 8 => BitOf(v, 3) = 0 /\ BitOf(v, 4) = 0
<1>1. /\ BitOf(v, 0) = v % 2 /\ BitOf(v, 1) = (v \div 2) % 2 /\ BitOf(v, 2) = (v \div 4) % 2
      /\ BitOf(v, 3) = (v \div 8) % 2 /\ BitOf(v, 4) = (v \div 16) % 2
      /\ BitOf(v, 5) = (v \div 32) % 2 /\ BitOf(v, 6) = (v \div 64) % 2
      /\ BitOf(v, 7) = (v \div 128) % 2
  BY Powers DEF BitOf
<1>2. \A j \in 0..7 : j \in {0, 1, 2, 3, 4, 5, 6, 7}
  OBVIOUS
<1>3. \A j \in 0..7 : BitOf(v, j) \in {0, 1}
  BY <1>1, <1>2
<1>4. v = (v % 2) + ((v \div 2) % 2) * 2 + ((v \div 4) % 2) * 4 + ((v \div 8) % 2) * 8
          + ((v \div 16) % 2) * 16 + ((v \div 32) % 2) * 32 + ((v \div 64) % 2) * 64
          + ((v \div 128) % 2) * 128
  BY SMTT(60)
<1>5. /\ v < 32 => (v \div 32) % 2 = 0 /\ (v \div 64) % 2 = 0 /\ (v \div 128) % 2 = 0
      /\ v < 8 => (v \div 8) % 2 = 0 /\ (v \div 16) % 2 = 0
  OBVIOUS
<1> QED
  BY ZenonT(100), <1>1, <1>3, <1>4, <1>5

SumOf(b) ==
  b[0] + b[1] * 2 + b[2] * 4 + b[3] * 8 + b[4] * 16 + b[5] * 32 + b[6] * 64 + b[7] * 128

\* Eight bits make a byte, whose bits they are.
LEMMA SumBit ==
  ASSUME NEW b \in [0..7 -> {0, 1}]
  PROVE  SumOf(b) \in 0..255 /\ \A i \in 0..7 : BitOf(SumOf(b), i) = b[i]
<1>1. PICK b0 \in {0, 1}, b1 \in {0, 1}, b2 \in {0, 1}, b3 \in {0, 1},
           b4 \in {0, 1}, b5 \in {0, 1}, b6 \in {0, 1}, b7 \in {0, 1} :
        /\ b0 = b[0] /\ b1 = b[1] /\ b2 = b[2] /\ b3 = b[3]
        /\ b4 = b[4] /\ b5 = b[5] /\ b6 = b[6] /\ b7 = b[7]
  OBVIOUS
<1>2. PICK v : v = b0 + b1 * 2 + b2 * 4 + b3 * 8 + b4 * 16 + b5 * 32 + b6 * 64 + b7 * 128
  OBVIOUS
<1>a. v \in 0..255
  BY SMTT(60), <1>2
<1>3. v = SumOf(b) /\ v \in 0..255
  BY <1>1, <1>2, <1>a DEF SumOf
<1>4. /\ BitOf(v, 0) = v % 2 /\ BitOf(v, 1) = (v \div 2) % 2 /\ BitOf(v, 2) = (v \div 4) % 2
      /\ BitOf(v, 3) = (v \div 8) % 2 /\ BitOf(v, 4) = (v \div 16) % 2
      /\ BitOf(v, 5) = (v \div 32) % 2 /\ BitOf(v, 6) = (v \div 64) % 2
      /\ BitOf(v, 7) = (v \div 128) % 2
  <2>1. /\ Pow2[0 + 1] = 1 /\ Pow2[1 + 1] = 2 /\ Pow2[2 + 1] = 4 /\ Pow2[3 + 1] = 8
        /\ Pow2[4 + 1] = 16 /\ Pow2[5 + 1] = 32 /\ Pow2[6 + 1] = 64 /\ Pow2[7 + 1] = 128
        /\ v \div 1 = v
    BY <1>a, Powers
  <2> QED
    BY <2>1 DEF BitOf
<1>5. v % 2 = b0 /\ (v \div 2) % 2 = b1 /\ (v \div 4) % 2 = b2 /\ (v \div 8) % 2 = b3
  BY <1>2
<1>6. (v \div 16) % 2 = b4 /\ (v \div 32) % 2 = b5 /\ (v \div 64) % 2 = b6 /\ (v \div 128) % 2 = b7
  BY <1>2
<1>7. \A i \in 0..7 : i \in {0, 1, 2, 3, 4, 5, 6, 7}
  OBVIOUS
<1> QED
  BY <1>1, <1>3, <1>4, <1>5, <1>6, <1>7

\* Without the high bits it is a digit.
LEMMA SmallSum ==
  ASSUME NEW b \in [0..7 -> {0, 1}], b[5] = 0, b[6] = 0, b[7] = 0
  PROVE  SumOf(b) \in 0..31 /\ (b[3] = 0 /\ b[4] = 0 => SumOf(b) < 8)
<1>1. PICK b0 \in 0..1, b1 \in 0..1, b2 \in 0..1, b3 \in 0..1, b4 \in 0..1 :
        b0 = b[0] /\ b1 = b[1] /\ b2 = b[2] /\ b3 = b[3] /\ b4 = b[4]
  OBVIOUS
<1>2. SumOf(b) = b0 + b1 * 2 + b2 * 4 + b3 * 8 + b4 * 16 + 0 * 32 + 0 * 64 + 0 * 128
  BY Zenon, <1>1 DEF SumOf
<1>3. SumOf(b) = b0 + b1 * 2 + b2 * 4 + b3 * 8 + b4 * 16
  BY <1>2
<1>4. SumOf(b) \in 0..31
  BY <1>3
<1>5. b3 = 0 /\ b4 = 0 => SumOf(b) < 8
  BY <1>3
<1> QED
  BY Zenon, <1>1, <1>4, <1>5

\* Bit i of the n that BitsAt puts together.
Piece(s, width, from, n, i) ==
  IF i < n /\ from + i < width * Len(s) THEN Bit(s, width, from + i) ELSE 0

Byte == 0..255
Digit == 0..31

\* BitsAt puts together a number with the bits it reads.
LEMMA Gathered ==
  ASSUME NEW s, NEW width \in {5, 8}, NEW from \in Nat, NEW n \in {5, 8}, Len(s) \in Nat,
         \A i \in 0..7 : Piece(s, width, from, n, i) \in {0, 1}
  PROVE  /\ BitsAt(s, width, from, n) \in Byte
         /\ n = 5 => BitsAt(s, width, from, n) \in Digit
         /\ \A i \in 0..7 : BitOf(BitsAt(s, width, from, n), i) = Piece(s, width, from, n, i)
<1>1. PICK b \in [0..7 -> {0, 1}] : b = [i \in 0..7 |-> Piece(s, width, from, n, i)]
  OBVIOUS
<1>2. BitsAt(s, width, from, n) = SumOf(b)
  <2> DEFINE B(i) == IF i < n /\ from + i < width * Len(s) THEN Bit(s, width, from + i) * Pow2[i + 1] ELSE 0
  <2>1. BitsAt(s, width, from, n) = B(0) + B(1) + B(2) + B(3) + B(4) + B(5) + B(6) + B(7)
    BY DEF BitsAt
  <2>2. ASSUME NEW i \in 0..7, NEW y \in Int, Pow2[i + 1] = y
        PROVE  B(i) = b[i] * y
    <3>1. CASE i < n /\ from + i < width * Len(s)
      BY <1>1, <2>2, <3>1 DEF Piece
    <3>2. CASE ~(i < n /\ from + i < width * Len(s))
      <4>1. b[i] = 0 /\ B(i) = 0
        BY <1>1, <3>2 DEF Piece
      <4>2. 0 * y = 0
        OBVIOUS
      <4> QED
        BY <4>1, <4>2
    <3> QED
      BY <3>1, <3>2
  <2> HIDE DEF B
  <2>6. /\ 0 \in 0..7 /\ 1 \in 0..7 /\ 2 \in 0..7 /\ 3 \in 0..7
        /\ 4 \in 0..7 /\ 5 \in 0..7 /\ 6 \in 0..7 /\ 7 \in 0..7
        /\ Pow2[0 + 1] = 1 /\ Pow2[1 + 1] = 2 /\ Pow2[2 + 1] = 4 /\ Pow2[3 + 1] = 8
        /\ Pow2[4 + 1] = 16 /\ Pow2[5 + 1] = 32 /\ Pow2[6 + 1] = 64 /\ Pow2[7 + 1] = 128
    BY Powers
  <2>3. B(0) = b[0] * 1 /\ B(1) = b[1] * 2 /\ B(2) = b[2] * 4 /\ B(3) = b[3] * 8
    BY SMTT(60), <2>2, <2>6
  <2>4. B(4) = b[4] * 16 /\ B(5) = b[5] * 32 /\ B(6) = b[6] * 64 /\ B(7) = b[7] * 128
    BY SMTT(60), <2>2, <2>6
  <2>5. b[0] * 1 = b[0]
    OBVIOUS
  <2> QED
    BY <2>1, <2>3, <2>4, <2>5 DEF SumOf
<1>3. SumOf(b) \in 0..255 /\ \A i \in 0..7 : BitOf(SumOf(b), i) = b[i]
  BY ZenonT(100), SumBit
<1>4. n = 5 => SumOf(b) \in 0..31
  <2>1. n = 5 => b[5] = 0 /\ b[6] = 0 /\ b[7] = 0
    BY <1>1 DEF Piece
  <2> QED
    BY <2>1, SmallSum
<1> QED
  BY <1>1, <1>2, <1>3, <1>4 DEF Byte, Digit

Packed == [1..PACKED_LEN -> 0..255]
Encoded == [1..ID_LEN -> 0..31]

\* The lengths of packed bytes and of digits.
LEMMA Lengths ==
  /\ \A p \in Packed : Len(p) = 16 /\ \A i \in 1..16 : p[i] \in 0..255
  /\ \A e \in Encoded : Len(e) = 26 /\ \A i \in 1..26 : e[i] \in 0..31
BY SMTT(60) DEF Packed, Encoded, PACKED_LEN, ID_LEN

\* Bits of bytes and of digits, by number.
LEMMA Bits ==
  /\ \A p \in Packed, k \in Nat :
       k < 128 => /\ Bit(p, 8, k) = BitOf(p[16 - (k \div 8)], k % 8) /\ Bit(p, 8, k) \in {0, 1}
                  /\ 16 - (k \div 8) \in 1..16
  /\ \A e \in Encoded, k \in Nat :
       k < 130 => /\ Bit(e, 5, k) = BitOf(e[26 - (k \div 5)], k % 5) /\ Bit(e, 5, k) \in {0, 1}
                  /\ 26 - (k \div 5) \in 1..26
<1>1. ASSUME NEW p \in Packed, NEW k \in Nat, k < 128
      PROVE  /\ Bit(p, 8, k) = BitOf(p[16 - (k \div 8)], k % 8) /\ Bit(p, 8, k) \in {0, 1}
             /\ 16 - (k \div 8) \in 1..16
  <2>1. k % 8 \in 0..7 /\ 16 - (k \div 8) \in 1..16
    BY <1>1
  <2>2. Len(p) = 16 /\ p[16 - (k \div 8)] \in 0..255
    BY <2>1, Lengths
  <2>3. Bit(p, 8, k) = BitOf(p[16 - (k \div 8)], k % 8)
    BY <2>2 DEF Bit, BitOf
  <2> QED
    BY SMTT(60), <2>1, <2>2, <2>3, BitSum
<1>2. ASSUME NEW e \in Encoded, NEW k \in Nat, k < 130
      PROVE  /\ Bit(e, 5, k) = BitOf(e[26 - (k \div 5)], k % 5) /\ Bit(e, 5, k) \in {0, 1}
             /\ 26 - (k \div 5) \in 1..26
  <2>1. k % 5 \in 0..7 /\ 26 - (k \div 5) \in 1..26
    BY <1>2
  <2>2. Len(e) = 26 /\ e[26 - (k \div 5)] \in 0..255
    BY <2>1, Lengths
  <2>3. Bit(e, 5, k) = BitOf(e[26 - (k \div 5)], k % 5)
    BY <2>2 DEF Bit, BitOf
  <2> QED
    BY SMTT(60), <2>1, <2>2, <2>3, BitSum
<1> QED
  BY <1>1, <1>2

\* The digits of an id: bit k of the digits is bit k of the bytes.
LEMMA EncodeBits ==
  ASSUME NEW p \in Packed, NEW e, e = encode_crockford_base32(p)
  PROVE  /\ e \in Encoded /\ e[1] < 8
         /\ \A k \in Nat : k < 128 => Bit(e, 5, k) = Bit(p, 8, k)
<1>0. Len(p) = 16
  BY Lengths
<1>1. ASSUME NEW q \in 0..25
      PROVE  /\ e[26 - q] \in 0..31
             /\ \A i \in 0..7 : BitOf(e[26 - q], i) = Piece(p, 8, 5 * q, 5, i)
  <2>1. e[26 - q] = BitsAt(p, 8, 5 * q, 5)
    BY DEF encode_crockford_base32, ID_LEN
  <2>2. \A i \in 0..7 : Piece(p, 8, 5 * q, 5, i) \in {0, 1}
    BY <1>0, Bits DEF Piece
  <2>3. PICK f \in Nat : f = 5 * q
    OBVIOUS
  <2>4. 8 \in {5, 8} /\ 5 \in {5, 8} /\ Len(p) \in Nat
    BY <1>0
  <2>5. /\ BitsAt(p, 8, f, 5) \in Digit
        /\ \A i \in 0..7 : BitOf(BitsAt(p, 8, f, 5), i) = Piece(p, 8, f, 5, i)
    BY ZenonT(100), <2>2, <2>3, <2>4, Gathered
  <2> QED
    BY <2>1, <2>3, <2>5 DEF Digit
<1>2. e \in Encoded
  <2>1. \A i \in 1..26 : e[i] \in 0..31
    <3> SUFFICES ASSUME NEW i \in 1..26 PROVE e[i] \in 0..31
      OBVIOUS
    <3>1. 26 - i \in 0..25 /\ 26 - (26 - i) = i
      OBVIOUS
    <3> QED
      BY <1>1, <3>1
  <2>2. e = [i \in 1..26 |-> e[i]]
    BY DEF encode_crockford_base32, ID_LEN
  <2> QED
    BY <2>1, <2>2 DEF Encoded, ID_LEN
<1>3. e[1] < 8
  <2>1. e[1] \in 0..31 /\ \A i \in 0..7 : BitOf(e[1], i) = Piece(p, 8, 125, 5, i)
    <3>1. 25 \in 0..25 /\ 26 - 25 = 1 /\ 5 * 25 = 125
      OBVIOUS
    <3> QED
      BY <1>1, <3>1
  <2>2. Piece(p, 8, 125, 5, 3) = 0 /\ Piece(p, 8, 125, 5, 4) = 0
    BY <1>0 DEF Piece
  <2>3. PICK b \in [0..7 -> {0, 1}] : e[1] = SumOf(b) /\ b[3] = 0 /\ b[4] = 0 /\ b[5] = 0 /\ b[6] = 0 /\ b[7] = 0
    <3>0. e[1] \in 0..255
      BY SMTT(60), <2>1
    <3>a. \A i \in 0..7 : BitOf(e[1], i) \in {0, 1}
      BY SMTT(60), <3>0, BitSum
    <3>1. PICK b \in [0..7 -> {0, 1}] : b = [i \in 0..7 |-> BitOf(e[1], i)]
      BY <3>a
    <3>2. b[3] = 0 /\ b[4] = 0 /\ b[5] = 0 /\ b[6] = 0 /\ b[7] = 0
      BY SMTT(60), <2>1, <2>2, <3>1, BitSum
    <3>3. e[1] = SumOf(b)
      BY SMTT(60), <2>1, <3>1, BitSum DEF SumOf
    <3> QED
      BY <3>2, <3>3
  <2> QED
    BY <2>3, SmallSum
<1>4. ASSUME NEW k \in Nat, k < 128 PROVE Bit(e, 5, k) = Bit(p, 8, k)
  <2>1. PICK q \in 0..25, j \in 0..4 : q = k \div 5 /\ j = k % 5 /\ 5 * q + j = k
    BY <1>4
  <2>2. Bit(e, 5, k) = BitOf(e[26 - q], j)
    <3>1. k < 130
      BY <1>4
    <3>2. Bit(e, 5, k) = BitOf(e[26 - (k \div 5)], k % 5)
      BY Zenon, <1>2, <3>1, Bits
    <3> QED
      BY Zenon, <2>1, <3>2
  <2>3. Piece(p, 8, 5 * q, 5, j) = Bit(p, 8, k)
    BY <1>0, <1>4, <2>1 DEF Piece
  <2> QED
    BY <1>1, <2>1, <2>2, <2>3
<1> QED
  BY SMTT(60), <1>2, <1>3, <1>4

\* The bytes of digits that fit: bit k of the bytes is bit k of the digits.
LEMMA DecodeBits ==
  ASSUME NEW e \in Encoded, e[1] < 8, NEW p, p = decode_crockford_base32(e)
  PROVE  /\ p \in Packed
         /\ \A k \in Nat : k < 128 => Bit(p, 8, k) = Bit(e, 5, k)
<1>0. Len(e) = 26
  BY SMTT(60), Lengths
<1>1. p = [i \in 1..16 |-> BitsAt(e, 5, 8 * (16 - i), 8)]
  BY <1>0, Lengths DEF decode_crockford_base32, Encoded, ID_LEN, PACKED_LEN
<1>2. ASSUME NEW q \in 0..15
      PROVE  /\ p[16 - q] \in 0..255
             /\ \A i \in 0..7 : BitOf(p[16 - q], i) = Piece(e, 5, 8 * q, 8, i)
  <2>1. p[16 - q] = BitsAt(e, 5, 8 * q, 8)
    BY <1>1
  <2>2. \A i \in 0..7 : Piece(e, 5, 8 * q, 8, i) \in {0, 1}
    BY <1>0, Bits DEF Piece
  <2>3. PICK f \in Nat : f = 8 * q
    OBVIOUS
  <2>4. 8 \in {5, 8} /\ 5 \in {5, 8} /\ Len(e) \in Nat
    BY <1>0
  <2>5. /\ BitsAt(e, 5, f, 8) \in Byte
        /\ \A i \in 0..7 : BitOf(BitsAt(e, 5, f, 8), i) = Piece(e, 5, f, 8, i)
    BY ZenonT(100), <2>2, <2>3, <2>4, Gathered
  <2> QED
    BY <2>1, <2>3, <2>5 DEF Byte
<1>3. p \in Packed
  <2>1. \A i \in 1..16 : p[i] \in 0..255
    <3> SUFFICES ASSUME NEW i \in 1..16 PROVE p[i] \in 0..255
      BY SMTT(60)
    <3>1. 16 - i \in 0..15 /\ 16 - (16 - i) = i
      OBVIOUS
    <3> QED
      BY SMTT(60), <1>2, <3>1
  <2> QED
    BY SMTT(60), <1>1, <2>1 DEF Packed, PACKED_LEN
<1>4. ASSUME NEW k \in Nat, k < 128 PROVE Bit(p, 8, k) = Bit(e, 5, k)
  <2>1. PICK q \in 0..15, j \in 0..7 : q = k \div 8 /\ j = k % 8 /\ 8 * q + j = k
    BY <1>4
  <2>2. Bit(p, 8, k) = BitOf(p[16 - q], j)
    <3>1. Bit(p, 8, k) = BitOf(p[16 - (k \div 8)], k % 8)
      BY Zenon, <1>3, <1>4, Bits
    <3> QED
      BY Zenon, <2>1, <3>1
  <2>3. Piece(e, 5, 8 * q, 8, j) = Bit(e, 5, k)
    BY <1>0, <1>4, <2>1 DEF Piece
  <2> QED
    BY <1>2, <2>1, <2>2, <2>3
<1> QED
  BY SMTT(60), <1>3, <1>4

\* Equal bits, equal bytes and digits.
LEMMA SameBits ==
  ASSUME NEW u \in 0..255, NEW v \in 0..255, \A i \in 0..7 : BitOf(u, i) = BitOf(v, i)
  PROVE  u = v
<1>1. u = BitOf(u, 0) + BitOf(u, 1) * 2 + BitOf(u, 2) * 4 + BitOf(u, 3) * 8
          + BitOf(u, 4) * 16 + BitOf(u, 5) * 32 + BitOf(u, 6) * 64 + BitOf(u, 7) * 128
  BY Zenon, BitSum
<1>2. v = BitOf(v, 0) + BitOf(v, 1) * 2 + BitOf(v, 2) * 4 + BitOf(v, 3) * 8
          + BitOf(v, 4) * 16 + BitOf(v, 5) * 32 + BitOf(v, 6) * 64 + BitOf(v, 7) * 128
  BY Zenon, BitSum
<1>3. /\ BitOf(u, 0) = BitOf(v, 0) /\ BitOf(u, 1) = BitOf(v, 1) /\ BitOf(u, 2) = BitOf(v, 2)
      /\ BitOf(u, 3) = BitOf(v, 3) /\ BitOf(u, 4) = BitOf(v, 4) /\ BitOf(u, 5) = BitOf(v, 5)
      /\ BitOf(u, 6) = BitOf(v, 6) /\ BitOf(u, 7) = BitOf(v, 7)
  OBVIOUS
<1> QED
  BY Zenon, <1>1, <1>2, <1>3

\* decode_crockford_base32 undoes encode_crockford_base32.
LEMMA DecodeEncode ==
  ASSUME NEW p \in Packed
  PROVE  decode_crockford_base32(encode_crockford_base32(p)) = p
<1>1. PICK e : e = encode_crockford_base32(p)
  OBVIOUS
<1>2. e \in Encoded /\ e[1] < 8 /\ \A k \in Nat : k < 128 => Bit(e, 5, k) = Bit(p, 8, k)
  BY <1>1, EncodeBits
<1>3. PICK d : d = decode_crockford_base32(e)
  OBVIOUS
<1>4. d \in Packed /\ \A k \in Nat : k < 128 => Bit(d, 8, k) = Bit(e, 5, k)
  BY <1>2, <1>3, DecodeBits
<1>5. ASSUME NEW i \in 1..16 PROVE d[i] = p[i]
  <2>0. d[i] \in 0..255 /\ p[i] \in 0..255
    BY <1>4, Lengths
  <2>1. ASSUME NEW j \in 0..7 PROVE BitOf(d[i], j) = BitOf(p[i], j)
    <3>1. PICK k \in Nat : k = 8 * (16 - i) + j /\ k < 128
      OBVIOUS
    <3>2. 16 - (k \div 8) = i /\ k % 8 = j
      BY <3>1
    <3>3. Bit(d, 8, k) = BitOf(d[i], j)
      BY ZenonT(100), <1>4, <3>1, <3>2, Bits
    <3>4. Bit(p, 8, k) = BitOf(p[i], j)
      BY Zenon, <3>1, <3>2, Bits
    <3> QED
      BY <1>2, <1>4, <3>1, <3>3, <3>4
  <2> QED
    BY ZenonT(100), <2>0, <2>1, SameBits
<1>6. d = p
  BY <1>4, <1>5 DEF Packed, PACKED_LEN
<1> QED
  BY <1>1, <1>3, <1>6

\* encode_crockford_base32 undoes decode_crockford_base32: an id has one
\* spelling.
LEMMA EncodeDecode ==
  ASSUME NEW e \in Encoded, e[1] < 8
  PROVE  /\ decode_crockford_base32(e) \in Packed
         /\ encode_crockford_base32(decode_crockford_base32(e)) = e
<1>1. PICK p : p = decode_crockford_base32(e)
  OBVIOUS
<1>2. p \in Packed /\ \A k \in Nat : k < 128 => Bit(p, 8, k) = Bit(e, 5, k)
  BY <1>1, DecodeBits
<1>3. PICK f : f = encode_crockford_base32(p)
  OBVIOUS
<1>4. f \in Encoded /\ f[1] < 8 /\ \A k \in Nat : k < 128 => Bit(f, 5, k) = Bit(p, 8, k)
  BY <1>2, <1>3, EncodeBits
<1>5. ASSUME NEW i \in 1..26 PROVE f[i] = e[i]
  <2>0. f[i] \in 0..31 /\ e[i] \in 0..31 /\ f[i] \in 0..255 /\ e[i] \in 0..255
    BY <1>4, Lengths
  <2>1. ASSUME NEW j \in 0..4, 5 * (26 - i) + j < 128 PROVE BitOf(f[i], j) = BitOf(e[i], j)
    <3>1. PICK k \in Nat : k = 5 * (26 - i) + j /\ k < 128 /\ k < 130
      BY <2>1
    <3>2. 26 - (k \div 5) = i /\ k % 5 = j
      BY <3>1
    <3>3. Bit(f, 5, k) = BitOf(f[i], j)
      BY Zenon, <1>4, <3>1, <3>2, Bits
    <3>4. Bit(e, 5, k) = BitOf(e[i], j)
      BY Zenon, <3>1, <3>2, Bits
    <3> QED
      BY <1>2, <1>4, <3>1, <3>3, <3>4
  <2>2. /\ f[i] < 32 => BitOf(f[i], 5) = 0 /\ BitOf(f[i], 6) = 0 /\ BitOf(f[i], 7) = 0
        /\ f[i] < 8 => BitOf(f[i], 3) = 0 /\ BitOf(f[i], 4) = 0
    BY Zenon, <2>0, BitSum
  <2>3. /\ e[i] < 32 => BitOf(e[i], 5) = 0 /\ BitOf(e[i], 6) = 0 /\ BitOf(e[i], 7) = 0
        /\ e[i] < 8 => BitOf(e[i], 3) = 0 /\ BitOf(e[i], 4) = 0
    BY Zenon, <2>0, BitSum
  <2>4. ASSUME NEW j \in 0..7 PROVE BitOf(f[i], j) = BitOf(e[i], j)
    <3>1. CASE j \in {5, 6, 7}
      <4>1. f[i] < 32 /\ e[i] < 32
        BY <2>0
      <4> QED
        BY <2>2, <2>3, <3>1, <4>1
    <3>2. CASE j \in 0..4 /\ 5 * (26 - i) + j < 128
      BY <2>1, <3>2
    <3>3. CASE j \in 0..4 /\ ~(5 * (26 - i) + j < 128)
      <4>1. i = 1 /\ j \in {3, 4}
        BY <3>3
      <4> QED
        BY <1>4, <2>2, <2>3, <4>1
    <3>4. j \in {5, 6, 7} \/ j \in 0..4
      OBVIOUS
    <3> QED
      BY <3>1, <3>2, <3>3, <3>4
  <2> QED
    BY ZenonT(100), <2>0, <2>4, SameBits
<1>6. f = e
  BY <1>4, <1>5 DEF Encoded, ID_LEN
<1> QED
  BY <1>1, <1>2, <1>3, <1>6

-----------------------------------------------------------------------------
(* Tags and the fields of an id *)

\* What the digits of a tag stand for.
LEMMA TagOf ==
  ASSUME NEW a \in 0..36, NEW b \in 0..36, NEW c \in 0..36
  PROVE  /\ (a # 36 /\ b # 36 /\ c # 36) => tag_of(<<a, b, c>>) = <<a, b, c>>
         /\ (a # 36 /\ b # 36 /\ c = 36) => tag_of(<<a, b, c>>) = <<a, b>>
         /\ (a # 36 /\ b = 36 /\ c = 36) => tag_of(<<a, b, c>>) = <<a>>
         /\ (a = 36 \/ (b = 36 /\ c # 36)) => tag_of(<<a, b, c>>) = Err
<1>0. PICK t : t = tag_of(<<a, b, c>>)
  OBVIOUS
<1> DEFINE padded == {i \in 1..3 : <<a, b, c>>[i] = BASE37_SENTINEL}
<1>1. /\ 1 \in padded <=> a = 36
      /\ 2 \in padded <=> b = 36
      /\ 3 \in padded <=> c = 36
      /\ padded \subseteq {1, 2, 3}
  BY DEF BASE37_SENTINEL
<1>2. t = CASE padded = {} -> <<a, b, c>>
            [] padded = {3} -> <<<<a, b, c>>[1], <<a, b, c>>[2]>>
            [] padded = {2, 3} -> <<<<a, b, c>>[1]>>
            [] OTHER -> Err
  BY Zenon, <1>0 DEF tag_of
<1> HIDE DEF padded
<1>3. CASE a # 36 /\ b # 36 /\ c # 36
  <2>1. padded = {}
    BY <1>1, <1>3
  <2> QED
    BY <1>0, <1>2, <1>3, <2>1
<1>4. CASE a # 36 /\ b # 36 /\ c = 36
  <2>1. padded = {3} /\ padded # {}
    BY ZenonT(100), <1>1, <1>4
  <2> QED
    BY <1>0, <1>2, <1>4, <2>1
<1>5. CASE a # 36 /\ b = 36 /\ c = 36
  <2>1. padded = {2, 3}
    BY ZenonT(100), <1>1, <1>5
  <2>2. padded # {} /\ padded # {3}
    BY <1>1, <1>5
  <2> QED
    BY <1>0, <1>2, <1>5, <2>1, <2>2
<1>6. CASE a = 36 \/ (b = 36 /\ c # 36)
  <2>1. padded # {} /\ padded # {3} /\ padded # {2, 3}
    BY <1>1, <1>6
  <2>2. t = Err
    BY SMTT(60), <1>2, <2>1
  <2> QED
    BY <1>0, <1>6, <2>2
<1> QED
  BY Zenon, <1>0, <1>3, <1>4, <1>5, <1>6

Tags == [1..1 -> 0..35] \cup [1..2 -> 0..35] \cup [1..3 -> 0..35]

\* The digits of a packed tag, padded with the sentinel.
LEMMA PackDigits ==
  ASSUME NEW tag \in Tags
  PROVE  \E a \in 0..35, b \in 0..36, c \in 0..36 :
           /\ pack_tag(tag) = a * 37 * 37 + b * 37 + c
           /\ \/ tag = <<a, b, c>> /\ b # 36 /\ c # 36
              \/ tag = <<a, b>> /\ b # 36 /\ c = 36
              \/ tag = <<a>> /\ b = 36 /\ c = 36
<1>1. CASE tag \in [1..1 -> 0..35]
  <2>1. PICK a \in 0..35 : tag = <<a>>
    BY <1>1
  <2>2. pack_tag(<<a>>) = a * 37 * 37 + 36 * 37 + 36
    BY DEF pack_tag, BASE37_RADIX, BASE37_SENTINEL
  <2>3. 36 \in 0..36
    OBVIOUS
  <2> QED
    BY Zenon, <2>1, <2>2, <2>3
<1>2. CASE tag \in [1..2 -> 0..35]
  <2>0. tag = <<tag[1], tag[2]>> /\ tag[1] \in 0..35 /\ tag[2] \in 0..35
    BY <1>2
  <2>1. PICK a \in 0..35, b \in 0..35 : tag = <<a, b>>
    BY Zenon, <2>0
  <2>2. pack_tag(<<a, b>>) = a * 37 * 37 + b * 37 + 36
    BY DEF pack_tag, BASE37_RADIX, BASE37_SENTINEL
  <2>3. 36 \in 0..36 /\ b \in 0..36 /\ b # 36
    OBVIOUS
  <2> QED
    BY Zenon, <2>1, <2>2, <2>3
<1>3. CASE tag \in [1..3 -> 0..35]
  <2>0. tag = <<tag[1], tag[2], tag[3]>> /\ tag[1] \in 0..35 /\ tag[2] \in 0..35 /\ tag[3] \in 0..35
    BY <1>3
  <2>1. PICK a \in 0..35, b \in 0..35, c \in 0..35 : tag = <<a, b, c>>
    BY Zenon, <2>0
  <2>2. pack_tag(<<a, b, c>>) = a * 37 * 37 + b * 37 + c
    BY DEF pack_tag, BASE37_RADIX, BASE37_SENTINEL
  <2>3. b \in 0..36 /\ b # 36 /\ c \in 0..36 /\ c # 36
    OBVIOUS
  <2> QED
    BY Zenon, <2>1, <2>2, <2>3
<1> QED
  BY <1>1, <1>2, <1>3 DEF Tags

\* unpack_tag undoes pack_tag.
LEMMA UnpackPack ==
  ASSUME NEW tag \in Tags
  PROVE  pack_tag(tag) \in Nat /\ pack_tag(tag) < 65536 /\ unpack_tag(pack_tag(tag)) = tag
<1>1. PICK a \in 0..35, b \in 0..36, c \in 0..36 :
        /\ pack_tag(tag) = a * 37 * 37 + b * 37 + c
        /\ \/ tag = <<a, b, c>> /\ b # 36 /\ c # 36
           \/ tag = <<a, b>> /\ b # 36 /\ c = 36
           \/ tag = <<a>> /\ b = 36 /\ c = 36
  BY PackDigits
<1>2. PICK v : v = a * 37 * 37 + b * 37 + c
  OBVIOUS
<1>3. v \in Nat /\ v < 65536 /\ v < 37 * 37 * 37
  BY <1>2
<1>4. v \div (37 * 37) = a
  BY <1>2
<1>5. (v \div 37) % 37 = b /\ v % 37 = c
  BY <1>2
<1>6. unpack_tag(v) = tag_of(<<a, b, c>>)
  BY <1>3, <1>4, <1>5 DEF unpack_tag, BASE37_RADIX
<1>7. a \in 0..36 /\ a # 36
  OBVIOUS
<1>8. tag_of(<<a, b, c>>) = tag
  <2>1. CASE tag = <<a, b, c>> /\ b # 36 /\ c # 36
    BY Zenon, <1>7, <2>1, TagOf
  <2>2. CASE tag = <<a, b>> /\ b # 36 /\ c = 36
    BY ZenonT(100), <1>7, <2>2, TagOf
  <2>3. CASE tag = <<a>> /\ b = 36 /\ c = 36
    BY ZenonT(100), <1>7, <2>3, TagOf
  <2> QED
    BY Zenon, <1>1, <2>1, <2>2, <2>3
<1> QED
  BY SMTT(60), <1>1, <1>2, <1>3, <1>6, <1>8

\* pack_tag undoes unpack_tag: a tag has one packed value.
LEMMA PackUnpack ==
  ASSUME NEW v \in Nat, unpack_tag(v) # Err
  PROVE  unpack_tag(v) \in Tags /\ pack_tag(unpack_tag(v)) = v
<1>1. v < 37 * 37 * 37
  BY DEF unpack_tag, BASE37_RADIX
<1>2. PICK a \in 0..36, b \in 0..36, c \in 0..36 :
        a = v \div (37 * 37) /\ b = (v \div 37) % 37 /\ c = v % 37
  <2>1. v \div (37 * 37) \in 0..36
    BY <1>1
  <2>2. (v \div 37) % 37 \in 0..36
    OBVIOUS
  <2>3. v % 37 \in 0..36
    OBVIOUS
  <2> QED
    BY Zenon, <2>1, <2>2, <2>3
<1>3. v = a * 37 * 37 + b * 37 + c
  BY <1>1, <1>2
<1>4. unpack_tag(v) = tag_of(<<a, b, c>>)
  BY <1>1, <1>2 DEF unpack_tag, BASE37_RADIX
<1>5. CASE a # 36 /\ b # 36 /\ c # 36
  <2>1. unpack_tag(v) = <<a, b, c>>
    BY ZenonT(100), <1>4, <1>5, TagOf
  <2>2. pack_tag(<<a, b, c>>) = a * 37 * 37 + b * 37 + c
    BY DEF pack_tag, BASE37_RADIX, BASE37_SENTINEL
  <2>3. <<a, b, c>> \in [1..3 -> 0..35]
    BY <1>5
  <2> QED
    BY Zenon, <1>3, <2>1, <2>2, <2>3 DEF Tags
<1>6. CASE a # 36 /\ b # 36 /\ c = 36
  <2>1. unpack_tag(v) = <<a, b>>
    BY ZenonT(100), <1>4, <1>6, TagOf
  <2>2. pack_tag(<<a, b>>) = a * 37 * 37 + b * 37 + 36
    BY DEF pack_tag, BASE37_RADIX, BASE37_SENTINEL
  <2>3. <<a, b>> \in [1..2 -> 0..35]
    BY <1>6
  <2> QED
    BY Zenon, <1>3, <1>6, <2>1, <2>2, <2>3 DEF Tags
<1>7. CASE a # 36 /\ b = 36 /\ c = 36
  <2>1. unpack_tag(v) = <<a>>
    BY ZenonT(100), <1>4, <1>7, TagOf
  <2>2. pack_tag(<<a>>) = a * 37 * 37 + 36 * 37 + 36
    BY DEF pack_tag, BASE37_RADIX, BASE37_SENTINEL
  <2>3. <<a>> \in [1..1 -> 0..35]
    BY <1>7
  <2> QED
    BY ZenonT(100), <1>3, <1>7, <2>1, <2>2, <2>3 DEF Tags
<1>8. ~(a = 36 \/ (b = 36 /\ c # 36))
  BY ZenonT(100), <1>4, TagOf
<1> QED
  BY <1>5, <1>6, <1>7, <1>8

U16(n) == n \in Nat /\ n < 65536

Word(x, y) == x * 256 + y

\* The two bytes of a number.
LEMMA TwoBytes ==
  ASSUME NEW n, U16(n)
  PROVE  (\A i \in 1..2 : be_bytes(n)[i] \in Byte) /\ Word(be_bytes(n)[1], be_bytes(n)[2]) = n
<1>1. be_bytes(n)[1] = n \div 256 /\ be_bytes(n)[2] = n % 256
  BY DEF be_bytes
<1> QED
  BY SMTT(60), <1>1 DEF U16, Byte, Word

\* A number from two bytes.
LEMMA FromBytes ==
  ASSUME NEW x \in Byte, NEW y \in Byte, NEW n, n = Word(x, y)
  PROVE  U16(n) /\ be_bytes(n)[1] = x /\ be_bytes(n)[2] = y
<1>2. U16(n) /\ n \div 256 = x /\ n % 256 = y
  BY DEF U16, Byte, Word
<1> QED
  BY <1>2 DEF be_bytes

\* from_be_bytes reads two adjacent bytes.
LEMMA FromWord ==
  /\ \A p, i : from_be_bytes(p, i) = Word(p[i], p[i + 1])
  /\ Packed = [1..16 -> Byte]
  /\ 1 \in Byte
BY DEF from_be_bytes, Word, Packed, PACKED_LEN, Byte

\* p holds the fields of an id at their places.
Holds(p, site, env, ts, bytes, random) ==
  /\ p = [i \in 1..16 |-> p[i]]
  /\ p[1] = 1
  /\ \A i \in 2..3 : p[i] = be_bytes(site)[i - 1]
  /\ \A i \in 4..5 : p[i] = be_bytes(env)[i - 3]
  /\ \A i \in 6..7 : p[i] = be_bytes(ts[1])[i - 5]
  /\ \A i \in 8..9 : p[i] = be_bytes(ts[2])[i - 7]
  /\ \A i \in 10..11 : p[i] = bytes[i - 9]
  /\ \A i \in 12..16 : p[i] = random[i - 11]

\* The bytes of an id, field by field.
LEMMA LaidOut ==
  ASSUME NEW site, NEW env, NEW ts, NEW bytes, NEW random, NEW p,
         p = packed_id(site, env, ts, bytes, random)
  PROVE  Holds(p, site, env, ts, bytes, random)
<1>1. p = [i \in 1..16 |->
             CASE i = 1 -> 1
               [] i \in 2..3 -> be_bytes(site)[i - 1]
               [] i \in 4..5 -> be_bytes(env)[i - 3]
               [] i \in 6..7 -> be_bytes(ts[1])[i - 5]
               [] i \in 8..9 -> be_bytes(ts[2])[i - 7]
               [] i \in 10..11 -> bytes[i - 9]
               [] OTHER -> random[i - 11]]
  BY DEF packed_id, PACKED_LEN, ID_VERSION
<1> QED
  BY <1>1 DEF Holds

\* A number read from where it was written.
LEMMA Field ==
  ASSUME NEW p, NEW n, U16(n), NEW k \in 0..14,
         \A i \in k+2..k+3 : p[i] = be_bytes(n)[i - (k + 1)]
  PROVE  from_be_bytes(p, k + 2) = n /\ \A i \in k+2..k+3 : p[i] \in Byte
<1>1. p[k + 2] = be_bytes(n)[1] /\ p[(k + 2) + 1] = be_bytes(n)[2]
  OBVIOUS
<1>2. from_be_bytes(p, k + 2) = n
  BY Zenon, <1>1, TwoBytes, FromWord
<1>3. ASSUME NEW i \in k+2..k+3 PROVE p[i] \in Byte
  <2>1. PICK j \in 1..2 : j = i - (k + 1)
    OBVIOUS
  <2> QED
    BY Zenon, <2>1, TwoBytes
<1> QED
  BY <1>2, <1>3

\* The bytes of an id hold its fields.
LEMMA Laid ==
  ASSUME NEW site, NEW env, NEW ts, NEW slot_, NEW random \in [1..5 -> Byte],
         U16(site), U16(env), U16(ts[1]), U16(ts[2]), U16(slot_),
         NEW p, p = packed_id(site, env, ts, be_bytes(slot_), random)
  PROVE  /\ p \in Packed /\ p[1] = ID_VERSION
         /\ from_be_bytes(p, 2) = site /\ from_be_bytes(p, 4) = env
         /\ from_be_bytes(p, 6) = ts[1] /\ from_be_bytes(p, 8) = ts[2]
         /\ from_be_bytes(p, 10) = slot_
         /\ [i \in 1..5 |-> p[i + 11]] = random
<1>0. /\ p = [i \in 1..16 |-> p[i]]
      /\ p[1] = 1
      /\ \A i \in 2..3 : p[i] = be_bytes(site)[i - 1]
      /\ \A i \in 4..5 : p[i] = be_bytes(env)[i - 3]
      /\ \A i \in 6..7 : p[i] = be_bytes(ts[1])[i - 5]
      /\ \A i \in 8..9 : p[i] = be_bytes(ts[2])[i - 7]
      /\ \A i \in 10..11 : p[i] = be_bytes(slot_)[i - 9]
      /\ \A i \in 12..16 : p[i] = random[i - 11]
  <2>1. Holds(p, site, env, ts, be_bytes(slot_), random)
    BY Zenon, LaidOut
  <2> QED
    BY Zenon, <2>1 DEF Holds
<1>1. from_be_bytes(p, 2) = site /\ \A i \in 2..3 : p[i] \in Byte
  <2>0. PICK m : m = site
    OBVIOUS
  <2>1. PICK k \in 0..14 : k + 2 = 2 /\ k + 3 = 3 /\ k + 1 = 1
    OBVIOUS
  <2>2. U16(m) /\ \A i \in k+2..k+3 : p[i] = be_bytes(m)[i - (k + 1)]
    BY ZenonT(100), <1>0, <2>0, <2>1
  <2>3. from_be_bytes(p, k + 2) = m /\ \A i \in k+2..k+3 : p[i] \in Byte
    BY Zenon, <2>2, Field
  <2> QED
    BY Zenon, <2>0, <2>1, <2>3
<1>2. from_be_bytes(p, 4) = env /\ \A i \in 4..5 : p[i] \in Byte
  <2>0. PICK m : m = env
    OBVIOUS
  <2>1. PICK k \in 0..14 : k + 2 = 4 /\ k + 3 = 5 /\ k + 1 = 3
    OBVIOUS
  <2>2. U16(m) /\ \A i \in k+2..k+3 : p[i] = be_bytes(m)[i - (k + 1)]
    BY ZenonT(100), <1>0, <2>0, <2>1
  <2>3. from_be_bytes(p, k + 2) = m /\ \A i \in k+2..k+3 : p[i] \in Byte
    BY Zenon, <2>2, Field
  <2> QED
    BY Zenon, <2>0, <2>1, <2>3
<1>3. from_be_bytes(p, 6) = ts[1] /\ \A i \in 6..7 : p[i] \in Byte
  <2>0. PICK m : m = ts[1]
    OBVIOUS
  <2>1. PICK k \in 0..14 : k + 2 = 6 /\ k + 3 = 7 /\ k + 1 = 5
    OBVIOUS
  <2>2. U16(m) /\ \A i \in k+2..k+3 : p[i] = be_bytes(m)[i - (k + 1)]
    BY ZenonT(100), <1>0, <2>0, <2>1
  <2>3. from_be_bytes(p, k + 2) = m /\ \A i \in k+2..k+3 : p[i] \in Byte
    BY Zenon, <2>2, Field
  <2> QED
    BY Zenon, <2>0, <2>1, <2>3
<1>4. from_be_bytes(p, 8) = ts[2] /\ \A i \in 8..9 : p[i] \in Byte
  <2>0. PICK m : m = ts[2]
    OBVIOUS
  <2>1. PICK k \in 0..14 : k + 2 = 8 /\ k + 3 = 9 /\ k + 1 = 7
    OBVIOUS
  <2>2. U16(m) /\ \A i \in k+2..k+3 : p[i] = be_bytes(m)[i - (k + 1)]
    BY Zenon, <1>0, <2>0, <2>1
  <2>3. from_be_bytes(p, k + 2) = m /\ \A i \in k+2..k+3 : p[i] \in Byte
    BY Zenon, <2>2, Field
  <2> QED
    BY Zenon, <2>0, <2>1, <2>3
<1>5. from_be_bytes(p, 10) = slot_ /\ \A i \in 10..11 : p[i] \in Byte
  <2>0. PICK m : m = slot_
    OBVIOUS
  <2>1. PICK k \in 0..14 : k + 2 = 10 /\ k + 3 = 11 /\ k + 1 = 9
    OBVIOUS
  <2>2. U16(m) /\ \A i \in k+2..k+3 : p[i] = be_bytes(m)[i - (k + 1)]
    BY Zenon, <1>0, <2>0, <2>1
  <2>3. from_be_bytes(p, k + 2) = m /\ \A i \in k+2..k+3 : p[i] \in Byte
    BY Zenon, <2>2, Field
  <2> QED
    BY Zenon, <2>0, <2>1, <2>3
<1>6. \A i \in 12..16 : p[i] \in Byte
  BY <1>0
<1>7. \A i \in 1..16 : i = 1 \/ i \in 2..3 \/ i \in 4..5 \/ i \in 6..7 \/ i \in 8..9 \/ i \in 10..11 \/ i \in 12..16
  OBVIOUS
<1>8. \A i \in 1..16 : p[i] \in Byte
  BY Zenon, <1>0, <1>1, <1>2, <1>3, <1>4, <1>5, <1>6, <1>7, FromWord
<1>9. p \in Packed
  BY Zenon, <1>0, <1>8, FromWord
<1>10. [i \in 1..5 |-> p[i + 11]] = random
  BY <1>0
<1> QED
  BY Zenon, <1>0, <1>1, <1>2, <1>3, <1>4, <1>5, <1>9, <1>10 DEF ID_VERSION

\* The fields read from bytes are laid out as those bytes.
LEMMA Relaid ==
  ASSUME NEW p \in Packed, p[1] = ID_VERSION
  PROVE  /\ U16(from_be_bytes(p, 2)) /\ U16(from_be_bytes(p, 4)) /\ U16(from_be_bytes(p, 6))
         /\ U16(from_be_bytes(p, 8)) /\ U16(from_be_bytes(p, 10))
         /\ packed_id(from_be_bytes(p, 2), from_be_bytes(p, 4),
                      <<from_be_bytes(p, 6), from_be_bytes(p, 8)>>,
                      be_bytes(from_be_bytes(p, 10)), [i \in 1..5 |-> p[i + 11]]) = p
<1>1. ASSUME NEW i \in 1..15
      PROVE  U16(from_be_bytes(p, i)) /\ \A k \in i..i+1 : be_bytes(from_be_bytes(p, i))[k - (i - 1)] = p[k]
  <2>1. p[i] \in Byte /\ p[i + 1] \in Byte
    BY FromWord
  <2>2. PICK x \in Byte, y \in Byte : x = p[i] /\ y = p[i + 1]
    BY Zenon, <2>1
  <2>3. PICK n : n = from_be_bytes(p, i)
    OBVIOUS
  <2>4. n = Word(x, y)
    BY Zenon, <2>2, <2>3, FromWord
  <2>5. U16(n) /\ be_bytes(n)[1] = x /\ be_bytes(n)[2] = y
    BY ZenonT(100), <2>4, FromBytes
  <2>6. \A k \in i..i+1 : be_bytes(n)[k - (i - 1)] = p[k]
    BY <2>2, <2>5
  <2> QED
    BY Zenon, <2>3, <2>5, <2>6
<1>2. PICK r : r = [i \in 1..5 |-> p[i + 11]]
  OBVIOUS
<1>3. PICK t : t = <<from_be_bytes(p, 6), from_be_bytes(p, 8)>>
  OBVIOUS
<1>4. t[1] = from_be_bytes(p, 6) /\ t[2] = from_be_bytes(p, 8)
  BY <1>3
<1>5. PICK q : q = packed_id(from_be_bytes(p, 2), from_be_bytes(p, 4), t, be_bytes(from_be_bytes(p, 10)), r)
  OBVIOUS
<1>6. /\ q = [i \in 1..16 |-> q[i]]
      /\ q[1] = 1
      /\ \A i \in 2..3 : q[i] = be_bytes(from_be_bytes(p, 2))[i - 1]
      /\ \A i \in 4..5 : q[i] = be_bytes(from_be_bytes(p, 4))[i - 3]
      /\ \A i \in 6..7 : q[i] = be_bytes(from_be_bytes(p, 6))[i - 5]
      /\ \A i \in 8..9 : q[i] = be_bytes(from_be_bytes(p, 8))[i - 7]
      /\ \A i \in 10..11 : q[i] = be_bytes(from_be_bytes(p, 10))[i - 9]
      /\ \A i \in 12..16 : q[i] = r[i - 11]
  <2>1. Holds(q, from_be_bytes(p, 2), from_be_bytes(p, 4), t, be_bytes(from_be_bytes(p, 10)), r)
    BY Zenon, <1>5, LaidOut
  <2> QED
    BY Zenon, <1>4, <2>1 DEF Holds
<1>7. ASSUME NEW i \in {2, 4, 6, 8, 10} PROVE i \in 1..15
  OBVIOUS
<1>8. 3 = 2 + 1 /\ 5 = 4 + 1 /\ 7 = 6 + 1 /\ 9 = 8 + 1 /\ 11 = 10 + 1 /\ 1 = 2 - 1 /\ 3 = 4 - 1 /\ 5 = 6 - 1 /\ 7 = 8 - 1 /\ 9 = 10 - 1
  OBVIOUS
<1>9. \A i \in 2..3 : q[i] = p[i]
  BY <1>1, <1>6
<1>10. \A i \in 4..5 : q[i] = p[i]
  BY <1>1, <1>6
<1>11. \A i \in 6..7 : q[i] = p[i]
  BY <1>1, <1>6
<1>12. \A i \in 8..9 : q[i] = p[i]
  BY <1>1, <1>6
<1>13. \A i \in 10..11 : q[i] = p[i]
  BY <1>1, <1>6
<1>14. \A i \in 12..16 : q[i] = p[i]
  BY <1>2, <1>6
<1>15. \A i \in 1..16 : i = 1 \/ i \in 2..3 \/ i \in 4..5 \/ i \in 6..7 \/ i \in 8..9 \/ i \in 10..11 \/ i \in 12..16
  OBVIOUS
<1>16. \A i \in 1..16 : q[i] = p[i]
  BY Zenon, <1>6, <1>9, <1>10, <1>11, <1>12, <1>13, <1>14, <1>15 DEF ID_VERSION
<1>17. p = [i \in 1..16 |-> p[i]]
  BY FromWord
<1>18. q = p
  BY Zenon, <1>6, <1>16, <1>17
<1>19. /\ U16(from_be_bytes(p, 2)) /\ U16(from_be_bytes(p, 4)) /\ U16(from_be_bytes(p, 6))
       /\ U16(from_be_bytes(p, 8)) /\ U16(from_be_bytes(p, 10))
  BY Zenon, <1>1, <1>7
<1> QED
  BY Zenon, <1>2, <1>3, <1>5, <1>18, <1>19

\* What the fields of an id must satisfy, and that a tag, bytes, digits and a
\* decoded id are no failure.
LEMMA NoErr ==
  /\ \A n \in 0..U16Max : U16(n)
  /\ \A n : U16(n) => n \in 0..U16Max
  /\ \A tag \in Tags : tag_ok(tag) /\ tag # Err
  /\ \A p \in Packed : p # Err
<1>0. U16Max \in Nat /\ U16Max + 1 = 65536
  BY SMT DEF U16Max
<1>1. \A n \in 0..U16Max : U16(n)
  BY <1>0 DEF U16
<1>2. \A n : U16(n) => n \in 0..U16Max
  BY <1>0 DEF U16
<1>3. ASSUME NEW tag \in [1..1 -> 0..35] PROVE tag_ok(tag) /\ tag # Err
  <2>1. Len(tag) = 1 /\ tag # <<>> /\ 1 \in 1..3
    OBVIOUS
  <2>2. DOMAIN tag = 1..1 /\ \A i \in 1..1 : tag[i] \in 0..35
    OBVIOUS
  <2> QED
    BY Zenon, <2>1, <2>2 DEF tag_ok, Err
<1>4. ASSUME NEW tag \in [1..2 -> 0..35] PROVE tag_ok(tag) /\ tag # Err
  <2>1. Len(tag) = 2 /\ tag # <<>> /\ 2 \in 1..3
    OBVIOUS
  <2>2. DOMAIN tag = 1..2 /\ \A i \in 1..2 : tag[i] \in 0..35
    OBVIOUS
  <2> QED
    BY Zenon, <2>1, <2>2 DEF tag_ok, Err
<1>5. ASSUME NEW tag \in [1..3 -> 0..35] PROVE tag_ok(tag) /\ tag # Err
  <2>1. Len(tag) = 3 /\ tag # <<>> /\ 3 \in 1..3
    OBVIOUS
  <2>2. DOMAIN tag = 1..3 /\ \A i \in 1..3 : tag[i] \in 0..35
    OBVIOUS
  <2> QED
    BY Zenon, <2>1, <2>2 DEF tag_ok, Err
<1>6. ASSUME NEW p \in [1..16 -> Byte] PROVE p # Err
  <2>1. DOMAIN p = 1..16 /\ DOMAIN <<>> = {} /\ 1 \in 1..16
    OBVIOUS
  <2>2. p # <<>>
    BY Zenon, <2>1
  <2> QED
    BY <2>2 DEF Err
<1> QED
  BY Zenon, <1>1, <1>2, <1>3, <1>4, <1>5, <1>6, FromWord DEF Tags

\* What decode answers, by its parts.
LEMMA Decoded ==
  ASSUME NEW id, NEW p, p = decode_crockford_base32(id), p # Err, p[1] = ID_VERSION,
         NEW site, site = unpack_tag(from_be_bytes(p, 2)), site # Err,
         NEW env, env = unpack_tag(from_be_bytes(p, 4)), env # Err
  PROVE  decode(id) = <<site, env, <<from_be_bytes(p, 6), from_be_bytes(p, 8)>>,
                        from_be_bytes(p, 10), [i \in 1..5 |-> p[i + 11]]>>
BY Zenon DEF decode

\* The fields of an id can be encoded, and decode reads them.
Reads(site, env, slot_, ts, random) ==
  /\ encode_with_fixed_random(site, env, slot_, ts, random) \in Encoded
  /\ decode(encode_with_fixed_random(site, env, slot_, ts, random)) = <<site, env, ts, slot_, random>>

\* decode reads from an id the fields it was made with.
THEOREM RoundTrip ==
  ASSUME NEW site \in Tags, NEW env \in Tags, NEW hi \in 0..U16Max, NEW lo \in 0..U16Max,
         NEW slot_ \in 0..U16Max, NEW random \in [1..5 -> Byte]
  PROVE  Reads(site, env, slot_, <<hi, lo>>, random)
<1>0. PICK ts : ts = <<hi, lo>>
  OBVIOUS
<1>1. ts[1] = hi /\ ts[2] = lo /\ timestamp_ok(ts)
  BY <1>0 DEF timestamp_ok
<1>2. tag_ok(site) /\ tag_ok(env) /\ site # Err /\ env # Err
  BY Zenon, NoErr
<1>3. U16(hi) /\ U16(lo) /\ U16(slot_)
  BY Zenon, NoErr
<1>4. /\ U16(pack_tag(site)) /\ unpack_tag(pack_tag(site)) = site
      /\ U16(pack_tag(env)) /\ unpack_tag(pack_tag(env)) = env
  BY UnpackPack DEF U16
<1>5. PICK p : p = packed_id(pack_tag(site), pack_tag(env), ts, be_bytes(slot_), random)
  OBVIOUS
<1>6. /\ p \in Packed /\ p[1] = ID_VERSION
      /\ from_be_bytes(p, 2) = pack_tag(site) /\ from_be_bytes(p, 4) = pack_tag(env)
      /\ from_be_bytes(p, 6) = hi /\ from_be_bytes(p, 8) = lo
      /\ from_be_bytes(p, 10) = slot_
      /\ [i \in 1..5 |-> p[i + 11]] = random
  BY <1>1, <1>3, <1>4, <1>5, Laid
<1>7. PICK id : id = encode_with_fixed_random(site, env, slot_, ts, random)
  OBVIOUS
<1>8. id = encode_crockford_base32(p)
  BY Zenon, <1>1, <1>2, <1>5, <1>7 DEF encode_with_fixed_random
<1>9. decode_crockford_base32(id) = p /\ id \in Encoded /\ p # Err
  BY Zenon, <1>6, <1>8, DecodeEncode, EncodeBits, NoErr
<1>10. decode(id) = <<site, env, <<hi, lo>>, slot_, random>>
  BY Zenon, <1>2, <1>4, <1>6, <1>9, Decoded
<1> QED
  BY Zenon, <1>0, <1>7, <1>9, <1>10 DEF Reads

\* An id that decode accepts is what its fields encode to.
THEOREM Spelling ==
  ASSUME NEW id \in [1..ID_LEN -> Nat], decode(id) # Err
  PROVE  LET d == decode(id) IN encode_with_fixed_random(d[1], d[2], d[4], d[3], d[5]) = id
<1>1. PICK p : p = decode_crockford_base32(id)
  OBVIOUS
<1>2. p # Err /\ p[1] = ID_VERSION
  BY Zenon, <1>1 DEF decode
<1>3. PICK site : site = unpack_tag(from_be_bytes(p, 2))
  OBVIOUS
<1>4. PICK env : env = unpack_tag(from_be_bytes(p, 4))
  OBVIOUS
<1>5. site # Err /\ env # Err
  BY Zenon, <1>1, <1>2, <1>3, <1>4 DEF decode
<1>6. id \in Encoded /\ id[1] < 8
  BY <1>1, <1>2 DEF decode_crockford_base32, Encoded, ID_LEN
<1>7. p \in Packed /\ encode_crockford_base32(p) = id
  BY Zenon, <1>1, <1>6, EncodeDecode
<1>8. PICK ts : ts = <<from_be_bytes(p, 6), from_be_bytes(p, 8)>>
  OBVIOUS
<1>9. PICK s : s = from_be_bytes(p, 10)
  OBVIOUS
<1>10. PICK random : random = [i \in 1..5 |-> p[i + 11]]
  OBVIOUS
<1>11. decode(id) = <<site, env, ts, s, random>>
  BY Zenon, <1>1, <1>2, <1>3, <1>4, <1>5, <1>8, <1>9, <1>10, Decoded
<1>12. /\ U16(from_be_bytes(p, 2)) /\ U16(from_be_bytes(p, 4)) /\ U16(from_be_bytes(p, 6))
       /\ U16(from_be_bytes(p, 8)) /\ U16(from_be_bytes(p, 10))
       /\ packed_id(from_be_bytes(p, 2), from_be_bytes(p, 4), ts, be_bytes(s), random) = p
  BY Zenon, <1>2, <1>7, <1>8, <1>9, <1>10, Relaid
<1>13. /\ site \in Tags /\ pack_tag(site) = from_be_bytes(p, 2)
       /\ env \in Tags /\ pack_tag(env) = from_be_bytes(p, 4)
  <2>1. from_be_bytes(p, 2) \in Nat /\ from_be_bytes(p, 4) \in Nat
    BY <1>12 DEF U16
  <2> QED
    BY Zenon, <1>3, <1>4, <1>5, <2>1, PackUnpack
<1>14. tag_ok(site) /\ tag_ok(env)
  BY Zenon, <1>13, NoErr
<1>15. timestamp_ok(ts)
  <2>1. ts[1] = from_be_bytes(p, 6) /\ ts[2] = from_be_bytes(p, 8)
    BY <1>8
  <2> QED
    BY Zenon, <1>12, <2>1, NoErr DEF timestamp_ok
<1>16. encode_with_fixed_random(site, env, s, ts, random) = id
  BY Zenon, <1>7, <1>12, <1>13, <1>14, <1>15 DEF encode_with_fixed_random
<1>17. PICK d : d = decode(id)
  OBVIOUS
<1>18. d[1] = site /\ d[2] = env /\ d[3] = ts /\ d[4] = s /\ d[5] = random
  BY <1>11, <1>17
<1> QED
  BY Zenon, <1>16, <1>17, <1>18

=============================================================================
