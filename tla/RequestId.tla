------------------------------ MODULE RequestId ------------------------------
(***************************************************************************)
(* The codec of public request ids: 26 base32 digits over 16 bytes that    *)
(* hold the version, the site and env tags, a timestamp, the slot of the   *)
(* broker that minted the id, and random bytes.                            *)
(*                                                                         *)
(* A character is its value: a tag is a sequence of values, 0..35 for 0-9  *)
(* and a-z; an id is a sequence of base32 values, 0..31 in the order of    *)
(* the Crockford alphabet.  Any other number is a character outside the    *)
(* alphabet.  A timestamp is the pair <<hi, lo>> of 16-bit halves of the   *)
(* seconds since the custom epoch, hi < 0 before it.                       *)
(***************************************************************************)
EXTENDS Integers, Sequences

ID_VERSION == 1
ID_LEN == 26
PACKED_LEN == 16
BASE37_SENTINEL == 36
BASE37_RADIX == 37
U16Max == 65535

\* A failed conversion.
Err == <<>>

-----------------------------------------------------------------------------
(* Tags *)

tag_ok(tag) == Len(tag) \in 1..3 /\ \A i \in DOMAIN tag : tag[i] \in 0..35

\* Three base-37 digits, short tags padded with the sentinel.
pack_tag(tag) ==
  LET digit(i) == IF i <= Len(tag) THEN tag[i] ELSE BASE37_SENTINEL IN
  digit(1) * BASE37_RADIX * BASE37_RADIX + digit(2) * BASE37_RADIX + digit(3)

\* Refused: an empty tag, and digits after a sentinel.
tag_of(digits) ==
  LET padded == {i \in 1..3 : digits[i] = BASE37_SENTINEL} IN
  CASE padded = {} -> digits
    [] padded = {3} -> <<digits[1], digits[2]>>
    [] padded = {2, 3} -> <<digits[1]>>
    [] OTHER -> Err

\* Values of four digits are refused.
unpack_tag(value) ==
  IF value < BASE37_RADIX * BASE37_RADIX * BASE37_RADIX
  THEN tag_of(<<value \div (BASE37_RADIX * BASE37_RADIX),
                (value \div BASE37_RADIX) % BASE37_RADIX,
                value % BASE37_RADIX>>)
  ELSE Err

-----------------------------------------------------------------------------
(* Bytes and base32 digits.  Bit 0 is the lowest of the last byte or digit. *)

Pow2 == <<1, 2, 4, 8, 16, 32, 64, 128>>

Bit(s, width, k) == (s[Len(s) - (k \div width)] \div Pow2[(k % width) + 1]) % 2

BitsAt(s, width, from, n) ==
  LET b(i) == IF i < n /\ from + i < width * Len(s) THEN Bit(s, width, from + i) * Pow2[i + 1] ELSE 0
  IN b(0) + b(1) + b(2) + b(3) + b(4) + b(5) + b(6) + b(7)

encode_crockford_base32(packed) ==
  [i \in 1..ID_LEN |-> BitsAt(packed, 8, 5 * (ID_LEN - i), 5)]

\* 26 digits are 130 bits: a value of more than 128 does not fit.
decode_crockford_base32(id) ==
  IF /\ Len(id) = ID_LEN
     /\ \A i \in DOMAIN id : id[i] \in 0..31
     /\ id[1] < 8
  THEN [i \in 1..PACKED_LEN |-> BitsAt(id, 5, 8 * (PACKED_LEN - i), 8)]
  ELSE Err

-----------------------------------------------------------------------------
be_bytes(n) == <<n \div 256, n % 256>>
from_be_bytes(b, i) == b[i] * 256 + b[i + 1]

timestamp_ok(ts) == ts[1] \in 0..U16Max /\ ts[2] \in 0..U16Max

\* Each field at its place; site, env and the halves of the timestamp are numbers.
packed_id(site, env, ts, slot_bytes, random) ==
  [i \in 1..PACKED_LEN |->
     CASE i = 1 -> ID_VERSION
       [] i \in 2..3 -> be_bytes(site)[i - 1]
       [] i \in 4..5 -> be_bytes(env)[i - 3]
       [] i \in 6..7 -> be_bytes(ts[1])[i - 5]
       [] i \in 8..9 -> be_bytes(ts[2])[i - 7]
       [] i \in 10..11 -> slot_bytes[i - 9]
       [] OTHER -> random[i - 11]]

\* Fault: the slot is written low byte first.
encode_slot_swapped(site, env, slot, ts, random) ==
  IF tag_ok(site) /\ tag_ok(env) /\ timestamp_ok(ts)
  THEN encode_crockford_base32(
         packed_id(pack_tag(site), pack_tag(env), ts, <<slot % 256, slot \div 256>>, random))
  ELSE Err

encode_with_fixed_random(site, env, slot, ts, random) ==
  IF tag_ok(site) /\ tag_ok(env) /\ timestamp_ok(ts)
  THEN encode_crockford_base32(
         packed_id(pack_tag(site), pack_tag(env), ts, be_bytes(slot), random))
  ELSE Err

\* <<site, env, timestamp, broker_slot, random>>
decode(id) ==
  LET p == decode_crockford_base32(id) IN
  IF p = Err \/ p[1] # ID_VERSION THEN Err
  ELSE LET site == unpack_tag(from_be_bytes(p, 2))
           env == unpack_tag(from_be_bytes(p, 4)) IN
       IF site = Err \/ env = Err THEN Err
       ELSE <<site, env, <<from_be_bytes(p, 6), from_be_bytes(p, 8)>>,
              from_be_bytes(p, 10), [i \in 1..5 |-> p[i + 11]]>>

\* The broker id site-env-slot an id encodes, or Err.
slot_from_job_id(id) ==
  LET d == decode(id) IN IF d = Err THEN Err ELSE <<d[1], d[2], d[4]>>

=============================================================================
