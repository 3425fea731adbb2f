---------------------------- MODULE TargetBytes ----------------------------
(***************************************************************************)
(* How math/difficulty.rs computes on targets: big-endian arrays of bytes, *)
(* multiplied and divided digit by digit with a carry and a remainder.     *)
(* Difficulty.tla has the numbers these arrays stand for.                  *)
(***************************************************************************)
EXTENDS Difficulty, Sequences

CONSTANTS
  ByteBits,     \* bits of a byte, 8 in the code
  Bytes         \* bytes of a target, 32 in the code

Radix == Pow2[ByteBits]

ASSUME BytesAssumption ==
  /\ ByteBits \in 1 .. Width /\ Bytes \in Nat \ {0}
  /\ ByteBits * Bytes = Width

Index == 1 .. Bytes

\* The array of a number, and the number of an array of any length.
Array(n) == [i \in Index |-> (n \div Pow2[ByteBits * (Bytes - i)]) % Radix]

Value(bytes) ==
  LET upto[i \in 0 .. Len(bytes)] ==
        IF i = 0 THEN 0 ELSE upto[i - 1] * Radix + bytes[i]
  IN  upto[Len(bytes)]

----------------------------------------------------------------------------
\* Zero bytes, a partial byte, then ones.
BytesFromDifficultyBits(bits) ==
  [i \in Index |->
     LET full_zero_bytes == bits \div ByteBits
         remaining_bits == bits % ByteBits
     IN  IF bits >= Width - 1 \/ i <= full_zero_bytes THEN 0
         ELSE IF i = full_zero_bytes + 1 THEN Pow2[ByteBits - remaining_bits] - 1
         ELSE Radix - 1]

LeadingZeros(byte) == Cardinality({b \in 0 .. ByteBits - 1 : byte < Pow2[b]})

\* Whole zero bytes, then the leading zeros of the first other byte.
BitsFromBytes(bytes) ==
  LET set == {i \in Index : bytes[i] # 0}
      first == CHOOSE i \in set : \A j \in set : i <= j
  IN  IF set = {} THEN Width - 1
      ELSE Least(ByteBits * (first - 1) + LeadingZeros(bytes[first]), Width - 1)

\* A mistake: the last carry is dropped.
MultiplyTargetWrapping(bytes, by) ==
  LET carry[i \in 1 .. Bytes + 1] ==
        IF i > Bytes THEN 0 ELSE (bytes[i] * by + carry[i + 1]) \div Radix
  IN  [i \in Index |-> (bytes[i] * by + carry[i + 1]) % Radix]

\* From the last byte to the first; the carry left over becomes a prefix.
MultiplyTargetBe(bytes, by) ==
  LET carry[i \in 1 .. Bytes + 1] ==
        IF i > Bytes THEN 0 ELSE (bytes[i] * by + carry[i + 1]) \div Radix
      digits[c \in 0 .. carry[1]] ==
        IF c = 0 THEN <<>> ELSE Append(digits[c \div Radix], c % Radix)
  IN  digits[carry[1]]
        \o [i \in Index |-> (bytes[i] * by + carry[i + 1]) % Radix]

\* From the first byte to the last; leading zeros go, and what is still longer
\* than a target becomes the largest one.
DivideTargetBe(bytes, by) ==
  LET divisor == Greatest(by, 1)
      remainder[i \in 0 .. Len(bytes)] ==
        IF i = 0 THEN 0 ELSE (remainder[i - 1] * Radix + bytes[i]) % divisor
      quotient == [i \in 1 .. Len(bytes) |->
                     ((remainder[i - 1] * Radix + bytes[i]) \div divisor) % Radix]
      nonzero == {i \in 1 .. Len(bytes) : quotient[i] # 0}
      excess == Len(bytes) - Bytes
  IN  IF \E i \in nonzero : i <= excess
      THEN [i \in Index |-> Radix - 1]
      ELSE [i \in Index |-> quotient[excess + i]]

ScaleBytes(bytes, numerator, denominator) ==
  IF numerator = denominator
  THEN bytes
  ELSE DivideTargetBe(MultiplyTargetBe(bytes, Greatest(numerator, 1)), denominator)
=============================================================================
