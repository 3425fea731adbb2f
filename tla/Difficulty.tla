----------------------------- MODULE Difficulty -----------------------------
(***************************************************************************)
(* The difficulty arithmetic of math/difficulty.rs.  A target is a number  *)
(* of Width bits (256 in the code, kept as 32 bytes in big-endian order    *)
(* and compared as such); a hash solves a block when it is below the       *)
(* target.  difficulty_bits counts the leading zero bits of a target and   *)
(* is kept in a u8, so it stops at Width - 1.                              *)
(***************************************************************************)
EXTENDS Integers, FiniteSets

CONSTANTS
  Width,      \* bits of a hash and of a target
  Pow2        \* the powers of two up to 2^Width

ASSUME WidthAssumption ==
  /\ Width \in Nat /\ Width >= 2
  /\ Pow2 \in [0 .. Width -> Nat]
  /\ Pow2[0] = 1
  /\ \A b \in 0 .. Width - 1 : Pow2[b + 1] = 2 * Pow2[b]

MaxTarget == Pow2[Width] - 1
Bits == 0 .. Width - 1

\* The largest number of bits is not a target of one bit but zero, which no
\* hash is below.
TargetFromDifficultyBits(bits) ==
  IF bits >= Width - 1 THEN 0 ELSE Pow2[Width - bits] - 1

HashMeetsTarget(hash, target) == hash < target

DifficultyBitsFromTarget(target) ==
  Cardinality({b \in 1 .. Width - 1 : target < Pow2[Width - b]})

Least(a, b) == IF a <= b THEN a ELSE b
Greatest(a, b) == IF a >= b THEN a ELSE b

ClampTarget(target, low, high) ==
  IF target < low THEN low ELSE IF target > high THEN high ELSE target

\* Mistakes in scaling: lose the digits below the denominator, or take a target
\* that shrinks for one that stays.
ScaleTargetDividingFirst(target, numerator, denominator) ==
  IF numerator = denominator
  THEN target
  ELSE Least((target \div Greatest(denominator, 1)) * Greatest(numerator, 1), MaxTarget)

ScaleTargetUpwards(target, numerator, denominator) ==
  IF numerator <= denominator
  THEN target
  ELSE Least((target * Greatest(numerator, 1)) \div Greatest(denominator, 1), MaxTarget)

\* Multiply, divide, and saturate a quotient that needs more than Width bits.
ScaleTarget(target, numerator, denominator) ==
  IF numerator = denominator
  THEN target
  ELSE Least((target * Greatest(numerator, 1)) \div Greatest(denominator, 1), MaxTarget)

\* A mistake: one divisor for both weights.
SmoothedObservedByEight(observed, expected) ==
  LET smoothed == IF observed <= expected
                  THEN (observed * 7 + expected) \div 8
                  ELSE (observed * 3 + expected) \div 8
  IN  ClampTarget(smoothed, Greatest(expected \div 8, 1), Greatest(expected * 8, 1))

\* Fast blocks weigh 7/8, slow ones 3/4; outliers stop at 1/8 and 8 times.
SmoothedObserved(observed, expected) ==
  LET smoothed == IF observed <= expected
                  THEN (observed * 7 + expected) \div 8
                  ELSE (observed * 3 + expected) \div 4
  IN  ClampTarget(smoothed, Greatest(expected \div 8, 1), Greatest(expected * 8, 1))

\* A mistake: the ramp for a quarter of the expected time only.
ClampedObservedHalfRamp(observed, expected) ==
  LET smoothed == SmoothedObserved(observed, expected)
  IN  IF observed * 100 <= expected * 25
      THEN Least(smoothed, Greatest((expected * 15) \div 100, 1))
      ELSE smoothed

\* The fast ramp for blocks found in a quarter or a half of the expected time.
ClampedObserved(observed, expected) ==
  LET smoothed == SmoothedObserved(observed, expected)
  IN  IF observed * 100 <= expected * 25
      THEN Least(smoothed, Greatest((expected * 15) \div 100, 1))
      ELSE IF observed * 100 <= expected * 50
      THEN Least(smoothed, Greatest((expected * 35) \div 100, 1))
      ELSE smoothed

TargetScaleDenominatorBps == 10000

RatioBps(observed, expected) ==
  Greatest((ClampedObserved(observed, expected) * TargetScaleDenominatorBps)
             \div expected, 1)

NextTarget(target, observed, expected_seconds, min_bits, max_bits) ==
  LET expected == Greatest(expected_seconds, 1)
  IN  ClampTarget(
        ScaleTarget(target, RatioBps(observed, expected), TargetScaleDenominatorBps),
        TargetFromDifficultyBits(max_bits),
        TargetFromDifficultyBits(min_bits))

\* A mistake: the bits of the target that was.
CalculateNextDifficultyLate(target, observed, expected_seconds, min_bits, max_bits) ==
  [difficulty_bits |-> DifficultyBitsFromTarget(target),
   target |-> NextTarget(target, observed, expected_seconds, min_bits, max_bits)]

CalculateNextDifficulty(target, observed, expected_seconds, min_bits, max_bits) ==
  LET next == NextTarget(target, observed, expected_seconds, min_bits, max_bits)
  IN  [difficulty_bits |-> DifficultyBitsFromTarget(next), target |-> next]
=============================================================================
