-------------------------- MODULE RetargetTheorems --------------------------
(***************************************************************************)
(* Theorems about math/difficulty.rs, for every width of hash and byte:    *)
(* the retarget stays in its range and errs on the right side, the bits    *)
(* shown are those of the target, and the byte arrays the program computes *)
(* with are the numbers they stand for.  Then the life of a difficulty,    *)
(* for every set of parameters and of observations.                        *)
(***************************************************************************)
EXTENDS Retarget, FiniteSetTheorems, WellFoundedInduction, TLAPS

----------------------------------------------------------------------------
(* Numbers: induction without an operator parameter, and division *)

\* Every non-empty set of natural numbers has a least element.
LEMMA LeastNat ==
  ASSUME NEW T, T \subseteq Nat, T # {}
  PROVE  \E x \in T : \A y \in T : x <= y
<1>1. PICK x \in T : \A y \in T : ~(<<y, x>> \in OpToRel(<, Nat))
  BY WFMin, NatLessThanWellFounded, Zenon
<1>2. \A y \in T : ~(y < x)
  BY <1>1, Zenon DEF OpToRel
<1>3. ASSUME NEW y \in T PROVE x <= y
  <2>1. x \in Nat /\ y \in Nat
    OBVIOUS
  <2>2. QED BY <1>2, <2>1
<1>4. QED BY <1>3

\* A set of natural numbers that holds 0 and the successor of each member holds
\* them all.
LEMMA SetInduction ==
  ASSUME NEW S, 0 \in S, \A n \in Nat : n \in S => n + 1 \in S
  PROVE  Nat \subseteq S
<1>1. SUFFICES ASSUME Nat \ S # {} PROVE FALSE
  OBVIOUS
<1>2. PICK x \in Nat \ S : \A y \in Nat \ S : x <= y
  <2>1. Nat \ S \subseteq Nat
    OBVIOUS
  <2>2. QED BY <1>1, <2>1, LeastNat
<1>3. x # 0 /\ x \in Nat
  BY <1>2
<1>4. x - 1 \in Nat /\ ~(x <= x - 1)
  BY <1>3
<1>5. x - 1 \in S
  BY <1>2, <1>4
<1>6. x \in S
  BY <1>3, <1>4, <1>5, (x - 1) + 1 = x
<1>7. QED BY <1>2, <1>6

\* Quotient and remainder of a natural number.
LEMMA DivMod ==
  ASSUME NEW n \in Nat, NEW d \in Nat \ {0}
  PROVE  /\ n \div d \in Nat /\ n % d \in Nat /\ n % d < d
         /\ n = (n \div d) * d + (n % d)
<1>1. n \div d \in Nat
  OBVIOUS
<1>2. n % d \in 0 .. d - 1
  OBVIOUS
<1>3. n = d * (n \div d) + (n % d)
  OBVIOUS
<1>4. d * (n \div d) = (n \div d) * d
  BY <1>1
<1>5. QED BY <1>1, <1>2, <1>3, <1>4

\* A product grows with its factors.
LEMMA ProductGrows ==
  ASSUME NEW a \in Nat, NEW b \in Nat, NEW c \in Nat, a <= b
  PROVE  a * c \in Nat /\ b * c \in Nat /\ a * c <= b * c
<1>1. PICK k \in Nat : b = a + k
  <2>1. b - a \in Nat /\ b = a + (b - a)
    OBVIOUS
  <2>2. QED BY <2>1
<1>2. b * c = a * c + k * c
  BY <1>1
<1>3. a * c \in Nat /\ k * c \in Nat
  OBVIOUS
<1>4. QED BY <1>2, <1>3

\* There is one quotient and one remainder.
LEMMA DivUnique ==
  ASSUME NEW n \in Nat, NEW d \in Nat \ {0}, NEW q \in Nat, NEW r \in Nat,
         n = q * d + r, r < d
  PROVE  n \div d = q /\ n % d = r
<1> DEFINE p == n \div d
           s == n % d
<1>1. p \in Nat /\ s \in Nat /\ s < d /\ n = p * d + s
  BY DivMod
<1> HIDE DEF p, s
<1>2. ASSUME p + 1 <= q PROVE FALSE
  <2>1. (p + 1) * d <= q * d
    BY <1>1, <1>2, ProductGrows, p + 1 \in Nat
  <2>2. (p + 1) * d = p * d + d
    BY <1>1
  <2>3. p * d \in Nat /\ q * d \in Nat
    BY <1>1
  <2>4. QED BY <1>1, <2>1, <2>2, <2>3
<1>3. ASSUME q + 1 <= p PROVE FALSE
  <2>1. (q + 1) * d <= p * d
    BY <1>1, <1>3, ProductGrows, q + 1 \in Nat
  <2>2. (q + 1) * d = q * d + d
    OBVIOUS
  <2>3. p * d \in Nat /\ q * d \in Nat
    BY <1>1
  <2>4. QED BY <1>1, <2>1, <2>2, <2>3
<1>4. p = q
  BY <1>1, <1>2, <1>3
<1>5. s = r
  <2>1. p * d = q * d /\ q * d \in Nat
    BY <1>4
  <2>2. QED BY <1>1, <2>1
<1>6. QED BY <1>4, <1>5 DEF p, s

\* A quotient is below what its dividend is below a multiple of.
LEMMA DivLess ==
  ASSUME NEW n \in Nat, NEW d \in Nat \ {0}, NEW q \in Nat
  PROVE  n < q * d <=> n \div d < q
<1> DEFINE p == n \div d
           s == n % d
<1>1. p \in Nat /\ s \in Nat /\ s < d /\ n = p * d + s
  BY DivMod
<1> HIDE DEF p, s
<1>2. p * d \in Nat /\ q * d \in Nat /\ (p + 1) * d = p * d + d
  BY <1>1
<1>3. p < q => (p + 1) * d <= q * d
  BY <1>1, ProductGrows, p + 1 \in Nat
<1>4. ~(p < q) => q * d <= p * d
  BY <1>1, ProductGrows
<1>5. QED BY <1>1, <1>2, <1>3, <1>4 DEF p

\* Dividing twice.
LEMMA DivDiv ==
  ASSUME NEW n \in Nat, NEW a \in Nat \ {0}, NEW b \in Nat \ {0}
  PROVE  n \div (a * b) = (n \div a) \div b
<1> DEFINE p == n \div a
           r == n % a
           q == p \div b
           s == p % b
<1>1. p \in Nat /\ r \in Nat /\ r < a /\ n = p * a + r
  BY DivMod
<1> HIDE DEF p, r
<1>2. q \in Nat /\ s \in Nat /\ s < b /\ p = q * b + s
  BY <1>1, DivMod
<1> HIDE DEF q, s
<1>3. n = q * (a * b) + (s * a + r)
  BY <1>1, <1>2
<1>4. s * a + r < a * b
  <2>1. s + 1 <= b /\ s + 1 \in Nat
    BY <1>2
  <2>2. (s + 1) * a <= b * a
    BY <2>1, ProductGrows
  <2>3. (s + 1) * a = s * a + a /\ s * a \in Nat /\ b * a = a * b
    BY <1>2
  <2>4. QED BY <1>1, <2>2, <2>3
<1>5. a * b \in Nat \ {0} /\ s * a + r \in Nat
  BY <1>1, <1>2
<1>6. QED BY <1>2, <1>3, <1>4, <1>5, DivUnique DEF p, q

----------------------------------------------------------------------------
(* Numbers: math/difficulty.rs *)

\* The powers, one by one.
LEMMA PowerTypes ==
  /\ Width \in Nat /\ Width >= 2
  /\ \A b \in 0 .. Width : Pow2[b] \in Nat
  /\ \A b \in 0 .. Width - 1 : Pow2[b + 1] = 2 * Pow2[b]
  /\ Pow2[0] = 1
BY WidthAssumption DEF WidthAssumption

\* Powers of two are positive and grow with the exponent.
LEMMA PowersGrow ==
  ASSUME NEW j \in 0 .. Width
  PROVE  Pow2[j] > 0 /\ \A i \in 0 .. j : i < j => Pow2[i] < Pow2[j]
<1> DEFINE P(n) == Pow2[n] > 0 /\ \A i \in 0 .. n : i < n => Pow2[i] < Pow2[n]
           S == {n \in Nat : n \in 0 .. Width => P(n)}
<1>1. 0 \in S
  BY PowerTypes
<1>2. ASSUME NEW n \in Nat, n \in S PROVE n + 1 \in S
  <2>1. SUFFICES ASSUME n + 1 \in 0 .. Width PROVE P(n + 1)
    OBVIOUS
  <2>2. n \in 0 .. Width /\ n \in 0 .. Width - 1
    BY <2>1, PowerTypes
  <2>3. Pow2[n] \in Nat /\ Pow2[n] > 0 /\ Pow2[n + 1] = 2 * Pow2[n]
    BY <1>2, <2>2, PowerTypes
  <2>4. ASSUME NEW i \in 0 .. n + 1, i < n + 1 PROVE Pow2[i] < Pow2[n + 1]
    <3>1. CASE i = n
      BY <2>3, <3>1
    <3>2. CASE i # n
      <4>1. i \in 0 .. n /\ i < n /\ i \in 0 .. Width
        BY <2>2, <2>4, <3>2, PowerTypes
      <4>2. Pow2[i] < Pow2[n] /\ Pow2[i] \in Nat
        BY <1>2, <2>2, <4>1, PowerTypes
      <4>3. QED BY <2>3, <4>2
    <3>3. QED BY <3>1, <3>2
  <2>5. QED BY <2>3, <2>4
<1>3. Nat \subseteq S
  <2> HIDE DEF S
  <2> QED BY <1>1, <1>2, SetInduction
<1>4. j \in Nat
  BY PowerTypes
<1>5. QED BY <1>3, <1>4

\* More bits never mean a larger target.
THEOREM TargetFalls ==
  ASSUME NEW a \in Bits, NEW b \in Bits, a <= b
  PROVE  /\ TargetFromDifficultyBits(a) \in Nat
         /\ TargetFromDifficultyBits(b) <= TargetFromDifficultyBits(a)
<1>1. Width - a \in 0 .. Width /\ Width - b \in 0 .. Width - a
  BY PowerTypes DEF Bits
<1>2. /\ Pow2[Width - a] \in Nat /\ Pow2[Width - a] > 0
      /\ Pow2[Width - b] \in Nat /\ Pow2[Width - b] <= Pow2[Width - a]
  <2>1. Width - b \in 0 .. Width
    BY <1>1, PowerTypes DEF Bits
  <2>2. CASE Width - b = Width - a
    BY <1>1, <2>2, PowerTypes, PowersGrow
  <2>3. CASE Width - b # Width - a
    <3>1. Width - b < Width - a
      BY <1>1, <2>3, PowerTypes DEF Bits
    <3>2. Pow2[Width - b] < Pow2[Width - a] /\ Pow2[Width - a] > 0
      BY <1>1, <3>1, PowersGrow
    <3>3. QED BY <1>1, <2>1, <3>2, PowerTypes
  <2>4. QED BY <2>2, <2>3
<1>3. Width - 1 \in Nat /\ a \in Nat /\ b \in Nat
  BY PowerTypes DEF Bits
<1>4. QED BY <1>2, <1>3 DEF TargetFromDifficultyBits

\* A retarget stays between the target of max_difficulty_bits and that of
\* min_difficulty_bits, whatever the last target and the time seconds.
THEOREM RetargetInRange ==
  ASSUME NEW target \in Nat, NEW seconds \in Nat, NEW expected \in Nat,
         NEW min_bits \in Bits, NEW max_bits \in Bits, min_bits <= max_bits
  PROVE  LET next == NextTarget(target, seconds, expected, min_bits, max_bits)
         IN  /\ next \in Nat
             /\ TargetFromDifficultyBits(max_bits) <= next
             /\ next <= TargetFromDifficultyBits(min_bits)
<1> DEFINE low == TargetFromDifficultyBits(max_bits)
           high == TargetFromDifficultyBits(min_bits)
           scaled == ScaleTarget(target, RatioBps(seconds, Greatest(expected, 1)),
                                 TargetScaleDenominatorBps)
<1>1. low \in Nat /\ high \in Nat /\ low <= high
  <2>1. max_bits <= max_bits
    BY PowerTypes DEF Bits
  <2>2. QED BY <2>1, TargetFalls
<1>2. RatioBps(seconds, Greatest(expected, 1)) \in Nat
  <2>1. Greatest(expected, 1) \in Nat \ {0}
    BY DEF Greatest
  <2> DEFINE e == Greatest(expected, 1)
  <2>2. SmoothedObserved(seconds, e) \in Nat
    BY <2>1 DEF SmoothedObserved, ClampTarget, Greatest
  <2>3. QED BY <2>1, <2>2 DEF RatioBps, ClampedObserved, Greatest, Least, TargetScaleDenominatorBps
<1>3. scaled \in Int
  <2>1. MaxTarget \in Int
    BY PowerTypes DEF MaxTarget
  <2>2. QED BY <2>1, <1>2 DEF ScaleTarget, Least, Greatest, TargetScaleDenominatorBps
<1>4. NextTarget(target, seconds, expected, min_bits, max_bits)
        = ClampTarget(scaled, low, high)
  BY DEF NextTarget
<1> HIDE DEF low, high, scaled
<1>5. ClampTarget(scaled, low, high) \in Nat
      /\ low <= ClampTarget(scaled, low, high) /\ ClampTarget(scaled, low, high) <= high
  BY <1>1, <1>3 DEF ClampTarget
<1>6. QED BY <1>4, <1>5 DEF low, high

\* Weighed against the time expected, clamped and sped up, a block that was early still
\* counts as early, and one that was late as late.
LEMMA ClampedObservedSide ==
  ASSUME NEW seconds \in Nat, NEW expected \in Nat, expected > 0
  PROVE  LET clamped == ClampedObserved(seconds, expected)
         IN  /\ clamped \in Nat
             /\ seconds <= expected => clamped <= expected
             /\ seconds >= expected => clamped >= expected
<1> DEFINE low == Greatest(expected \div 8, 1)
           high == Greatest(expected * 8, 1)
           weighed == IF seconds <= expected
                      THEN (seconds * 7 + expected) \div 8
                      ELSE (seconds * 3 + expected) \div 4
           smoothed == SmoothedObserved(seconds, expected)
<1>1. /\ low \in Nat /\ low >= 1 /\ low <= expected
      /\ high \in Nat /\ high >= expected
  BY DEF Greatest
<1>2. /\ weighed \in Nat
      /\ seconds <= expected => weighed <= expected
      /\ seconds >= expected => weighed >= expected
  OBVIOUS
<1>3. smoothed = ClampTarget(weighed, low, high)
  BY DEF SmoothedObserved
<1> HIDE DEF low, high, weighed, smoothed
<1>4. /\ smoothed \in Nat
      /\ seconds <= expected => smoothed <= expected
      /\ seconds >= expected => smoothed >= expected
  BY <1>1, <1>2, <1>3 DEF ClampTarget
<1>5. /\ Greatest((expected * 15) \div 100, 1) \in Nat
      /\ Greatest((expected * 35) \div 100, 1) \in Nat
  BY DEF Greatest
<1>6. seconds >= expected => ~(seconds * 100 <= expected * 25) /\ ~(seconds * 100 <= expected * 50)
  OBVIOUS
<1>7. QED BY <1>4, <1>5, <1>6 DEF ClampedObserved, Least, smoothed

\* So does the ratio by which the target is scaled.
LEMMA RatioSide ==
  ASSUME NEW seconds \in Nat, NEW expected \in Nat, expected > 0
  PROVE  LET ratio == RatioBps(seconds, expected)
         IN  /\ ratio \in Nat /\ ratio >= 1
             /\ seconds <= expected => ratio <= TargetScaleDenominatorBps
             /\ seconds >= expected => ratio >= TargetScaleDenominatorBps
<1> DEFINE clamped == ClampedObserved(seconds, expected)
           quotient == (clamped * 10000) \div expected
<1>1. /\ clamped \in Nat
      /\ seconds <= expected => clamped <= expected
      /\ seconds >= expected => clamped >= expected
  BY ClampedObservedSide
<1> HIDE DEF clamped
<1>2. quotient \in Nat
  BY <1>1
<1>3. quotient * expected <= clamped * 10000 /\ clamped * 10000 < (quotient + 1) * expected
  BY <1>1
<1>4. ASSUME seconds <= expected PROVE quotient <= 10000
  <2>1. SUFFICES ASSUME quotient >= 10001 PROVE FALSE
    BY <1>2
  <2>2. quotient * expected >= 10001 * expected
    BY <1>2, <2>1
  <2>3. clamped <= expected
    BY <1>1, <1>4
  <2>4. QED BY <1>1, <1>2, <1>3, <2>2, <2>3
<1>5. ASSUME seconds >= expected PROVE quotient >= 10000
  <2>1. SUFFICES ASSUME quotient + 1 <= 10000 PROVE FALSE
    BY <1>2
  <2>2. (quotient + 1) * expected <= 10000 * expected
    BY <1>2, <2>1
  <2>3. clamped >= expected
    BY <1>1, <1>5
  <2>4. QED BY <1>1, <1>2, <1>3, <2>2, <2>3
<1>6. RatioBps(seconds, expected) = Greatest(quotient, 1)
  BY DEF RatioBps, TargetScaleDenominatorBps, clamped
<1> HIDE DEF quotient
<1>7. QED BY <1>2, <1>4, <1>5, <1>6 DEF Greatest, TargetScaleDenominatorBps

\* Scaling by less than the denominator never raises a target, by more never lowers it.
LEMMA ScalingSide ==
  ASSUME NEW target \in Nat, target <= MaxTarget, NEW ratio \in Nat, ratio >= 1
  PROVE  LET scaled == ScaleTarget(target, ratio, TargetScaleDenominatorBps)
         IN  /\ scaled \in Nat
             /\ ratio <= TargetScaleDenominatorBps => scaled <= target
             /\ ratio >= TargetScaleDenominatorBps => scaled >= target
<1> DEFINE product == target * ratio
           quotient == product \div 10000
<1>1. product \in Nat
  OBVIOUS
<1>2. ratio <= 10000 => product <= target * 10000
  OBVIOUS
<1>3. ratio >= 10000 => product >= target * 10000
  OBVIOUS
<1>4. ScaleTarget(target, ratio, TargetScaleDenominatorBps)
        = IF ratio = 10000 THEN target ELSE Least(quotient, MaxTarget)
  BY DEF ScaleTarget, Greatest, TargetScaleDenominatorBps
<1>5. MaxTarget \in Int
  BY PowerTypes DEF MaxTarget
<1> HIDE DEF product
<1>6. /\ quotient \in Nat
      /\ ratio <= 10000 => quotient <= target
      /\ ratio >= 10000 => quotient >= target
  BY <1>1, <1>2, <1>3
<1> HIDE DEF quotient
<1>7. QED BY <1>4, <1>5, <1>6 DEF Least, TargetScaleDenominatorBps

\* A block faster than expected never makes the next target easier, and a slower one
\* never harder, from any target in range and whatever the parameters.
THEOREM RetargetDirection ==
  ASSUME NEW seconds \in Nat, NEW expected \in Nat,
         NEW min_bits \in Bits, NEW max_bits \in Bits, min_bits <= max_bits,
         NEW target \in Nat,
         TargetFromDifficultyBits(max_bits) <= target,
         target <= TargetFromDifficultyBits(min_bits)
  PROVE  LET next == NextTarget(target, seconds, expected, min_bits, max_bits)
         IN  /\ seconds <= Greatest(expected, 1) => next <= target
             /\ seconds >= Greatest(expected, 1) => next >= target
<1> DEFINE low == TargetFromDifficultyBits(max_bits)
           high == TargetFromDifficultyBits(min_bits)
           e == Greatest(expected, 1)
           ratio == RatioBps(seconds, e)
           scaled == ScaleTarget(target, ratio, TargetScaleDenominatorBps)
<1>1. low \in Nat /\ high \in Nat
  BY TargetFalls, PowerTypes DEF Bits
<1>2. target <= MaxTarget
  <2>1. 0 \in Bits /\ 0 <= min_bits /\ Width - 0 = Width /\ ~(0 >= Width - 1)
    BY PowerTypes DEF Bits
  <2>2. high <= TargetFromDifficultyBits(0) /\ TargetFromDifficultyBits(0) \in Nat
    BY <2>1, TargetFalls
  <2>3. TargetFromDifficultyBits(0) = MaxTarget
    BY <2>1 DEF TargetFromDifficultyBits, MaxTarget
  <2>4. QED BY <1>1, <2>2, <2>3
<1>3. e \in Nat /\ e > 0
  BY DEF Greatest
<1>4. NextTarget(target, seconds, expected, min_bits, max_bits) = ClampTarget(scaled, low, high)
  BY DEF NextTarget
<1> HIDE DEF e
<1>5. /\ ratio \in Nat /\ ratio >= 1
      /\ seconds <= e => ratio <= TargetScaleDenominatorBps
      /\ seconds >= e => ratio >= TargetScaleDenominatorBps
  BY <1>3, RatioSide
<1> HIDE DEF ratio
<1>6. /\ scaled \in Nat
      /\ ratio <= TargetScaleDenominatorBps => scaled <= target
      /\ ratio >= TargetScaleDenominatorBps => scaled >= target
  BY <1>2, <1>5, ScalingSide
<1>7. low <= target /\ target <= high
  OBVIOUS
<1> HIDE DEF scaled, low, high
<1>8. /\ seconds <= e => ClampTarget(scaled, low, high) <= target
      /\ seconds >= e => ClampTarget(scaled, low, high) >= target
  BY <1>1, <1>5, <1>6, <1>7 DEF ClampTarget
<1>9. QED BY <1>4, <1>8 DEF e

\* Weighed, clamped and sped up, the time of a block stays in proportion to the time
\* expected; half the time stays half, and more than twice counts for seven quarters.
LEMMA ClampedObservedPace ==
  ASSUME NEW seconds \in Nat \ {0}, NEW expected \in Nat \ {0}
  PROVE  LET clamped == ClampedObserved(seconds, expected)
         IN  /\ clamped \in Nat
             /\ clamped <= 8 * expected /\ expected <= 13 * clamped
             /\ 2 * seconds <= expected => 2 * clamped <= expected
             /\ seconds > 2 * expected => 4 * clamped >= 7 * expected
<1> DEFINE low == Greatest(expected \div 8, 1)
           high == Greatest(expected * 8, 1)
           weighed == IF seconds <= expected
                      THEN (seconds * 7 + expected) \div 8
                      ELSE (seconds * 3 + expected) \div 4
           smoothed == SmoothedObserved(seconds, expected)
           steep == Greatest((expected * 15) \div 100, 1)
           brisk == Greatest((expected * 35) \div 100, 1)
<1>1. low \in Nat /\ low >= 1 /\ low <= expected /\ high = 8 * expected
  BY DEF Greatest
<1>2. /\ weighed \in Nat
      /\ expected <= 8 * weighed
      /\ seconds > 2 * expected => 4 * weighed >= 7 * expected
  OBVIOUS
<1>3. smoothed = ClampTarget(weighed, low, high)
  BY DEF SmoothedObserved
<1> HIDE DEF low, high, weighed, smoothed
<1>4. /\ smoothed \in Nat
      /\ smoothed <= 8 * expected /\ expected <= 8 * smoothed
      /\ seconds > 2 * expected => 4 * smoothed >= 7 * expected
  BY <1>1, <1>2, <1>3 DEF ClampTarget
<1>5. /\ steep \in Nat /\ expected <= 13 * steep
      /\ expected >= 2 => 2 * steep <= expected
  <2>1. CASE expected < 14
    <3>1. (expected * 15) \div 100 \in Nat /\ (expected * 15) \div 100 <= 2
      BY <2>1
    <3>2. expected >= 2 => 2 * ((expected * 15) \div 100) <= expected
      BY <2>1
    <3>3. QED BY <2>1, <3>1, <3>2 DEF Greatest
  <2>2. CASE expected >= 14
    <3>1. (expected * 15) \div 100 \in Nat /\ (expected * 15) \div 100 >= 2
      BY <2>2
    <3>2. expected <= 13 * ((expected * 15) \div 100)
          /\ 2 * ((expected * 15) \div 100) <= expected
      BY <2>2
    <3>3. QED BY <3>1, <3>2 DEF Greatest
  <2>3. QED BY <2>1, <2>2
<1>6. /\ brisk \in Nat /\ expected <= 13 * brisk
      /\ expected >= 2 => 2 * brisk <= expected
  <2>1. CASE expected < 6
    <3>1. (expected * 35) \div 100 \in Nat /\ (expected * 35) \div 100 <= 2
      BY <2>1
    <3>2. expected >= 2 => 2 * ((expected * 35) \div 100) <= expected
      BY <2>1
    <3>3. QED BY <2>1, <3>1, <3>2 DEF Greatest
  <2>2. CASE expected >= 6
    <3>1. (expected * 35) \div 100 \in Nat /\ (expected * 35) \div 100 >= 2
      BY <2>2
    <3>2. expected <= 13 * ((expected * 35) \div 100)
          /\ 2 * ((expected * 35) \div 100) <= expected
      BY <2>2
    <3>3. QED BY <3>1, <3>2 DEF Greatest
  <2>3. QED BY <2>1, <2>2
<1> HIDE DEF steep, brisk
<1>7. ClampedObserved(seconds, expected)
        = IF seconds * 100 <= expected * 25
          THEN Least(smoothed, steep)
          ELSE IF seconds * 100 <= expected * 50
          THEN Least(smoothed, brisk)
          ELSE smoothed
  BY DEF ClampedObserved, smoothed, steep, brisk
<1>8. CASE seconds * 100 <= expected * 25
  <2>1. expected >= 2 /\ ~(seconds > 2 * expected)
    BY <1>8
  <2>2. QED BY <1>4, <1>5, <1>7, <1>8, <2>1 DEF Least
<1>9. CASE ~(seconds * 100 <= expected * 25) /\ seconds * 100 <= expected * 50
  <2>1. expected >= 2 /\ ~(seconds > 2 * expected)
    BY <1>9
  <2>2. QED BY <1>4, <1>6, <1>7, <1>9, <2>1 DEF Least
<1>10. CASE ~(seconds * 100 <= expected * 25) /\ ~(seconds * 100 <= expected * 50)
  <2>1. ~(2 * seconds <= expected)
    BY <1>10
  <2>2. ClampedObserved(seconds, expected) = smoothed
    BY <1>7, <1>10
  <2>3. QED BY <1>4, <2>1, <2>2
<1>11. QED BY <1>8, <1>9, <1>10

\* So does the ratio by which the target is scaled, in ten-thousandths.
LEMMA RatioPace ==
  ASSUME NEW seconds \in Nat \ {0}, NEW expected \in Nat \ {0}
  PROVE  LET ratio == RatioBps(seconds, expected)
         IN  /\ ratio \in Nat /\ ratio >= 769 /\ ratio <= 80000
             /\ 2 * seconds <= expected => ratio <= 5000
             /\ seconds > 2 * expected => ratio >= 17500
<1> DEFINE clamped == ClampedObserved(seconds, expected)
           dividend == clamped * 10000
           quotient == dividend \div expected
<1>1. /\ clamped \in Nat
      /\ clamped <= 8 * expected /\ expected <= 13 * clamped
      /\ 2 * seconds <= expected => 2 * clamped <= expected
      /\ seconds > 2 * expected => 4 * clamped >= 7 * expected
  BY ClampedObservedPace
<1> HIDE DEF clamped
<1>2. /\ dividend \in Nat
      /\ dividend < 80001 * expected /\ ~(dividend < 769 * expected)
      /\ 2 * seconds <= expected => dividend < 5001 * expected
      /\ seconds > 2 * expected => ~(dividend < 17500 * expected)
  BY <1>1
<1> HIDE DEF dividend
<1>3. /\ dividend < 80001 * expected <=> quotient < 80001
      /\ dividend < 769 * expected <=> quotient < 769
      /\ dividend < 5001 * expected <=> quotient < 5001
      /\ dividend < 17500 * expected <=> quotient < 17500
  <2>1. 80001 \in Nat /\ 769 \in Nat /\ 5001 \in Nat /\ 17500 \in Nat
    OBVIOUS
  <2>2. QED BY <1>2, <2>1, DivLess
<1>4. quotient \in Nat
  BY <1>2
<1>5. RatioBps(seconds, expected) = Greatest(quotient, 1)
  BY DEF RatioBps, TargetScaleDenominatorBps, clamped, dividend
<1> HIDE DEF quotient
<1>6. QED BY <1>2, <1>3, <1>4, <1>5 DEF Greatest

\* And so the target scaled by it, three digits of the ratio and the rounding included.
LEMMA ScalingPace ==
  ASSUME NEW target \in Nat, target <= MaxTarget, NEW ratio \in Nat, ratio >= 1
  PROVE  LET scaled == ScaleTarget(target, ratio, TargetScaleDenominatorBps)
         IN  /\ scaled \in Nat
             /\ ratio <= 80000 => scaled <= 8 * target
             /\ ratio >= 769 => scaled >= target \div 14
             /\ ratio <= 5000 => scaled <= target \div 2
             /\ ratio >= 17500 => scaled >= Least((7 * target) \div 4, MaxTarget)
<1> DEFINE product == target * ratio
           quotient == product \div 10000
<1>1. /\ product \in Nat
      /\ ratio <= 80000 => product <= target * 80000
      /\ ratio >= 769 => product >= target * 769
      /\ ratio <= 5000 => product <= target * 5000
      /\ ratio >= 17500 => product >= target * 17500
  <2>1. 80000 \in Nat /\ 769 \in Nat /\ 5000 \in Nat /\ 17500 \in Nat
    OBVIOUS
  <2>2. \A a, b \in Nat : a <= b => a * target <= b * target
    BY ProductGrows
  <2>3. \A a \in Nat : a * target = target * a
    OBVIOUS
  <2>4. product \in Nat
    OBVIOUS
  <2>5. QED BY <2>1, <2>2, <2>3, <2>4
<1>2. ScaleTarget(target, ratio, TargetScaleDenominatorBps)
        = IF ratio = 10000 THEN target ELSE Least(quotient, MaxTarget)
  BY DEF ScaleTarget, Greatest, TargetScaleDenominatorBps
<1>3. MaxTarget \in Int
  BY PowerTypes DEF MaxTarget
<1> HIDE DEF product
<1>4. /\ quotient \in Nat
      /\ ratio <= 80000 => quotient <= 8 * target
      /\ ratio >= 769 => quotient >= target \div 14
      /\ ratio <= 5000 => quotient <= target \div 2
      /\ ratio >= 17500 => quotient >= (7 * target) \div 4
  BY <1>1
<1>5. /\ target \div 14 \in Nat /\ target \div 14 <= target /\ target \div 2 \in Nat
      /\ (7 * target) \div 4 \in Nat
  OBVIOUS
<1> HIDE DEF quotient
<1> DEFINE half == target \div 2
           part == target \div 14
           more == (7 * target) \div 4
<1> HIDE DEF half, part, more
<1>6. /\ quotient \in Nat
      /\ ratio <= 80000 => quotient <= 8 * target
      /\ ratio >= 769 => quotient >= part
      /\ ratio <= 5000 => quotient <= half
      /\ ratio >= 17500 => quotient >= more
      /\ part \in Nat /\ part <= target /\ half \in Nat /\ more \in Nat
  BY <1>4, <1>5 DEF half, part, more
<1>7. LET scaled == ScaleTarget(target, ratio, TargetScaleDenominatorBps)
      IN  /\ scaled \in Nat
          /\ ratio <= 80000 => scaled <= 8 * target
          /\ ratio >= 769 => scaled >= part
          /\ ratio <= 5000 => scaled <= half
          /\ ratio >= 17500 => scaled >= Least(more, MaxTarget)
  BY <1>2, <1>3, <1>6 DEF Least
<1>8. QED BY <1>7 DEF half, part, more

\* From any target in range a retarget keeps its pace: at most eight times up and
\* fourteen times down, halved or better after half the time, and up by three quarters
\* or to the easiest target after more than twice the time.
THEOREM RetargetPace ==
  ASSUME NEW seconds \in Nat \ {0}, NEW expected \in Nat,
         NEW min_bits \in Bits, NEW max_bits \in Bits, min_bits <= max_bits,
         NEW target \in Nat,
         TargetFromDifficultyBits(max_bits) <= target,
         target <= TargetFromDifficultyBits(min_bits)
  PROVE  LET next == NextTarget(target, seconds, expected, min_bits, max_bits)
             hardest == TargetFromDifficultyBits(max_bits)
             easiest == TargetFromDifficultyBits(min_bits)
         IN  /\ next \in target \div 14 .. 8 * target
             /\ 2 * seconds <= Greatest(expected, 1) => next <= Greatest(hardest, target \div 2)
             /\ seconds > 2 * Greatest(expected, 1) => next >= Least(easiest, (7 * target) \div 4)
<1> DEFINE low == TargetFromDifficultyBits(max_bits)
           high == TargetFromDifficultyBits(min_bits)
           e == Greatest(expected, 1)
           ratio == RatioBps(seconds, e)
           scaled == ScaleTarget(target, ratio, TargetScaleDenominatorBps)
           half == target \div 2
           part == target \div 14
           more == (7 * target) \div 4
<1>1. low \in Nat /\ high \in Nat
  BY TargetFalls, PowerTypes DEF Bits
<1>2. high <= MaxTarget /\ MaxTarget \in Int
  <2>1. 0 \in Bits /\ 0 <= min_bits /\ Width - 0 = Width /\ ~(0 >= Width - 1)
    BY PowerTypes DEF Bits
  <2>2. high <= TargetFromDifficultyBits(0) /\ TargetFromDifficultyBits(0) \in Nat
    BY <2>1, TargetFalls
  <2>3. TargetFromDifficultyBits(0) = MaxTarget
    BY <2>1 DEF TargetFromDifficultyBits, MaxTarget
  <2>4. QED BY <2>2, <2>3
<1>3. target <= MaxTarget
  BY <1>1, <1>2
<1>4. e \in Nat \ {0}
  BY DEF Greatest
<1>5. /\ ratio \in Nat /\ ratio >= 769 /\ ratio <= 80000
      /\ 2 * seconds <= e => ratio <= 5000
      /\ seconds > 2 * e => ratio >= 17500
  <2> HIDE DEF e
  <2> QED BY <1>4, RatioPace
<1>6. NextTarget(target, seconds, expected, min_bits, max_bits) = ClampTarget(scaled, low, high)
  BY DEF NextTarget
<1> HIDE DEF low, high, e, ratio
<1>7. /\ scaled \in Nat /\ scaled <= 8 * target /\ scaled >= part
      /\ 2 * seconds <= e => scaled <= half
      /\ seconds > 2 * e => scaled >= Least(more, MaxTarget)
  <2>1. ratio >= 1
    BY <1>5
  <2>2. /\ scaled \in Nat
        /\ ratio <= 80000 => scaled <= 8 * target
        /\ ratio >= 769 => scaled >= target \div 14
        /\ ratio <= 5000 => scaled <= target \div 2
        /\ ratio >= 17500 => scaled >= Least((7 * target) \div 4, MaxTarget)
    BY <1>3, <1>5, <2>1, ScalingPace
  <2> HIDE DEF scaled
  <2>3. QED BY <1>5, <2>2
<1>8. part \in Nat /\ part <= target /\ half \in Nat /\ more \in Nat
  OBVIOUS
<1> HIDE DEF scaled, half, part, more
<1>9. low <= target /\ target <= high
  BY DEF low, high
<1>10. LET next == ClampTarget(scaled, low, high)
       IN  /\ next \in part .. 8 * target
           /\ 2 * seconds <= e => next <= Greatest(low, half)
           /\ seconds > 2 * e => next >= Least(high, more)
  BY <1>1, <1>2, <1>7, <1>8, <1>9 DEF ClampTarget, Greatest, Least
<1>11. QED BY <1>6, <1>10 DEF low, high, e, half, part, more

\* The bits of a target fit the account's field.
LEMMA BitsType ==
  ASSUME NEW target
  PROVE  DifficultyBitsFromTarget(target) \in Bits
<1> DEFINE Zeros == {b \in 1 .. Width - 1 : target < Pow2[Width - b]}
<1>1. IsFiniteSet(1 .. Width - 1) /\ Cardinality(1 .. Width - 1) = Width - 1
  <2>1. 1 \in Int /\ Width - 1 \in Int /\ ~(1 > Width - 1) /\ (Width - 1) - 1 + 1 = Width - 1
    BY PowerTypes
  <2>2. QED BY ONLY <2>1, FS_Interval
<1>2. Zeros \in SUBSET (1 .. Width - 1)
  OBVIOUS
<1> HIDE DEF Zeros
<1>3. IsFiniteSet(Zeros) /\ Cardinality(Zeros) <= Width - 1
  BY <1>1, <1>2, FS_Subset
<1>4. Cardinality(Zeros) \in Nat
  BY <1>3, FS_CardinalityType
<1>5. Cardinality(Zeros) \in Bits
  BY <1>3, <1>4, PowerTypes DEF Bits
<1>6. QED BY <1>5 DEF Zeros, DifficultyBitsFromTarget

\* The bits a target was made for are the bits read back from it, the last
\* value included, for which the target is zero.
THEOREM BitsReadBack ==
  ASSUME NEW bits \in Bits
  PROVE  DifficultyBitsFromTarget(TargetFromDifficultyBits(bits)) = bits
<1> DEFINE target == TargetFromDifficultyBits(bits)
           Zeros == {b \in 1 .. Width - 1 : target < Pow2[Width - b]}
<1>1. bits \in Nat /\ bits <= Width - 1
  BY PowerTypes DEF Bits
<1>2. ASSUME NEW b \in 1 .. Width - 1
      PROVE  target < Pow2[Width - b] <=> b <= bits
  <2>1. /\ Width - b \in 0 .. Width /\ Pow2[Width - b] \in Nat /\ Pow2[Width - b] > 0
        /\ Width - bits \in 0 .. Width /\ Pow2[Width - bits] \in Nat
    BY <1>1, PowerTypes, PowersGrow
  <2>2. CASE bits >= Width - 1
    BY <1>1, <2>1, <2>2, PowerTypes DEF TargetFromDifficultyBits
  <2>3. CASE ~(bits >= Width - 1)
    <3>1. target = Pow2[Width - bits] - 1
      BY <2>3 DEF TargetFromDifficultyBits
    <3>2. CASE b < bits
      <4>1. Width - bits \in 0 .. Width - b /\ Width - bits < Width - b
        BY <1>1, <3>2, PowerTypes
      <4>2. Pow2[Width - bits] < Pow2[Width - b]
        BY <2>1, <4>1, PowersGrow
      <4>3. QED BY <1>1, <2>1, <3>1, <3>2, <4>2
    <3>3. CASE b = bits
      BY <2>1, <3>1, <3>3, <1>1
    <3>4. CASE b > bits
      <4>1. Width - b \in 0 .. Width - bits /\ Width - b < Width - bits
        BY <1>1, <3>4, PowerTypes
      <4>2. Pow2[Width - b] < Pow2[Width - bits]
        BY <2>1, <4>1, PowersGrow
      <4>3. QED BY <1>1, <2>1, <3>1, <3>4, <4>2
    <3>5. QED BY <1>1, <3>2, <3>3, <3>4
  <2>4. QED BY <2>2, <2>3
<1>3. Zeros = 1 .. bits
  <2>1. ASSUME NEW b PROVE b \in Zeros <=> b \in 1 .. bits
    <3>1. b \in 1 .. bits <=> b \in 1 .. Width - 1 /\ b <= bits
      BY <1>1, PowerTypes
    <3>2. QED BY <3>1, <1>2
  <2> HIDE DEF Zeros
  <2>2. QED BY <2>1
<1>4. Cardinality(1 .. bits) = bits
  BY <1>1, FS_Interval
<1>5. QED BY <1>3, <1>4 DEF DifficultyBitsFromTarget

----------------------------------------------------------------------------
(* Tables made by recursion *)

\* Tables made by recursion: every place but the first is a step on from an earlier one.
Earlier(L) == {before \in [1 .. L -> 0 .. L] : \A k \in 1 .. L : before[k] < k}
Steps(L, V) == [1 .. L -> [V -> V]]
IsTable(f, L, V, base, step, before) ==
  /\ f \in [0 .. L -> V]
  /\ f[0] = base
  /\ \A k \in 1 .. L : f[k] = step[k][f[before[k]]]

\* Such a table exists.
LEMMA TableExists ==
  ASSUME NEW L \in Nat, NEW V, NEW base \in V, NEW step \in Steps(L, V),
         NEW before \in Earlier(L)
  PROVE  \E f : IsTable(f, L, V, base, step, before)
<1> USE DEF Earlier, Steps
<1> DEFINE Table(n, f) ==
             f[0] = base /\ \A k \in 1 .. n : f[k] = step[k][f[before[k]]]
           S == {n \in Nat : n <= L => \E f \in [0 .. n -> V] : Table(n, f)}
<1>1. 0 \in S
  <2>1. [k \in 0 .. 0 |-> base] \in [0 .. 0 -> V] /\ Table(0, [k \in 0 .. 0 |-> base])
    OBVIOUS
  <2>2. QED BY <2>1
<1>2. ASSUME NEW n \in Nat, n \in S PROVE n + 1 \in S
  <2> SUFFICES ASSUME n + 1 <= L PROVE \E f \in [0 .. n + 1 -> V] : Table(n + 1, f)
    OBVIOUS
  <2>1. PICK f \in [0 .. n -> V] : Table(n, f)
    <3>1. n <= L
      OBVIOUS
    <3> HIDE DEF Table
    <3>2. QED BY <1>2, <3>1
  <2>2. n + 1 \in 1 .. L /\ before[n + 1] \in 0 .. n
    OBVIOUS
  <2> DEFINE last == step[n + 1][f[before[n + 1]]]
             g == [k \in 0 .. n + 1 |-> IF k <= n THEN f[k] ELSE last]
  <2>3. last \in V
    BY <2>1, <2>2
  <2>4. \A k \in 0 .. n : k \in 0 .. n + 1 /\ g[k] = f[k]
    OBVIOUS
  <2>5. g[n + 1] = last
    OBVIOUS
  <2> HIDE DEF last
  <2>6. g \in [0 .. n + 1 -> V]
    BY <2>1, <2>3
  <2> HIDE DEF g
  <2>7. ASSUME NEW k \in 1 .. n + 1 PROVE g[k] = step[k][g[before[k]]]
    <3>1. CASE k = n + 1
      <4>1. g[before[n + 1]] = f[before[n + 1]]
        BY <2>2, <2>4
      <4>2. QED BY <2>5, <3>1, <4>1 DEF last
    <3>2. CASE k # n + 1
      <4>1. k \in 1 .. n /\ k \in 0 .. n /\ k \in 1 .. L
        BY <3>2
      <4>2. before[k] \in 0 .. n
        BY <4>1
      <4>3. f[k] = step[k][f[before[k]]]
        BY <2>1, <4>1
      <4>4. g[k] = f[k] /\ g[before[k]] = f[before[k]]
        BY <2>4, <4>1, <4>2
      <4>5. QED BY <4>3, <4>4
    <3>3. QED BY <3>1, <3>2
  <2>8. g[0] = base
    BY <2>1, <2>4
  <2>9. QED BY <2>6, <2>7, <2>8
<1>3. Nat \subseteq S
  <2> HIDE DEF S
  <2> QED BY <1>1, <1>2, SetInduction
<1>4. L \in S /\ L <= L
  BY <1>3
<1>5. QED BY <1>4 DEF IsTable

\* The same where every place refers to the one before it.
IsChain(f, L, V, base, step) ==
  /\ f \in [0 .. L -> V]
  /\ f[0] = base
  /\ \A k \in 1 .. L : f[k] = step[k][f[k - 1]]

\* Such a table exists when every place is a step on from the one before.
LEMMA ChainExists ==
  ASSUME NEW L \in Nat, NEW V, NEW base \in V, NEW step \in Steps(L, V)
  PROVE  \E f : IsChain(f, L, V, base, step)
<1> DEFINE before == [k \in 1 .. L |-> k - 1]
<1>1. before \in [1 .. L -> 0 .. L] /\ \A k \in 1 .. L : before[k] < k /\ before[k] = k - 1
  OBVIOUS
<1> HIDE DEF before
<1>2. PICK f : IsTable(f, L, V, base, step, before)
  <2>1. before \in Earlier(L)
    BY <1>1 DEF Earlier
  <2>2. QED BY <2>1, TableExists
<1>3. ASSUME NEW k \in 1 .. L PROVE f[k] = step[k][f[k - 1]]
  BY <1>1, <1>2 DEF IsTable
<1>4. QED BY <1>2, <1>3 DEF IsTable, IsChain

\* Powers add their exponents.
LEMMA PowersAdd ==
  ASSUME NEW a \in 0 .. Width, NEW b \in 0 .. Width, a + b <= Width
  PROVE  Pow2[a + b] = Pow2[a] * Pow2[b]
<1> DEFINE S == {n \in Nat : a + n <= Width => Pow2[a + n] = Pow2[a] * Pow2[n]}
<1>1. 0 \in S
  BY PowerTypes
<1>2. ASSUME NEW n \in Nat, n \in S PROVE n + 1 \in S
  <2>1. SUFFICES ASSUME a + (n + 1) <= Width PROVE Pow2[a + (n + 1)] = Pow2[a] * Pow2[n + 1]
    OBVIOUS
  <2>2. a + n \in 0 .. Width - 1 /\ n \in 0 .. Width - 1 /\ (a + n) + 1 = a + (n + 1)
    BY <2>1, PowerTypes
  <2>3. Pow2[(a + n) + 1] = 2 * Pow2[a + n] /\ Pow2[n + 1] = 2 * Pow2[n]
    BY <2>2, PowerTypes
  <2>4. Pow2[a + n] = Pow2[a] * Pow2[n]
    BY <1>2, <2>2, PowerTypes
  <2>5. Pow2[a] \in Nat /\ Pow2[n] \in Nat
    BY <2>2, PowerTypes
  <2>6. QED BY <2>2, <2>3, <2>4, <2>5
<1>3. Nat \subseteq S
  <2> HIDE DEF S
  <2> QED BY <1>1, <1>2, SetInduction
<1>4. b \in Nat
  BY PowerTypes
<1>5. QED BY <1>3, <1>4

----------------------------------------------------------------------------
(* What an array of bytes is worth *)

\* What the places of a byte are worth: Weight(j) is the radix to the power j.
Weight(j) == Pow2[ByteBits * j]

\* The typing of weights: each is the radix times the one before, the last that of a
\* whole target.
LEMMA Weights ==
  /\ ByteBits \in Nat \ {0} /\ ByteBits <= Width /\ Bytes \in Nat \ {0} /\ ByteBits * Bytes = Width
  /\ \A j \in 0 .. Bytes : ByteBits * j \in 0 .. Width
  /\ Radix \in Nat /\ Radix >= 2
  /\ \A j \in 0 .. Bytes : Weight(j) \in Nat \ {0}
  /\ Weight(0) = 1 /\ Weight(Bytes) = Pow2[Width]
  /\ \A j \in 1 .. Bytes : Weight(j) = Weight(j - 1) * Radix
<1>1. /\ ByteBits \in Nat \ {0} /\ ByteBits <= Width /\ Bytes \in Nat \ {0}
      /\ ByteBits * Bytes = Width
  BY BytesAssumption, PowerTypes DEF BytesAssumption
<1>2. ASSUME NEW j \in 0 .. Bytes PROVE ByteBits * j \in 0 .. Width
  <2>1. j * ByteBits <= Bytes * ByteBits
    BY <1>1, ProductGrows
  <2>2. QED BY <1>1, <2>1
<1>3. Radix \in Nat /\ Radix >= 2
  <2>1. Pow2[0 + 1] = 2 * Pow2[0] /\ Pow2[1] = 2
    BY PowerTypes
  <2>2. ByteBits \in 0 .. Width /\ 1 \in 0 .. ByteBits
    BY <1>1, PowerTypes
  <2>3. 1 < ByteBits => Pow2[1] < Pow2[ByteBits]
    BY <2>2, PowersGrow
  <2>4. QED BY <1>1, <2>1, <2>2, <2>3, PowerTypes DEF Radix
<1>4. ASSUME NEW j \in 0 .. Bytes PROVE Weight(j) \in Nat \ {0}
  BY <1>2, PowersGrow, PowerTypes DEF Weight
<1>5. Weight(0) = 1 /\ Weight(Bytes) = Pow2[Width]
  BY <1>1, PowerTypes DEF Weight
<1>6. ASSUME NEW j \in 1 .. Bytes PROVE Weight(j) = Weight(j - 1) * Radix
  <2>1. ByteBits * (j - 1) + ByteBits = ByteBits * j /\ j - 1 \in 0 .. Bytes /\ j \in 0 .. Bytes
    BY <1>1
  <2>2. ByteBits * (j - 1) \in 0 .. Width /\ ByteBits * j \in 0 .. Width /\ ByteBits \in 0 .. Width
    BY <1>1, <1>2, <2>1, PowerTypes
  <2> DEFINE e == ByteBits * (j - 1)
  <2>3. Pow2[e + ByteBits] = Pow2[e] * Pow2[ByteBits]
    <3> HIDE DEF e
    <3>1. e \in 0 .. Width /\ e + ByteBits <= Width
      BY <2>1, <2>2, PowerTypes DEF e
    <3>2. QED BY <2>2, <3>1, PowersAdd
  <2>4. QED BY <2>1, <2>3 DEF Weight, Radix
<1>7. QED BY <1>1, <1>2, <1>3, <1>4, <1>5, <1>6

\* A target has a byte or more.
LEMMA IndexIs == Bytes \in Nat \ {0} /\ Index = 1 .. Bytes
BY Weights DEF Index

\* The largest target is one less than the highest power.
LEMMA TopPower == Pow2[Width] \in Nat \ {0} /\ MaxTarget = Pow2[Width] - 1 /\ MaxTarget \in Nat
<1>1. Width \in 0 .. Width
  BY PowerTypes
<1>2. QED BY <1>1, PowerTypes, PowersGrow DEF MaxTarget

\* A byte tells two values or more apart.
LEMMA RadixType == Radix \in Nat /\ Radix >= 2
BY Weights

\* v holds what the bytes read so far are worth.
Prefixes(bytes, v) ==
  /\ v \in [0 .. Len(bytes) -> Nat]
  /\ v[0] = 0
  /\ \A i \in 1 .. Len(bytes) : v[i] = v[i - 1] * Radix + bytes[i]

\* The prefixes of any array have their values.
LEMMA PrefixesExist ==
  ASSUME NEW bytes \in Seq(Nat)
  PROVE  \E v : Prefixes(bytes, v)
<1> DEFINE L == Len(bytes)
           step == [i \in 1 .. L |-> [n \in Nat |-> n * Radix + bytes[i]]]
<1>1. L \in Nat /\ \A i \in 1 .. L : bytes[i] \in Nat
  OBVIOUS
<1>2. ASSUME NEW i \in 1 .. L, NEW n \in Nat
      PROVE  step[i][n] = n * Radix + bytes[i] /\ n * Radix + bytes[i] \in Nat
  BY <1>1, RadixType
<1> HIDE DEF L
<1>3. step \in Steps(L, Nat)
  BY <1>2 DEF Steps
<1> HIDE DEF step
<1>4. PICK v : IsChain(v, L, Nat, 0, step)
  BY <1>1, <1>3, ChainExists
<1>5. ASSUME NEW i \in 1 .. L PROVE v[i] = v[i - 1] * Radix + bytes[i]
  <2>1. v[i - 1] \in Nat /\ v[i] = step[i][v[i - 1]]
    BY <1>1, <1>4 DEF IsChain
  <2>2. QED BY <1>2, <2>1
<1>6. v \in [0 .. L -> Nat] /\ v[0] = 0
  BY <1>1, <1>4 DEF IsChain
<1>7. Prefixes(bytes, v)
  BY <1>5, <1>6 DEF Prefixes, L
<1>8. QED BY <1>7

\* There is one table of prefixes, and the last of them is the number.
LEMMA ValueIs ==
  ASSUME NEW bytes \in Seq(Nat), NEW v, Prefixes(bytes, v)
  PROVE  Value(bytes) = v[Len(bytes)]
<1> DEFINE L == Len(bytes)
           Upto0(u) == u = [i \in 0 .. L |-> IF i = 0 THEN 0 ELSE u[i - 1] * Radix + bytes[i]]
           u == CHOOSE u : Upto0(u)
<1>1. L \in Nat
  OBVIOUS
<1>2. Value(bytes) = u[L]
  BY DEF Value
<1>3. Upto0(v)
  <2> DEFINE entry(i) == IF i = 0 THEN 0 ELSE v[i - 1] * Radix + bytes[i]
  <2>1. \A i \in 0 .. L : v[i] = entry(i)
    BY DEF Prefixes
  <2>2. v = [i \in 0 .. L |-> v[i]]
    BY DEF Prefixes
  <2> HIDE DEF entry, L
  <2>3. v = [i \in 0 .. L |-> entry(i)]
    BY <2>1, <2>2
  <2>4. QED BY <2>3 DEF entry
<1>4. Upto0(u)
  <2> HIDE DEF Upto0
  <2> QED BY <1>3
<1> HIDE DEF u, L
<1>5. /\ u[0] = 0
      /\ \A i \in 1 .. L : u[i] = u[i - 1] * Radix + bytes[i]
  BY <1>1, <1>4
<1>6. /\ v[0] = 0
      /\ \A i \in 1 .. L : v[i] = v[i - 1] * Radix + bytes[i]
  BY DEF Prefixes, L
<1> DEFINE S == {n \in Nat : n <= L => u[n] = v[n]}
<1>7. 0 \in S
  BY <1>5, <1>6
<1>8. ASSUME NEW n \in Nat, n \in S PROVE n + 1 \in S
  <2> SUFFICES ASSUME n + 1 <= L PROVE u[n + 1] = v[n + 1]
    OBVIOUS
  <2>1. n + 1 \in 1 .. L /\ (n + 1) - 1 = n /\ u[n] = v[n]
    BY <1>1, <1>8
  <2>2. QED BY <1>5, <1>6, <2>1
<1>9. Nat \subseteq S
  <2> HIDE DEF S
  <2> QED BY <1>7, <1>8, SetInduction
<1>10. L \in S /\ L <= L
  BY <1>1, <1>9
<1>11. QED BY <1>2, <1>10 DEF L

\* Bytes of an array, and numbers of that length.
Byte == 0 .. Radix - 1

\* The last bytes of a longer array, on their own.
EndsIn(bytes, e, tail) ==
  /\ e \in Nat /\ Len(bytes) = e + Bytes /\ Len(tail) = Bytes
  /\ \A i \in Index : tail[i] = bytes[e + i]

\* What precedes the last bytes counts by its weight.
LEMMA Split ==
  ASSUME NEW bytes \in Seq(Byte), NEW tail \in Seq(Byte), NEW e, EndsIn(bytes, e, tail),
         NEW v, Prefixes(bytes, v), NEW w, Prefixes(tail, w), NEW j \in 0 .. Bytes
  PROVE  v[e + j] = v[e] * Weight(j) + w[j] /\ w[j] < Weight(j)
<1> USE DEF EndsIn
<1> DEFINE S == {n \in Nat : n <= Bytes => v[e + n] = v[e] * Weight(n) + w[n] /\ w[n] < Weight(n)}
<1>1. v[e] \in Nat /\ w[0] = 0 /\ Weight(0) = 1
  <2>1. e \in 0 .. Len(bytes)
    BY Weights
  <2>2. QED BY <2>1, Weights DEF Prefixes
<1>2. 0 \in S
  <2>1. e + 0 = e
    OBVIOUS
  <2>2. QED BY <1>1, <2>1
<1>3. ASSUME NEW n \in Nat, n \in S PROVE n + 1 \in S
  <2> SUFFICES ASSUME n + 1 <= Bytes
               PROVE  /\ v[e + (n + 1)] = v[e] * Weight(n + 1) + w[n + 1]
                      /\ w[n + 1] < Weight(n + 1)
    OBVIOUS
  <2>1. n \in 0 .. Bytes /\ n + 1 \in 1 .. Bytes /\ (n + 1) - 1 = n /\ n <= Bytes
    BY Weights
  <2>2. v[e + n] = v[e] * Weight(n) + w[n] /\ w[n] < Weight(n)
    BY <1>3, <2>1
  <2>3. tail[n + 1] = bytes[e + (n + 1)] /\ tail[n + 1] \in Byte
    BY <2>1 DEF Index
  <2>4. /\ w[n] \in Nat /\ w[n + 1] = w[n] * Radix + tail[n + 1]
    BY <2>1 DEF Prefixes
  <2>5. v[e + (n + 1)] = v[e + n] * Radix + bytes[e + (n + 1)]
    <3>1. e + (n + 1) \in 1 .. Len(bytes) /\ (e + (n + 1)) - 1 = e + n
      BY <2>1, Weights
    <3>2. QED BY <3>1 DEF Prefixes
  <2>6. Weight(n + 1) = Weight(n) * Radix /\ Weight(n) \in Nat \ {0} /\ Radix \in Nat
    BY <2>1, Weights
  <2> DEFINE a == v[e]
             p == Weight(n)
             x == w[n]
             b == tail[n + 1]
             R == Radix
  <2>7. a \in Nat /\ p \in Nat \ {0} /\ x \in Nat /\ b \in Nat /\ b < R /\ R \in Nat /\ x < p
    <3>1. tail[n + 1] \in Nat /\ tail[n + 1] < Radix
      BY <2>3, RadixType DEF Byte
    <3>2. QED BY <1>1, <2>2, <2>4, <2>6, <3>1
  <2>8. v[e + (n + 1)] = (a * p + x) * R + b
    BY <2>2, <2>3, <2>5
  <2>9. w[n + 1] = x * R + b
    BY <2>4
  <2>10. Weight(n + 1) = p * R
    BY <2>6
  <2> HIDE DEF a, p, x, b, R
  <2>11. (a * p + x) * R + b = a * (p * R) + (x * R + b)
    BY <2>7
  <2>12. x * R + b < p * R
    <3>1. (x + 1) * R <= p * R /\ p * R \in Nat
      BY <2>7, ProductGrows, x + 1 \in Nat
    <3>2. (x + 1) * R = x * R + R /\ x * R \in Nat
      BY <2>7
    <3>3. QED BY <2>7, <3>1, <3>2
  <2>13. QED BY <2>8, <2>9, <2>10, <2>11, <2>12 DEF a
<1>4. Nat \subseteq S
  <2> HIDE DEF S
  <2> QED BY <1>2, <1>3, SetInduction
<1>5. j \in Nat /\ j <= Bytes
  BY Weights
<1>6. QED BY <1>4, <1>5

\* The array of a number in range, digit by digit, and what its prefixes are worth.
LEMMA OfArray ==
  ASSUME NEW n \in 0 .. MaxTarget
  PROVE  /\ Array(n) \in Seq(Byte) /\ Len(Array(n)) = Bytes
         /\ \A i \in Index : Array(n)[i] = (n \div Weight(Bytes - i)) % Radix
         /\ Prefixes(Array(n), [i \in 0 .. Bytes |-> n \div Weight(Bytes - i)])
         /\ Value(Array(n)) = n
<1> DEFINE a == Array(n)
           v == [i \in 0 .. Bytes |-> n \div Weight(Bytes - i)]
<1>1. n \in Nat /\ n < Pow2[Width] /\ Pow2[Width] \in Nat
  BY PowerTypes DEF MaxTarget
<1>2. \A i \in Index : a[i] = (n \div Weight(Bytes - i)) % Radix
  BY DEF Array, Weight
<1>3. ASSUME NEW i \in 0 .. Bytes
      PROVE  Bytes - i \in 0 .. Bytes /\ v[i] = n \div Weight(Bytes - i) /\ v[i] \in Nat
  <2>1. Bytes - i \in 0 .. Bytes
    BY Weights
  <2>2. Weight(Bytes - i) \in Nat \ {0}
    BY <2>1, Weights
  <2>3. QED BY <1>1, <2>1, <2>2, DivMod
<1>4. ASSUME NEW i \in Index PROVE a[i] \in Byte
  <2>1. i \in 0 .. Bytes
    BY DEF Index
  <2>2. v[i] \in Nat /\ a[i] = v[i] % Radix
    BY <1>2, <1>3, <2>1
  <2> HIDE DEF v
  <2>3. v[i] % Radix \in Nat /\ v[i] % Radix < Radix
    BY <2>2, DivMod, Weights
  <2>4. QED BY <2>2, <2>3, Weights DEF Byte
<1>5. a \in Seq(Byte) /\ Len(a) = Bytes
  <2>1. a = [i \in 1 .. Bytes |-> a[i]] /\ Bytes \in Nat
    BY Weights DEF Array, Index
  <2>2. a \in [1 .. Bytes -> Byte]
    BY <1>4, <2>1 DEF Index
  <2> HIDE DEF a
  <2>3. QED BY <2>1, <2>2
<1>6. v[0] = 0
  <2>1. v[0] = n \div Pow2[Width]
    BY Weights
  <2>2. n = 0 * Pow2[Width] + n
    BY <1>1
  <2>3. QED BY <1>1, <2>1, <2>2, DivUnique
<1>7. ASSUME NEW i \in 1 .. Bytes PROVE v[i] = v[i - 1] * Radix + a[i]
  <2>1. i \in 0 .. Bytes /\ i - 1 \in 0 .. Bytes /\ i \in Index /\ Bytes - (i - 1) \in 1 .. Bytes
        /\ (Bytes - (i - 1)) - 1 = Bytes - i
    BY Weights DEF Index
  <2>2. Weight(Bytes - (i - 1)) = Weight(Bytes - i) * Radix /\ Weight(Bytes - i) \in Nat \ {0}
    BY <2>1, <1>3, Weights
  <2>3. n \div (Weight(Bytes - i) * Radix) = (n \div Weight(Bytes - i)) \div Radix
    BY <1>1, <2>2, DivDiv, Weights
  <2>4. v[i] = n \div Weight(Bytes - i) /\ v[i] \in Nat /\ v[i - 1] = v[i] \div Radix
    BY <1>3, <2>1, <2>2, <2>3
  <2>5. a[i] = v[i] % Radix
    BY <1>2, <2>1, <2>4
  <2> DEFINE x == v[i]
  <2>6. x = (x \div Radix) * Radix + (x % Radix)
    <3> HIDE DEF x
    <3>1. x \in Nat
      BY <2>4 DEF x
    <3>2. QED BY <3>1, DivMod, RadixType
  <2> HIDE DEF v, a
  <2>7. QED BY <2>4, <2>5, <2>6
<1>8. Prefixes(a, v)
  <2>1. v \in [0 .. Bytes -> Nat]
    BY <1>3
  <2> HIDE DEF v, a
  <2>2. QED BY <1>5, <1>6, <1>7, <2>1 DEF Prefixes
<1>9. v[Bytes] = n
  <2>1. Bytes - Bytes = 0 /\ Bytes \in 0 .. Bytes /\ Weight(0) = 1
    BY Weights
  <2>2. n = n * 1 + 0 /\ 0 < 1
    BY <1>1
  <2>3. n \div 1 = n
    BY <1>1, <2>2, DivUnique
  <2>4. QED BY <2>1, <2>3
<1>10. Value(a) = n
  <2>1. a \in Seq(Nat)
    BY <1>5, Weights DEF Byte
  <2> HIDE DEF v, a
  <2>2. QED BY <1>5, <1>8, <1>9, <2>1, ValueIs
<1>11. QED BY <1>2, <1>5, <1>8, <1>10

\* Bytes are numbers below the radix, and what is cut to a byte is one.
LEMMA ByteType ==
  /\ \A b \in Byte : b \in Nat /\ b < Radix
  /\ \A n \in Nat : n % Radix \in Byte
  /\ Byte \subseteq Nat
<1>1. ASSUME NEW b \in Byte PROVE b \in Nat /\ b < Radix
  BY RadixType DEF Byte
<1>2. ASSUME NEW n \in Nat PROVE n % Radix \in Byte
  <2>1. n % Radix \in Nat /\ n % Radix < Radix
    BY DivMod, RadixType
  <2>2. QED BY <2>1, RadixType DEF Byte
<1>3. QED BY <1>1, <1>2

\* Arrays of bytes are arrays of numbers.
LEMMA BytesAreNumbers ==
  ASSUME NEW s \in Seq(Byte)
  PROVE  s \in Seq(Nat) /\ \A i \in 1 .. Len(s) : s[i] \in Byte /\ s[i] \in Nat
<1>1. \A i \in 1 .. Len(s) : s[i] \in Byte
  OBVIOUS
<1>2. \A i \in 1 .. Len(s) : s[i] \in Nat
  BY <1>1, ByteType
<1>3. Len(s) \in Nat /\ s = [i \in 1 .. Len(s) |-> s[i]]
  OBVIOUS
<1>4. s \in [1 .. Len(s) -> Nat]
  BY <1>2, <1>3
<1>5. s \in Seq(Nat)
  BY <1>3, <1>4
<1>6. QED BY <1>1, <1>2, <1>5

\* A number of bytes, and one with one byte more.
LEMMA AppendValue ==
  ASSUME NEW s \in Seq(Byte), NEW b \in Byte
  PROVE  /\ Append(s, b) \in Seq(Byte) /\ Value(s) \in Nat
         /\ Value(Append(s, b)) = Value(s) * Radix + b
<1> DEFINE t == Append(s, b)
<1>1. /\ t \in Seq(Byte) /\ Len(s) \in Nat /\ Len(t) = Len(s) + 1 /\ t[Len(s) + 1] = b
      /\ \A i \in 1 .. Len(s) : t[i] = s[i]
  OBVIOUS
<1>2. PICK v : Prefixes(t, v)
  BY <1>1, BytesAreNumbers, PrefixesExist
<1> HIDE DEF t
<1> DEFINE w == [i \in 0 .. Len(s) |-> v[i]]
<1>3. Prefixes(s, w)
  <2>1. w \in [0 .. Len(s) -> Nat] /\ w[0] = 0
    BY <1>1, <1>2 DEF Prefixes
  <2>2. ASSUME NEW i \in 1 .. Len(s) PROVE w[i] = w[i - 1] * Radix + s[i]
    <3>1. i \in 1 .. Len(t) /\ i \in 0 .. Len(s) /\ i - 1 \in 0 .. Len(s)
      BY <1>1
    <3>2. v[i] = v[i - 1] * Radix + t[i]
      BY <1>2, <3>1 DEF Prefixes
    <3>3. QED BY <1>1, <3>1, <3>2
  <2> HIDE DEF w
  <2>3. QED BY <2>1, <2>2 DEF Prefixes
<1>4. w[Len(s)] = v[Len(s)] /\ v[Len(s)] \in Nat
  BY <1>1, <1>2 DEF Prefixes
<1>5. Value(s) = v[Len(s)]
  <2> HIDE DEF w
  <2> QED BY <1>3, <1>4, BytesAreNumbers, ValueIs
<1>6. Value(t) = v[Len(t)]
  BY <1>1, <1>2, BytesAreNumbers, ValueIs
<1>7. v[Len(t)] = v[Len(s)] * Radix + b
  <2>1. Len(t) \in 1 .. Len(t) /\ Len(t) - 1 = Len(s)
    BY <1>1
  <2>2. QED BY <1>1, <1>2, <2>1 DEF Prefixes
<1>8. QED BY <1>1, <1>4, <1>5, <1>6, <1>7 DEF t

\* A number of bytes before those of a target.
LEMMA ConcatValue ==
  ASSUME NEW s \in Seq(Byte), NEW t \in Seq(Byte), Len(t) = Bytes
  PROVE  /\ s \o t \in Seq(Byte) /\ Len(s \o t) = Len(s) + Bytes
         /\ Value(s \o t) = Value(s) * Pow2[Width] + Value(t)
         /\ Value(s) \in Nat /\ Value(t) \in Nat /\ Value(t) < Pow2[Width]
<1> DEFINE c == s \o t
           e == Len(s)
<1>1. /\ c \in Seq(Byte) /\ e \in Nat /\ Bytes \in Nat /\ Len(c) = e + Bytes
      /\ \A i \in 1 .. e : c[i] = s[i]
      /\ \A i \in Index : t[i] = c[e + i]
  <2>1. Bytes \in Nat
    BY Weights
  <2>2. /\ c \in Seq(Byte) /\ e \in Nat /\ Len(c) = e + Len(t)
        /\ \A i \in 1 .. Len(c) : c[i] = IF i <= e THEN s[i] ELSE t[i - e]
    OBVIOUS
  <2>3. \A i \in 1 .. e : c[i] = s[i]
    <3> HIDE DEF c, e
    <3> QED BY <2>1, <2>2
  <2>4. ASSUME NEW i \in Index PROVE t[i] = c[e + i]
    <3>1. i \in 1 .. Bytes
      BY DEF Index
    <3> HIDE DEF c, e
    <3>2. e + i \in 1 .. Len(c) /\ ~(e + i <= e) /\ (e + i) - e = i
      BY <2>1, <2>2, <3>1
    <3>3. QED BY <2>2, <3>2
  <2>5. QED BY <2>1, <2>2, <2>3, <2>4
<1>2. PICK v : Prefixes(c, v)
  BY <1>1, BytesAreNumbers, PrefixesExist
<1>3. PICK w : Prefixes(t, w)
  BY BytesAreNumbers, PrefixesExist
<1> HIDE DEF c
<1> DEFINE u == [i \in 0 .. e |-> v[i]]
<1>4. Prefixes(s, u)
  <2>1. u \in [0 .. Len(s) -> Nat] /\ u[0] = 0
    BY <1>1, <1>2 DEF Prefixes
  <2>2. ASSUME NEW i \in 1 .. Len(s) PROVE u[i] = u[i - 1] * Radix + s[i]
    <3>1. i \in 1 .. Len(c) /\ i \in 0 .. e /\ i - 1 \in 0 .. e
      BY <1>1
    <3>2. v[i] = v[i - 1] * Radix + c[i]
      BY <1>2, <3>1 DEF Prefixes
    <3>3. QED BY <1>1, <3>1, <3>2
  <2> HIDE DEF u
  <2>3. QED BY <2>1, <2>2 DEF Prefixes
<1>5. u[e] = v[e] /\ v[e] \in Nat
  BY <1>1, <1>2 DEF Prefixes
<1>6. Value(s) = v[e]
  <2> HIDE DEF u
  <2> QED BY <1>4, <1>5, BytesAreNumbers, ValueIs
<1>7. Value(c) = v[e + Bytes]
  BY <1>1, <1>2, BytesAreNumbers, ValueIs
<1>8. Value(t) = w[Bytes] /\ w[Bytes] \in Nat
  <2>1. Bytes \in 0 .. Len(t)
    BY <1>1
  <2>2. QED BY <1>3, <2>1, BytesAreNumbers, ValueIs DEF Prefixes
<1>9. v[e + Bytes] = v[e] * Weight(Bytes) + w[Bytes] /\ w[Bytes] < Weight(Bytes)
  <2>1. Bytes \in 0 .. Bytes
    BY <1>1
  <2> HIDE DEF e
  <2>2. EndsIn(c, e, t)
    BY <1>1 DEF EndsIn
  <2>3. QED BY <1>1, <1>2, <1>3, <2>1, <2>2, Split
<1>10. Weight(Bytes) = Pow2[Width]
  BY Weights
<1> HIDE DEF e
<1>11. QED BY <1>1, <1>5, <1>6, <1>7, <1>8, <1>9, <1>10 DEF c, e

----------------------------------------------------------------------------
(* multiply_target_be *)

\* The carries, from the last byte to the first, and what becomes of the last of them.
IsCarry(bytes, by, carry) ==
  carry = [i \in 1 .. Bytes + 1 |->
             IF i > Bytes THEN 0 ELSE (bytes[i] * by + carry[i + 1]) \div Radix]

IsDigits(n, digits) ==
  digits = [c \in 0 .. n |->
              IF c = 0 THEN <<>> ELSE Append(digits[c \div Radix], c % Radix)]

\* There are carries.
LEMMA CarryExists ==
  ASSUME NEW bytes \in Seq(Byte), Len(bytes) = Bytes, NEW by \in Nat
  PROVE  \E carry : IsCarry(bytes, by, carry)
<1> DEFINE N == Bytes
           step == [k \in 1 .. N |-> [n \in Nat |-> (bytes[N + 1 - k] * by + n) \div Radix]]
<1>1. N \in Nat \ {0} /\ Index = 1 .. N /\ \A i \in 1 .. N : bytes[i] \in Nat
  BY Weights, BytesAreNumbers DEF Index
<1>2. ASSUME NEW i \in 1 .. N, NEW n \in Nat
      PROVE  (bytes[i] * by + n) \div Radix \in Nat
  <2>1. bytes[i] * by + n \in Nat
    BY <1>1
  <2>2. QED BY <2>1, DivMod, RadixType
<1>3. \E carry : IsCarry(bytes, by, carry)
  <2>1. ASSUME NEW k \in 1 .. N, NEW n \in Nat
        PROVE  /\ step[k][n] = (bytes[N + 1 - k] * by + n) \div Radix
               /\ (bytes[N + 1 - k] * by + n) \div Radix \in Nat
    <3>1. N + 1 - k \in 1 .. N
      BY <1>1
    <3>2. QED BY <1>2, <3>1
  <2>2. step \in Steps(N, Nat)
    BY <2>1 DEF Steps
  <2>3. PICK f : IsChain(f, N, Nat, 0, step)
    <3> HIDE DEF step
    <3> QED BY <1>1, <2>2, ChainExists
  <2> DEFINE carry == [i \in 1 .. N + 1 |-> f[N + 1 - i]]
             entry(i) == IF i > N THEN 0 ELSE (bytes[i] * by + carry[i + 1]) \div Radix
  <2>4. ASSUME NEW i \in 1 .. N + 1 PROVE carry[i] = entry(i)
    <3>1. CASE i = N + 1
      BY <1>1, <2>3, <3>1 DEF IsChain
    <3>2. CASE i # N + 1
      <4>1. /\ i \in 1 .. N /\ N + 1 - i \in 1 .. N /\ (N + 1 - i) - 1 = N + 1 - (i + 1)
            /\ N + 1 - (N + 1 - i) = i /\ i + 1 \in 1 .. N + 1 /\ (N + 1 - i) - 1 \in 0 .. N
        BY <1>1, <3>2
      <4>2. f[N + 1 - i] = step[N + 1 - i][f[(N + 1 - i) - 1]] /\ f[(N + 1 - i) - 1] \in Nat
        BY <2>3, <4>1 DEF IsChain
      <4>3. f[N + 1 - i] = (bytes[N + 1 - (N + 1 - i)] * by + f[(N + 1 - i) - 1]) \div Radix
        BY <2>1, <4>1, <4>2
      <4>4. carry[i] = f[N + 1 - i] /\ carry[i + 1] = f[N + 1 - (i + 1)]
        BY <4>1
      <4>5. ~(i > N)
        BY <4>1
      <4> HIDE DEF carry
      <4>6. QED BY <4>1, <4>3, <4>4, <4>5
    <3>3. QED BY <3>1, <3>2
  <2>5. carry = [i \in 1 .. N + 1 |-> carry[i]]
    OBVIOUS
  <2> HIDE DEF carry, entry
  <2>6. carry = [i \in 1 .. N + 1 |-> entry(i)]
    BY <2>4, <2>5
  <2>7. IsCarry(bytes, by, carry)
    BY <2>6 DEF entry, IsCarry
  <2>8. QED BY <2>7
<1>4. QED BY <1>3

\* The carries are numbers, each made of the byte and of the carry before.
LEMMA CarryFacts ==
  ASSUME NEW bytes \in Seq(Byte), Len(bytes) = Bytes, NEW by \in Nat,
         NEW carry, IsCarry(bytes, by, carry)
  PROVE  /\ carry[Bytes + 1] = 0
         /\ \A i \in 1 .. Bytes + 1 : carry[i] \in Nat
         /\ \A i \in Index : carry[i] = (bytes[i] * by + carry[i + 1]) \div Radix
<1> DEFINE N == Bytes
<1>1. N \in Nat \ {0} /\ Index = 1 .. N /\ \A i \in 1 .. N : bytes[i] \in Nat
  BY Weights, BytesAreNumbers DEF Index
<1>2. ASSUME NEW i \in 1 .. N, NEW n \in Nat
      PROVE  (bytes[i] * by + n) \div Radix \in Nat
  <2>1. bytes[i] * by + n \in Nat
    BY <1>1
  <2>2. QED BY <2>1, DivMod, RadixType
<1>3. carry[N + 1] = 0
  BY <1>1 DEF IsCarry
<1>4. ASSUME NEW i \in 1 .. N
      PROVE  carry[i] = (bytes[i] * by + carry[i + 1]) \div Radix
  <2>1. i \in 1 .. N + 1 /\ ~(i > N)
    BY <1>1
  <2>2. QED BY <2>1 DEF IsCarry
<1> DEFINE S == {n \in Nat : n <= N => carry[N + 1 - n] \in Nat}
<1>5. 0 \in S
  BY <1>1, <1>3
<1>6. ASSUME NEW n \in Nat, n \in S PROVE n + 1 \in S
  <2> SUFFICES ASSUME n + 1 <= N PROVE carry[N + 1 - (n + 1)] \in Nat
    OBVIOUS
  <2>1. N + 1 - (n + 1) \in 1 .. N /\ (N + 1 - (n + 1)) + 1 = N + 1 - n /\ n <= N
    BY <1>1
  <2>2. carry[N + 1 - n] \in Nat
    BY <1>6, <2>1
  <2>3. QED BY <1>2, <1>4, <2>1, <2>2
<1>7. Nat \subseteq S
  <2> HIDE DEF S
  <2> QED BY <1>5, <1>6, SetInduction
<1>8. ASSUME NEW i \in 1 .. N + 1 PROVE carry[i] \in Nat
  <2>1. N + 1 - i \in Nat /\ N + 1 - i <= N /\ N + 1 - (N + 1 - i) = i
    BY <1>1
  <2>2. N + 1 - i \in S
    BY <1>7, <2>1
  <2>3. QED BY <2>1, <2>2
<1>9. QED BY <1>1, <1>3, <1>4, <1>8

\* A number shrinks by its last byte.
LEMMA LastByte ==
  ASSUME NEW c \in Nat \ {0}
  PROVE  /\ c % Radix \in Byte /\ c \div Radix \in Nat /\ c \div Radix < c
         /\ c = (c \div Radix) * Radix + (c % Radix)
<1>1. c % Radix \in Byte /\ c \div Radix \in Nat /\ c = (c \div Radix) * Radix + (c % Radix)
      /\ c % Radix \in Nat
  <2>1. c \in Nat /\ Radix \in Nat \ {0}
    BY RadixType
  <2>2. c % Radix \in Byte
    BY <2>1, ByteType
  <2>3. QED BY <2>1, <2>2, DivMod
<1> DEFINE q == c \div Radix
           r == c % Radix
<1>2. q \in Nat /\ r \in Nat /\ c = q * Radix + r
  BY <1>1
<1> HIDE DEF q, r
<1>3. 2 * q <= Radix * q
  BY <1>2, RadixType, ProductGrows
<1>4. q < c
  BY <1>2, <1>3, RadixType
<1>5. QED BY <1>1, <1>4 DEF q

\* The carry that is left over becomes bytes.
LEMMA DigitsExist ==
  ASSUME NEW n \in Nat
  PROVE  \E digits : IsDigits(n, digits)
<1> DEFINE step == [c \in 1 .. n |-> [s \in Seq(Byte) |-> Append(s, c % Radix)]]
           before == [c \in 1 .. n |-> c \div Radix]
<1>0. ASSUME NEW c \in 1 .. n
      PROVE  /\ c % Radix \in Byte /\ c \div Radix \in 0 .. n /\ c \div Radix < c
             /\ c = (c \div Radix) * Radix + (c % Radix)
  <2>1. c \in Nat \ {0} /\ c <= n
    OBVIOUS
  <2>2. QED BY <2>1, LastByte
<1>1. before \in Earlier(n)
  BY <1>0 DEF Earlier
<1>2. step \in Steps(n, Seq(Byte))
  <2>1. \A c \in 1 .. n, s \in Seq(Byte) : Append(s, c % Radix) \in Seq(Byte)
    BY <1>0, AppendValue
  <2>2. QED BY <2>1 DEF Steps
<1>3. PICK f : IsTable(f, n, Seq(Byte), <<>>, step, before)
  <2> HIDE DEF step, before
  <2>1. <<>> \in Seq(Byte)
    OBVIOUS
  <2>2. QED BY <1>1, <1>2, <2>1, TableExists
<1> DEFINE entry(c) == IF c = 0 THEN <<>> ELSE Append(f[c \div Radix], c % Radix)
<1>4. ASSUME NEW c \in 0 .. n PROVE f[c] = entry(c)
  <2>1. CASE c = 0
    BY <1>3, <2>1 DEF IsTable
  <2>2. CASE c # 0
    <3>1. c \in 1 .. n /\ before[c] = c \div Radix /\ c \div Radix \in 0 .. n
      BY <1>0, <2>2
    <3>2. f[c] = step[c][f[before[c]]] /\ f[c \div Radix] \in Seq(Byte)
      BY <1>3, <3>1 DEF IsTable
    <3>3. QED BY <2>2, <3>1, <3>2
  <2>3. QED BY <2>1, <2>2
<1>5. f = [c \in 0 .. n |-> f[c]]
  BY <1>3 DEF IsTable
<1> HIDE DEF entry
<1>6. f = [c \in 0 .. n |-> entry(c)]
  BY <1>4, <1>5
<1>7. IsDigits(n, f)
  BY <1>6 DEF entry, IsDigits
<1>8. QED BY <1>7

\* They are worth what the carry was.
LEMMA DigitsFacts ==
  ASSUME NEW n \in Nat, NEW digits, IsDigits(n, digits)
  PROVE  digits[n] \in Seq(Byte) /\ Value(digits[n]) = n
<1> DEFINE Good(c) == digits[c] \in Seq(Byte) /\ Value(digits[c]) = c
           S == {m \in Nat : \A c \in 0 .. n : c <= m => Good(c)}
<1>0. ASSUME NEW c \in 1 .. n
      PROVE  /\ c % Radix \in Byte /\ c \div Radix \in 0 .. n /\ c \div Radix < c
             /\ c = (c \div Radix) * Radix + (c % Radix)
  <2>1. c \in Nat \ {0} /\ c <= n
    OBVIOUS
  <2>2. QED BY <2>1, LastByte
<1>1. Good(0)
  <2>1. digits[0] = <<>>
    BY DEF IsDigits
  <2>2. <<>> \in Seq(Byte) /\ Prefixes(<<>>, [i \in 0 .. 0 |-> 0]) /\ <<>> \in Seq(Nat)
        /\ Len(<<>>) = 0
    BY DEF Prefixes
  <2>3. Value(<<>>) = [i \in 0 .. 0 |-> 0][0]
    BY <2>2, ValueIs
  <2>4. QED BY <2>1, <2>2, <2>3
<1>2. 0 \in S
  <2> HIDE DEF Good
  <2>1. \A c \in 0 .. n : c <= 0 => c = 0
    OBVIOUS
  <2>2. QED BY <1>1, <2>1
<1>3. ASSUME NEW m \in Nat, m \in S PROVE m + 1 \in S
  <2> SUFFICES ASSUME NEW c \in 0 .. n, c <= m + 1 PROVE Good(c)
    OBVIOUS
  <2>1. CASE c = 0
    BY <1>1, <2>1
  <2>2. CASE c # 0
    <3>1. c \in 1 .. n
      BY <2>2
    <3>2. c \div Radix \in 0 .. n /\ c \div Radix <= m
      BY <1>0, <3>1
    <3>3. Good(c \div Radix)
      <4> HIDE DEF Good
      <4> QED BY <1>3, <3>2
    <3>4. digits[c] = Append(digits[c \div Radix], c % Radix)
      BY <2>2 DEF IsDigits
    <3>5. /\ digits[c] \in Seq(Byte)
          /\ Value(digits[c]) = Value(digits[c \div Radix]) * Radix + (c % Radix)
      BY <1>0, <3>1, <3>3, <3>4, AppendValue
    <3>6. QED BY <1>0, <3>1, <3>3, <3>5
  <2>3. QED BY <2>1, <2>2
<1>4. Nat \subseteq S
  <2> HIDE DEF S
  <2> QED BY <1>2, <1>3, SetInduction
<1>5. n \in S /\ n \in 0 .. n /\ n <= n
  BY <1>4
<1>6. QED BY <1>5

\* One less than a multiple ends in the largest digit.
LEMMA OneLess ==
  ASSUME NEW a \in Nat \ {0}, NEW b \in Nat \ {0}
  PROVE  (a * b - 1) \div a = b - 1 /\ (a * b - 1) % a = a - 1
<1>1. a * b - 1 = (b - 1) * a + (a - 1) /\ b - 1 \in Nat /\ a - 1 \in Nat /\ a - 1 < a
  OBVIOUS
<1>2. a * b - 1 \in Nat
  <2>1. (b - 1) * a \in Nat
    BY <1>1
  <2>2. QED BY <1>1, <2>1
<1>3. QED BY <1>1, <1>2, DivUnique

\* The array of full bytes is that of the largest target.
LEMMA LargestArray == [i \in Index |-> Radix - 1] = Array(MaxTarget)
<1>1. ASSUME NEW i \in Index
      PROVE  (MaxTarget \div Pow2[ByteBits * (Bytes - i)]) % Radix = Radix - 1
  <2> DEFINE j == Bytes - i
  <2>1. j \in 0 .. Bytes - 1 /\ j \in 0 .. Bytes /\ Bytes - j = i /\ i \in Nat /\ i >= 1
    BY IndexIs
  <2> HIDE DEF j
  <2> DEFINE low == Weight(j)
             k == ByteBits * (i - 1)
             more == Pow2[k]
  <2>2. /\ k \in 0 .. Width /\ ByteBits \in 0 .. Width /\ ByteBits * j \in 0 .. Width
        /\ ByteBits * j + (ByteBits + k) = Width /\ ByteBits + k \in 0 .. Width
    <3>1. i - 1 \in 0 .. Bytes /\ i = (i - 1) + 1 /\ i - 1 \in Nat /\ Bytes \in Nat
      BY <2>1, IndexIs
    <3>2. /\ k \in 0 .. Width /\ ByteBits * j \in 0 .. Width /\ ByteBits * Bytes = Width
          /\ ByteBits \in Nat \ {0} /\ ByteBits <= Width
      BY <2>1, <3>1, Weights
    <3>3. ByteBits + k = ByteBits * i /\ j = Bytes - i /\ i \in 0 .. Bytes
      BY <2>1, <3>1, <3>2, IndexIs
    <3>4. ByteBits * i \in 0 .. Width
      BY <3>3, Weights
    <3>5. ByteBits * j + ByteBits * i = ByteBits * Bytes
      BY <2>1, <3>1, <3>2, <3>3
    <3>6. QED BY <3>2, <3>3, <3>4, <3>5, PowerTypes
  <2>3. Pow2[Width] = low * Pow2[ByteBits + k] /\ Pow2[ByteBits + k] = Radix * more
    <3> HIDE DEF k
    <3>1. Pow2[ByteBits * j + (ByteBits + k)] = Pow2[ByteBits * j] * Pow2[ByteBits + k]
      BY <2>2, PowersAdd, PowerTypes
    <3>2. ByteBits + k <= Width
      BY <2>2, PowerTypes
    <3>3. Pow2[ByteBits + k] = Pow2[ByteBits] * Pow2[k]
      BY <2>2, <3>2, PowersAdd
    <3>4. QED BY <2>2, <3>1, <3>3 DEF Weight, Radix
  <2>4. low \in Nat \ {0} /\ more \in Nat \ {0} /\ Radix \in Nat \ {0}
    <3>1. low \in Nat \ {0}
      BY <2>1, Weights
    <3>2. more \in Nat \ {0}
      <4> HIDE DEF k
      <4>1. Pow2[k] \in Nat /\ Pow2[k] > 0
        BY <2>2, PowersGrow, PowerTypes
      <4>2. QED BY <4>1
    <3>3. Radix \in Nat \ {0}
      BY RadixType
    <3>4. QED BY <3>1, <3>2, <3>3
  <2>5. MaxTarget = low * (Radix * more) - 1
    BY <2>3, TopPower
  <2> HIDE DEF low, more
  <2>6. Radix * more \in Nat \ {0}
    BY <2>4
  <2>7. MaxTarget \div low = Radix * more - 1
    BY <2>4, <2>5, <2>6, OneLess
  <2>8. (Radix * more - 1) % Radix = Radix - 1
    BY <2>4, OneLess
  <2>9. QED BY <2>7, <2>8 DEF low, Weight, j
<1>2. QED BY <1>1 DEF Array

\* multiply_target_be gives the product, with the carry left over in front.
LEMMA MultiplyValue ==
  ASSUME NEW n \in 0 .. MaxTarget, NEW by \in Nat
  PROVE  LET product == MultiplyTargetBe(Array(n), by)
         IN  /\ product \in Seq(Byte) /\ Value(product) = n * by
             /\ \E e \in Nat : Len(product) = e + Bytes
<1> DEFINE bytes == Array(n)
           carry == CHOOSE c : IsCarry(bytes, by, c)
           digits == CHOOSE d : IsDigits(carry[1], d)
           prefix == digits[carry[1]]
           low == [i \in Index |-> (bytes[i] * by + carry[i + 1]) % Radix]
<1>1. MultiplyTargetBe(bytes, by) = prefix \o low
  BY DEF MultiplyTargetBe, IsCarry, IsDigits
<1>2. /\ bytes \in Seq(Byte) /\ Len(bytes) = Bytes /\ Value(bytes) = n
      /\ n \in Nat /\ Bytes \in Nat \ {0} /\ Index = 1 .. Bytes /\ 1 \in 1 .. Bytes + 1
  <2>1. Bytes \in Nat \ {0} /\ Index = 1 .. Bytes /\ n \in Nat
    BY IndexIs, TopPower
  <2>2. bytes \in Seq(Byte) /\ Len(bytes) = Bytes /\ Value(bytes) = n
    <3> HIDE DEF bytes
    <3> QED BY OfArray DEF bytes
  <2> HIDE DEF bytes
  <2>3. QED BY <2>1, <2>2
<1> HIDE DEF bytes
<1>3. /\ carry[Bytes + 1] = 0
      /\ \A i \in 1 .. Bytes + 1 : carry[i] \in Nat
      /\ \A i \in Index : carry[i] = (bytes[i] * by + carry[i + 1]) \div Radix
  <2>1. \E c : IsCarry(bytes, by, c)
    BY <1>2, CarryExists
  <2>2. IsCarry(bytes, by, carry)
    BY <2>1
  <2> HIDE DEF carry
  <2>3. QED BY <1>2, <2>2, CarryFacts
<1> HIDE DEF carry
<1>4. prefix \in Seq(Byte) /\ Value(prefix) = carry[1] /\ carry[1] \in Nat
  <2>1. carry[1] \in Nat
    BY <1>2, <1>3
  <2>2. \E d : IsDigits(carry[1], d)
    BY <2>1, DigitsExist
  <2>3. IsDigits(carry[1], digits)
    BY <2>2
  <2> HIDE DEF digits
  <2>4. QED BY <2>1, <2>3, DigitsFacts
<1> HIDE DEF prefix
<1>5. ASSUME NEW i \in Index
      PROVE  /\ low[i] \in Byte /\ bytes[i] \in Nat /\ carry[i] \in Nat /\ carry[i + 1] \in Nat
             /\ bytes[i] * by + carry[i + 1] = carry[i] * Radix + low[i]
  <2>1. bytes[i] \in Nat /\ carry[i] \in Nat /\ carry[i + 1] \in Nat
    <3>1. i \in 1 .. Len(bytes) /\ i \in 1 .. Bytes + 1 /\ i + 1 \in 1 .. Bytes + 1
      BY <1>2
    <3>2. bytes[i] \in Nat
      BY <1>2, <3>1, BytesAreNumbers
    <3>3. QED BY <1>3, <3>1, <3>2
  <2> DEFINE x == bytes[i] * by + carry[i + 1]
  <2>2. x \in Nat
    BY <2>1
  <2>3. low[i] = x % Radix /\ carry[i] = x \div Radix
    BY <1>3
  <2> HIDE DEF x, low
  <2>4. low[i] \in Byte /\ x = carry[i] * Radix + low[i]
    <3>1. x % Radix \in Byte
      BY <2>2, ByteType
    <3>2. x = (x \div Radix) * Radix + (x % Radix)
      BY <2>2, DivMod, RadixType
    <3>3. QED BY <2>3, <3>1, <3>2
  <2>5. QED BY <2>1, <2>4 DEF x
<1>6. low \in Seq(Byte) /\ Len(low) = Bytes
  <2>1. low \in [1 .. Bytes -> Byte]
    BY <1>2, <1>5
  <2> HIDE DEF low
  <2>2. QED BY <1>2, <2>1
<1> HIDE DEF low
<1>7. PICK v : Prefixes(bytes, v)
  BY <1>2, BytesAreNumbers, PrefixesExist
<1>8. PICK w : Prefixes(low, w)
  BY <1>6, BytesAreNumbers, PrefixesExist
<1> DEFINE S == {i \in Nat : i <= Bytes => v[i] * by + carry[i + 1] = carry[1] * Weight(i) + w[i]}
<1>9. 0 \in S
  <2>1. v[0] = 0 /\ w[0] = 0 /\ Weight(0) = 1 /\ carry[0 + 1] = carry[1]
    BY <1>7, <1>8, Weights DEF Prefixes
  <2>2. QED BY <1>4, <2>1
<1>10. ASSUME NEW i \in Nat, i \in S PROVE i + 1 \in S
  <2> SUFFICES ASSUME i + 1 <= Bytes
               PROVE  v[i + 1] * by + carry[(i + 1) + 1] = carry[1] * Weight(i + 1) + w[i + 1]
    OBVIOUS
  <2>1. i <= Bytes /\ i \in 0 .. Bytes /\ i + 1 \in 1 .. Bytes /\ (i + 1) - 1 = i /\ i + 1 \in Index
    BY <1>2
  <2>2. v[i] * by + carry[i + 1] = carry[1] * Weight(i) + w[i]
    BY <1>10, <2>1
  <2>3. /\ v[i] \in Nat /\ v[i + 1] = v[i] * Radix + bytes[i + 1]
        /\ w[i] \in Nat /\ w[i + 1] = w[i] * Radix + low[i + 1]
    BY <1>2, <1>6, <1>7, <1>8, <2>1 DEF Prefixes
  <2>4. /\ low[i + 1] \in Byte /\ bytes[i + 1] \in Nat /\ carry[i + 1] \in Nat
        /\ carry[(i + 1) + 1] \in Nat
        /\ bytes[i + 1] * by + carry[(i + 1) + 1] = carry[i + 1] * Radix + low[i + 1]
    BY <1>5, <2>1
  <2>5. Weight(i + 1) = Weight(i) * Radix /\ Weight(i) \in Nat
    BY <2>1, Weights
  <2> DEFINE a == v[i]
             b == bytes[i + 1]
             c == carry[i + 1]
             d == carry[(i + 1) + 1]
             l == low[i + 1]
             x == w[i]
             k == carry[1]
             p == Weight(i)
             R == Radix
  <2>6. a \in Nat /\ b \in Nat /\ c \in Nat /\ d \in Nat /\ l \in Nat /\ x \in Nat /\ k \in Nat
        /\ p \in Nat /\ R \in Nat
    BY <1>4, <2>3, <2>4, <2>5, ByteType, RadixType
  <2>7. a * by + c = k * p + x /\ b * by + d = c * R + l
    BY <2>2, <2>4
  <2>8. v[i + 1] = a * R + b /\ w[i + 1] = x * R + l /\ Weight(i + 1) = p * R
    BY <2>3, <2>5
  <2> HIDE DEF a, b, c, d, l, x, k, p, R
  <2>9. (a * R + b) * by + d = (a * by + c) * R + l
    <3>1. (a * R + b) * by + d = (a * by) * R + (b * by + d)
      BY <2>6
    <3>2. (a * by + c) * R + l = (a * by) * R + (c * R + l)
      BY <2>6
    <3>3. QED BY <2>7, <3>1, <3>2
  <2>10. (k * p + x) * R + l = k * (p * R) + (x * R + l)
    BY <2>6
  <2>11. (a * R + b) * by + d = k * (p * R) + (x * R + l)
    BY <2>7, <2>9, <2>10
  <2>12. QED BY <2>8, <2>11 DEF d, k
<1>11. v[Bytes] * by = carry[1] * Weight(Bytes) + w[Bytes]
  <2>1. Nat \subseteq S
    <3> HIDE DEF S
    <3> QED BY <1>9, <1>10, SetInduction
  <2>2. Bytes \in S /\ Bytes <= Bytes /\ v[Bytes] \in Nat
    BY <1>2, <1>7, <2>1 DEF Prefixes
  <2>3. v[Bytes] * by + carry[Bytes + 1] = carry[1] * Weight(Bytes) + w[Bytes]
    BY <2>2
  <2>4. QED BY <1>3, <2>2, <2>3
<1>12. v[Bytes] = n /\ w[Bytes] = Value(low) /\ Weight(Bytes) = Pow2[Width]
  BY <1>2, <1>6, <1>7, <1>8, BytesAreNumbers, ValueIs, Weights
<1>13. /\ prefix \o low \in Seq(Byte) /\ Len(prefix \o low) = Len(prefix) + Bytes
       /\ Value(prefix \o low) = carry[1] * Pow2[Width] + Value(low)
  BY <1>4, <1>6, ConcatValue
<1>14. Len(prefix) \in Nat
  BY <1>4
<1>15. QED BY <1>1, <1>11, <1>12, <1>13, <1>14 DEF bytes

----------------------------------------------------------------------------
(* divide_target_be *)

\* The remainders of a long division, from the first byte on.
IsRemainder(bytes, divisor, r) ==
  r = [i \in 0 .. Len(bytes) |->
         IF i = 0 THEN 0 ELSE (r[i - 1] * Radix + bytes[i]) % divisor]

\* One digit of a long division: z is x with one more digit, and y divided by d gives
\* the digit of the quotient.
OneDigit(x, z, y, R, d) ==
  /\ y \div d \in Nat /\ y \div d < R
  /\ z \div d = (x \div d) * R + (y \div d)
  /\ z % d = y % d

\* So each step of it.
LEMMA LongDivisionStep ==
  ASSUME NEW x \in Nat, NEW R \in Nat \ {0}, NEW b \in Nat, b < R, NEW d \in Nat \ {0},
         NEW z, z = x * R + b, NEW y, y = (x % d) * R + b
  PROVE  OneDigit(x, z, y, R, d)
<1> DEFINE q == x \div d
           r == x % d
           s == y \div d
           t == y % d
<1>1. q \in Nat /\ r \in Nat /\ r < d /\ x = q * d + r /\ y = r * R + b
  BY DivMod
<1> HIDE DEF q, r
<1>2. y \in Nat
  BY <1>1
<1>3. y < R * d
  <2>1. (r + 1) * R <= d * R /\ d * R \in Nat
    BY <1>1, ProductGrows, r + 1 \in Nat
  <2>2. (r + 1) * R = r * R + R /\ r * R \in Nat /\ d * R = R * d
    BY <1>1
  <2>3. QED BY <1>1, <2>1, <2>2
<1>4. z = (q * R) * d + y
  <2>1. (q * d + r) * R = (q * R) * d + r * R
    BY <1>1
  <2>2. QED BY <1>1, <2>1
<1>5. s \in Nat /\ t \in Nat /\ t < d /\ y = s * d + t /\ s < R
  BY <1>2, <1>3, DivMod, DivLess
<1> HIDE DEF s, t
<1>6. z = (q * R + s) * d + t
  BY <1>1, <1>4, <1>5
<1>7. q * R + s \in Nat /\ z \in Nat
  BY <1>1, <1>5
<1>8. z \div d = q * R + s /\ z % d = t
  BY <1>5, <1>6, <1>7, DivUnique
<1>9. QED BY <1>1, <1>5, <1>8 DEF OneDigit, q, s, t

\* Long division gives the quotient, or the largest target.
LEMMA DivideValue ==
  ASSUME NEW bytes \in Seq(Byte), NEW e \in Nat, Len(bytes) = e + Bytes, NEW by \in Nat \ {0}
  PROVE  /\ Value(bytes) \in Nat
         /\ Value(DivideTargetBe(bytes, by)) = Least(Value(bytes) \div by, MaxTarget)
<1> DEFINE L == Len(bytes)
           d == Greatest(by, 1)
           r == CHOOSE r : IsRemainder(bytes, d, r)
           q == [i \in 1 .. L |-> ((r[i - 1] * Radix + bytes[i]) \div d) % Radix]
           nonzero == {i \in 1 .. L : q[i] # 0}
           result == IF \E i \in nonzero : i <= L - Bytes
                     THEN [i \in Index |-> Radix - 1]
                     ELSE [i \in Index |-> q[(L - Bytes) + i]]
<1>1. DivideTargetBe(bytes, by) = result
  BY DEF DivideTargetBe, IsRemainder
<1>0. d = by
  BY DEF Greatest
<1> HIDE DEF d
<1>2. L \in Nat /\ L = e + Bytes /\ L - Bytes = e /\ Bytes \in Nat \ {0} /\ Index = 1 .. Bytes
  BY Weights DEF Index
<1>3. PICK u : Prefixes(bytes, u)
  BY BytesAreNumbers, PrefixesExist
<1>4. Value(bytes) = u[L] /\ u[L] \in Nat
  <2>1. L \in 0 .. Len(bytes)
    BY <1>2
  <2>2. u[L] \in Nat
    BY <1>3, <2>1 DEF Prefixes
  <2>3. QED BY <1>3, <2>2, BytesAreNumbers, ValueIs
<1>5. ASSUME NEW i \in 1 .. L
      PROVE  /\ i \in 0 .. L /\ i - 1 \in 0 .. L /\ u[i - 1] \in Nat /\ u[i] \in Nat
             /\ bytes[i] \in Nat /\ bytes[i] < Radix
             /\ u[i] = u[i - 1] * Radix + bytes[i]
             /\ u[i] % by = ((u[i - 1] % by) * Radix + bytes[i]) % by
             /\ u[i] \div by = (u[i - 1] \div by) * Radix
                                 + ((((u[i - 1] % by) * Radix + bytes[i]) \div by) % Radix)
             /\ (((u[i - 1] % by) * Radix + bytes[i]) \div by) % Radix \in Byte
  <2>1. i \in 0 .. L /\ i - 1 \in 0 .. L
    BY <1>2
  <2>2. u[i - 1] \in Nat /\ u[i] \in Nat /\ u[i] = u[i - 1] * Radix + bytes[i]
    BY <1>3, <2>1 DEF Prefixes
  <2>3. bytes[i] \in Nat /\ bytes[i] < Radix
    BY BytesAreNumbers, ByteType
  <2> DEFINE digit == ((u[i - 1] % by) * Radix + bytes[i]) \div by
  <2>4. /\ digit \in Nat /\ digit < Radix
        /\ u[i] % by = ((u[i - 1] % by) * Radix + bytes[i]) % by
        /\ u[i] \div by = (u[i - 1] \div by) * Radix + digit
    <3> DEFINE x == u[i - 1]
               b == bytes[i]
               y == (x % by) * Radix + b
               z == u[i]
    <3>1. x \in Nat /\ b \in Nat /\ b < Radix /\ Radix \in Nat \ {0} /\ z = x * Radix + b
      BY <2>2, <2>3, RadixType
    <3>2. digit = y \div by /\ y = (x % by) * Radix + b
      OBVIOUS
    <3> HIDE DEF x, b, y, z, digit
    <3>3. OneDigit(x, z, y, Radix, by)
      BY <3>1, <3>2, LongDivisionStep
    <3>4. QED BY <3>2, <3>3 DEF OneDigit, x, b, y, z
  <2> HIDE DEF digit
  <2>5. digit = 0 * Radix + digit
    BY <2>4, RadixType
  <2>6. digit % Radix = digit
    BY <2>4, <2>5, RadixType, DivUnique
  <2>7. digit \in Byte
    BY <2>4, RadixType DEF Byte
  <2>8. QED BY <2>1, <2>2, <2>3, <2>4, <2>6, <2>7 DEF digit
<1>6. IsRemainder(bytes, d, r)
  <2> DEFINE f == [i \in 0 .. L |-> u[i] % by]
             entry(i) == IF i = 0 THEN 0 ELSE (f[i - 1] * Radix + bytes[i]) % by
  <2>1. ASSUME NEW i \in 0 .. L PROVE f[i] = entry(i)
    <3>1. CASE i = 0
      <4>1. u[0] = 0 /\ 0 = 0 * by + 0
        BY <1>3 DEF Prefixes
      <4>2. 0 % by = 0
        BY <4>1, DivUnique
      <4>3. QED BY <3>1, <4>1, <4>2
    <3>2. CASE i # 0
      <4>1. i \in 1 .. L
        BY <1>2, <3>2
      <4>2. f[i] = u[i] % by /\ f[i - 1] = u[i - 1] % by
        BY <1>5, <4>1
      <4> HIDE DEF f
      <4>3. QED BY <1>5, <3>2, <4>1, <4>2
    <3>3. QED BY <3>1, <3>2
  <2>2. f = [i \in 0 .. L |-> f[i]]
    OBVIOUS
  <2> HIDE DEF f, entry
  <2>3. f = [i \in 0 .. L |-> entry(i)]
    BY <2>1, <2>2
  <2>4. IsRemainder(bytes, d, f)
    BY <1>0, <2>3 DEF IsRemainder, entry
  <2>5. QED BY <2>4
<1> HIDE DEF r
<1>7. \A i \in 0 .. L : r[i] = u[i] % by
  <2> DEFINE S == {n \in Nat : n <= L => r[n] = u[n] % by}
  <2>1. 0 \in S
    <3>1. r[0] = 0 /\ u[0] = 0 /\ 0 = 0 * by + 0
      BY <1>2, <1>3, <1>6 DEF IsRemainder, Prefixes
    <3>2. 0 % by = 0
      BY <3>1, DivUnique
    <3>3. QED BY <3>1, <3>2
  <2>2. ASSUME NEW n \in Nat, n \in S PROVE n + 1 \in S
    <3> SUFFICES ASSUME n + 1 <= L PROVE r[n + 1] = u[n + 1] % by
      OBVIOUS
    <3>1. n + 1 \in 1 .. L /\ (n + 1) - 1 = n /\ n + 1 # 0 /\ n + 1 \in 0 .. L
      BY <1>2
    <3>2. r[n + 1] = (r[n] * Radix + bytes[n + 1]) % by
      BY <1>0, <1>6, <3>1 DEF IsRemainder
    <3>3. r[n] = u[n] % by
      BY <1>2, <2>2
    <3>4. QED BY <1>5, <3>1, <3>2, <3>3
  <2>3. Nat \subseteq S
    <3> HIDE DEF S
    <3> QED BY <2>1, <2>2, SetInduction
  <2>4. QED BY <1>2, <2>3
<1>8. ASSUME NEW i \in 1 .. L
      PROVE  q[i] \in Byte /\ u[i] \div by = (u[i - 1] \div by) * Radix + q[i]
  <2>1. r[i - 1] = u[i - 1] % by
    BY <1>5, <1>7
  <2>2. q[i] = (((u[i - 1] % by) * Radix + bytes[i]) \div by) % Radix
    BY <1>0, <2>1
  <2> HIDE DEF q
  <2>3. QED BY <1>5, <2>2
<1>9. q \in Seq(Byte) /\ Len(q) = L
  <2>1. q \in [1 .. L -> Byte]
    BY <1>8
  <2> HIDE DEF q, L
  <2>2. QED BY <1>2, <2>1
<1> HIDE DEF q
<1> DEFINE v == [i \in 0 .. L |-> u[i] \div by]
<1>10. Prefixes(q, v)
  <2>1. ASSUME NEW i \in 0 .. L PROVE v[i] \in Nat
    <3>1. u[i] \in Nat
      BY <1>3 DEF Prefixes
    <3>2. QED BY <3>1, DivMod
  <2>2. v[0] = 0
    <3>1. u[0] = 0 /\ 0 = 0 * by + 0 /\ 0 \in 0 .. L
      BY <1>2, <1>3 DEF Prefixes
    <3>2. 0 \div by = 0
      BY <3>1, DivUnique
    <3>3. QED BY <3>1, <3>2
  <2>3. \A i \in 1 .. L : v[i] = v[i - 1] * Radix + q[i]
    BY <1>5, <1>8
  <2>4. v \in [0 .. L -> Nat]
    BY <2>1
  <2> HIDE DEF v, L
  <2>5. QED BY <1>9, <2>2, <2>3, <2>4 DEF Prefixes
<1>11. v[L] = Value(bytes) \div by
  BY <1>2, <1>4
<1> HIDE DEF v
<1> DEFINE tail == [i \in Index |-> q[e + i]]
<1>12. tail \in Seq(Byte) /\ EndsIn(q, e, tail)
  <2>1. ASSUME NEW i \in 1 .. Bytes PROVE tail[i] \in Byte /\ tail[i] = q[e + i]
    <3>1. e + i \in 1 .. L
      BY <1>2
    <3>2. QED BY <1>2, <1>9, <3>1, BytesAreNumbers
  <2>2. tail \in [1 .. Bytes -> Byte]
    BY <1>2, <2>1
  <2> HIDE DEF tail, L
  <2>3. tail \in Seq(Byte) /\ Len(tail) = Bytes
    BY <1>2, <2>2
  <2>4. QED BY <1>2, <1>9, <2>1, <2>3 DEF EndsIn
<1> HIDE DEF tail
<1>13. PICK w : Prefixes(tail, w)
  BY <1>12, BytesAreNumbers, PrefixesExist
<1>14. /\ v[L] = v[e] * Pow2[Width] + w[Bytes] /\ w[Bytes] < Pow2[Width]
       /\ w[Bytes] \in Nat /\ Value(tail) = w[Bytes]
  <2>1. Bytes \in 0 .. Bytes /\ Len(tail) = Bytes
    BY <1>2, <1>12 DEF EndsIn
  <2>2. v[e + Bytes] = v[e] * Weight(Bytes) + w[Bytes] /\ w[Bytes] < Weight(Bytes)
    BY <1>9, <1>10, <1>12, <1>13, <2>1, Split
  <2>3. w[Bytes] \in Nat /\ Value(tail) = w[Bytes]
    BY <1>12, <1>13, <2>1, BytesAreNumbers, ValueIs DEF Prefixes
  <2>4. QED BY <1>2, <2>2, <2>3, Weights
<1>15. v[e] \in Nat /\ Pow2[Width] \in Nat /\ Pow2[Width] > 0
  <2>1. e \in 0 .. Len(q)
    BY <1>2, <1>9
  <2>2. v[e] \in Nat
    BY <1>10, <2>1 DEF Prefixes
  <2>3. QED BY <2>2, TopPower
<1>16. (\E i \in nonzero : i <= L - Bytes) <=> v[e] # 0
  <2>1. (\E i \in nonzero : i <= L - Bytes) <=> \E i \in 1 .. e : q[i] # 0
    BY <1>2
  <2>2. \A i \in 1 .. e : i \in 1 .. Len(q) /\ q[i] \in Nat
    BY <1>2, <1>9, BytesAreNumbers
  <2>3. ASSUME NEW i \in 1 .. Len(q) PROVE v[i] = v[i - 1] * Radix + q[i] /\ v[i - 1] \in Nat /\ v[i] \in Nat
    BY <1>10 DEF Prefixes
  <2>4. ASSUME \A i \in 1 .. e : q[i] = 0 PROVE v[e] = 0
    <3> DEFINE S == {n \in Nat : n <= e => v[n] = 0}
    <3>1. 0 \in S
      BY <1>10 DEF Prefixes
    <3>2. ASSUME NEW n \in Nat, n \in S PROVE n + 1 \in S
      <4> SUFFICES ASSUME n + 1 <= e PROVE v[n + 1] = 0
        OBVIOUS
      <4>1. n + 1 \in 1 .. e /\ (n + 1) - 1 = n /\ n <= e
        OBVIOUS
      <4>2. v[n + 1] = v[n] * Radix + q[n + 1] /\ v[n] = 0 /\ q[n + 1] = 0
        BY <2>2, <2>3, <2>4, <3>2, <4>1
      <4>3. QED BY <4>2, RadixType
    <3>3. Nat \subseteq S
      <4> HIDE DEF S
      <4> QED BY <3>1, <3>2, SetInduction
    <3>4. QED BY <3>3
  <2>5. ASSUME NEW i \in 1 .. e, q[i] # 0 PROVE v[e] # 0
    <3> DEFINE S == {n \in Nat : i + n <= e => v[i + n] > 0}
    <3>1. 0 \in S
      <4>1. v[i] = v[i - 1] * Radix + q[i] /\ v[i - 1] \in Nat /\ q[i] \in Nat
        BY <2>2, <2>3
      <4>2. v[i - 1] * Radix \in Nat
        BY <4>1, RadixType
      <4>3. QED BY <2>5, <4>1, <4>2
    <3>2. ASSUME NEW n \in Nat, n \in S PROVE n + 1 \in S
      <4> SUFFICES ASSUME i + (n + 1) <= e PROVE v[i + (n + 1)] > 0
        OBVIOUS
      <4>1. i + (n + 1) \in 1 .. e /\ (i + (n + 1)) - 1 = i + n /\ i + n <= e
        OBVIOUS
      <4>2. /\ v[i + (n + 1)] = v[i + n] * Radix + q[i + (n + 1)] /\ v[i + n] \in Nat
            /\ q[i + (n + 1)] \in Nat /\ v[i + n] > 0
        BY <2>2, <2>3, <3>2, <4>1
      <4>3. 1 * Radix <= v[i + n] * Radix /\ v[i + n] * Radix \in Nat
        BY <4>2, RadixType, ProductGrows
      <4>4. QED BY <4>2, <4>3, RadixType
    <3>3. Nat \subseteq S
      <4> HIDE DEF S
      <4> QED BY <3>1, <3>2, SetInduction
    <3>4. e - i \in Nat /\ i + (e - i) = e
      OBVIOUS
    <3>5. e - i \in S
      BY <3>3, <3>4
    <3>6. v[i + (e - i)] > 0
      BY <3>4, <3>5
    <3>7. QED BY <3>4, <3>6
  <2>6. QED BY <2>1, <2>4, <2>5
<1>17. CASE v[e] = 0
  <2>1. result = tail
    <3> HIDE DEF nonzero
    <3>1. ~(\E i \in nonzero : i <= L - Bytes)
      BY <1>16, <1>17
    <3>2. QED BY <1>2, <3>1 DEF tail
  <2>2. v[L] = w[Bytes]
    BY <1>14, <1>15, <1>17
  <2>3. /\ Value(result) = w[Bytes] /\ Value(bytes) \div by = w[Bytes]
        /\ w[Bytes] \in Nat /\ w[Bytes] <= MaxTarget
    <3> HIDE DEF result
    <3>1. w[Bytes] <= MaxTarget
      BY <1>14, TopPower
    <3>2. QED BY <1>11, <1>14, <2>1, <2>2, <3>1
  <2> HIDE DEF result
  <2>4. QED BY <1>1, <1>4, <2>3 DEF Least
<1>18. CASE v[e] # 0
  <2> DEFINE full == [i \in Index |-> Radix - 1]
  <2>1. result = full
    <3> HIDE DEF nonzero
    <3>1. \E i \in nonzero : i <= L - Bytes
      BY <1>16, <1>18
    <3>2. QED BY <3>1
  <2>2. Value(full) = MaxTarget
    <3>1. full = Array(MaxTarget)
      BY LargestArray
    <3>2. MaxTarget \in 0 .. MaxTarget
      BY TopPower
    <3> HIDE DEF full
    <3>3. QED BY <3>1, <3>2, OfArray
  <2>3. 1 * Pow2[Width] <= v[e] * Pow2[Width] /\ v[e] * Pow2[Width] \in Nat
    BY <1>15, <1>18, ProductGrows
  <2>4. v[L] \in Nat /\ v[L] > MaxTarget
    BY <1>14, <1>15, <2>3, TopPower
  <2> HIDE DEF full, result
  <2>5. ~(Value(bytes) \div by <= MaxTarget)
    BY <1>11, <2>4, TopPower
  <2>6. QED BY <1>1, <1>4, <2>1, <2>2, <2>5 DEF Least
<1>19. QED BY <1>17, <1>18

----------------------------------------------------------------------------
(* scale_target *)

\* scale_target: what the program computes on bytes, with a carry that grows a prefix, a
\* long division and a quotient cut to the length of a target, is the number of the model.
THEOREM ScalingAgrees ==
  ASSUME NEW n \in 0 .. MaxTarget, NEW numerator \in Nat, NEW denominator \in Nat \ {0}
  PROVE  Value(ScaleBytes(Array(n), numerator, denominator))
           = ScaleTarget(n, numerator, denominator)
<1>1. CASE numerator = denominator
  BY <1>1, OfArray DEF ScaleBytes, ScaleTarget
<1>2. CASE numerator # denominator
  <2> DEFINE by == Greatest(numerator, 1)
             product == MultiplyTargetBe(Array(n), by)
  <2>1. by \in Nat /\ Greatest(denominator, 1) = denominator
    BY DEF Greatest
  <2> HIDE DEF by
  <2>2. product \in Seq(Byte) /\ Value(product) = n * by
    BY <2>1, MultiplyValue
  <2>3. PICK e \in Nat : Len(product) = e + Bytes
    BY <2>1, MultiplyValue
  <2> HIDE DEF product
  <2>4. Value(DivideTargetBe(product, denominator)) = Least(Value(product) \div denominator, MaxTarget)
    BY <2>2, <2>3, DivideValue
  <2>5. Value(ScaleBytes(Array(n), numerator, denominator))
          = Value(DivideTargetBe(product, denominator))
    BY <1>2 DEF ScaleBytes, product, by
  <2>6. ScaleTarget(n, numerator, denominator) = Least((n * by) \div denominator, MaxTarget)
    BY <1>2, <2>1 DEF ScaleTarget, by
  <2>7. QED BY <2>2, <2>4, <2>5, <2>6
<1>3. QED BY <1>1, <1>2

----------------------------------------------------------------------------
(* target_from_difficulty_bits *)

\* One less than a power of two, byte by byte: zeros, then what is left, then full bytes.
LEMMA OnesInPlace ==
  ASSUME NEW e \in 0 .. Width, NEW j \in 0 .. Bytes - 1
  PROVE  LET digit == ((Pow2[e] - 1) \div Weight(j)) % Radix
         IN  /\ e <= ByteBits * j => digit = 0
             /\ \A t \in 0 .. ByteBits : e = ByteBits * j + t => digit = Pow2[t] - 1
             /\ e >= ByteBits * j + ByteBits => digit = Radix - 1
<1> DEFINE low == Weight(j)
           m == ByteBits * j
           digit == ((Pow2[e] - 1) \div low) % Radix
<1>1. /\ low \in Nat \ {0} /\ m \in 0 .. Width /\ low = Pow2[m]
      /\ ByteBits \in 0 .. Width
  <2>1. j \in 0 .. Bytes
    BY IndexIs
  <2>2. QED BY <2>1, Weights, PowerTypes DEF Weight
<1>2. Radix \in Nat \ {0} /\ Radix = Pow2[ByteBits]
  BY RadixType DEF Radix
<1>3. Pow2[e] \in Nat \ {0} /\ Pow2[e] - 1 \in Nat
  BY PowersGrow, PowerTypes
<1> HIDE DEF m, low
<1>4. ASSUME e <= m PROVE digit = 0
  <2>1. Pow2[e] <= low
    <3>1. e \in 0 .. m
      BY <1>1, <1>4, PowerTypes
    <3>2. e < m => Pow2[e] < Pow2[m]
      BY <1>1, <3>1, PowersGrow
    <3>3. QED BY <1>1, <1>3, <1>4, <3>2, PowerTypes
  <2>2. Pow2[e] - 1 = 0 * low + (Pow2[e] - 1) /\ Pow2[e] - 1 < low
    BY <1>1, <1>3, <2>1
  <2>3. (Pow2[e] - 1) \div low = 0
    BY <1>1, <1>3, <2>2, DivUnique
  <2>4. 0 = 0 * Radix + 0 /\ 0 < Radix
    BY <1>2
  <2>5. 0 % Radix = 0
    BY <1>2, <2>4, DivUnique
  <2>6. QED BY <2>3, <2>5
<1>5. ASSUME NEW t \in 0 .. ByteBits, e = m + t PROVE digit = Pow2[t] - 1
  <2>1. t \in 0 .. Width /\ t \in Nat /\ m + t <= Width
    BY <1>1, <1>5, PowerTypes
  <2> DEFINE p == Pow2[t]
  <2>2. p \in Nat \ {0} /\ p <= Radix
    <3>1. p \in Nat \ {0}
      BY <2>1, PowersGrow, PowerTypes
    <3>2. t < ByteBits => p < Radix
      BY <1>1, <1>2, <2>1, PowersGrow
    <3>3. QED BY <1>1, <1>2, <3>1, <3>2
  <2>3. Pow2[e] = low * p
    BY <1>1, <1>5, <2>1, PowersAdd
  <2> HIDE DEF p
  <2>4. (Pow2[e] - 1) \div low = p - 1
    BY <1>1, <2>2, <2>3, OneLess
  <2>5. p - 1 \in Nat /\ p - 1 = 0 * Radix + (p - 1) /\ p - 1 < Radix
    BY <1>2, <2>2
  <2>6. (p - 1) % Radix = p - 1
    BY <1>2, <2>5, DivUnique
  <2>7. QED BY <2>4, <2>6 DEF p
<1>6. ASSUME e >= m + ByteBits PROVE digit = Radix - 1
  <2> DEFINE k == e - (m + ByteBits)
  <2>1. k \in 0 .. Width /\ e = m + (ByteBits + k) /\ ByteBits + k \in 0 .. Width
    BY <1>1, <1>6, PowerTypes
  <2> HIDE DEF k
  <2> DEFINE more == Pow2[k]
  <2>2. more \in Nat \ {0}
    BY <2>1, PowersGrow, PowerTypes
  <2>3. Pow2[e] = low * (Radix * more)
    <3>1. Pow2[m + (ByteBits + k)] = Pow2[m] * Pow2[ByteBits + k]
      <4>1. m + (ByteBits + k) <= Width
        BY <2>1, PowerTypes
      <4>2. QED BY <1>1, <2>1, <4>1, PowersAdd
    <3>2. Pow2[ByteBits + k] = Radix * more
      <4>1. ByteBits + k <= Width
        BY <2>1, PowerTypes
      <4>2. QED BY <1>1, <1>2, <2>1, <4>1, PowersAdd
    <3>3. QED BY <1>1, <2>1, <3>1, <3>2
  <2> HIDE DEF more
  <2>4. Radix * more \in Nat \ {0}
    BY <1>2, <2>2
  <2>5. (Pow2[e] - 1) \div low = Radix * more - 1
    BY <1>1, <2>3, <2>4, OneLess
  <2>6. (Radix * more - 1) % Radix = Radix - 1
    BY <1>2, <2>2, OneLess
  <2>7. QED BY <2>5, <2>6
<1>7. QED BY <1>4, <1>5, <1>6 DEF m, low

\* Every byte of zero is zero.
LEMMA ZeroBytes ==
  ASSUME NEW j \in 0 .. Bytes
  PROVE  0 \div Weight(j) = 0 /\ (0 \div Weight(j)) % Radix = 0
<1>1. Weight(j) \in Nat \ {0} /\ 0 = 0 * Weight(j) + 0 /\ 0 < Weight(j)
  BY Weights
<1>2. 0 \div Weight(j) = 0
  BY <1>1, DivUnique
<1>3. Radix \in Nat \ {0} /\ 0 = 0 * Radix + 0 /\ 0 < Radix
  BY RadixType
<1>4. 0 % Radix = 0
  BY <1>3, DivUnique
<1>5. QED BY <1>2, <1>4

\* target_from_difficulty_bits: the bytes made for some bits are those of the target.
THEOREM BytesOfBits ==
  ASSUME NEW bits \in Bits
  PROVE  BytesFromDifficultyBits(bits) = Array(TargetFromDifficultyBits(bits))
<1> DEFINE z == bits \div ByteBits
           rem == bits % ByteBits
           byte(i) == IF bits >= Width - 1 \/ i <= z THEN 0
                      ELSE IF i = z + 1 THEN Pow2[ByteBits - rem] - 1
                      ELSE Radix - 1
           target == TargetFromDifficultyBits(bits)
<1>1. BytesFromDifficultyBits(bits) = [i \in Index |-> byte(i)]
  BY DEF BytesFromDifficultyBits
<1>2. bits \in Nat /\ bits <= Width - 1 /\ ByteBits \in Nat \ {0}
  BY PowerTypes, Weights DEF Bits
<1>3. z \in Nat /\ rem \in Nat /\ rem < ByteBits /\ bits = z * ByteBits + rem
  BY <1>2, DivMod
<1> HIDE DEF z, rem
<1>4. ASSUME NEW i \in Index PROVE byte(i) = (target \div Weight(Bytes - i)) % Radix
  <2> DEFINE j == Bytes - i
             e == Width - bits
             m == ByteBits * j
  <2>1. j \in 0 .. Bytes - 1 /\ j \in 0 .. Bytes /\ i \in Nat
    BY IndexIs
  <2>2. CASE bits >= Width - 1
    <3>1. target = 0 /\ byte(i) = 0
      BY <2>2 DEF TargetFromDifficultyBits
    <3> HIDE DEF j
    <3>2. QED BY <2>1, <3>1, ZeroBytes DEF j
  <2>3. CASE ~(bits >= Width - 1)
    <3>1. target = Pow2[e] - 1 /\ e \in 0 .. Width
      BY <1>2, <2>3, PowerTypes DEF TargetFromDifficultyBits
    <3>2. m + ByteBits * i = Width /\ m \in Nat /\ ByteBits * i \in Nat
      <4>1. m + ByteBits * i = ByteBits * Bytes
        BY <1>2, <2>1, IndexIs
      <4>2. m \in Nat /\ ByteBits * i \in Nat
        BY <1>2, <2>1
      <4>3. QED BY <4>1, <4>2, Weights
    <3> HIDE DEF e, j, target
    <3>3. CASE i <= z
      <4>1. i * ByteBits <= z * ByteBits
        BY <1>2, <1>3, <2>1, <3>3, ProductGrows
      <4>2. e <= m
        BY <1>2, <1>3, <2>1, <3>2, <4>1, PowerTypes DEF e
      <4> HIDE DEF m
      <4>3. ((Pow2[e] - 1) \div Weight(j)) % Radix = 0
        BY <2>1, <3>1, <4>2, OnesInPlace DEF m
      <4>4. QED BY <3>1, <3>3, <4>3 DEF j
    <3>4. CASE i = z + 1
      <4>1. ByteBits * i = z * ByteBits + ByteBits
        BY <1>2, <1>3, <3>4
      <4>2. ByteBits - rem \in 0 .. ByteBits /\ e = m + (ByteBits - rem)
        BY <1>2, <1>3, <3>2, <4>1, PowerTypes DEF e
      <4> HIDE DEF m
      <4>3. ((Pow2[e] - 1) \div Weight(j)) % Radix = Pow2[ByteBits - rem] - 1
        BY <2>1, <3>1, <4>2, OnesInPlace DEF m
      <4>4. ~(i <= z)
        BY <1>3, <3>4
      <4>5. QED BY <2>3, <3>1, <3>4, <4>3, <4>4 DEF j
    <3>5. CASE i > z + 1
      <4>1. (z + 2) * ByteBits <= i * ByteBits
        BY <1>2, <1>3, <2>1, <3>5, ProductGrows, z + 2 \in Nat
      <4>2. (z + 2) * ByteBits = z * ByteBits + ByteBits + ByteBits /\ z * ByteBits \in Nat
        BY <1>2, <1>3
      <4>3. e >= m + ByteBits
        BY <1>2, <1>3, <2>1, <3>2, <4>1, <4>2, PowerTypes DEF e
      <4> HIDE DEF m
      <4>4. ((Pow2[e] - 1) \div Weight(j)) % Radix = Radix - 1
        BY <2>1, <3>1, <4>3, OnesInPlace DEF m
      <4>5. ~(i <= z) /\ i # z + 1
        BY <1>3, <2>1, <3>5
      <4>6. QED BY <2>3, <3>1, <4>4, <4>5 DEF j
    <3>6. QED BY <1>3, <2>1, <3>3, <3>4, <3>5
  <2>4. QED BY <2>2, <2>3
<1> HIDE DEF byte, target
<1>5. [i \in Index |-> byte(i)] = [i \in Index |-> (target \div Weight(Bytes - i)) % Radix]
  BY <1>4
<1>6. QED BY <1>1, <1>5 DEF Array, Weight, target

----------------------------------------------------------------------------
(* difficulty_bits_from_target *)

\* How many numbers there are in an interval.
LEMMA LengthOfInterval ==
  ASSUME NEW n \in Nat
  PROVE  Cardinality(1 .. n) = n /\ \A m \in 0 .. n : Cardinality(m .. n - 1) = n - m
<1>1. Cardinality(1 .. n) = n
  BY FS_Interval
<1>2. ASSUME NEW m \in 0 .. n PROVE Cardinality(m .. n - 1) = n - m
  <2>1. m \in Int /\ n - 1 \in Int /\ (m > n - 1 <=> m = n) /\ (n - 1) - m + 1 = n - m
    OBVIOUS
  <2>2. Cardinality(m .. n - 1) = IF m > n - 1 THEN 0 ELSE (n - 1) - m + 1
    BY <2>1, FS_Interval
  <2>3. QED BY <2>1, <2>2
<1>3. QED BY <1>1, <1>2

\* Below a power of two and not below the one before: where a number lies among them.
LEMMA PlaceOfNumber ==
  ASSUME NEW n \in Nat, NEW e \in 1 .. Width, Pow2[e - 1] <= n, n < Pow2[e]
  PROVE  \A t \in 0 .. Width : n < Pow2[t] <=> e <= t
<1> SUFFICES ASSUME NEW t \in 0 .. Width PROVE n < Pow2[t] <=> e <= t
  OBVIOUS
<1>1. /\ e \in 0 .. Width /\ e - 1 \in 0 .. Width /\ Pow2[t] \in Nat /\ Pow2[e] \in Nat
      /\ Pow2[e - 1] \in Nat
  BY PowerTypes
<1>2. CASE e <= t
  <2>1. e < t => Pow2[e] < Pow2[t]
    <3>1. e \in 0 .. t
      BY <1>1, <1>2
    <3>2. QED BY <3>1, PowersGrow
  <2>2. e = t \/ e < t
    BY <1>2
  <2>3. QED BY <1>1, <1>2, <2>1, <2>2
<1>3. CASE ~(e <= t)
  <2>1. t < e - 1 => Pow2[t] < Pow2[e - 1]
    <3>1. t <= e - 1 /\ t \in 0 .. e - 1
      BY <1>1, <1>3
    <3>2. QED BY <1>1, <3>1, PowersGrow
  <2>2. t = e - 1 \/ t < e - 1
    BY <1>1, <1>3
  <2>3. QED BY <1>1, <1>3, <2>1, <2>2
<1>4. QED BY <1>2, <1>3

\* The leading zeros of a number of that many bits.
LEMMA BitsOfLength ==
  ASSUME NEW n \in Nat, NEW e \in 1 .. Width, Pow2[e - 1] <= n, n < Pow2[e]
  PROVE  DifficultyBitsFromTarget(n) = Width - e
<1> DEFINE Zeros == {b \in 1 .. Width - 1 : n < Pow2[Width - b]}
<1>1. Width \in Nat /\ Width - e \in Nat /\ Width - e <= Width - 1
  BY PowerTypes
<1>2. \A t \in 0 .. Width : n < Pow2[t] <=> e <= t
  BY PlaceOfNumber
<1>3. Zeros = 1 .. Width - e
  <2>1. ASSUME NEW b \in 1 .. Width - 1 PROVE n < Pow2[Width - b] <=> b <= Width - e
    <3>1. Width - b \in 0 .. Width
      BY <1>1
    <3>2. QED BY <1>1, <1>2, <3>1
  <2>2. QED BY <1>1, <2>1
<1>4. QED BY <1>1, <1>3, LengthOfInterval DEF DifficultyBitsFromTarget

\* The leading zeros of a byte of that many bits.
LEMMA ZerosOfLength ==
  ASSUME NEW c \in Nat, NEW t \in 1 .. ByteBits, Pow2[t - 1] <= c, c < Pow2[t]
  PROVE  LeadingZeros(c) = ByteBits - t
<1> DEFINE Zeros == {b \in 0 .. ByteBits - 1 : c < Pow2[b]}
<1>1. ByteBits \in Nat /\ ByteBits <= Width /\ t \in 1 .. Width /\ t \in 0 .. ByteBits
  BY Weights, PowerTypes
<1>2. \A b \in 0 .. Width : c < Pow2[b] <=> t <= b
  BY <1>1, PlaceOfNumber
<1>3. Zeros = t .. ByteBits - 1
  <2>1. \A b \in 0 .. ByteBits - 1 : b \in 0 .. Width
    BY <1>1, PowerTypes
  <2>2. \A b \in 0 .. ByteBits - 1 : c < Pow2[b] <=> t <= b
    BY <1>2, <2>1
  <2>3. QED BY <1>1, <2>2
<1>4. QED BY <1>1, <1>3, LengthOfInterval DEF LeadingZeros

\* The length of a number that is not zero.
LEMMA LengthFound ==
  ASSUME NEW c \in Nat \ {0}, NEW b \in 0 .. Width, c < Pow2[b]
  PROVE  \E t \in 1 .. b : Pow2[t - 1] <= c /\ c < Pow2[t]
<1> DEFINE T == {t \in 0 .. b : c < Pow2[t]}
<1>1. T \subseteq Nat /\ b \in T
  BY PowerTypes
<1>2. PICK t \in T : \A s \in T : t <= s
  <2> HIDE DEF T
  <2> QED BY <1>1, LeastNat
<1>3. t \in 0 .. b /\ c < Pow2[t]
  OBVIOUS
<1>4. t # 0
  BY <1>3, PowerTypes
<1>5. t - 1 \in 0 .. b /\ t - 1 \in 0 .. Width /\ t \in 1 .. b /\ ~(t <= t - 1)
  BY <1>3, <1>4, PowerTypes
<1>6. t - 1 \notin T
  BY <1>2, <1>5
<1>7. ~(c < Pow2[t - 1]) /\ Pow2[t - 1] \in Nat
  BY <1>5, <1>6, PowerTypes
<1>8. QED BY <1>3, <1>5, <1>7

\* difficulty_bits_from_target: zero bytes and the leading zeros of the first other one
\* are the leading zeros of the number.
THEOREM BitsOfBytes ==
  ASSUME NEW n \in 0 .. MaxTarget
  PROVE  BitsFromBytes(Array(n)) = DifficultyBitsFromTarget(n)
<1> DEFINE bytes == Array(n)
           v == [i \in 0 .. Bytes |-> n \div Weight(Bytes - i)]
           set == {i \in Index : bytes[i] # 0}
           first == CHOOSE i \in set : \A j \in set : i <= j
<1>1. /\ n \in Nat /\ n < Pow2[Width] /\ Bytes \in Nat \ {0} /\ Index = 1 .. Bytes
      /\ Width \in Nat \ {0}
  BY TopPower, IndexIs, PowerTypes
<1>2. bytes \in Seq(Byte) /\ Len(bytes) = Bytes /\ Prefixes(bytes, v) /\ Value(bytes) = n
  BY OfArray
<1>3. /\ v[0] = 0 /\ Value(bytes) = v[Bytes]
      /\ \A i \in Index : /\ v[i - 1] \in Nat /\ v[i] \in Nat /\ bytes[i] \in Byte
                          /\ v[i] = v[i - 1] * Radix + bytes[i]
  <2> HIDE DEF bytes, v
  <2>1. Value(bytes) = v[Bytes]
    BY <1>2, BytesAreNumbers, ValueIs
  <2>2. \A i \in Index : i - 1 \in 0 .. Bytes /\ i \in 0 .. Bytes
    BY <1>1
  <2>3. \A i \in Index : bytes[i] \in Byte
    BY <1>1, <1>2, BytesAreNumbers
  <2>4. QED BY <1>1, <1>2, <2>1, <2>2, <2>3 DEF Prefixes
<1>4. \A i \in 0 .. Bytes : v[i] = n \div Weight(Bytes - i)
  OBVIOUS
<1> HIDE DEF bytes, v
\* Up to the first byte that is not zero the prefixes are worth nothing.
<1>5. ASSUME NEW k \in 0 .. Bytes, \A i \in 1 .. k : bytes[i] = 0 PROVE v[k] = 0
  <2> DEFINE S == {m \in Nat : m <= k => v[m] = 0}
  <2>1. 0 \in S
    BY <1>3
  <2>2. ASSUME NEW m \in Nat, m \in S PROVE m + 1 \in S
    <3> SUFFICES ASSUME m + 1 <= k PROVE v[m + 1] = 0
      OBVIOUS
    <3>1. m + 1 \in 1 .. k /\ m + 1 \in Index /\ (m + 1) - 1 = m /\ m <= k
      BY <1>1
    <3>2. v[m + 1] = v[m] * Radix + bytes[m + 1] /\ v[m] = 0 /\ bytes[m + 1] = 0
      BY <1>3, <1>5, <2>2, <3>1
    <3>3. QED BY <3>2, RadixType
  <2>3. Nat \subseteq S
    <3> HIDE DEF S
    <3> QED BY <2>1, <2>2, SetInduction
  <2>4. QED BY <1>1, <2>3
<1>6. CASE set = {}
  <2>1. n = 0
    <3>1. Bytes \in 0 .. Bytes /\ \A i \in 1 .. Bytes : bytes[i] = 0
      BY <1>1, <1>6
    <3>2. QED BY <1>2, <1>3, <1>5, <3>1
  <2>2. DifficultyBitsFromTarget(n) = Width - 1
    <3>1. 1 - 1 = 0 /\ Pow2[0] = 1 /\ 1 \in 1 .. Width /\ Pow2[0 + 1] = 2 * Pow2[0]
      BY PowerTypes
    <3>2. {b \in 1 .. Width - 1 : n < Pow2[Width - b]} = 1 .. Width - 1
      <4>1. ASSUME NEW b \in 1 .. Width - 1 PROVE n < Pow2[Width - b]
        <5>1. Width - b \in 0 .. Width
          BY <1>1
        <5>2. Pow2[Width - b] > 0
          BY <5>1, PowersGrow
        <5>3. QED BY <2>1, <5>2
      <4>2. QED BY <4>1
    <3>3. Width - 1 \in Nat
      BY <1>1
    <3>4. QED BY <3>2, <3>3, LengthOfInterval DEF DifficultyBitsFromTarget
  <2>3. BitsFromBytes(bytes) = Width - 1
    BY <1>6 DEF BitsFromBytes
  <2>4. QED BY <2>2, <2>3 DEF bytes
<1>7. CASE set # {}
  <2>1. first \in set /\ \A j \in set : first <= j
    <3>1. set \subseteq Nat
      BY <1>1
    <3>2. \E i \in set : \A j \in set : i <= j
      <4> HIDE DEF set
      <4> QED BY <1>7, <3>1, LeastNat
    <3>3. QED BY <3>2
  <2>2. first \in Index /\ bytes[first] # 0 /\ \A i \in 1 .. first - 1 : bytes[i] = 0
    <3>1. first \in Index /\ bytes[first] # 0
      BY <2>1
    <3> HIDE DEF first
    <3>2. ASSUME NEW i \in 1 .. first - 1, bytes[i] # 0 PROVE FALSE
      <4>1. i \in Index /\ ~(first <= i)
        BY <1>1, <3>1
      <4>2. QED BY <2>1, <3>2, <4>1
    <3>3. QED BY <3>1, <3>2
  <2>3. BitsFromBytes(bytes)
          = Least(ByteBits * (first - 1) + LeadingZeros(bytes[first]), Width - 1)
    BY <1>7 DEF BitsFromBytes
  <2> HIDE DEF first, set
  <2> DEFINE c == bytes[first]
             j == Bytes - first
             low == Weight(j)
             m == ByteBits * j
  <2>4. first - 1 \in 0 .. Bytes /\ first \in 0 .. Bytes /\ j \in 0 .. Bytes
    BY <1>1, <2>2
  <2>5. c \in Byte /\ c \in Nat \ {0} /\ c < Radix
    <3>1. bytes[first] \in Byte /\ bytes[first] # 0
      BY <1>3, <2>2
    <3>2. QED BY <3>1, ByteType
  <2>6. n \div low = c
    <3>1. v[first - 1] = 0
      BY <1>5, <2>2, <2>4
    <3>2. v[first] = v[first - 1] * Radix + c /\ v[first] = n \div low
      BY <1>3, <1>4, <2>2, <2>4
    <3>3. QED BY <2>5, <3>1, <3>2, RadixType
  <2>7. /\ low \in Nat \ {0} /\ low = Pow2[m] /\ m \in 0 .. Width /\ ByteBits \in Nat \ {0}
        /\ ByteBits * first + m = Width /\ ByteBits \in 0 .. Width
        /\ ByteBits * first \in Nat /\ ByteBits * (first - 1) = ByteBits * first - ByteBits
    <3>1. first \in Nat
      BY <2>4
    <3>2. ByteBits * first + m = ByteBits * Bytes
      BY <1>1, <3>1, Weights
    <3>3. /\ low \in Nat \ {0} /\ low = Pow2[m] /\ m \in 0 .. Width /\ ByteBits \in Nat \ {0}
          /\ ByteBits \in 0 .. Width
      <4> HIDE DEF j, c
      <4>1. low \in Nat \ {0} /\ m \in 0 .. Width /\ ByteBits \in Nat \ {0} /\ ByteBits <= Width
        BY <2>4, Weights
      <4>2. low = Pow2[m]
        BY DEF Weight
      <4> HIDE DEF low, m
      <4>3. QED BY <1>1, <4>1, <4>2
    <3>4. ByteBits * first \in Nat /\ ByteBits * (first - 1) = ByteBits * first - ByteBits
      BY <3>1, <3>3
    <3>5. QED BY <3>2, <3>3, <3>4, Weights
  <2> HIDE DEF c, j, low, m
  <2>8. PICK t \in 1 .. ByteBits : Pow2[t - 1] <= c /\ c < Pow2[t]
    <3>1. c < Pow2[ByteBits]
      BY <2>5 DEF Radix
    <3>2. QED BY <2>5, <2>7, <3>1, LengthFound
  <2>9. LeadingZeros(c) = ByteBits - t
    BY <2>5, <2>8, ZerosOfLength
  <2> DEFINE e == m + t
  <2>10. e \in 1 .. Width /\ ByteBits \in Nat /\ t \in Nat /\ t - 1 \in Nat
    <3>1. ByteBits <= ByteBits * first
      <4>1. 1 * ByteBits <= first * ByteBits
        BY <1>1, <2>2, <2>7, ProductGrows, first \in Nat, 1 <= first
      <4>2. QED BY <1>1, <2>2, <2>7, <4>1
    <3>2. QED BY <2>7, <2>8, <3>1
  <2>11. Pow2[e] = low * Pow2[t] /\ Pow2[e - 1] = low * Pow2[t - 1] /\ Pow2[t] \in Nat
         /\ Pow2[t - 1] \in Nat
    <3>1. /\ t \in 0 .. Width /\ t - 1 \in 0 .. Width /\ m + t <= Width /\ m + (t - 1) <= Width
          /\ m + (t - 1) = e - 1
      BY <2>7, <2>10
    <3>2. QED BY <2>7, <3>1, PowersAdd, PowerTypes
  <2>12. n < Pow2[e]
    <3>1. n < Pow2[t] * low
      BY <1>1, <2>6, <2>7, <2>8, <2>11, DivLess
    <3>2. QED BY <2>7, <2>11, <3>1
  <2>13. Pow2[e - 1] <= n
    <3>1. ~(c < Pow2[t - 1])
      BY <2>5, <2>8, <2>11
    <3>2. ~(n < Pow2[t - 1] * low)
      BY <1>1, <2>6, <2>7, <2>11, <3>1, DivLess
    <3>3. Pow2[t - 1] * low \in Nat /\ Pow2[t - 1] * low = low * Pow2[t - 1]
      BY <2>7, <2>11
    <3>4. QED BY <1>1, <2>11, <3>2, <3>3
  <2> HIDE DEF e
  <2>14. DifficultyBitsFromTarget(n) = Width - e
    BY <1>1, <2>10, <2>12, <2>13, BitsOfLength
  <2>15. ByteBits * (first - 1) + LeadingZeros(c) = Width - e
    BY <2>7, <2>9, <2>10 DEF e
  <2>16. Width - e \in Nat /\ Width - e <= Width - 1
    BY <1>1, <2>10
  <2>17. BitsFromBytes(bytes) = Width - e
    BY <2>3, <2>15, <2>16 DEF Least, c
  <2>18. QED BY <2>14, <2>17 DEF bytes
<1>8. QED BY <1>6, <1>7

----------------------------------------------------------------------------
(* The life of a difficulty *)

\* The typing of a deployment's parameters.
LEMMA ParameterTypes ==
  ASSUME parameters \in Parameters
  PROVE  /\ MinBits \in Bits /\ MaxBits \in Bits /\ MinBits <= MaxBits
         /\ ExpectedSeconds \in Nat /\ Expected \in Nat /\ Expected > 0
<1>1. parameters \in [min_bits: Bits, max_bits: Bits, expected_seconds: Nat]
  BY RetargetAssumption DEF RetargetAssumption
<1>2. parameters.min_bits <= parameters.max_bits
  BY RetargetAssumption DEF RetargetAssumption
<1>3. Expected \in Nat /\ Expected > 0
  BY <1>1 DEF Expected, ExpectedSeconds, Greatest
<1>4. QED BY <1>1, <1>2, <1>3 DEF MinBits, MaxBits, ExpectedSeconds

\* Between the two bounds there are targets only.
LEMMA BoundsAreTargets ==
  ASSUME parameters \in Parameters
  PROVE  /\ Hardest \in Nat /\ Easiest \in Nat /\ Hardest <= Easiest /\ Easiest <= MaxTarget
         /\ \A bits \in MinBits .. MaxBits :
              /\ bits \in Bits
              /\ TargetFromDifficultyBits(bits) \in Nat
              /\ Hardest <= TargetFromDifficultyBits(bits)
              /\ TargetFromDifficultyBits(bits) <= Easiest
<1>1. 0 \in Bits /\ Width - 0 = Width /\ ~(0 >= Width - 1)
  BY PowerTypes DEF Bits
<1>2. TargetFromDifficultyBits(0) = MaxTarget
  BY <1>1 DEF TargetFromDifficultyBits, MaxTarget
<1>3. Easiest \in Nat /\ Easiest <= MaxTarget
  <2>1. 0 <= MinBits
    BY ParameterTypes DEF Bits
  <2>2. QED BY <1>1, <1>2, <2>1, ParameterTypes, TargetFalls DEF Easiest
<1>4. ASSUME NEW bits \in MinBits .. MaxBits
      PROVE  /\ bits \in Bits
             /\ TargetFromDifficultyBits(bits) \in Nat
             /\ Hardest <= TargetFromDifficultyBits(bits)
             /\ TargetFromDifficultyBits(bits) <= Easiest
  <2>1. bits \in Bits /\ MinBits <= bits /\ bits <= MaxBits
    BY ParameterTypes, PowerTypes DEF Bits
  <2>2. QED BY <2>1, ParameterTypes, TargetFalls DEF Hardest, Easiest
<1>5. Hardest \in Nat /\ Hardest <= Easiest
  BY ParameterTypes, TargetFalls DEF Hardest, Easiest, Bits
<1>6. QED BY <1>3, <1>4, <1>5

\* What holds of a difficulty all its life: the bits are those of the target, which is
\* between the bounds of its deployment.
IInv ==
  /\ parameters \in Parameters
  /\ observed \in Observations \cup {0}
  /\ difficulty = [difficulty_bits |-> DifficultyBitsFromTarget(difficulty.target),
                   target |-> difficulty.target]
  /\ difficulty.target \in Nat
  /\ Hardest <= difficulty.target /\ difficulty.target <= Easiest

\* It starts so.
LEMMA InvInit == Init => IInv
<1> SUFFICES ASSUME Init PROVE IInv
  OBVIOUS
<1>1. PICK bits \in MinBits .. MaxBits :
        difficulty = [difficulty_bits |-> bits, target |-> TargetFromDifficultyBits(bits)]
  BY DEF Init
<1>2. parameters \in Parameters /\ observed = 0
  BY DEF Init
<1>3. bits \in Bits /\ difficulty.target \in Nat
      /\ Hardest <= difficulty.target /\ difficulty.target <= Easiest
  BY <1>1, <1>2, BoundsAreTargets
<1>4. DifficultyBitsFromTarget(difficulty.target) = bits /\ difficulty.target = TargetFromDifficultyBits(bits)
  BY <1>1, <1>3, BitsReadBack
<1>5. QED BY <1>1, <1>2, <1>3, <1>4 DEF IInv

\* A block and a rotation leave it so.
LEMMA InvStep == IInv /\ [Next]_vars => IInv'
<1> SUFFICES ASSUME IInv, [Next]_vars PROVE IInv'
  OBVIOUS
<1>1. parameters \in Parameters /\ difficulty.target \in Nat
  BY DEF IInv
<1>2. ASSUME NEW seconds \in Observations, Solve(seconds) PROVE IInv'
  <2> DEFINE next == NextTarget(difficulty.target, seconds, ExpectedSeconds, MinBits, MaxBits)
  <2>1. /\ difficulty' = [difficulty_bits |-> DifficultyBitsFromTarget(next), target |-> next]
        /\ observed' = seconds /\ parameters' = parameters
    BY <1>2 DEF Solve, After, CalculateNextDifficulty
  <2>2. seconds \in Nat
    BY RetargetAssumption DEF RetargetAssumption
  <2>3. next \in Nat /\ Hardest <= next /\ next <= Easiest
    BY <1>1, <2>2, ParameterTypes, RetargetInRange DEF Hardest, Easiest
  <2> HIDE DEF next
  <2>4. Hardest' = Hardest /\ Easiest' = Easiest
    BY <2>1 DEF Hardest, Easiest, MinBits, MaxBits
  <2>5. QED BY <1>1, <2>1, <2>3, <2>4 DEF IInv
<1>3. CASE Rotate
  <2>1. /\ difficulty' = [difficulty_bits |-> MinBits, target |-> Easiest]
        /\ observed' = 0 /\ parameters' = parameters
    BY <1>3 DEF Rotate
  <2>2. DifficultyBitsFromTarget(Easiest) = MinBits
    BY <1>1, ParameterTypes, BitsReadBack DEF Easiest
  <2>3. Hardest' = Hardest /\ Easiest' = Easiest
    BY <2>1 DEF Hardest, Easiest, MinBits, MaxBits
  <2>4. QED BY <1>1, <2>1, <2>2, <2>3, BoundsAreTargets DEF IInv
<1>4. CASE UNCHANGED vars
  BY <1>4 DEF IInv, vars, Hardest, Easiest, MinBits, MaxBits
<1>5. QED BY <1>2, <1>3, <1>4 DEF Next

\* So it stays.
LEMMA Invariance == Spec => []IInv
<1>1. Init => IInv
  BY InvInit
<1>2. IInv /\ [Next]_vars => IInv'
  BY InvStep
<1>3. QED BY <1>1, <1>2, PTL DEF Spec

\* The account's fields keep their types: a target fits its bytes and the bits their u8.
THEOREM TypeCorrect == Spec => []TypeOK
<1>1. IInv => TypeOK
  <2> SUFFICES ASSUME IInv PROVE TypeOK
    OBVIOUS
  <2>1. difficulty.target \in 0 .. MaxTarget
    BY BoundsAreTargets, TopPower DEF IInv
  <2>2. DifficultyBitsFromTarget(difficulty.target) \in Bits
    BY BitsType
  <2>3. difficulty \in [difficulty_bits: Bits, target: 0 .. MaxTarget]
    BY <2>1, <2>2 DEF IInv
  <2>4. QED BY <2>3 DEF IInv, TypeOK
<1>2. QED BY <1>1, Invariance, PTL

\* At every difficulty the program reaches, its bytes are those of the model's numbers:
\* the bits read off the target, the bytes made for the bounds, and every scaling.
THEOREM BytesAlwaysAgree == Spec => []BytesAgree
<1>1. IInv => BytesAgree
  <2> SUFFICES ASSUME IInv PROVE BytesAgree
    OBVIOUS
  <2>1. parameters \in Parameters /\ difficulty.target \in 0 .. MaxTarget
    BY BoundsAreTargets, TopPower DEF IInv
  <2>2. BitsFromBytes(Array(difficulty.target)) = difficulty.difficulty_bits
    BY <2>1, BitsOfBytes DEF IInv
  <2>3. \A bits \in {MinBits, MaxBits} :
          BytesFromDifficultyBits(bits) = Array(TargetFromDifficultyBits(bits))
    BY <2>1, ParameterTypes, BytesOfBits
  <2>4. ASSUME NEW seconds \in Observations
        PROVE  LET ratio == RatioBps(seconds, Expected) IN
               Value(ScaleBytes(Array(difficulty.target), ratio, TargetScaleDenominatorBps))
                 = ScaleTarget(difficulty.target, ratio, TargetScaleDenominatorBps)
    <3>1. seconds \in Nat
      BY RetargetAssumption DEF RetargetAssumption
    <3>2. RatioBps(seconds, Expected) \in Nat
      BY <2>1, <3>1, ParameterTypes, RatioSide
    <3>3. TargetScaleDenominatorBps \in Nat \ {0}
      BY DEF TargetScaleDenominatorBps
    <3>4. QED BY <2>1, <3>2, <3>3, ScalingAgrees
  <2>5. QED BY <2>2, <2>3, <2>4 DEF BytesAgree
<1>2. QED BY <1>1, Invariance, PTL

\* At every difficulty the program reaches, a block faster than expected never makes the
\* next one easier and a slower one never harder (calculate_next_difficulty).
THEOREM NeverGoesTheWrongWay == Spec => []NeverTheWrongWay
<1>1. IInv => NeverTheWrongWay
  <2> SUFFICES ASSUME IInv, NEW seconds \in Observations
               PROVE  /\ seconds <= Expected => TargetAfter(seconds) <= difficulty.target
                      /\ seconds >= Expected => TargetAfter(seconds) >= difficulty.target
    BY DEF NeverTheWrongWay
  <2>1. /\ parameters \in Parameters /\ difficulty.target \in Nat
        /\ TargetFromDifficultyBits(MaxBits) <= difficulty.target
        /\ difficulty.target <= TargetFromDifficultyBits(MinBits)
    BY DEF IInv, Hardest, Easiest
  <2>2. seconds \in Nat
    BY RetargetAssumption DEF RetargetAssumption
  <2>3. LET next == NextTarget(difficulty.target, seconds, ExpectedSeconds, MinBits, MaxBits)
        IN  /\ seconds <= Greatest(ExpectedSeconds, 1) => next <= difficulty.target
            /\ seconds >= Greatest(ExpectedSeconds, 1) => next >= difficulty.target
    BY <2>1, <2>2, ParameterTypes, RetargetDirection
  <2>4. QED BY <2>3 DEF TargetAfter, Expected
<1>2. QED BY <1>1, Invariance, PTL

\* At every difficulty the program reaches, no block moves the target out of proportion,
\* blocks in half the time halve it and blocks in more than twice the time raise it by
\* three quarters, up to the bounds (calculate_next_difficulty).
THEOREM AlwaysMovesAtItsPace == Spec => []MovesAtItsPace
<1>1. IInv => MovesAtItsPace
  <2> SUFFICES ASSUME IInv, NEW seconds \in Observations
               PROVE  /\ TargetAfter(seconds) \in difficulty.target \div 14 .. 8 * difficulty.target
                      /\ 2 * seconds <= Expected =>
                           TargetAfter(seconds) <= Greatest(Hardest, difficulty.target \div 2)
                      /\ seconds > 2 * Expected =>
                           TargetAfter(seconds) >= Least(Easiest, (7 * difficulty.target) \div 4)
    BY DEF MovesAtItsPace
  <2>1. /\ parameters \in Parameters /\ difficulty.target \in Nat
        /\ TargetFromDifficultyBits(MaxBits) <= difficulty.target
        /\ difficulty.target <= TargetFromDifficultyBits(MinBits)
    BY DEF IInv, Hardest, Easiest
  <2>2. seconds \in Nat \ {0}
    BY RetargetAssumption DEF RetargetAssumption
  <2>3. MinBits \in Bits /\ MaxBits \in Bits /\ MinBits <= MaxBits /\ ExpectedSeconds \in Nat
    BY <2>1, ParameterTypes
  <2> DEFINE target == difficulty.target
             next == NextTarget(target, seconds, ExpectedSeconds, MinBits, MaxBits)
  <2>4. /\ next \in target \div 14 .. 8 * target
        /\ 2 * seconds <= Greatest(ExpectedSeconds, 1) =>
             next <= Greatest(TargetFromDifficultyBits(MaxBits), target \div 2)
        /\ seconds > 2 * Greatest(ExpectedSeconds, 1) =>
             next >= Least(TargetFromDifficultyBits(MinBits), (7 * target) \div 4)
    BY <2>1, <2>2, <2>3, RetargetPace
  <2>5. QED BY <2>4 DEF TargetAfter, Expected, Hardest, Easiest
<1>2. QED BY <1>1, Invariance, PTL
=============================================================================
