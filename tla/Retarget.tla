------------------------------ MODULE Retarget ------------------------------
(***************************************************************************)
(* The life of a difficulty: from block to block the program computes the  *)
(* next target from the last one and the time the block took, and a stale  *)
(* rotation starts again at the minimum.                                   *)
(***************************************************************************)
EXTENDS TargetBytes

CONSTANTS
  Parameters,         \* [min_bits, max_bits, expected_seconds] of a deployment
  Observations        \* seconds a block may take

ASSUME RetargetAssumption ==
  /\ Parameters \subseteq [min_bits: Bits, max_bits: Bits, expected_seconds: Nat]
  /\ \A p \in Parameters : p.min_bits <= p.max_bits
  /\ Observations \subseteq Nat \ {0}

VARIABLES
  parameters,   \* of this deployment; nothing changes them
  difficulty,   \* [difficulty_bits, target] of the config account
  observed      \* seconds the last block took, 0 when it went stale

vars == <<parameters, difficulty, observed>>

MinBits == parameters.min_bits
MaxBits == parameters.max_bits
ExpectedSeconds == parameters.expected_seconds

Expected == Greatest(ExpectedSeconds, 1)
Easiest == TargetFromDifficultyBits(MinBits)
Hardest == TargetFromDifficultyBits(MaxBits)

TypeOK ==
  /\ parameters \in Parameters
  /\ difficulty \in [difficulty_bits: Bits, target: 0 .. MaxTarget]
  /\ observed \in Observations \cup {0}

Init ==
  /\ parameters \in Parameters
  /\ \E bits \in MinBits .. MaxBits :
       difficulty = [difficulty_bits |-> bits, target |-> TargetFromDifficultyBits(bits)]
  /\ observed = 0

After(seconds) ==
  CalculateNextDifficulty(difficulty.target, seconds, ExpectedSeconds, MinBits, MaxBits)

TargetAfter(seconds) ==
  NextTarget(difficulty.target, seconds, ExpectedSeconds, MinBits, MaxBits)

Solve(seconds) ==
  /\ observed' = seconds
  /\ difficulty' = After(seconds)
  /\ UNCHANGED parameters

Rotate ==
  /\ difficulty' = [difficulty_bits |-> MinBits, target |-> Easiest]
  /\ observed' = 0
  /\ UNCHANGED parameters

Next == Rotate \/ \E seconds \in Observations : Solve(seconds)

Mining == \E seconds \in Observations : Solve(seconds)

Spec == Init /\ [][Next]_vars
FairSpec == Spec /\ WF_vars(Mining)

----------------------------------------------------------------------------
\* The bytes the program computes with are those of the numbers above: the bits read
\* off them, the targets made for some bits, and every scaling, whose carry grows a
\* prefix, whose quotient digits are cut to a byte and which saturates instead of
\* wrapping (multiply_target_be, divide_target_be, difficulty_bits_from_target).
BytesAgree ==
  /\ BitsFromBytes(Array(difficulty.target)) = difficulty.difficulty_bits
  /\ \A bits \in {MinBits, MaxBits} :
       BytesFromDifficultyBits(bits) = Array(TargetFromDifficultyBits(bits))
  /\ \A seconds \in Observations :
       LET ratio == RatioBps(seconds, Expected) IN
       Value(ScaleBytes(Array(difficulty.target), ratio, TargetScaleDenominatorBps))
         = ScaleTarget(difficulty.target, ratio, TargetScaleDenominatorBps)

\* A block faster than expected never makes the next one easier, a slower one
\* never harder, and a block on time changes nothing: smoothing, clamps, the
\* fast ramp and the rounding all err on the right side.
NeverTheWrongWay ==
  \A seconds \in Observations :
    /\ seconds <= Expected => TargetAfter(seconds) <= difficulty.target
    /\ seconds >= Expected => TargetAfter(seconds) >= difficulty.target

\* No block moves the target out of proportion, however long it took: at most eight
\* times up and fourteen times down. A block found in half the time or less halves it
\* at least, one that took more than twice the time raises it by three quarters, up to
\* the bounds: the outlier clamps and the fast ramp of calculate_next_difficulty keep
\* their pace through three roundings, at expected times of a second or two as well.
MovesAtItsPace ==
  LET target == difficulty.target IN
  \A seconds \in Observations :
    /\ TargetAfter(seconds) \in target \div 14 .. 8 * target
    /\ 2 * seconds <= Expected =>
         TargetAfter(seconds) <= Greatest(Hardest, target \div 2)
    /\ seconds > 2 * Expected =>
         TargetAfter(seconds) >= Least(Easiest, (7 * target) \div 4)

Slow == observed > 2 * Expected
Fast == observed \in 1 .. Expected \div 2

\* Blocks that keep taking more than twice the time bring the target all the way to
\* the easiest one: rounding down never holds it below, unless it has come down to one,
\* which less than a doubling leaves at one, or to zero, which no block meets.
SlowBlocksRecover ==
  <>[](Slow /\ difficulty.target > 1) => <>[](difficulty.target = Easiest)

\* Blocks that keep taking half the time or less bring it to the hardest one.
FastBlocksRampUp ==
  <>[]Fast => <>[](difficulty.target = Hardest)
=============================================================================
