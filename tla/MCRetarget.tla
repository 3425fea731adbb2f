----------------------------- MODULE MCRetarget -----------------------------
(***************************************************************************)
(* Nine-bit hashes, so that a target times the largest ratio fits TLC's     *)
(* integers.  The observations are the thresholds of the smoothing, the    *)
(* clamps and the fast ramp, with their neighbours.                        *)
(***************************************************************************)
EXTENDS Retarget

MCPow2 == [b \in 0 .. Width |-> 2^b]

\* A usual deployment, one whose targets are so small that rounding down can hold them
\* where they are, and one where the arithmetic degenerates: no expected time, no
\* minimum, and at the maximum the number of bits whose target is zero.
Deployments == {[min_bits |-> 2, max_bits |-> 7, expected_seconds |-> 20],
                [min_bits |-> 5, max_bits |-> 8, expected_seconds |-> 20],
                [min_bits |-> 0, max_bits |-> 8, expected_seconds |-> 0]}
Thresholds == {1, 2, 3, 5, 6, 10, 11, 19, 20, 21, 22, 40, 41, 213, 400}
=============================================================================
