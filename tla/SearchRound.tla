----------------------------- MODULE SearchRound -----------------------------
(***************************************************************************)
(* Rounds of search of one mining process: miner_loop.rs hands every       *)
(* engine a range of nonces, engine/cpu.rs deals its range to threads,     *)
(* engine/gpu.rs to the work items of a kernel, and the first that meets   *)
(* the target stops its engine.                                            *)
(*                                                                         *)
(* The miner's key is the same in all rounds and left out.  SHA-256 is any *)
(* function; a hash is a number, and wins when it is below the target.     *)
(***************************************************************************)
EXTENDS Integers, Sequences, FiniteSets

CONSTANTS
  NonceSpace,       \* 2^64 in the code
  Engines,          \* kinds of engine, in the order of build_engines
  BatchSize, GpuBatchSize,
  Threads,          \* of the CPU engine
  MaxWorkGroupSize, RequestedLocalWorkSize,   \* 0: none requested
  Challenges, Targets,
  HashFunctions,    \* the hashes a run may meet
  StartNonces,      \* option start_nonce, or a random nonce
  NoNonce,
  MaxRounds         \* bound

Nonces == 0 .. NonceSpace - 1

ASSUME SearchAssumption ==
  /\ NonceSpace \in Nat \ {0}
  /\ Engines \in Seq({"Cpu", "Gpu"})
  /\ BatchSize \in Nat /\ GpuBatchSize \in Nat
  /\ Threads \in Nat \ {0}
  /\ MaxWorkGroupSize \in Nat /\ RequestedLocalWorkSize \in Nat
  /\ Challenges # {} /\ Targets # {} /\ Targets \subseteq Nat
  /\ StartNonces \subseteq Nonces
  /\ HashFunctions \subseteq [Challenges -> [Nonces -> Nat]]
  /\ NoNonce \notin Nonces
  /\ MaxRounds \in Nat

----------------------------------------------------------------------------
(* How a range is divided *)

Attempts(kind) == IF kind = "Cpu" THEN BatchSize ELSE GpuBatchSize

OfKind(kind, n) == {e \in 1 .. n : Engines[e] = kind}

\* Nonces the first n engines are given.
Handed(n) ==
  Cardinality(OfKind("Cpu", n)) * BatchSize + Cardinality(OfKind("Gpu", n)) * GpuBatchSize

RoundSize == Handed(Len(Engines))

\* build_jobs: where an engine's range starts in the round's.
Offset == [e \in DOMAIN Engines |-> Handed(e - 1)]

\* Of a power of two every divisor but one is even.
PowersOfTwo(n) == {p \in 1 .. n : \A d \in 2 .. p : p % d = 0 => d % 2 = 0}

FloorPowerOfTwo(n) == CHOOSE p \in PowersOfTwo(n) : \A q \in PowersOfTwo(n) : q <= p

\* resolve_local_work_size; 0 leaves the choice to OpenCL.
LocalWorkSize ==
  LET upper_bound ==
        IF MaxWorkGroupSize <= GpuBatchSize THEN MaxWorkGroupSize ELSE GpuBatchSize
      powers == {p \in {256, 128, 64, 32} : p <= upper_bound}
      preferred ==
        IF RequestedLocalWorkSize > 0 THEN RequestedLocalWorkSize
        ELSE IF powers = {} THEN upper_bound
        ELSE CHOOSE p \in powers : \A q \in powers : q <= p
      bounded == IF preferred <= upper_bound THEN preferred ELSE upper_bound
  IN  IF upper_bound < 2 \/ bounded < 2 THEN 0 ELSE FloorPowerOfTwo(bounded)

GlobalWorkSize ==
  LET value == IF GpuBatchSize = 0 THEN 1 ELSE GpuBatchSize
  IN  IF LocalWorkSize > 1
      THEN ((value + LocalWorkSize - 1) \div LocalWorkSize) * LocalWorkSize
      ELSE value

\* Threads or work items of an engine.
Workers(kind) == 0 .. (IF kind = "Cpu" THEN Threads ELSE GlobalWorkSize) - 1

\* A mistake: no guard in the kernel.
QuotaUnguarded(kind, w) ==
  IF kind = "Cpu" THEN (BatchSize + Threads - 1) \div Threads ELSE 1

\* How many nonces a worker tries.
Quota(kind, w) ==
  IF w >= Attempts(kind) THEN 0
  ELSE IF kind = "Cpu" THEN (BatchSize - w + Threads - 1) \div Threads ELSE 1

----------------------------------------------------------------------------
VARIABLES
  hash,         \* what the process will find out
  phase,        \* of the round
  round,        \* counts the rounds, up to MaxRounds
  input,        \* SearchInput of the round
  next_nonce,   \* where the next round starts
  device,       \* engine -> its buffers; a CPU engine has none and uses the input
  tried,        \* engine -> worker -> attempts
  ended,        \* <<engine, worker>> that have returned
  slot,         \* engine -> the first winning nonce: the channel's first Some, or
                \* found_nonce behind found_flag
  reported,     \* engines whose result has been taken
  solution,     \* of the round
  hashes,       \* history: how often a nonce was hashed for the present puzzle
  covered       \* history: nonces handed out for the present puzzle

vars == <<hash, phase, round, input, next_nonce, device, tried, ended, slot,
          reported, solution, hashes, covered>>

Index == DOMAIN Engines

Wins(challenge, target, nonce) == hash[challenge][nonce] < target

\* The w-th worker's next nonce, round from input.start_nonce.
NonceOf(e, w) ==
  (input.start_nonce + Offset[e] + w + tried[e][w] * Threads) % NonceSpace

\* The nonces of the round.
RoundNonces ==
  {(input.start_nonce + i) % NonceSpace : i \in 0 .. RoundSize - 1}

Unbound == [bound |-> FALSE, challenge |-> CHOOSE c \in Challenges : TRUE,
            target |-> CHOOSE t \in Targets : TRUE]

Init ==
  /\ hash \in HashFunctions
  /\ phase = "Idle"
  /\ round = 0
  /\ input = [challenge |-> Unbound.challenge, target |-> Unbound.target, start_nonce |-> 0]
  /\ next_nonce \in StartNonces
  /\ device = [e \in Index |-> Unbound]
  /\ tried = [e \in Index |-> [w \in Workers(Engines[e]) |-> 0]]
  /\ ended = {}
  /\ slot = [e \in Index |-> NoNonce]
  /\ reported = {}
  /\ solution = NoNonce
  /\ hashes = [n \in Nonces |-> 0]
  /\ covered = 0
----------------------------------------------------------------------------
(* run_search_round *)

\* Mistake: only the challenge is looked at.
BindChallenge(d, challenge, target) ==
  IF d.bound /\ d.challenge = challenge THEN d
  ELSE [bound |-> TRUE, challenge |-> challenge, target |-> target]

\* bind_static_inputs: what has not changed is not written again.
Bind(d, challenge, target) ==
  [bound |-> TRUE,
   challenge |-> IF ~d.bound \/ d.challenge # challenge THEN challenge ELSE d.challenge,
   target |-> IF ~d.bound \/ d.target # target THEN target ELSE d.target]

NextNonce == (next_nonce + RoundSize) % NonceSpace

\* The worker's present block is the puzzle.
Begin(challenge, target) ==
  /\ phase = "Idle" /\ round < MaxRounds
  /\ phase' = "Searching"
  /\ round' = round + 1
  /\ input' = [challenge |-> challenge, target |-> target, start_nonce |-> next_nonce]
  /\ next_nonce' = NextNonce
  /\ device' = [e \in Index |-> IF Engines[e] = "Gpu" THEN Bind(device[e], challenge, target)
                                ELSE device[e]]
  /\ slot' = [e \in Index |-> NoNonce]
  /\ tried' = [e \in Index |-> [w \in Workers(Engines[e]) |-> 0]]
  /\ ended' = {} /\ reported' = {} /\ solution' = NoNonce
  /\ IF round > 0 /\ input.challenge = challenge /\ input.target = target
     THEN hashes' = hashes /\ covered' = covered + RoundSize
     ELSE hashes' = [n \in Nonces |-> 0] /\ covered' = RoundSize
  /\ UNCHANGED hash

\* What the engine takes for the puzzle.
Challenge(e) == IF Engines[e] = "Gpu" THEN device[e].challenge ELSE input.challenge
Target(e) == IF Engines[e] = "Gpu" THEN device[e].target ELSE input.target

\* A nonce is hashed.  The stop flag and found_flag are read without ordering, so a
\* worker may go on when another has won; only the first winner is kept.
Hash(e, w) ==
  /\ phase = "Searching"
  /\ <<e, w>> \notin ended /\ tried[e][w] < Quota(Engines[e], w)
  /\ LET nonce == NonceOf(e, w)
         wins == Wins(Challenge(e), Target(e), nonce)
     IN  /\ slot' = [slot EXCEPT ![e] = IF wins /\ @ = NoNonce THEN nonce ELSE @]
         /\ ended' = IF wins THEN ended \cup {<<e, w>>} ELSE ended
         /\ hashes' = [hashes EXCEPT ![nonce] = @ + 1]
  /\ tried' = [tried EXCEPT ![e][w] = @ + 1]
  /\ UNCHANGED <<hash, phase, round, input, next_nonce, device, reported, solution, covered>>

\* Mistake: a worker that another has won before does not return.
LeaveUnlessBeaten(e, w) ==
  /\ phase = "Searching"
  /\ <<e, w>> \notin ended
  /\ tried[e][w] = Quota(Engines[e], w) /\ slot[e] = NoNonce
  /\ ended' = ended \cup {<<e, w>>}
  /\ UNCHANGED <<hash, phase, round, input, next_nonce, device, tried, slot, reported,
                 solution, hashes, covered>>

\* A worker returns: it has tried its nonces, or sees that another has won.
Leave(e, w) ==
  /\ phase = "Searching"
  /\ <<e, w>> \notin ended
  /\ tried[e][w] = Quota(Engines[e], w) \/ slot[e] # NoNonce
  /\ ended' = ended \cup {<<e, w>>}
  /\ UNCHANGED <<hash, phase, round, input, next_nonce, device, tried, slot, reported,
                 solution, hashes, covered>>

\* An engine's workers have been joined, its queue has finished: its result is taken.
\* Of two solutions the one found in less time stays.
Report(e) ==
  /\ phase = "Searching"
  /\ e \notin reported
  /\ \A w \in Workers(Engines[e]) : <<e, w>> \in ended
  /\ reported' = reported \cup {e}
  /\ phase' = IF reported' = Index THEN "Idle" ELSE phase
  /\ \/ slot[e] # NoNonce /\ solution' = slot[e]
     \/ (slot[e] = NoNonce \/ solution # NoNonce) /\ UNCHANGED solution
  /\ UNCHANGED <<hash, round, input, next_nonce, device, tried, ended, slot, hashes, covered>>

\* A GPU engine fails, and the round with it; the worker ends.
Fail(e) ==
  /\ phase = "Searching"
  /\ Engines[e] = "Gpu" /\ e \notin reported
  /\ phase' = "Failed"
  /\ UNCHANGED <<hash, round, input, next_nonce, device, tried, ended, slot, reported,
                 solution, hashes, covered>>

Engine(e) == (\E w \in Workers(Engines[e]) : Hash(e, w) \/ Leave(e, w)) \/ Report(e)

Next ==
  \/ \E challenge \in Challenges, target \in Targets : Begin(challenge, target)
  \/ \E e \in Index : Engine(e) \/ Fail(e)

Spec == Init /\ [][Next]_vars

\* Every thread goes on, and the device works.
Fairness == \A e \in Index : WF_vars(Engine(e))

FairSpec == Spec /\ Fairness

----------------------------------------------------------------------------
TypeOK ==
  /\ phase \in {"Idle", "Searching", "Failed"}
  /\ round \in 0 .. MaxRounds
  /\ input \in [challenge : Challenges, target : Targets, start_nonce : Nonces]
  /\ next_nonce \in Nonces
  /\ device \in [Index -> [bound : BOOLEAN, challenge : Challenges, target : Targets]]
  /\ \A e \in Index : \A w \in Workers(Engines[e]) :
       tried[e][w] \in 0 .. Quota(Engines[e], w)
  /\ ended \subseteq {ew \in Index \X Nat : ew[2] \in Workers(Engines[ew[1]])}
  /\ slot \in [Index -> Nonces \cup {NoNonce}]
  /\ reported \subseteq Index
  /\ solution \in Nonces \cup {NoNonce}
  /\ hashes \in [Nonces -> Nat]
  /\ covered \in Nat

Over == phase = "Idle" /\ round > 0

\* What a round returns is one of its nonces and solves its puzzle, not an earlier one
\* still in a device's buffers; and it returns none only if none of its nonces does:
\* workers that stop early stop because one was found (run_search_round).
SolutionIffThereIsOne ==
  LET winners == {n \in RoundNonces : Wins(input.challenge, input.target, n)}
  IN  Over => IF winners = {} THEN solution = NoNonce ELSE solution \in winners

\* No nonce is hashed twice for a puzzle, by any two workers in any two rounds,
\* before all nonces there are have been handed out.
NoNonceTwice == covered <= NonceSpace => \A n \in Nonces : hashes[n] <= 1

\* Every round comes to its end.
RoundEnds == phase = "Searching" ~> phase # "Searching"
=============================================================================
