------------------------- MODULE SearchRoundTheorems -------------------------
(***************************************************************************)
(* Rounds of search, for any engines, batches, threads and work items, any *)
(* number of nonces, puzzles and rounds, and any hash function: the ranges *)
(* of engines and workers are disjoint and cover the round, so no nonce is *)
(* tried twice and no solution is missed.                                  *)
(***************************************************************************)
EXTENDS SearchRound, FiniteSetTheorems, WellFoundedInduction, TLAPS

----------------------------------------------------------------------------
(* Induction over numbers, without an operator parameter *)

\* Every non-empty set of natural numbers has a least element.
LEMMA LeastNat ==
  ASSUME NEW T, T \subseteq Nat, T # {}
  PROVE  \E x \in T : \A y \in T : x <= y
<1>1. PICK x \in T : \A y \in T : ~(<<y, x>> \in OpToRel(<, Nat))
  BY WFMin, NatLessThanWellFounded, Zenon
<1>2. \A y \in T : ~(y < x)
  BY <1>1, Zenon DEF OpToRel
<1>3. ASSUME NEW y \in T PROVE x <= y
  <2>1. x \in Nat /\ y \in Nat
    OBVIOUS
  <2>2. QED BY <1>2, <2>1
<1>4. QED BY <1>3

\* A set of natural numbers that holds 0 and the successor of each member holds
\* them all.
LEMMA SetInduction ==
  ASSUME NEW S, 0 \in S, \A n \in Nat : n \in S => n + 1 \in S
  PROVE  Nat \subseteq S
<1>1. SUFFICES ASSUME Nat \ S # {} PROVE FALSE
  OBVIOUS
<1>2. PICK x \in Nat \ S : \A y \in Nat \ S : x <= y
  <2>1. Nat \ S \subseteq Nat
    OBVIOUS
  <2>2. QED BY <1>1, <2>1, LeastNat
<1>3. x # 0 /\ x \in Nat
  BY <1>2
<1>4. x - 1 \in Nat /\ ~(x <= x - 1)
  BY <1>3
<1>5. x - 1 \in S
  BY <1>2, <1>4
<1>6. x \in S
  BY <1>3, <1>4, <1>5, (x - 1) + 1 = x
<1>7. QED BY <1>2, <1>6

\* Every non-empty bounded set of natural numbers has a greatest element.
LEMMA GreatestNat ==
  ASSUME NEW T, T \subseteq Nat, T # {}, NEW b \in Nat, \A x \in T : x <= b
  PROVE  \E x \in T : \A y \in T : y <= x
<1> DEFINE D == {b - x : x \in T}
<1>1. \A x \in T : b - x \in Nat
  OBVIOUS
<1>2. D \subseteq Nat /\ D # {}
  BY <1>1
<1>3. PICK d \in D : \A c \in D : d <= c
  <2> HIDE DEF D
  <2> QED BY <1>2, LeastNat
<1>4. PICK x \in T : d = b - x
  OBVIOUS
<1>5. ASSUME NEW y \in T PROVE y <= x
  <2>1. b - x <= b - y
    BY <1>3, <1>4
  <2>2. x \in Nat /\ y \in Nat
    OBVIOUS
  <2>3. QED
    BY <2>1, <2>2
<1>6. QED
  BY <1>5

----------------------------------------------------------------------------
(* What holds in a round *)

\* The place in the round of the t-th nonce of a worker.
Place(e, w, t) == Offset[e] + w + t * Threads

NonceAt(p) == (input.start_nonce + p) % NonceSpace

\* How far a nonce is ahead of the round's first.
Ahead(n) ==
  IF n >= input.start_nonce THEN n - input.start_nonce
  ELSE n - input.start_nonce + NonceSpace

Tried(e, w, t) == e \in Index /\ w \in Workers(Engines[e]) /\ t \in Nat /\ t < tried[e][w]

Types ==
  /\ TypeOK
  /\ tried = [e \in Index |-> [w \in Workers(Engines[e]) |-> tried[e][w]]]
  /\ round = 0 => phase = "Idle"

\* What a device holds is the round's puzzle.
Bound == round > 0 => \A e \in Index : Challenge(e) = input.challenge /\ Target(e) = input.target

\* A winner is of the round and wins.
SlotsSolve ==
  \A e \in Index : slot[e] # NoNonce =>
    /\ round > 0
    /\ \E p \in 0 .. RoundSize - 1 : slot[e] = NonceAt(p)
    /\ Wins(input.challenge, input.target, slot[e])

\* An engine without a winner has tried in vain what its workers have tried, which is
\* all they had to when they have returned.
NothingMissed ==
  round > 0 => \A e \in Index : slot[e] = NoNonce =>
    \A w \in Workers(Engines[e]) :
      /\ \A t \in Nat : t < tried[e][w] =>
           ~Wins(input.challenge, input.target, NonceAt(Place(e, w, t)))
      /\ <<e, w>> \in ended => tried[e][w] = Quota(Engines[e], w)

Reports ==
  /\ \A e \in reported : \A w \in Workers(Engines[e]) : <<e, w>> \in ended
  /\ \A e \in reported : slot[e] # NoNonce => solution # NoNonce
  /\ solution # NoNonce => \E e \in Index : solution = slot[e]
  /\ phase = "Idle" /\ round > 0 => reported = Index

\* Of the nonces ahead, the round's are not hashed before it is their turn, and those
\* after them not at all; only the last before the round's first may have been.
HashedInTurn ==
  round > 0 /\ covered <= NonceSpace =>
    \A n \in Nonces :
      /\ hashes[n] <= 1
      /\ RoundSize <= Ahead(n) /\ Ahead(n) < NonceSpace - (covered - RoundSize) => hashes[n] = 0
      /\ /\ Ahead(n) < RoundSize
         /\ \A e, w, t : Tried(e, w, t) => Place(e, w, t) # Ahead(n)
         => hashes[n] = 0

Counters ==
  /\ round = 0 => covered = 0 /\ \A n \in Nonces : hashes[n] = 0
  /\ round > 0 => covered >= RoundSize /\ next_nonce = NonceAt(RoundSize)

IInv == Types /\ Bound /\ SlotsSolve /\ NothingMissed /\ Reports /\ HashedInTurn /\ Counters

----------------------------------------------------------------------------
(* Division *)

\* A number is its quotient and its remainder.
LEMMA Division ==
  ASSUME NEW n \in Nat, NEW d \in Nat \ {0}
  PROVE  /\ n \div d \in Nat /\ n % d \in 0 .. d - 1
         /\ n % d = n - (n \div d) * d
<1>1. n \div d \in Nat /\ n % d \in 0 .. d - 1
  OBVIOUS
<1>2. n % d = n - (n \div d) * d
  OBVIOUS
<1>3. QED
  BY <1>1, <1>2

\* Going round the end once.
LEMMA OnceRound ==
  ASSUME NEW s \in Nonces, NEW p \in 0 .. NonceSpace
  PROVE  (s + p) % NonceSpace = IF s + p < NonceSpace THEN s + p ELSE s + p - NonceSpace
BY SearchAssumption DEF Nonces

\* Every nonce is somewhere.
LEMMA AlwaysRound ==
  ASSUME NEW s \in Nonces, NEW p \in Nat PROVE (s + p) % NonceSpace \in Nonces
BY SearchAssumption DEF Nonces

\* The w-th of T workers that deal a range among them tries as many of it as there are.
LEMMA DealtOut ==
  ASSUME NEW B \in Nat, NEW T \in Nat \ {0}, NEW w \in Nat, w < B, NEW t \in Nat
  PROVE  /\ (B - w + T - 1) \div T \in Nat
         /\ t < (B - w + T - 1) \div T <=> w + t * T < B
<1> DEFINE n == B - w + T - 1
           q == n \div T
<1>1. n \in Nat
  OBVIOUS
<1>2. q \in Nat /\ n % T \in 0 .. T - 1 /\ n % T = n - q * T
  BY <1>1, Division
<1> HIDE DEF q
<1>3. q * T \in Nat /\ t * T \in Nat /\ n < q * T + T /\ q * T <= n
  BY <1>1, <1>2
<1>4. ASSUME t < q PROVE w + t * T < B
  <2>1. t + 1 <= q
    BY <1>2, <1>4
  <2>2. (t + 1) * T <= q * T
    BY <1>2, <2>1
  <2>3. (t + 1) * T = t * T + T
    OBVIOUS
  <2>4. QED
    BY <1>3, <2>2, <2>3
<1>5. ASSUME ~(t < q) PROVE ~(w + t * T < B)
  <2>1. q <= t
    BY <1>2, <1>5
  <2>2. q * T <= t * T
    BY <1>2, <2>1
  <2>3. QED
    BY <1>3, <2>2
<1>6. QED
  BY <1>2, <1>4, <1>5 DEF q

\* No two of the workers that deal a range try the same.
LEMMA DealtOnce ==
  ASSUME NEW T \in Nat \ {0}, NEW v \in 0 .. T - 1, NEW w \in 0 .. T - 1,
         NEW s \in Nat, NEW t \in Nat, v + s * T = w + t * T
  PROVE  v = w /\ s = t
<1>1. s * T \in Nat /\ t * T \in Nat
  OBVIOUS
<1>2. ASSUME s < t PROVE FALSE
  <2>1. (s + 1) * T <= t * T
    BY <1>2
  <2>2. (s + 1) * T = s * T + T
    OBVIOUS
  <2>3. QED
    BY <1>1, <2>1, <2>2
<1>3. ASSUME t < s PROVE FALSE
  <2>1. (t + 1) * T <= s * T
    BY <1>3
  <2>2. (t + 1) * T = t * T + T
    OBVIOUS
  <2>3. QED
    BY <1>1, <2>1, <2>2
<1>4. s = t
  BY <1>2, <1>3
<1>5. QED
  BY <1>1, <1>4

----------------------------------------------------------------------------
(* The ranges of the engines *)

\* The constants, as the proofs use them.
LEMMA Setting ==
  /\ Len(Engines) \in Nat /\ Index = 1 .. Len(Engines)
  /\ \A e \in Index : Engines[e] \in {"Cpu", "Gpu"}
  /\ BatchSize \in Nat /\ GpuBatchSize \in Nat
  /\ Threads \in Nat \ {0} /\ NonceSpace \in Nat \ {0}
  /\ NoNonce \notin Nonces
BY SearchAssumption DEF Index

\* Each engine is given the next nonces of its number.
LEMMA HandedOut ==
  /\ Handed(0) = 0
  /\ \A e \in Index : /\ Handed(e - 1) \in Nat /\ Handed(e) \in Nat
                      /\ Handed(e) = Handed(e - 1) + Attempts(Engines[e])
  /\ RoundSize \in Nat
<1> DEFINE C(kind, n) == Cardinality(OfKind(kind, n))
<1>1. \A kind : OfKind(kind, 0) = {}
  BY DEF OfKind
<1>2. ASSUME NEW kind, NEW n \in Nat PROVE IsFiniteSet(OfKind(kind, n)) /\ C(kind, n) \in Nat
  <2>1. IsFiniteSet(1 .. n) /\ OfKind(kind, n) \subseteq 1 .. n
    BY FS_Interval DEF OfKind
  <2>2. IsFiniteSet(OfKind(kind, n))
    BY <2>1, FS_Subset
  <2>3. QED
    BY <2>2, FS_CardinalityType
<1>3. ASSUME NEW kind, NEW e \in Index
      PROVE  C(kind, e) = C(kind, e - 1) + (IF Engines[e] = kind THEN 1 ELSE 0)
  <2>1. e \in Nat /\ e - 1 \in Nat /\ 1 .. e = (1 .. e - 1) \cup {e} /\ e \notin 1 .. e - 1
    BY Setting
  <2>2. CASE Engines[e] = kind
    <3>1. OfKind(kind, e) = OfKind(kind, e - 1) \cup {e} /\ e \notin OfKind(kind, e - 1)
      BY <2>1, <2>2 DEF OfKind
    <3>2. QED
      BY <1>2, <2>1, <2>2, <3>1, FS_AddElement
  <2>3. CASE Engines[e] # kind
    <3>1. OfKind(kind, e) = OfKind(kind, e - 1)
      BY <2>1, <2>3 DEF OfKind
    <3>2. QED
      BY <1>2, <2>1, <2>3, <3>1
  <2>4. QED
    BY <2>2, <2>3
<1>4. \A n \in Nat : Handed(n) = C("Cpu", n) * BatchSize + C("Gpu", n) * GpuBatchSize
  BY DEF Handed
<1>5. \A kind : \A n \in Nat : C(kind, n) \in Nat
  BY <1>2
<1>6. C("Cpu", 0) = 0 /\ C("Gpu", 0) = 0
  BY <1>1, FS_EmptySet
<1> HIDE DEF C
<1>7. ASSUME NEW n \in Nat PROVE Handed(n) \in Nat
  <2>1. C("Cpu", n) \in Nat /\ C("Gpu", n) \in Nat
    BY <1>5
  <2>2. C("Cpu", n) * BatchSize \in Nat /\ C("Gpu", n) * GpuBatchSize \in Nat
    BY <2>1, Setting
  <2>3. QED
    BY <1>4, <2>2
<1>8. Handed(0) = 0
  BY <1>4, <1>6, Setting
<1>9. ASSUME NEW e \in Index PROVE Handed(e) = Handed(e - 1) + Attempts(Engines[e])
  <2>1. e \in Nat /\ e - 1 \in Nat
    BY Setting
  <2>2. CASE Engines[e] = "Cpu"
    <3>1. C("Cpu", e) = C("Cpu", e - 1) + 1 /\ C("Gpu", e) = C("Gpu", e - 1)
      BY <1>3, <1>5, <2>1, <2>2
    <3>2. (C("Cpu", e - 1) + 1) * BatchSize = C("Cpu", e - 1) * BatchSize + BatchSize
      BY <1>5, <2>1, Setting
    <3>3. C("Cpu", e - 1) * BatchSize \in Nat /\ C("Gpu", e - 1) * GpuBatchSize \in Nat
      BY <1>5, <2>1, Setting
    <3>4. QED
      BY <1>4, <2>1, <2>2, <3>1, <3>2, <3>3, Setting DEF Attempts
  <2>3. CASE Engines[e] = "Gpu"
    <3>1. C("Gpu", e) = C("Gpu", e - 1) + 1 /\ C("Cpu", e) = C("Cpu", e - 1)
      BY <1>3, <1>5, <2>1, <2>3
    <3>2. (C("Gpu", e - 1) + 1) * GpuBatchSize = C("Gpu", e - 1) * GpuBatchSize + GpuBatchSize
      BY <1>5, <2>1, Setting
    <3>3. C("Cpu", e - 1) * BatchSize \in Nat /\ C("Gpu", e - 1) * GpuBatchSize \in Nat
      BY <1>5, <2>1, Setting
    <3>4. QED
      BY <1>4, <2>1, <2>3, <3>1, <3>2, <3>3, Setting DEF Attempts
  <2>4. QED
    BY <2>2, <2>3, Setting
<1>10. QED
  BY <1>7, <1>8, <1>9, Setting DEF RoundSize

\* An engine's range starts where those before it end.
LEMMA Offsets == \A e \in Index : Offset[e] = Handed(e - 1)
BY DEF Offset, Index

\* A later engine's range starts no earlier than an earlier one's ends.
LEMMA RangesInOrder ==
  ASSUME NEW i \in Nat, NEW j \in Nat, i <= j, j <= Len(Engines)
  PROVE  Handed(i) <= Handed(j)
<1> DEFINE S == {n \in Nat : i + n <= Len(Engines) => Handed(i) <= Handed(i + n)}
<1>1. \A n \in 0 .. Len(Engines) : Handed(n) \in Nat
  <2>1. ASSUME NEW n \in 0 .. Len(Engines), n # 0 PROVE n \in Index
    BY <2>1, Setting
  <2>2. QED
    BY <2>1, HandedOut
<1>2. 0 \in S
  BY <1>1, Setting
<1>3. ASSUME NEW n \in Nat, n \in S PROVE n + 1 \in S
  <2>1. SUFFICES ASSUME i + (n + 1) <= Len(Engines) PROVE Handed(i) <= Handed(i + (n + 1))
    OBVIOUS
  <2>2. i + (n + 1) \in Index /\ i + (n + 1) - 1 = i + n /\ i + n <= Len(Engines)
    BY <2>1, Setting
  <2>3. Handed(i + (n + 1)) = Handed(i + n) + Attempts(Engines[i + (n + 1)])
    BY <2>2, HandedOut
  <2>4. Attempts(Engines[i + (n + 1)]) \in Nat
    BY Setting DEF Attempts
  <2>5. Handed(i) \in Nat /\ Handed(i + n) \in Nat
    BY <1>1, <2>1, Setting
  <2>6. Handed(i) <= Handed(i + n)
    BY <1>3, <2>2
  <2>7. QED
    BY <2>3, <2>4, <2>5, <2>6
<1>4. j - i \in S
  <2>1. Nat \subseteq S
    <3> HIDE DEF S
    <3> QED BY <1>2, <1>3, SetInduction
  <2>2. j - i \in Nat
    OBVIOUS
  <2>3. QED
    BY <2>1, <2>2
<1>5. i + (j - i) = j
  OBVIOUS
<1>6. QED
  BY <1>4, <1>5

\* Every place of the round is in the range of an engine.
LEMMA RangesCover ==
  ASSUME NEW p \in 0 .. RoundSize - 1
  PROVE  \E e \in Index : Handed(e - 1) <= p /\ p < Handed(e - 1) + Attempts(Engines[e])
<1> DEFINE T == {n \in 0 .. Len(Engines) : p < Handed(n)}
<1>1. Len(Engines) \in T
  BY HandedOut, Setting DEF RoundSize
<1>2. PICK e \in T : \A n \in T : e <= n
  <2>1. T \subseteq Nat
    OBVIOUS
  <2>2. QED
    BY <1>1, <2>1, LeastNat
<1>3. e \in Index
  BY <1>2, HandedOut, Setting
<1>4. e - 1 \notin T
  BY <1>2, <1>3, Setting
<1>5. ~(p < Handed(e - 1))
  BY <1>3, <1>4, Setting
<1>6. QED
  BY <1>2, <1>3, <1>5, HandedOut

----------------------------------------------------------------------------
(* The nonces of the workers *)

\* The largest power of two up to a number is one of the numbers up to it.
LEMMA PowerFound ==
  ASSUME NEW n \in Nat, n >= 1 PROVE FloorPowerOfTwo(n) \in 1 .. n
<1>1. 1 \in PowersOfTwo(n) /\ PowersOfTwo(n) \subseteq 1 .. n
  BY DEF PowersOfTwo
<1>2. \E p \in PowersOfTwo(n) : \A q \in PowersOfTwo(n) : q <= p
  BY <1>1, GreatestNat
<1>3. QED
  BY <1>1, <1>2 DEF FloorPowerOfTwo

\* The size of a group is a number.
LEMMA LocalSizeType == LocalWorkSize \in Nat
<1> DEFINE upper_bound ==
             IF MaxWorkGroupSize <= GpuBatchSize THEN MaxWorkGroupSize ELSE GpuBatchSize
           powers == {p \in {256, 128, 64, 32} : p <= upper_bound}
           preferred ==
             IF RequestedLocalWorkSize > 0 THEN RequestedLocalWorkSize
             ELSE IF powers = {} THEN upper_bound
             ELSE CHOOSE p \in powers : \A q \in powers : q <= p
           bounded == IF preferred <= upper_bound THEN preferred ELSE upper_bound
<1>1. upper_bound \in Nat /\ RequestedLocalWorkSize \in Nat
  BY SearchAssumption
<1>2. powers # {} => \E p \in powers : \A q \in powers : q <= p
  <2>1. powers \subseteq Nat /\ \A p \in powers : p <= upper_bound
    OBVIOUS
  <2> HIDE DEF powers, upper_bound
  <2>2. QED
    BY <1>1, <2>1, GreatestNat
<1>3. powers \subseteq Nat
  OBVIOUS
<1> HIDE DEF powers, upper_bound
<1>4. preferred \in Nat
  BY <1>1, <1>2, <1>3
<1> HIDE DEF preferred
<1>5. bounded \in Nat
  BY <1>1, <1>4
<1> HIDE DEF bounded
<1>6. LocalWorkSize = IF upper_bound < 2 \/ bounded < 2 THEN 0 ELSE FloorPowerOfTwo(bounded)
  BY DEF LocalWorkSize, upper_bound, powers, preferred, bounded
<1>7. QED
  BY <1>1, <1>5, <1>6, PowerFound

\* Whole groups of work items are as many as the batch needs.
LEMMA WholeGroups == GlobalWorkSize \in Nat /\ GpuBatchSize <= GlobalWorkSize
<1> DEFINE value == IF GpuBatchSize = 0 THEN 1 ELSE GpuBatchSize
           local == LocalWorkSize
           n == value + local - 1
<1>1. value \in Nat /\ local \in Nat /\ GpuBatchSize <= value
  BY Setting, LocalSizeType
<1>2. GlobalWorkSize = IF local > 1 THEN (n \div local) * local ELSE value
  BY DEF GlobalWorkSize
<1> HIDE DEF value, local
<1>3. CASE local > 1
  <2>1. n \in Nat /\ local \in Nat \ {0}
    BY <1>1, <1>3
  <2>2. n \div local \in Nat /\ n % local \in 0 .. local - 1 /\ n % local = n - (n \div local) * local
    BY <2>1, Division
  <2> DEFINE x == (n \div local) * local
  <2>3. x \in Nat
    BY <2>1, <2>2
  <2>4. n - x \in 0 .. local - 1
    BY <2>2
  <2> HIDE DEF x
  <2>5. value <= x
    BY <1>1, <1>3, <2>3, <2>4
  <2>6. GlobalWorkSize = x
    BY <1>2, <1>3 DEF x
  <2>7. QED
    BY <1>1, <2>3, <2>5, <2>6, Setting
<1>4. CASE ~(local > 1)
  BY <1>1, <1>2, <1>4
<1>5. QED
  BY <1>3, <1>4

\* A worker's attempts are those of its nonces that are in the engine's range.
LEMMA QuotaOfRange ==
  ASSUME NEW e \in Index, NEW w \in Workers(Engines[e])
  PROVE  /\ w \in Nat /\ Quota(Engines[e], w) \in Nat
         /\ \A t \in Nat : t < Quota(Engines[e], w) => w + t * Threads < Attempts(Engines[e])
         /\ Engines[e] = "Cpu" => w \in 0 .. Threads - 1
         /\ Engines[e] = "Gpu" => \A t \in Nat : t < Quota(Engines[e], w) => t = 0
<1>1. CASE Engines[e] = "Cpu"
  <2>1. w \in 0 .. Threads - 1 /\ w \in Nat
    BY <1>1, Setting DEF Workers
  <2>2. CASE w >= BatchSize
    BY <1>1, <2>1, <2>2, Setting DEF Quota, Attempts
  <2>3. CASE ~(w >= BatchSize)
    <3>1. Quota(Engines[e], w) = (BatchSize - w + Threads - 1) \div Threads
      BY <1>1, <2>3 DEF Quota, Attempts
    <3>2. w < BatchSize
      BY <2>1, <2>3, Setting
    <3>3. \A t \in Nat : /\ (BatchSize - w + Threads - 1) \div Threads \in Nat
                         /\ t < (BatchSize - w + Threads - 1) \div Threads <=> w + t * Threads < BatchSize
      BY <2>1, <3>2, DealtOut, Setting
    <3>4. QED
      BY <1>1, <2>1, <3>1, <3>3 DEF Attempts
  <2>4. QED
    BY <2>2, <2>3
<1>2. CASE Engines[e] = "Gpu"
  <2>1. w \in Nat
    BY <1>2, WholeGroups DEF Workers
  <2>2. Quota(Engines[e], w) = IF w >= GpuBatchSize THEN 0 ELSE 1
    BY <1>2 DEF Quota, Attempts
  <2>3. 0 * Threads = 0
    BY Setting
  <2>4. QED
    BY <1>2, <2>1, <2>2, <2>3, Setting DEF Attempts
<1>3. QED
  BY <1>1, <1>2, Setting

\* Every nonce of an engine's range is one of some worker's attempts.
LEMMA RangeDealtOut ==
  ASSUME NEW e \in Index, NEW q \in Nat, q < Attempts(Engines[e])
  PROVE  \E w \in Workers(Engines[e]) : \E t \in Nat : t < Quota(Engines[e], w) /\ q = w + t * Threads
<1>1. CASE Engines[e] = "Cpu"
  <2> DEFINE w == q % Threads
             t == q \div Threads
  <2>1. t \in Nat /\ w \in 0 .. Threads - 1 /\ w = q - t * Threads
    BY Division, Setting
  <2>2. t * Threads \in Nat
    BY <2>1, Setting
  <2> HIDE DEF w, t
  <2>3. q = w + t * Threads /\ w < BatchSize /\ w \in Workers(Engines[e]) /\ w \in Nat
    BY <1>1, <2>1, <2>2, Setting DEF Workers, Attempts
  <2>4. Quota(Engines[e], w) = (BatchSize - w + Threads - 1) \div Threads
    BY <1>1, <2>3, Setting DEF Quota, Attempts
  <2>5. w + t * Threads < BatchSize
    BY <1>1, <2>3 DEF Attempts
  <2>6. t < Quota(Engines[e], w)
    BY <2>1, <2>3, <2>4, <2>5, DealtOut, Setting
  <2>7. QED
    BY <2>1, <2>3, <2>6
<1>2. CASE Engines[e] = "Gpu"
  <2>1. q < GpuBatchSize /\ q \in Workers(Engines[e])
    BY <1>2, WholeGroups, Setting DEF Attempts, Workers
  <2>2. Quota(Engines[e], q) = 1
    BY <1>2, <2>1, Setting DEF Quota, Attempts
  <2>3. 0 < Quota(Engines[e], q) /\ q = q + 0 * Threads
    BY <2>2, Setting
  <2>4. QED
    BY <2>1, <2>3
<1>3. QED
  BY <1>1, <1>2, Setting

\* A worker's nonces are in the engine's part of the round.
LEMMA PlaceInRound ==
  ASSUME NEW e \in Index, NEW w \in Workers(Engines[e]), NEW t \in Nat, t < Quota(Engines[e], w)
  PROVE  /\ Place(e, w, t) \in 0 .. RoundSize - 1
         /\ Handed(e - 1) <= Place(e, w, t) /\ Place(e, w, t) < Handed(e)
<1>1. /\ Handed(e - 1) \in Nat /\ Handed(e) \in Nat /\ RoundSize \in Nat
      /\ Handed(e) = Handed(e - 1) + Attempts(Engines[e])
  BY HandedOut
<1>2. w \in Nat /\ t * Threads \in Nat /\ w + t * Threads < Attempts(Engines[e])
  <2>1. w \in Nat /\ w + t * Threads < Attempts(Engines[e])
    BY QuotaOfRange
  <2>2. t * Threads \in Nat
    BY Setting
  <2>3. QED
    BY <2>1, <2>2
<1>3. Handed(e) <= RoundSize
  BY RangesInOrder, Setting DEF RoundSize
<1>4. Place(e, w, t) = Handed(e - 1) + w + t * Threads
  BY Offsets DEF Place
<1>5. Attempts(Engines[e]) \in Nat
  BY Setting DEF Attempts
<1>6. QED
  BY <1>1, <1>2, <1>3, <1>4, <1>5

\* No two attempts of a round are at the same place.
LEMMA PlaceOnce ==
  ASSUME NEW e \in Index, NEW w \in Workers(Engines[e]), NEW t \in Nat, t < Quota(Engines[e], w),
         NEW f \in Index, NEW v \in Workers(Engines[f]), NEW s \in Nat, s < Quota(Engines[f], v),
         Place(e, w, t) = Place(f, v, s)
  PROVE  e = f /\ w = v /\ t = s
<1>1. /\ Handed(e - 1) <= Place(e, w, t) /\ Place(e, w, t) < Handed(e)
      /\ Handed(f - 1) <= Place(f, v, s) /\ Place(f, v, s) < Handed(f)
      /\ Place(e, w, t) \in Nat
  BY PlaceInRound
<1>2. /\ e \in Nat /\ f \in Nat /\ e - 1 \in Nat /\ f - 1 \in Nat
      /\ e <= Len(Engines) /\ f <= Len(Engines)
      /\ Handed(e - 1) \in Nat /\ Handed(e) \in Nat /\ Handed(f - 1) \in Nat /\ Handed(f) \in Nat
  BY HandedOut, Setting
<1>3. ~(e < f)
  <2>1. SUFFICES ASSUME e < f PROVE FALSE
    OBVIOUS
  <2>2. e <= f - 1 /\ f - 1 <= Len(Engines)
    BY <1>2, <2>1, Setting
  <2>3. Handed(e) <= Handed(f - 1)
    BY <1>2, <2>2, RangesInOrder
  <2>4. QED
    BY <1>1, <1>2, <2>3
<1>4. ~(f < e)
  <2>1. SUFFICES ASSUME f < e PROVE FALSE
    OBVIOUS
  <2>2. f <= e - 1 /\ e - 1 <= Len(Engines)
    BY <1>2, <2>1, Setting
  <2>3. Handed(f) <= Handed(e - 1)
    BY <1>2, <2>2, RangesInOrder
  <2>4. QED
    BY <1>1, <1>2, <2>3
<1>5. e = f
  BY <1>2, <1>3, <1>4
<1>6. /\ w \in Nat /\ v \in Nat /\ t * Threads \in Nat /\ s * Threads \in Nat
  BY QuotaOfRange, Setting
<1>7. w + t * Threads = v + s * Threads
  <2> DEFINE x == t * Threads
             y == s * Threads
             h == Handed(e - 1)
  <2>1. h + w + x = h + v + y
    BY <1>5, Offsets DEF Place
  <2>2. h \in Nat /\ x \in Nat /\ y \in Nat
    BY <1>2, <1>6
  <2> HIDE DEF x, y, h
  <2>3. w + x = v + y
    BY <1>6, <2>1, <2>2
  <2>4. QED
    BY <2>3 DEF x, y
<1>8. CASE Engines[e] = "Cpu"
  BY <1>5, <1>7, <1>8, QuotaOfRange, DealtOnce, Setting
<1>9. CASE Engines[e] = "Gpu"
  BY <1>5, <1>6, <1>7, <1>9, QuotaOfRange, Setting
<1>10. QED
  BY <1>5, <1>8, <1>9, Setting

\* Every place of the round is some worker's attempt.
LEMMA PlaceAll ==
  ASSUME NEW p \in 0 .. RoundSize - 1
  PROVE  \E e \in Index : \E w \in Workers(Engines[e]) : \E t \in Nat :
           t < Quota(Engines[e], w) /\ p = Place(e, w, t)
<1>1. PICK e \in Index : Handed(e - 1) <= p /\ p < Handed(e - 1) + Attempts(Engines[e])
  BY RangesCover
<1>2. /\ p \in Nat /\ Handed(e - 1) \in Nat
      /\ p - Handed(e - 1) \in Nat /\ p - Handed(e - 1) < Attempts(Engines[e])
  <2>1. Attempts(Engines[e]) \in Nat
    BY Setting DEF Attempts
  <2>2. QED
    BY <1>1, <2>1, HandedOut
<1>3. PICK w \in Workers(Engines[e]), t \in Nat :
        t < Quota(Engines[e], w) /\ p - Handed(e - 1) = w + t * Threads
  BY <1>2, RangeDealtOut
<1>4. w \in Nat /\ t * Threads \in Nat
  BY <1>3, QuotaOfRange, Setting
<1>5. p = Place(e, w, t)
  BY <1>2, <1>3, <1>4, Offsets DEF Place
<1>6. QED
  BY <1>3, <1>5

----------------------------------------------------------------------------
(* The steps *)

\* What the types say of the parts of the state.
LEMMA Typed ==
  ASSUME Types
  PROVE  /\ input.start_nonce \in Nonces /\ input.challenge \in Challenges /\ input.target \in Targets
         /\ round \in Nat /\ covered \in Nat /\ next_nonce \in Nonces
         /\ \A e \in Index : \A w \in Workers(Engines[e]) :
              tried[e][w] \in Nat /\ tried[e][w] <= Quota(Engines[e], w)
BY QuotaOfRange, SearchAssumption DEF Types, TypeOK

\* A place within one turn is where its nonce is ahead.
LEMMA AheadOfPlace ==
  ASSUME Types, NEW p \in Nat, p < NonceSpace
  PROVE  Ahead(NonceAt(p)) = p /\ NonceAt(p) \in Nonces
<1> DEFINE s == input.start_nonce
<1>1. s \in 0 .. NonceSpace - 1 /\ NonceSpace \in Nat
  BY Typed, Setting DEF Nonces
<1>2. NonceAt(p) = IF s + p < NonceSpace THEN s + p ELSE s + p - NonceSpace
  <2>1. s \in Nonces /\ p \in 0 .. NonceSpace
    BY <1>1, Typed
  <2>2. NonceAt(p) = (s + p) % NonceSpace
    BY DEF NonceAt
  <2> HIDE DEF s
  <2>3. QED
    BY <2>1, <2>2, OnceRound
<1>3. Ahead(NonceAt(p)) = IF NonceAt(p) >= s THEN NonceAt(p) - s ELSE NonceAt(p) - s + NonceSpace
  BY DEF Ahead
<1> HIDE DEF s
<1>4. QED
  BY <1>1, <1>2, <1>3 DEF Nonces

\* The next round's first nonce is a round ahead.
LEMMA AheadOfNext ==
  ASSUME Types, NEW n \in Nonces, NEW s \in Nonces, NEW a,
         RoundSize <= NonceSpace, s = NonceAt(RoundSize),
         a = IF n >= s THEN n - s ELSE n - s + NonceSpace,
         a + RoundSize < NonceSpace
  PROVE  Ahead(n) = a + RoundSize
<1>1. /\ input.start_nonce \in 0 .. NonceSpace - 1 /\ NonceSpace \in Nat /\ RoundSize \in Nat
      /\ n \in 0 .. NonceSpace - 1 /\ s \in 0 .. NonceSpace - 1
  BY Typed, Setting, HandedOut DEF Nonces
<1>2. s = IF input.start_nonce + RoundSize < NonceSpace THEN input.start_nonce + RoundSize
          ELSE input.start_nonce + RoundSize - NonceSpace
  <2>1. input.start_nonce \in Nonces /\ RoundSize \in 0 .. NonceSpace
    BY <1>1, Typed
  <2>2. s = (input.start_nonce + RoundSize) % NonceSpace
    BY DEF NonceAt
  <2>3. QED
    BY <2>1, <2>2, OnceRound
<1>3. QED
  BY <1>1, <1>2 DEF Ahead

\* Nothing has happened at the start.
LEMMA Initially == Init => IInv
<1>1. SUFFICES ASSUME Init PROVE IInv
  OBVIOUS
<1>2. Unbound \in [bound : BOOLEAN, challenge : Challenges, target : Targets]
  BY SearchAssumption DEF Unbound
<1>3. /\ Unbound.challenge \in Challenges /\ Unbound.target \in Targets
      /\ 0 \in Nonces /\ next_nonce \in Nonces /\ 0 \in 0 .. MaxRounds
  BY <1>1, <1>2, SearchAssumption DEF Init, Nonces
<1>4. input \in [challenge : Challenges, target : Targets, start_nonce : Nonces]
  BY <1>1, <1>3 DEF Init
<1>5. \A e \in Index : \A w \in Workers(Engines[e]) : tried[e][w] \in 0 .. Quota(Engines[e], w)
  <2> SUFFICES ASSUME NEW e \in Index, NEW w \in Workers(Engines[e])
               PROVE  tried[e][w] \in 0 .. Quota(Engines[e], w)
    OBVIOUS
  <2>1. Quota(Engines[e], w) \in Nat
    BY QuotaOfRange
  <2>2. tried[e][w] = 0
    BY <1>1 DEF Init
  <2>3. QED
    BY <2>1, <2>2
<1>6. TypeOK
  BY <1>1, <1>2, <1>3, <1>4, <1>5 DEF Init, TypeOK
<1>7. tried = [e \in Index |-> [w \in Workers(Engines[e]) |-> tried[e][w]]]
  BY <1>1 DEF Init
<1>8. Types
  BY <1>1, <1>6, <1>7 DEF Init, Types
<1>9. Bound /\ SlotsSolve /\ NothingMissed /\ Reports /\ HashedInTurn /\ Counters
  BY <1>1 DEF Init, Bound, SlotsSolve, NothingMissed, Reports, HashedInTurn, Counters
<1>10. QED
  BY <1>8, <1>9 DEF IInv

\* A round begins with nothing tried, and with the nonces after those of the one before.
LEMMA BeginKeeps ==
  ASSUME IInv, NEW challenge \in Challenges, NEW target \in Targets, Begin(challenge, target)
  PROVE  IInv'
<1> DEFINE Dev == [bound : BOOLEAN, challenge : Challenges, target : Targets]
<1>1. /\ Types /\ HashedInTurn /\ Counters /\ RoundSize \in Nat
      /\ TypeOK /\ round \in Nat /\ covered \in Nat /\ next_nonce \in Nonces
  BY Typed, HandedOut DEF IInv, Types
<1>2. /\ phase' = "Searching" /\ round' = round + 1 /\ round < MaxRounds
      /\ input' = [challenge |-> challenge, target |-> target, start_nonce |-> next_nonce]
      /\ next_nonce' = (next_nonce + RoundSize) % NonceSpace
      /\ slot' = [e \in Index |-> NoNonce]
      /\ tried' = [e \in Index |-> [w \in Workers(Engines[e]) |-> 0]]
      /\ ended' = {} /\ reported' = {} /\ solution' = NoNonce /\ UNCHANGED hash
  BY DEF Begin, NextNonce
<1>3. /\ input'.start_nonce = next_nonce /\ input'.challenge = challenge /\ input'.target = target
      /\ input' \in [challenge : Challenges, target : Targets, start_nonce : Nonces]
  BY <1>1, <1>2
<1>4. \A e \in Index : /\ device'[e] \in Dev
                       /\ Engines[e] = "Gpu" => device'[e].challenge = challenge /\ device'[e].target = target
  <2>1. ASSUME NEW d \in Dev
        PROVE  /\ Bind(d, challenge, target) \in Dev
               /\ Bind(d, challenge, target).challenge = challenge
               /\ Bind(d, challenge, target).target = target
    BY DEF Bind
  <2>2. device \in [Index -> Dev]
    BY <1>1 DEF TypeOK
  <2>3. device' = [e \in Index |-> IF Engines[e] = "Gpu" THEN Bind(device[e], challenge, target)
                                   ELSE device[e]]
    BY DEF Begin
  <2> HIDE DEF Dev
  <2>4. QED
    BY <2>1, <2>2, <2>3
<1>5. device' \in [Index -> Dev]
  <2> HIDE DEF Dev
  <2>1. device' = [e \in Index |-> device'[e]]
    BY DEF Begin
  <2>2. QED
    BY <1>4, <2>1
<1>6. /\ round' > 0 /\ round' \in 0 .. MaxRounds
      /\ next_nonce' \in Nonces
  BY <1>1, <1>2, AlwaysRound, SearchAssumption
<1>7. \/ hashes' = hashes /\ covered' = covered + RoundSize /\ round > 0
      \/ hashes' = [n \in Nonces |-> 0] /\ covered' = RoundSize
  BY DEF Begin
<1>8. hashes' \in [Nonces -> Nat] /\ covered' \in Nat /\ covered' >= RoundSize
  BY <1>1, <1>7 DEF TypeOK
<1>9. \A e \in Index : \A w \in Workers(Engines[e]) : /\ tried'[e][w] = 0
                                                        /\ tried'[e][w] \in 0 .. Quota(Engines[e], w)
  <2> SUFFICES ASSUME NEW e \in Index, NEW w \in Workers(Engines[e])
               PROVE  tried'[e][w] = 0 /\ tried'[e][w] \in 0 .. Quota(Engines[e], w)
    OBVIOUS
  <2>1. Quota(Engines[e], w) \in Nat
    BY QuotaOfRange
  <2>2. tried'[e][w] = 0
    BY <1>2
  <2>3. QED
    BY <2>1, <2>2
<1>10. Types'
  <2>1. tried' = [e \in Index |-> [w \in Workers(Engines[e]) |-> tried'[e][w]]]
    BY <1>2
  <2>2. TypeOK'
    BY <1>2, <1>3, <1>5, <1>6, <1>8, <1>9 DEF TypeOK
  <2>3. QED
    BY <1>6, <2>1, <2>2 DEF Types
<1>11. Bound'
  BY <1>3, <1>4 DEF Bound, Challenge, Target
<1>12. SlotsSolve'
  BY <1>2 DEF SlotsSolve
<1>13. NothingMissed'
  BY <1>2, <1>9 DEF NothingMissed
<1>14. Reports'
  BY <1>2 DEF Reports
<1>15. Counters'
  BY <1>2, <1>3, <1>6, <1>8 DEF Counters, NonceAt
<1>16. HashedInTurn'
  <2>1. CASE hashes' = [n \in Nonces |-> 0]
    BY <2>1 DEF HashedInTurn
  <2>2. CASE hashes' = hashes /\ covered' = covered + RoundSize /\ round > 0
    <3>1. SUFFICES ASSUME covered + RoundSize <= NonceSpace, NEW n \in Nonces
                   PROVE  /\ hashes[n] <= 1
                          /\ Ahead(n)' < NonceSpace - covered => hashes[n] = 0
      <4>1. covered' - RoundSize = covered
        BY <1>1, <2>2
      <4>2. \A n \in Nonces : Ahead(n)' \in Nat
        BY <1>1, <1>3, Setting DEF Ahead, Nonces
      <4>3. \A n \in Nonces : Ahead(n)' < RoundSize /\ covered + RoundSize <= NonceSpace
                             => Ahead(n)' < NonceSpace - covered
        BY <1>1, <4>2, Setting
      <4>4. QED
        BY <2>2, <3>1, <4>1, <4>3 DEF HashedInTurn
    <3>2. covered >= RoundSize /\ next_nonce = NonceAt(RoundSize)
      BY <1>1, <2>2 DEF Counters
    <3>3. covered <= NonceSpace /\ RoundSize <= NonceSpace
      BY <1>1, <3>1, <3>2, Setting
    <3>4. /\ hashes[n] <= 1
          /\ RoundSize <= Ahead(n) /\ Ahead(n) < NonceSpace - (covered - RoundSize) => hashes[n] = 0
      BY <1>1, <2>2, <3>3 DEF HashedInTurn
    <3>5. ASSUME Ahead(n)' < NonceSpace - covered PROVE hashes[n] = 0
      <4> DEFINE a == Ahead(n)'
      <4>1. a = IF n >= next_nonce THEN n - next_nonce ELSE n - next_nonce + NonceSpace
        BY <1>3 DEF Ahead
      <4>2. a \in Nat
        BY <1>1, <4>1, Setting DEF Nonces
      <4>3. a < NonceSpace - covered
        BY <3>5
      <4> HIDE DEF a
      <4>4. a + RoundSize < NonceSpace
        BY <1>1, <3>2, <4>2, <4>3, Setting
      <4>5. Ahead(n) = a + RoundSize
        BY <1>1, <3>2, <3>3, <4>1, <4>4, AheadOfNext
      <4>6. RoundSize <= Ahead(n) /\ Ahead(n) < NonceSpace - (covered - RoundSize)
        BY <1>1, <4>2, <4>3, <4>5, Setting
      <4>7. QED
        BY <3>4, <4>6
    <3>6. QED
      BY <3>4, <3>5
  <2>3. QED
    BY <1>7, <2>1, <2>2
<1>17. QED
  BY <1>10, <1>11, <1>12, <1>13, <1>14, <1>15, <1>16 DEF IInv

\* The nonce of an attempt is at its place, which is in the round.
LEMMA NonceOfPlace ==
  ASSUME Types, NEW e \in Index, NEW w \in Workers(Engines[e]), tried[e][w] < Quota(Engines[e], w)
  PROVE  /\ NonceOf(e, w) = NonceAt(Place(e, w, tried[e][w]))
         /\ Place(e, w, tried[e][w]) \in 0 .. RoundSize - 1
         /\ NonceOf(e, w) \in Nonces
<1> DEFINE t == tried[e][w]
           x == t * Threads
<1>1. t \in Nat /\ input.start_nonce \in Nonces
  BY Typed
<1>2. w \in Nat /\ Handed(e - 1) \in Nat /\ RoundSize \in Nat
  BY QuotaOfRange, HandedOut
<1>3. x \in Nat
  BY <1>1, Setting
<1>4. input.start_nonce \in Nat
  BY <1>1, Setting DEF Nonces
<1>5. Place(e, w, t) \in 0 .. RoundSize - 1
  BY <1>1, PlaceInRound
<1>6. /\ Place(e, w, t) = Handed(e - 1) + w + x
      /\ NonceOf(e, w) = (input.start_nonce + Handed(e - 1) + w + x) % NonceSpace
  BY Offsets DEF Place, NonceOf
<1> HIDE DEF x
<1>7. input.start_nonce + Handed(e - 1) + w + x = input.start_nonce + Place(e, w, t)
  BY <1>2, <1>3, <1>4, <1>6
<1> HIDE DEF t
<1>8. NonceOf(e, w) = NonceAt(Place(e, w, t))
  BY <1>6, <1>7 DEF NonceAt
<1>9. NonceAt(Place(e, w, t)) \in Nonces
  BY <1>1, <1>2, <1>5, AlwaysRound DEF NonceAt
<1>10. QED
  BY <1>5, <1>8, <1>9 DEF t

\* An attempt hashes a nonce of the round that none has hashed, and a miss is no solution.
LEMMA HashKeeps ==
  ASSUME IInv, NEW e \in Index, NEW w \in Workers(Engines[e]), Hash(e, w)
  PROVE  IInv'
<1> DEFINE nonce == NonceOf(e, w)
           wins == Wins(Challenge(e), Target(e), nonce)
           t0 == tried[e][w]
           p0 == Place(e, w, t0)
<1>1. Types /\ TypeOK /\ Bound /\ SlotsSolve /\ NothingMissed /\ Reports /\ HashedInTurn /\ Counters
  BY DEF IInv, Types
<1>2. /\ phase = "Searching" /\ <<e, w>> \notin ended /\ t0 < Quota(Engines[e], w)
      /\ UNCHANGED <<hash, phase, round, input, next_nonce, device, reported, solution, covered>>
      /\ tried' = [tried EXCEPT ![e][w] = @ + 1]
      /\ slot' = [slot EXCEPT ![e] = IF wins /\ @ = NoNonce THEN nonce ELSE @]
      /\ ended' = IF wins THEN ended \cup {<<e, w>>} ELSE ended
      /\ hashes' = [hashes EXCEPT ![nonce] = @ + 1]
  BY DEF Hash
<1>3. round > 0 /\ round \in Nat /\ covered \in Nat /\ t0 \in Nat
  BY <1>1, <1>2, Typed DEF Types
<1>4. nonce = NonceAt(p0) /\ p0 \in 0 .. RoundSize - 1 /\ nonce \in Nonces
  BY <1>1, <1>2, NonceOfPlace
<1>5. wins <=> Wins(input.challenge, input.target, nonce)
  BY <1>1, <1>3 DEF Bound
<1> HIDE DEF nonce, wins, t0, p0
<1>6. /\ slot \in [Index -> Nonces \cup {NoNonce}] /\ hashes \in [Nonces -> Nat]
      /\ tried = [f \in Index |-> [v \in Workers(Engines[f]) |-> tried[f][v]]]
  BY <1>1 DEF TypeOK, Types
<1>7. \A f \in Index : \A v \in Workers(Engines[f]) :
        tried'[f][v] = IF f = e /\ v = w THEN t0 + 1 ELSE tried[f][v]
  BY <1>2, <1>6 DEF t0
<1>8. \A f \in Index : slot'[f] = IF f = e /\ wins /\ slot[e] = NoNonce THEN nonce ELSE slot[f]
  BY <1>2, <1>6
<1>9. nonce # NoNonce
  BY <1>4, Setting
<1>10. \A n \in Nonces : hashes'[n] = IF n = nonce THEN hashes[n] + 1 ELSE hashes[n]
  BY <1>2, <1>6
<1>11. Types'
  <2>1. tried' = [f \in Index |-> [v \in Workers(Engines[f]) |-> tried'[f][v]]]
    <3>1. tried' = [f \in Index |-> IF f = e THEN [tried[e] EXCEPT ![w] = @ + 1] ELSE tried[f]]
      BY <1>2, <1>6
    <3>2. \A f \in Index : tried'[f] = [v \in Workers(Engines[f]) |-> tried'[f][v]]
      BY <1>6, <3>1
    <3>3. QED
      BY <3>1, <3>2
  <2>2. \A f \in Index : \A v \in Workers(Engines[f]) : tried'[f][v] \in 0 .. Quota(Engines[f], v)
    <3>1. Quota(Engines[e], w) \in Nat /\ t0 + 1 \in 0 .. Quota(Engines[e], w)
      BY <1>2, <1>3, QuotaOfRange
    <3>2. \A f \in Index : \A v \in Workers(Engines[f]) : tried[f][v] \in 0 .. Quota(Engines[f], v)
      BY <1>1 DEF TypeOK
    <3>3. QED
      BY <1>7, <3>1, <3>2
  <2>3. slot' \in [Index -> Nonces \cup {NoNonce}] /\ hashes' \in [Nonces -> Nat]
    BY <1>2, <1>4, <1>6
  <2>4. ended' \subseteq {ew \in Index \X Nat : ew[2] \in Workers(Engines[ew[1]])}
    <3>1. w \in Nat
      BY QuotaOfRange
    <3>2. ended \subseteq {ew \in Index \X Nat : ew[2] \in Workers(Engines[ew[1]])}
      BY <1>1 DEF TypeOK
    <3>3. <<e, w>> \in {ew \in Index \X Nat : ew[2] \in Workers(Engines[ew[1]])}
      BY <3>1
    <3>4. QED
      BY <1>2, <3>2, <3>3
  <2>5. TypeOK'
    BY <1>1, <1>2, <2>2, <2>3, <2>4 DEF TypeOK
  <2>6. QED
    BY <1>1, <1>2, <2>1, <2>5 DEF Types
<1>12. Bound'
  BY <1>1, <1>2 DEF Bound, Challenge, Target
<1>13. SlotsSolve'
  <2> SUFFICES ASSUME NEW f \in Index, slot'[f] # NoNonce
               PROVE  /\ \E p \in 0 .. RoundSize - 1 : slot'[f] = NonceAt(p)
                      /\ Wins(input.challenge, input.target, slot'[f])
    BY <1>2, <1>3 DEF SlotsSolve, NonceAt, Wins
  <2>1. CASE f = e /\ wins /\ slot[e] = NoNonce
    BY <1>4, <1>5, <1>8, <2>1
  <2>2. CASE ~(f = e /\ wins /\ slot[e] = NoNonce)
    BY <1>1, <1>8, <2>2 DEF SlotsSolve
  <2>3. QED
    BY <2>1, <2>2
<1>14. NothingMissed'
  <2> SUFFICES ASSUME NEW f \in Index, slot'[f] = NoNonce, NEW v \in Workers(Engines[f])
               PROVE  /\ \A t \in Nat : t < tried'[f][v] =>
                           ~Wins(input.challenge, input.target, NonceAt(Place(f, v, t)))
                      /\ <<f, v>> \in ended' => tried'[f][v] = Quota(Engines[f], v)
    BY <1>2 DEF NothingMissed, NonceAt, Wins, Place
  <2>1. slot[f] = NoNonce /\ (f = e => ~wins)
    BY <1>8, <1>9
  <2>2. /\ \A t \in Nat : t < tried[f][v] => ~Wins(input.challenge, input.target, NonceAt(Place(f, v, t)))
        /\ <<f, v>> \in ended => tried[f][v] = Quota(Engines[f], v)
    BY <1>1, <1>3, <2>1 DEF NothingMissed
  <2>3. <<f, v>> \in ended' => <<f, v>> \in ended
    BY <1>2, <2>1
  <2>4. CASE f = e /\ v = w
    <3>1. ~Wins(input.challenge, input.target, NonceAt(Place(f, v, t0)))
      BY <1>4, <1>5, <2>1, <2>4 DEF p0
    <3>2. \A t \in Nat : t < tried'[f][v] => t < tried[f][v] \/ t = t0
      BY <1>3, <1>7, <2>4 DEF t0
    <3>3. <<f, v>> \notin ended'
      BY <1>2, <2>3, <2>4
    <3>4. QED
      BY <2>2, <3>1, <3>2, <3>3
  <2>5. CASE ~(f = e /\ v = w)
    BY <1>7, <2>2, <2>3, <2>5
  <2>6. QED
    BY <2>4, <2>5
<1>15. Reports'
  <2>1. \A f \in Index : slot[f] # NoNonce => slot'[f] = slot[f]
    BY <1>8
  <2>2. reported \subseteq Index /\ e \notin reported
    BY <1>1, <1>2 DEF TypeOK, Reports
  <2>3. \A f \in reported : slot'[f] = slot[f]
    BY <1>8, <2>2
  <2>4. ended \subseteq ended'
    BY <1>2
  <2>5. QED
    BY <1>1, <1>2, <2>1, <2>2, <2>3, <2>4 DEF Reports
<1>16. HashedInTurn'
  <2> SUFFICES ASSUME covered <= NonceSpace, NEW n \in Nonces
      PROVE  /\ hashes'[n] <= 1
             /\ RoundSize <= Ahead(n) /\ Ahead(n) < NonceSpace - (covered - RoundSize) => hashes'[n] = 0
             /\ /\ Ahead(n) < RoundSize
                /\ \A f, v, t : Tried(f, v, t)' => Place(f, v, t) # Ahead(n)
                => hashes'[n] = 0
    BY <1>2 DEF HashedInTurn, Ahead, Place
  <2>1. /\ hashes[n] <= 1
        /\ RoundSize <= Ahead(n) /\ Ahead(n) < NonceSpace - (covered - RoundSize) => hashes[n] = 0
        /\ /\ Ahead(n) < RoundSize
           /\ \A f, v, t : Tried(f, v, t) => Place(f, v, t) # Ahead(n)
           => hashes[n] = 0
    BY <1>1, <1>3 DEF HashedInTurn
  <2>2. Ahead(nonce) = p0 /\ p0 < RoundSize /\ p0 \in Nat /\ RoundSize \in Nat
    <3>1. RoundSize \in Nat /\ covered >= RoundSize
      BY <1>1, <1>3, HandedOut DEF Counters
    <3>2. p0 \in Nat /\ p0 < NonceSpace /\ p0 < RoundSize
      BY <1>3, <1>4, <3>1, Setting
    <3>3. QED
      BY <1>1, <1>4, <3>1, <3>2, AheadOfPlace
  <2>3. \A f, v, t : Tried(f, v, t) => Tried(f, v, t)'
    <3> SUFFICES ASSUME NEW f \in Index, NEW v \in Workers(Engines[f]), NEW t \in Nat, t < tried[f][v]
                 PROVE  t < tried'[f][v]
      BY DEF Tried
    <3>1. CASE f = e /\ v = w
      BY <1>3, <1>7, <3>1 DEF t0
    <3>2. CASE ~(f = e /\ v = w)
      BY <1>7, <3>2
    <3>3. QED
      BY <3>1, <3>2
  <2>4. \A t : t = t0 => Tried(e, w, t)'
    <3>1. tried'[e][w] = t0 + 1
      BY <1>7
    <3>2. QED
      BY <1>3, <3>1 DEF Tried
  <2>5. ASSUME NEW f, NEW v, NEW t, Tried(f, v, t) PROVE Place(f, v, t) # p0
    <3>1. /\ f \in Index /\ v \in Workers(Engines[f]) /\ t \in Nat /\ t < tried[f][v]
          /\ ~(f = e /\ v = w /\ t = t0)
      BY <1>3, <2>5 DEF Tried, t0
    <3>2. tried[f][v] \in Nat /\ tried[f][v] <= Quota(Engines[f], v) /\ Quota(Engines[f], v) \in Nat
      BY <1>1, <3>1, Typed, QuotaOfRange
    <3>3. t < Quota(Engines[f], v)
      BY <3>1, <3>2
    <3>4. QED
      BY <1>2, <1>3, <3>1, <3>3, PlaceOnce DEF p0
  <2>6. CASE n = nonce
    <3>1. hashes[n] = 0
      BY <2>1, <2>2, <2>5, <2>6
    <3>2. hashes'[n] = 1
      BY <1>10, <2>6, <3>1
    <3>3. Ahead(n) = p0 /\ Place(e, w, t0) = p0
      BY <2>2, <2>6 DEF p0
    <3>4. QED
      BY <2>2, <2>4, <3>2, <3>3
  <2>7. CASE n # nonce
    BY <1>10, <2>1, <2>3, <2>7
  <2>8. QED
    BY <2>6, <2>7
<1>17. Counters'
  BY <1>1, <1>2, <1>3 DEF Counters, NonceAt
<1>18. QED
  BY <1>11, <1>12, <1>13, <1>14, <1>15, <1>16, <1>17 DEF IInv

\* A worker that returns has won, has been beaten or has tried all it had to.
LEMMA LeaveKeeps ==
  ASSUME IInv, NEW e \in Index, NEW w \in Workers(Engines[e]), Leave(e, w)
  PROVE  IInv'
<1>1. Types /\ TypeOK /\ Bound /\ SlotsSolve /\ NothingMissed /\ Reports /\ HashedInTurn /\ Counters
  BY DEF IInv, Types
<1>2. /\ phase = "Searching" /\ <<e, w>> \notin ended
      /\ tried[e][w] = Quota(Engines[e], w) \/ slot[e] # NoNonce
      /\ ended' = ended \cup {<<e, w>>}
      /\ UNCHANGED <<hash, phase, round, input, next_nonce, device, tried, slot, reported,
                     solution, hashes, covered>>
  BY DEF Leave
<1>3. Types'
  <2>1. w \in Nat
    BY QuotaOfRange
  <2>2. ended' \subseteq {ew \in Index \X Nat : ew[2] \in Workers(Engines[ew[1]])}
    BY <1>1, <1>2, <2>1 DEF TypeOK
  <2>3. TypeOK'
    BY <1>1, <1>2, <2>2 DEF TypeOK
  <2>4. QED
    BY <1>1, <1>2, <2>3 DEF Types
<1>4. Bound' /\ SlotsSolve' /\ Counters'
  BY <1>1, <1>2 DEF Bound, Challenge, Target, SlotsSolve, NonceAt, Wins, Counters
<1>5. NothingMissed'
  BY <1>1, <1>2 DEF NothingMissed, NonceAt, Wins, Place
<1>6. Reports'
  BY <1>1, <1>2 DEF Reports
<1>7. HashedInTurn'
  BY <1>1, <1>2 DEF HashedInTurn, Ahead, Tried, Place
<1>8. QED
  BY <1>3, <1>4, <1>5, <1>6, <1>7 DEF IInv

\* A result is taken when all the engine's workers have returned, the last ends the round.
LEMMA ReportKeeps ==
  ASSUME IInv, NEW e \in Index, Report(e)
  PROVE  IInv'
<1>1. Types /\ TypeOK /\ Bound /\ SlotsSolve /\ NothingMissed /\ Reports /\ HashedInTurn /\ Counters
  BY DEF IInv, Types
<1>2. /\ phase = "Searching" /\ e \notin reported
      /\ \A w \in Workers(Engines[e]) : <<e, w>> \in ended
      /\ reported' = reported \cup {e}
      /\ phase' = IF reported' = Index THEN "Idle" ELSE phase
      /\ \/ slot[e] # NoNonce /\ solution' = slot[e]
         \/ (slot[e] = NoNonce \/ solution # NoNonce) /\ solution' = solution
      /\ UNCHANGED <<hash, round, input, next_nonce, device, tried, ended, slot, hashes, covered>>
  BY DEF Report
<1>3. Types'
  <2>1. /\ reported' \subseteq Index /\ solution' \in Nonces \cup {NoNonce}
        /\ phase' \in {"Idle", "Searching", "Failed"} /\ round # 0
    BY <1>1, <1>2 DEF TypeOK, Types
  <2>2. TypeOK'
    BY <1>1, <1>2, <2>1 DEF TypeOK
  <2>3. QED
    BY <1>1, <1>2, <2>1, <2>2 DEF Types
<1>4. Bound' /\ SlotsSolve' /\ Counters'
  BY <1>1, <1>2 DEF Bound, Challenge, Target, SlotsSolve, NonceAt, Wins, Counters
<1>5. NothingMissed'
  BY <1>1, <1>2 DEF NothingMissed, NonceAt, Wins, Place
<1>6. Reports'
  <2>1. \A f \in reported' : \A w \in Workers(Engines[f]) : <<f, w>> \in ended
    BY <1>1, <1>2 DEF Reports
  <2>2. \A f \in reported' : slot[f] # NoNonce => solution' # NoNonce
    BY <1>1, <1>2 DEF Reports
  <2>3. solution' # NoNonce => \E f \in Index : solution' = slot[f]
    BY <1>1, <1>2 DEF Reports
  <2>4. phase' = "Idle" => reported' = Index
    BY <1>2
  <2>5. QED
    BY <1>2, <2>1, <2>2, <2>3, <2>4 DEF Reports
<1>7. HashedInTurn'
  BY <1>1, <1>2 DEF HashedInTurn, Ahead, Tried, Place
<1>8. QED
  BY <1>3, <1>4, <1>5, <1>6, <1>7 DEF IInv

\* A round that fails leaves all as it is.
LEMMA FailKeeps ==
  ASSUME IInv, NEW e \in Index, Fail(e)
  PROVE  IInv'
<1>1. Types /\ TypeOK /\ Bound /\ SlotsSolve /\ NothingMissed /\ Reports /\ HashedInTurn /\ Counters
  BY DEF IInv, Types
<1>2. /\ phase = "Searching" /\ phase' = "Failed"
      /\ UNCHANGED <<hash, round, input, next_nonce, device, tried, ended, slot, reported,
                     solution, hashes, covered>>
  BY DEF Fail
<1>3. Types'
  <2>1. TypeOK'
    BY <1>1, <1>2 DEF TypeOK
  <2>2. QED
    BY <1>1, <1>2, <2>1 DEF Types
<1>4. Bound' /\ SlotsSolve' /\ Counters' /\ Reports'
  BY <1>1, <1>2 DEF Bound, Challenge, Target, SlotsSolve, NonceAt, Wins, Counters, Reports
<1>5. NothingMissed' /\ HashedInTurn'
  BY <1>1, <1>2 DEF NothingMissed, HashedInTurn, NonceAt, Wins, Place, Ahead, Tried
<1>6. QED
  BY <1>3, <1>4, <1>5 DEF IInv

\* Whatever the engines, the sizes of their batches and the number of nonces, the
\* invariant that the results below follow from holds in every state.
THEOREM Inductive == Spec => []IInv
<1>1. IInv /\ [Next]_vars => IInv'
  <2> SUFFICES ASSUME IInv, [Next]_vars PROVE IInv'
    OBVIOUS
  <2>1. ASSUME NEW challenge \in Challenges, NEW target \in Targets, Begin(challenge, target)
        PROVE  IInv'
    BY <2>1, BeginKeeps
  <2>2. ASSUME NEW e \in Index, NEW w \in Workers(Engines[e]), Hash(e, w) PROVE IInv'
    BY <2>2, HashKeeps
  <2>3. ASSUME NEW e \in Index, NEW w \in Workers(Engines[e]), Leave(e, w) PROVE IInv'
    BY <2>3, LeaveKeeps
  <2>4. ASSUME NEW e \in Index, Report(e) PROVE IInv'
    BY <2>4, ReportKeeps
  <2>5. ASSUME NEW e \in Index, Fail(e) PROVE IInv'
    BY <2>5, FailKeeps
  <2>6. CASE UNCHANGED vars
    BY <2>6 DEF vars, IInv, Types, TypeOK, Bound, Challenge, Target, SlotsSolve, NothingMissed,
                Reports, HashedInTurn, Counters, NonceAt, Place, Ahead, Tried, Wins
  <2>7. QED
    BY <2>1, <2>2, <2>3, <2>4, <2>5, <2>6 DEF Next, Engine
<1>2. QED
  BY <1>1, Initially, PTL DEF Spec

----------------------------------------------------------------------------
(* What a round promises *)

\* Whatever a round that is over returns is one of its nonces and solves its puzzle, not
\* that of an earlier round still in a buffer of the device; and if it returns nothing,
\* no nonce does, whichever workers were stopped before they had tried theirs.
THEOREM NoneIsMissed == Spec => []SolutionIffThereIsOne
<1>1. IInv => SolutionIffThereIsOne
  <2> DEFINE winners == {n \in RoundNonces : Wins(input.challenge, input.target, n)}
  <2> SUFFICES ASSUME IInv, Over
               PROVE  IF winners = {} THEN solution = NoNonce ELSE solution \in winners
    BY DEF SolutionIffThereIsOne
  <2>1. round > 0 /\ reported = Index /\ Types /\ SlotsSolve /\ NothingMissed /\ Reports
    BY DEF IInv, Over, Reports, Types, TypeOK
  <2>2. ASSUME solution # NoNonce PROVE solution \in winners
    <3>1. PICK e \in Index : solution = slot[e]
      BY <2>1, <2>2 DEF Reports
    <3>2. QED
      BY <2>1, <2>2, <3>1 DEF SlotsSolve, RoundNonces, NonceAt
  <2>3. ASSUME NEW p \in 0 .. RoundSize - 1, Wins(input.challenge, input.target, NonceAt(p))
        PROVE  solution # NoNonce
    <3>1. PICK e \in Index : \E w \in Workers(Engines[e]) : \E t \in Nat :
            t < Quota(Engines[e], w) /\ p = Place(e, w, t)
      BY PlaceAll
    <3>2. PICK w \in Workers(Engines[e]), t \in Nat : t < Quota(Engines[e], w) /\ p = Place(e, w, t)
      BY <3>1
    <3>3. <<e, w>> \in ended
      BY <2>1 DEF Reports
    <3>4. slot[e] # NoNonce
      BY <2>1, <2>3, <3>2, <3>3 DEF NothingMissed
    <3>5. QED
      BY <2>1, <3>4 DEF Reports
  <2>4. winners # {} => solution # NoNonce
    BY <2>3 DEF RoundNonces, NonceAt
  <2>5. QED
    BY <2>2, <2>4
<1>2. QED
  BY <1>1, Inductive, PTL

\* Until all nonces have been handed out for a puzzle, none is hashed twice, by any
\* threads or work items of any engines in any rounds.
THEOREM HashedOnce == Spec => []NoNonceTwice
<1>1. IInv => NoNonceTwice
  <2> SUFFICES ASSUME IInv, covered <= NonceSpace, NEW n \in Nonces PROVE hashes[n] <= 1
    BY DEF NoNonceTwice
  <2>1. round \in Nat
    BY Typed DEF IInv
  <2>2. CASE round = 0
    BY <2>2 DEF IInv, Counters
  <2>3. CASE round > 0
    BY <2>3 DEF IInv, HashedInTurn
  <2>4. QED
    BY <2>1, <2>2, <2>3
<1>2. QED
  BY <1>1, Inductive, PTL
=============================================================================
