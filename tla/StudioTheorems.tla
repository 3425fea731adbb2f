--------------------------- MODULE StudioTheorems ---------------------------
(***************************************************************************)
(* Theorems about the desktop studio, for any set of keys.  What mines, is *)
(* shown and is acknowledged agrees with the active wallet, and no keypair *)
(* is lost but by the user, whatever number of calls fail or are cut       *)
(* short; the session wallet's phrase is its own while at most one does.   *)
(***************************************************************************)
EXTENDS Studio, TLAPS

----------------------------------------------------------------------------
(* The inductive invariant *)

Values == Keys \cup {None, Torn}
Wallets == [slot: Slots, key: Keys, phrase_path: BOOLEAN, phrase: Keys \cup {None}]
CallNames == {"None", "Open", "Create", "ImportPhrase", "ImportKey", "Delete",
              "Deposit", "Start", "Withdraw"}
SessionCalls == {"Open", "Deposit", "Start", "Withdraw"}

Types ==
  /\ disk \in [Files -> Values]
  /\ open \in BOOLEAN
  /\ call \in [name: CallNames, key: Keys \cup {None}, ok: BOOLEAN,
               part: {"First", "Creating", "Listing"}]
  /\ available \in SUBSET Wallets
  /\ active \in Wallets \cup {NoWallet}
  /\ pending_delete \in Wallets \cup {NoWallet}
  /\ mining \in BOOLEAN
  /\ material \in Keys \cup {None}
  /\ revealed_once \in BOOLEAN /\ requires_ack \in BOOLEAN /\ acknowledged \in BOOLEAN
  /\ revealed \in SUBSET Keys

\* What is at work, and what there is only with an active wallet.
Control ==
  /\ call = NoCall => todo = <<>>
  /\ mining => call = NoCall
  /\ ~open => call = NoCall /\ active = NoWallet
  /\ active = NoWallet =>
       /\ available = {} /\ material = None
       /\ ~requires_ack /\ ~acknowledged /\ ~mining
  /\ call.name \in SessionCalls => active = NoWallet
  /\ call.name \in {"Create", "ImportPhrase", "ImportKey"} => call.key \in Keys

\* Acknowledging is required, or was, of the session wallet.
SessionAcknowledges == requires_ack /\ active.slot = Session

\* A step on the files that a call may have to take.
FileSteps == [file: Files, to: Values]
Fitting(s) ==
  /\ \A k \in Keys : s.file \in {Keypair(k), Phrase(k)} => s.to \in {k, None, Torn}
  /\ s.file = Keypair(Session) /\ s.to \in Keys => active = NoWallet
  /\ s.file = Phrase(Session) /\ s.to # None => ~SessionAcknowledges
  /\ s.file = SeedTxt => s.to = None

\* The rest of the call fits.
Plans == todo \in Seq({s \in FileSteps : Fitting(s)})

\* Under a key's names there is that key, or what a failed call left.
OwnKeys ==
  \A k \in Keys : disk[Keypair(k)] \in {k, None, Torn} /\ disk[Phrase(k)] \in {k, None, Torn}

\* What is known of a wallet is true, or its keypair is gone.
Fits(w) ==
  /\ w.slot \in {Session, w.key}
  /\ w.phrase \in {None, w.key}
  /\ disk[Keypair(w.slot)] \in {w.key, None, Torn}

WalletsFit ==
  /\ \A w \in available : Fits(w)
  /\ active # NoWallet => Fits(active)
  /\ SessionAcknowledges => disk[SeedTxt] = None /\ disk[Phrase(Session)] \in {None, active.key}

\* A plan does not touch a file, or leaves something in it.
Untouched(plan, f) == \A i \in DOMAIN plan : plan[i].file # f
Leaves(plan, f, v) ==
  \E i \in DOMAIN plan :
    /\ plan[i] = [file |-> f, to |-> v]
    /\ \A j \in DOMAIN plan : j > i => plan[j].file # f

\* What is in a file when the call is done.
Settles(f, v) == Leaves(todo, f, v) \/ (disk[f] = v /\ Untouched(todo, f))

\* The order in which a plan makes a session wallet: after the migration.
MigratesFirst(plan) ==
  \A i \in DOMAIN plan :
    plan[i].file = Keypair(Session) => \E h \in 1 .. i - 1 : plan[h].file = SeedTxt

\* A call that makes a session wallet, unless it fails, ends with its key in both files.
\* At the opening it may be made by a second attempt, before which nothing is there if
\* the migration is what failed.
SessionMade ==
  /\ call.name \in SessionCalls /\ call.key # None /\ call.ok =>
       /\ call.part # "Listing"
       /\ Settles(Keypair(Session), call.key)
       /\ Settles(Phrase(Session), call.key)
       /\ Settles(SeedTxt, None)
  /\ call.name = "Open" /\ call.key # None /\ call.part = "First" /\ Exists(SeedTxt) =>
       /\ ~Exists(Keypair(Session))
       /\ MigratesFirst(todo)

\* The recovery window shows what must be acknowledged, and has shown it; a thread reads
\* the active wallet's balance.
Windows ==
  /\ receiver \in {None, active.key}
  /\ revealed_once => material \in revealed \cup {None}
  /\ requires_ack => material \in {None, active.key}

IInv ==
  /\ Types /\ Control /\ Plans /\ OwnKeys /\ WalletsFit /\ SessionMade /\ Windows
  /\ OneWalletAtATime /\ BalanceIsOfActiveWallet /\ AcknowledgedWasShown

----------------------------------------------------------------------------
(* Names *)

\* None, Torn and Session are not keys.
LEMMA Words ==
  /\ None \notin Keys /\ Torn \notin Keys /\ Session \notin Keys
  /\ None # Torn /\ None # Session /\ Torn # Session
  /\ FreshKeys \subseteq Keys /\ ForeignKeys \subseteq Keys
BY StoreAssumption DEF StoreAssumption, None, Torn, Session, Keys

\* No file has two names.
LEMMA FileNames ==
  /\ SeedTxt \in Files
  /\ \A s \in Slots : Keypair(s) \in Files /\ Phrase(s) \in Files
  /\ \A s, t : Keypair(s) # Phrase(t) /\ Keypair(s) # SeedTxt /\ Phrase(s) # SeedTxt
  /\ \A s, t : (Keypair(s) = Keypair(t) <=> s = t) /\ (Phrase(s) = Phrase(t) <=> s = t)
BY DEF SeedTxt, Files, Keypair, Phrase

LEMMA SlotNames == Session \in Slots /\ \A k \in Keys : k \in Slots
BY DEF Slots

\* There is a wallet, or there is none.
LEMMA WalletOrNone ==
  /\ NoWallet \notin Wallets
  /\ NoWallet.slot = None /\ NoWallet.key = None /\ NoWallet.phrase = None
  /\ \A w \in Wallets : w.slot \in Slots /\ w.key \in Keys /\ w.phrase \in Keys \cup {None}
BY Words DEF NoWallet, Managed, Wallets, Slots

\* A record made of its parts.
LEMMA ManagedParts ==
  ASSUME NEW s \in Slots, NEW k \in Keys, NEW p \in BOOLEAN, NEW m \in Keys \cup {None}
  PROVE  /\ Managed(s, k, p, m) \in Wallets
         /\ Managed(s, k, p, m).slot = s /\ Managed(s, k, p, m).key = k
         /\ Managed(s, k, p, m).phrase = m /\ Managed(s, k, p, m).phrase_path = p
BY DEF Managed, Wallets

----------------------------------------------------------------------------
(* Plans *)

LEMMA PlanJoin ==
  ASSUME NEW A, NEW s \in Seq(A), NEW t \in Seq(A)
  PROVE  s \o t \in Seq(A)
OBVIOUS

\* What a call may do now.
Allowed == {s \in FileSteps : Fitting(s)}

\* Removing a file always fits.
LEMMA RemoveFits ==
  ASSUME NEW f \in Files
  PROVE  Remove(f) \in Seq(Allowed)
<1>1. [file |-> f, to |-> None] \in FileSteps
  BY DEF FileSteps, Values
<1>2. Fitting([file |-> f, to |-> None])
  BY Words DEF Fitting
<1>3. [file |-> f, to |-> None] \in Allowed
  BY <1>1, <1>2 DEF Allowed
<1>4. <<[file |-> f, to |-> None]>> \in Seq(Allowed) /\ <<>> \in Seq(Allowed)
  BY <1>3
<1>5. QED BY <1>4 DEF Remove

LEMMA WriteFits ==
  ASSUME NEW f \in Files, NEW v \in Values,
         Fitting([file |-> f, to |-> Torn]), Fitting([file |-> f, to |-> v])
  PROVE  Write(f, v) \in Seq(Allowed)
BY DEF Write, Allowed, FileSteps, Values

\* The files of a key take that key.
LEMMA OwnWalletFits ==
  ASSUME NEW k \in Keys, NEW p \in BOOLEAN
  PROVE  WriteWallet(k, k, p) \in Seq(Allowed)
<1>1. /\ Keypair(k) \in Files /\ Phrase(k) \in Files /\ k \in Values
  BY FileNames, SlotNames DEF Values
<1>2. ASSUME NEW f \in {Keypair(k), Phrase(k)}, NEW v \in {Torn, k}
      PROVE  Fitting([file |-> f, to |-> v])
  <2>1. f # SeedTxt /\ f # Keypair(Session) /\ f # Phrase(Session)
    BY FileNames, Words
  <2>2. \A j \in Keys : f \in {Keypair(j), Phrase(j)} => j = k
    BY FileNames
  <2>3. QED BY <2>1, <2>2 DEF Fitting
<1>3. Write(Keypair(k), k) \in Seq(Allowed) /\ Write(Phrase(k), k) \in Seq(Allowed)
  BY <1>1, <1>2, WriteFits
<1>4. QED BY <1>3, PlanJoin DEF WriteWallet

\* The migration fits unless the session wallet is one to acknowledge, for which there is
\* no phrase of an earlier version.
LEMMA MigrateFits ==
  ASSUME disk \in [Files -> Values], ~SessionAcknowledges \/ disk[SeedTxt] = None
  PROVE  Migrate \in Seq(Allowed)
<1>1. Remove(SeedTxt) \in Seq(Allowed)
  BY FileNames, RemoveFits
<1>2. ASSUME Exists(SeedTxt) PROVE Write(Phrase(Session), disk[SeedTxt]) \in Seq(Allowed)
  <2>1. ~SessionAcknowledges /\ disk[SeedTxt] \in Values
    BY <1>2, FileNames DEF Exists
  <2>2. \A k \in Keys : Phrase(Session) \notin {Keypair(k), Phrase(k)}
    BY FileNames, Words
  <2>3. \A v : Fitting([file |-> Phrase(Session), to |-> v])
    BY <2>1, <2>2, FileNames DEF Fitting
  <2>4. QED BY <2>1, <2>3, WriteFits, FileNames, SlotNames
<1>3. <<>> \in Seq(Allowed)
  OBVIOUS
<1>4. QED BY <1>1, <1>2, <1>3, PlanJoin DEF Migrate

\* A session wallet is made while there is no active one.
LEMMA CreateSessionFits ==
  ASSUME disk \in [Files -> Values], active = NoWallet, ~requires_ack, NEW key \in Keys \cup {None}
  PROVE  CreateSession(key) \in Seq(Allowed)
<1>1. Migrate \in Seq(Allowed)
  BY MigrateFits DEF SessionAcknowledges
<1>2. WriteWallet(Session, key, TRUE) \in Seq(Allowed)
  <2>1. \A k \in Keys : {Keypair(Session), Phrase(Session)} \cap {Keypair(k), Phrase(k)} = {}
    BY FileNames, Words
  <2>2. \A f \in {Keypair(Session), Phrase(Session)} : \A v : Fitting([file |-> f, to |-> v])
    BY <2>1, FileNames DEF Fitting, SessionAcknowledges
  <2>3. key \in Values
    BY DEF Values
  <2>4. Write(Keypair(Session), key) \in Seq(Allowed) /\ Write(Phrase(Session), key) \in Seq(Allowed)
    BY <2>2, <2>3, WriteFits, FileNames, SlotNames
  <2>5. QED BY <2>4, PlanJoin DEF WriteWallet
<1>3. <<>> \in Seq(Allowed)
  OBVIOUS
<1>4. QED BY <1>1, <1>2, <1>3, PlanJoin DEF CreateSession

LEMMA DeleteFits ==
  ASSUME NEW w \in Wallets
  PROVE  DeleteManagedWallet(w) \in Seq(Allowed)
<1>1. Remove(Keypair(w.slot)) \in Seq(Allowed) /\ Remove(Phrase(w.slot)) \in Seq(Allowed)
  BY WalletOrNone, FileNames, RemoveFits
<1>2. <<>> \in Seq(Allowed)
  OBVIOUS
<1>3. QED BY <1>1, <1>2, PlanJoin DEF DeleteManagedWallet

\* A plan that fits goes on fitting while no wallet is selected, nor made to acknowledge.
LEMMA PlansKept ==
  ASSUME todo' \in Seq(Allowed), UNCHANGED <<active, requires_ack>>
  PROVE  Plans'
<1>1. \A s \in FileSteps : Fitting(s) => Fitting(s)'
  BY DEF Fitting, SessionAcknowledges
<1>2. Allowed \subseteq {s \in FileSteps : Fitting(s)'}
  BY <1>1 DEF Allowed
<1> DEFINE Allowed2 == {s \in FileSteps : Fitting(s)'}
<1>3. todo' \in Seq(Allowed2)
  <2> HIDE DEF Allowed2
  <2>1. Allowed \subseteq Allowed2
    BY <1>2 DEF Allowed2
  <2>2. QED BY <2>1
<1>4. QED BY <1>3 DEF Plans

----------------------------------------------------------------------------
(* Steps on files *)

\* The first step of a plan and the others.
LEMMA HeadAndTail ==
  ASSUME NEW A, NEW plan \in Seq(A), plan # <<>>
  PROVE  /\ Len(plan) \in Nat /\ Len(plan) >= 1
         /\ DOMAIN plan = 1 .. Len(plan) /\ DOMAIN Tail(plan) = 1 .. Len(plan) - 1
         /\ Head(plan) = plan[1] /\ plan[1] \in A
         /\ Tail(plan) \in Seq(A)
         /\ \A i \in 1 .. Len(plan) - 1 : Tail(plan)[i] = plan[i + 1]
OBVIOUS

LEMMA LeavesStep ==
  ASSUME NEW plan \in Seq(FileSteps), plan # <<>>, NEW f, NEW v, Leaves(plan, f, v)
  PROVE  \/ Head(plan) = [file |-> f, to |-> v] /\ Untouched(Tail(plan), f)
         \/ Leaves(Tail(plan), f, v)
<1>1. PICK i \in DOMAIN plan : /\ plan[i] = [file |-> f, to |-> v]
                               /\ \A j \in DOMAIN plan : j > i => plan[j].file # f
  BY DEF Leaves
<1>2. ASSUME NEW j \in DOMAIN Tail(plan)
      PROVE  j \in Nat /\ j + 1 \in DOMAIN plan /\ Tail(plan)[j] = plan[j + 1]
  BY HeadAndTail
<1>3. i \in Nat /\ i >= 1 /\ (i # 1 => i - 1 \in DOMAIN Tail(plan) /\ (i - 1) + 1 = i)
  BY HeadAndTail
<1>4. CASE i = 1
  <2>1. Head(plan) = [file |-> f, to |-> v]
    BY <1>1, <1>4, HeadAndTail
  <2>2. ASSUME NEW j \in DOMAIN Tail(plan) PROVE Tail(plan)[j].file # f
    BY <1>1, <1>2, <1>4
  <2>3. QED BY <2>1, <2>2 DEF Untouched
<1>5. CASE i # 1
  <2>1. Tail(plan)[i - 1] = [file |-> f, to |-> v]
    BY <1>1, <1>2, <1>3, <1>5
  <2>2. ASSUME NEW j \in DOMAIN Tail(plan), j > i - 1 PROVE Tail(plan)[j].file # f
    BY <1>1, <1>2, <1>3, <2>2
  <2>3. QED BY <1>3, <1>5, <2>1, <2>2 DEF Leaves
<1>6. QED BY <1>4, <1>5

LEMMA UntouchedStep ==
  ASSUME NEW plan \in Seq(FileSteps), plan # <<>>, NEW f, Untouched(plan, f)
  PROVE  Head(plan).file # f /\ Untouched(Tail(plan), f)
<1>1. ASSUME NEW j \in DOMAIN Tail(plan)
      PROVE  j + 1 \in DOMAIN plan /\ Tail(plan)[j] = plan[j + 1]
  BY HeadAndTail
<1>2. 1 \in DOMAIN plan /\ Head(plan) = plan[1]
  BY HeadAndTail
<1>3. QED BY <1>1, <1>2 DEF Untouched

\* What a plan settles is settled by each of its steps.
LEMMA SettlesStep ==
  ASSUME disk \in [Files -> Values], todo \in Seq(FileSteps), FileStep,
         NEW f \in Files, NEW v, Settles(f, v)
  PROVE  Settles(f, v)'
<1>1. todo # <<>> /\ todo' = Tail(todo) /\ Head(todo) \in FileSteps
  BY HeadAndTail DEF FileStep
<1>2. disk' = [disk EXCEPT ![Head(todo).file] = Head(todo).to]
  BY DEF FileStep
<1>3. disk'[f] = IF Head(todo).file = f THEN Head(todo).to ELSE disk[f]
  BY <1>1, <1>2 DEF FileSteps
<1>4. CASE Leaves(todo, f, v)
  <2>1. CASE Head(todo) = [file |-> f, to |-> v] /\ Untouched(Tail(todo), f)
    BY <1>1, <1>3, <2>1 DEF Settles
  <2>2. CASE Leaves(Tail(todo), f, v)
    BY <1>1, <2>2 DEF Settles
  <2>3. QED BY <1>1, <1>4, <2>1, <2>2, LeavesStep
<1>5. CASE disk[f] = v /\ Untouched(todo, f)
  BY <1>1, <1>3, <1>5, UntouchedStep DEF Settles
<1>6. QED BY <1>4, <1>5 DEF Settles

LEMMA LeavesJoin ==
  ASSUME NEW s \in Seq(FileSteps), NEW t \in Seq(FileSteps), NEW f, NEW v
  PROVE  /\ Leaves(t, f, v) => Leaves(s \o t, f, v)
         /\ Leaves(s, f, v) /\ Untouched(t, f) => Leaves(s \o t, f, v)
         /\ Untouched(s, f) /\ Untouched(t, f) => Untouched(s \o t, f)
<1>1. /\ Len(s) \in Nat /\ Len(t) \in Nat
      /\ DOMAIN s = 1 .. Len(s) /\ DOMAIN t = 1 .. Len(t)
      /\ DOMAIN (s \o t) = 1 .. Len(s) + Len(t)
      /\ \A i \in 1 .. Len(s) : (s \o t)[i] = s[i]
      /\ \A i \in 1 .. Len(t) : (s \o t)[Len(s) + i] = t[i]
  OBVIOUS
<1>2. \A i \in 1 .. Len(s) + Len(t) :
        i \in 1 .. Len(s) \/ (i - Len(s) \in 1 .. Len(t) /\ i = Len(s) + (i - Len(s)))
  BY <1>1
<1> DEFINE st == s \o t
<1> HIDE DEF st
<1>3. ASSUME Leaves(t, f, v) PROVE Leaves(st, f, v)
  <2>1. PICK i \in 1 .. Len(t) : /\ t[i] = [file |-> f, to |-> v]
                                 /\ \A j \in 1 .. Len(t) : j > i => t[j].file # f
    BY <1>1, <1>3 DEF Leaves
  <2>2. Len(s) + i \in DOMAIN st /\ st[Len(s) + i] = [file |-> f, to |-> v]
    BY <1>1, <2>1 DEF st
  <2>3. ASSUME NEW j \in DOMAIN st, j > Len(s) + i PROVE st[j].file # f
    <3>1. j - Len(s) \in 1 .. Len(t) /\ j = Len(s) + (j - Len(s)) /\ j - Len(s) > i
      BY <1>1, <2>3 DEF st
    <3>2. st[j] = t[j - Len(s)]
      BY <1>1, <3>1 DEF st
    <3>3. QED BY <2>1, <3>1, <3>2
  <2>4. QED BY <2>2, <2>3 DEF Leaves
<1>4. ASSUME Leaves(s, f, v), Untouched(t, f) PROVE Leaves(st, f, v)
  <2>1. PICK i \in 1 .. Len(s) : /\ s[i] = [file |-> f, to |-> v]
                                 /\ \A j \in 1 .. Len(s) : j > i => s[j].file # f
    BY <1>1, <1>4 DEF Leaves
  <2>2. i \in DOMAIN st /\ st[i] = [file |-> f, to |-> v]
    BY <1>1, <2>1 DEF st
  <2>3. ASSUME NEW j \in DOMAIN st, j > i PROVE st[j].file # f
    <3>1. CASE j \in 1 .. Len(s)
      BY <1>1, <2>1, <2>3, <3>1 DEF st
    <3>2. CASE j - Len(s) \in 1 .. Len(t) /\ j = Len(s) + (j - Len(s))
      <4>1. st[j] = t[j - Len(s)]
        BY <1>1, <3>2 DEF st
      <4>2. QED BY <1>1, <1>4, <3>2, <4>1 DEF Untouched
    <3>3. QED BY <1>1, <1>2, <3>1, <3>2 DEF st
  <2>4. QED BY <2>2, <2>3 DEF Leaves
<1>5. ASSUME Untouched(s, f), Untouched(t, f), NEW j \in DOMAIN st PROVE st[j].file # f
  <2>1. CASE j \in 1 .. Len(s)
    BY <1>1, <1>5, <2>1 DEF st, Untouched
  <2>2. CASE j - Len(s) \in 1 .. Len(t) /\ j = Len(s) + (j - Len(s))
    <3>1. st[j] = t[j - Len(s)]
      BY <1>1, <2>2 DEF st
    <3>2. QED BY <1>1, <1>5, <2>2, <3>1 DEF Untouched
  <2>3. QED BY <1>1, <1>2, <2>1, <2>2 DEF st
<1>6. QED BY <1>3, <1>4, <1>5 DEF Untouched, st

\* One file written, or removed.
LEMMA WriteLeaves ==
  ASSUME NEW f \in Files, NEW v \in Values
  PROVE  /\ Write(f, v) \in Seq(FileSteps) /\ Leaves(Write(f, v), f, v)
         /\ \A g : g # f => Untouched(Write(f, v), g)
<1>1. [file |-> f, to |-> Torn] \in FileSteps /\ [file |-> f, to |-> v] \in FileSteps
  BY DEF FileSteps, Values
<1>2. /\ DOMAIN Write(f, v) = 1 .. 2
      /\ Write(f, v)[1] = [file |-> f, to |-> Torn] /\ Write(f, v)[2] = [file |-> f, to |-> v]
      /\ Write(f, v) \in Seq(FileSteps)
  BY <1>1 DEF Write
<1>3. Leaves(Write(f, v), f, v)
  <2>1. 2 \in DOMAIN Write(f, v) /\ \A j \in DOMAIN Write(f, v) : ~(j > 2)
    BY <1>2
  <2>2. QED BY <1>2, <2>1 DEF Leaves
<1>4. ASSUME NEW g, g # f PROVE Untouched(Write(f, v), g)
  <2>1. \A j \in DOMAIN Write(f, v) : j = 1 \/ j = 2
    BY <1>2
  <2>2. QED BY <1>2, <1>4, <2>1 DEF Untouched
<1>5. QED BY <1>2, <1>3, <1>4

LEMMA RemoveLeaves ==
  ASSUME NEW f \in Files
  PROVE  /\ Remove(f) \in Seq(FileSteps)
         /\ Exists(f) => Leaves(Remove(f), f, None)
         /\ ~Exists(f) => Untouched(Remove(f), f)
         /\ \A g : g # f => Untouched(Remove(f), g)
<1>1. [file |-> f, to |-> None] \in FileSteps
  BY DEF FileSteps, Values
<1>2. CASE Exists(f)
  <2>1. Remove(f) = <<[file |-> f, to |-> None]>>
    BY <1>2 DEF Remove
  <2>2. /\ DOMAIN Remove(f) = 1 .. 1 /\ Remove(f)[1] = [file |-> f, to |-> None]
        /\ Remove(f) \in Seq(FileSteps)
    BY <1>1, <2>1
  <2>3. \A j \in DOMAIN Remove(f) : j = 1
    BY <2>2
  <2>4. Leaves(Remove(f), f, None)
    <3>1. 1 \in DOMAIN Remove(f) /\ \A j \in DOMAIN Remove(f) : ~(j > 1)
      BY <2>2
    <3>2. QED BY <2>2, <3>1 DEF Leaves
  <2>5. QED BY <1>2, <2>2, <2>3, <2>4 DEF Untouched
<1>3. CASE ~Exists(f)
  <2>1. Remove(f) = <<>>
    BY <1>3 DEF Remove
  <2>2. QED BY <1>3, <2>1 DEF Untouched
<1>4. QED BY <1>2, <1>3

\* The migration ends without the phrase of an earlier version, and leaves the keypair.
LEMMA MigrateLeaves ==
  ASSUME disk \in [Files -> Values]
  PROVE  /\ Migrate \in Seq(FileSteps)
         /\ Exists(SeedTxt) => Leaves(Migrate, SeedTxt, None)
         /\ ~Exists(SeedTxt) => Untouched(Migrate, SeedTxt)
         /\ Untouched(Migrate, Keypair(Session))
<1> DEFINE copy == IF Exists(SeedTxt) /\ ~Exists(Phrase(Session))
                   THEN Write(Phrase(Session), disk[SeedTxt]) ELSE <<>>
<1>1. /\ Phrase(Session) \in Files /\ SeedTxt \in Files /\ disk[SeedTxt] \in Values
      /\ Phrase(Session) # SeedTxt /\ Phrase(Session) # Keypair(Session)
      /\ Keypair(Session) # SeedTxt
  BY FileNames, SlotNames
<1>2. /\ copy \in Seq(FileSteps)
      /\ Untouched(copy, SeedTxt) /\ Untouched(copy, Keypair(Session))
  <2>1. <<>> \in Seq(FileSteps) /\ \A g : Untouched(<<>>, g)
    BY DEF Untouched
  <2>2. QED BY <1>1, <2>1, WriteLeaves
<1>3. Migrate = copy \o Remove(SeedTxt)
  BY DEF Migrate
<1> HIDE DEF copy
<1>4. Migrate \in Seq(FileSteps)
  BY <1>1, <1>2, <1>3, RemoveLeaves, PlanJoin
<1>5. QED BY <1>1, <1>2, <1>3, <1>4, RemoveLeaves, LeavesJoin

\* A session wallet that is not there is made as a whole, once its files are free.
LEMMA CreateSessionSettles ==
  ASSUME disk \in [Files -> Values], NEW key \in Keys, ~Exists(Keypair(Session))
  PROVE  LET plan == CreateSession(key)
         IN  /\ plan \in Seq(FileSteps)
             /\ Leaves(plan, Keypair(Session), key)
             /\ Leaves(plan, Phrase(Session), key)
             /\ Leaves(plan, SeedTxt, None) \/ (disk[SeedTxt] = None /\ Untouched(plan, SeedTxt))
             /\ Exists(SeedTxt) => MigratesFirst(plan)
<1> DEFINE first  == Write(Keypair(Session), key)
           second == Write(Phrase(Session), key)
           made   == first \o second
           plan   == Migrate \o made
<1>1. /\ Phrase(Session) \in Files /\ Keypair(Session) \in Files /\ SeedTxt \in Files
      /\ key \in Values
      /\ Phrase(Session) # SeedTxt /\ Phrase(Session) # Keypair(Session)
      /\ Keypair(Session) # SeedTxt
  BY FileNames, SlotNames DEF Values
<1>2. /\ first \in Seq(FileSteps) /\ second \in Seq(FileSteps)
      /\ Leaves(first, Keypair(Session), key) /\ Untouched(second, Keypair(Session))
      /\ Leaves(second, Phrase(Session), key)
      /\ Untouched(first, SeedTxt) /\ Untouched(second, SeedTxt)
  BY <1>1, WriteLeaves
<1>3. CreateSession(key) = plan
  BY DEF CreateSession, WriteWallet
<1> HIDE DEF first, second
<1>4. /\ made \in Seq(FileSteps)
      /\ Leaves(made, Keypair(Session), key) /\ Leaves(made, Phrase(Session), key)
      /\ Untouched(made, SeedTxt)
  BY <1>2, PlanJoin, LeavesJoin
<1> HIDE DEF made
<1>5. /\ plan \in Seq(FileSteps)
      /\ Leaves(plan, Keypair(Session), key) /\ Leaves(plan, Phrase(Session), key)
      /\ Leaves(plan, SeedTxt, None) \/ (disk[SeedTxt] = None /\ Untouched(plan, SeedTxt))
  BY <1>4, MigrateLeaves, PlanJoin, LeavesJoin DEF Exists
<1>6. ASSUME Exists(SeedTxt) PROVE MigratesFirst(plan)
  <2>1. /\ Len(Migrate) \in Nat /\ DOMAIN Migrate = 1 .. Len(Migrate)
        /\ Len(made) \in Nat /\ DOMAIN plan = 1 .. Len(Migrate) + Len(made)
        /\ \A i \in 1 .. Len(Migrate) : plan[i] = Migrate[i]
    BY <1>4, MigrateLeaves
  <2>2. PICK h \in 1 .. Len(Migrate) : Migrate[h] = [file |-> SeedTxt, to |-> None]
    BY <1>6, <2>1, MigrateLeaves DEF Leaves
  <2>3. ASSUME NEW i \in DOMAIN plan, plan[i].file = Keypair(Session)
        PROVE  \E g \in 1 .. i - 1 : plan[g].file = SeedTxt
    <3>1. i \notin 1 .. Len(Migrate)
      BY <2>1, <2>3, MigrateLeaves DEF Untouched
    <3>2. h \in 1 .. i - 1
      BY <2>1, <3>1
    <3>3. plan[h].file = SeedTxt
      BY <2>1, <2>2
    <3>4. QED BY <3>2, <3>3
  <2> HIDE DEF plan
  <2>4. QED BY <2>3 DEF MigratesFirst
<1>7. QED BY <1>3, <1>5, <1>6

\* The migration goes first until it is done.
LEMMA MigratesFirstStep ==
  ASSUME todo \in Seq(FileSteps), todo # <<>>, MigratesFirst(todo), Head(todo).file # SeedTxt
  PROVE  Head(todo).file # Keypair(Session) /\ MigratesFirst(Tail(todo))
<1>1. /\ 1 \in DOMAIN todo /\ Head(todo) = todo[1]
      /\ DOMAIN todo = 1 .. Len(todo) /\ Len(todo) \in Nat
  BY HeadAndTail
<1>2. Head(todo).file # Keypair(Session)
  <2>1. \A h : h \notin 1 .. 1 - 1
    OBVIOUS
  <2>2. QED BY <1>1, <2>1 DEF MigratesFirst
<1>3. ASSUME NEW i \in DOMAIN Tail(todo), Tail(todo)[i].file = Keypair(Session)
      PROVE  \E h \in 1 .. i - 1 : Tail(todo)[h].file = SeedTxt
  <2>1. /\ i \in 1 .. Len(todo) - 1 /\ Tail(todo)[i] = todo[i + 1] /\ i + 1 \in DOMAIN todo
        /\ \A j \in 1 .. Len(todo) - 1 : Tail(todo)[j] = todo[j + 1]
    BY <1>1, HeadAndTail
  <2>2. PICK h \in 1 .. (i + 1) - 1 : todo[h].file = SeedTxt
    BY <1>3, <2>1 DEF MigratesFirst
  <2>3. h # 1
    BY <1>1, <2>2
  <2>4. h - 1 \in 1 .. i - 1 /\ h - 1 \in 1 .. Len(todo) - 1 /\ (h - 1) + 1 = h
    BY <1>1, <2>1, <2>2, <2>3
  <2>5. Tail(todo)[h - 1].file = SeedTxt
    BY <2>1, <2>2, <2>4
  <2>6. QED BY <2>4, <2>5
<1>4. QED BY <1>2, <1>3 DEF MigratesFirst

----------------------------------------------------------------------------
(* What the windows do while no call is at work *)

\* The files and what is planned for them, when a call is over or none is there.
LEMMA NoCallKeeps ==
  ASSUME OwnKeys, disk' = disk, todo' = <<>>, call'.name = "None"
  PROVE  Plans' /\ OwnKeys' /\ SessionMade'
<1>1. Plans'
  <2>1. <<>> \in Seq({s \in FileSteps : Fitting(s)'})
    OBVIOUS
  <2>2. QED BY <2>1 DEF Plans
<1>2. OwnKeys'
  BY DEF OwnKeys
<1>3. SessionMade'
  BY DEF SessionMade, SessionCalls
<1>4. QED BY <1>1, <1>2, <1>3

LEMMA Quiet ==
  ASSUME IInv, Idle, UNCHANGED <<storeVars, call>>
  PROVE  disk' = disk /\ todo' = <<>> /\ Plans' /\ OwnKeys' /\ SessionMade'
<1>1. disk' = disk /\ todo' = <<>> /\ call'.name = "None"
  BY DEF IInv, Control, Idle, storeVars, NoCall
<1>2. QED BY <1>1, NoCallKeeps DEF IInv

\* Reading balances.
LEMMA BalancesKeep ==
  ASSUME IInv, TriggerRefresh \/ PollBalance \/ PollList
  PROVE  IInv'
<1>1. /\ Idle /\ UNCHANGED <<storeVars, open, call, wallets, miner, recovery, pending_delete, history>>
      /\ receiver' \in {None, active.key} /\ summary' \in {None, active.key}
  BY DEF IInv, TriggerRefresh, PollBalance, PollList, StartBalance, Windows,
         BalanceIsOfActiveWallet, balances
<1>2. Plans' /\ OwnKeys' /\ SessionMade'
  BY <1>1, Quiet
<1>3. QED
  BY <1>1, <1>2 DEF IInv, Types, Control, WalletsFit, Fits, SessionAcknowledges, Windows,
     OneWalletAtATime, BalanceIsOfActiveWallet, AcknowledgedWasShown,
     storeVars, wallets, miner, recovery, history

\* Selecting a wallet forgets what was known, and required, of the one before.
LEMMA SelectKeeps ==
  ASSUME IInv, NEW w \in Wallets, Select(w),
         disk' = disk, Fits(w), ~mining, UNCHANGED miner, UNCHANGED <<material, revealed_once, revealed>>
  PROVE  /\ active' = w /\ w # NoWallet
         /\ active' # NoWallet => Fits(active)'
         /\ ~SessionAcknowledges'
         /\ ~requires_ack' /\ ~acknowledged'
         /\ Windows' /\ OneWalletAtATime' /\ BalanceIsOfActiveWallet' /\ AcknowledgedWasShown'
BY WalletOrNone DEF IInv, Select, Fits, SessionAcknowledges, Windows, OneWalletAtATime,
   BalanceIsOfActiveWallet, AcknowledgedWasShown, Cached, miner

LEMMA UseWalletKeeps ==
  ASSUME IInv, NEW w \in available, UseWallet(w)
  PROVE  IInv'
<1>1. /\ Idle /\ ~mining /\ Select(w)
      /\ UNCHANGED <<storeVars, open, call, available, miner, material, revealed_once,
                     pending_delete, history>>
  BY DEF UseWallet
<1>2. Plans' /\ OwnKeys' /\ SessionMade' /\ disk' = disk /\ todo' = <<>>
  BY <1>1, Quiet
<1>3. w \in Wallets /\ Fits(w) /\ w # NoWallet
  BY WalletOrNone DEF IInv, Types, WalletsFit
<1>4. /\ active' = w
      /\ active' # NoWallet => Fits(active)'
      /\ ~SessionAcknowledges'
      /\ ~requires_ack' /\ ~acknowledged' /\ requires_ack' \in BOOLEAN /\ acknowledged' \in BOOLEAN
      /\ Windows' /\ OneWalletAtATime' /\ BalanceIsOfActiveWallet' /\ AcknowledgedWasShown'
  BY <1>1, <1>2, <1>3, SelectKeeps DEF history, Select
<1>5. Types'
  BY <1>1, <1>3, <1>4 DEF IInv, Types, storeVars, miner, history
<1>6. Control'
  BY <1>1, <1>2, <1>3, <1>4 DEF IInv, Control, Idle, NoCall, SessionCalls, storeVars, miner
<1>7. WalletsFit'
  BY <1>1, <1>2, <1>4 DEF IInv, WalletsFit, Fits
<1>8. QED BY <1>2, <1>4, <1>5, <1>6, <1>7 DEF IInv

\* The delete window.
LEMMA DeleteWindowKeeps ==
  ASSUME IInv, CancelDelete \/ \E w \in available : RequestWalletDelete(w)
  PROVE  IInv'
<1>1. /\ Idle /\ UNCHANGED <<storeVars, open, call, wallets, miner, balances, recovery, history>>
      /\ pending_delete' \in Wallets \cup {NoWallet}
  BY DEF CancelDelete, RequestWalletDelete, IInv, Types
<1>2. Plans' /\ OwnKeys' /\ SessionMade'
  BY <1>1, Quiet
<1>3. QED
  BY <1>1, <1>2 DEF IInv, Types, Control, WalletsFit, Fits, SessionAcknowledges, Windows,
     OneWalletAtATime, BalanceIsOfActiveWallet, AcknowledgedWasShown,
     storeVars, wallets, miner, recovery, history, balances

\* What the recovery window shows of a wallet is a key, and its own where its phrase
\* file is its own.
LEMMA Recovered ==
  ASSUME disk \in [Files -> Values], OwnKeys, NEW w \in Wallets, Fits(w)
  PROVE  /\ RecoveryMaterial(w) \in Keys \cup {Torn}
         /\ w.phrase # None => RecoveryMaterial(w) = w.key
         /\ (w.slot # Session \/ disk[Phrase(Session)] \in {None, w.key})
              => RecoveryMaterial(w) \in {w.key, Torn}
<1>1. /\ w.slot \in Slots /\ w.key \in Keys
      /\ disk[Keypair(w.slot)] \in Values /\ disk[Phrase(w.slot)] \in Values
      /\ disk[Keypair(w.slot)] \in {w.key, None, Torn}
      /\ w.phrase \in {None, w.key} /\ w.slot \in {Session, w.key}
  BY WalletOrNone, FileNames DEF Fits
<1>2. w.slot # Session => disk[Phrase(w.slot)] \in {w.key, None, Torn}
  BY <1>1 DEF OwnKeys
<1>3. QED BY <1>1, <1>2, Words DEF RecoveryMaterial, Exists, Values

\* The recovery window opens: what must be acknowledged is the active wallet's.
LEMMA WindowOpens ==
  ASSUME Types, OwnKeys, Windows, AcknowledgedWasShown, NEW ra \in BOOLEAN,
         NEW w \in Wallets, Fits(w), OpenSeedPhrase(w, ra), active' = w,
         w.key = active.key \/ (~requires_ack /\ ~acknowledged /\ material = None),
         ra => w.slot # Session \/ disk[Phrase(Session)] \in {None, w.key} \/ w.phrase # None,
         UNCHANGED <<receiver, revealed>>, receiver \in {None, w.key}
  PROVE  /\ material' \in Keys \cup {None} /\ revealed_once' \in BOOLEAN
         /\ requires_ack' \in BOOLEAN /\ acknowledged' \in BOOLEAN
         /\ requires_ack' => requires_ack \/ ra
         /\ Windows' /\ AcknowledgedWasShown'
<1>1. CASE RecoveryMaterial(w) = Torn
  BY <1>1 DEF OpenSeedPhrase, Types, Windows, AcknowledgedWasShown, recovery
<1>2. CASE RecoveryMaterial(w) # Torn
  <2>1. /\ RecoveryMaterial(w) \in Keys
        /\ ra => RecoveryMaterial(w) = w.key
    BY <1>2, Recovered DEF Types
  <2>2. /\ material' = RecoveryMaterial(w) /\ revealed_once' = FALSE
        /\ requires_ack' = ra /\ acknowledged' = FALSE
    BY <1>2 DEF OpenSeedPhrase
  <2>3. QED BY <2>1, <2>2 DEF Windows, AcknowledgedWasShown
<1>3. QED BY <1>1, <1>2

LEMMA OpenRecoveryKeeps ==
  ASSUME IInv, NEW ra \in BOOLEAN, OpenRecovery(ra)
  PROVE  IInv'
<1>1. /\ Idle /\ active # NoWallet /\ OpenSeedPhrase(active, ra)
      /\ ra => requires_ack
      /\ UNCHANGED <<storeVars, open, call, wallets, miner, balances, pending_delete, history>>
  BY DEF OpenRecovery
<1>2. Plans' /\ OwnKeys' /\ SessionMade' /\ disk' = disk /\ todo' = <<>>
  BY <1>1, Quiet
<1>3. active \in Wallets /\ Fits(active)
  BY <1>1 DEF IInv, Types, WalletsFit
<1>4. ra => active.slot # Session \/ disk[Phrase(Session)] \in {None, active.key}
  BY <1>1 DEF IInv, WalletsFit, SessionAcknowledges
<1>5. /\ material' \in Keys \cup {None} /\ revealed_once' \in BOOLEAN
      /\ requires_ack' \in BOOLEAN /\ acknowledged' \in BOOLEAN
      /\ requires_ack' => requires_ack
      /\ Windows' /\ AcknowledgedWasShown'
  BY <1>1, <1>3, <1>4, WindowOpens DEF IInv, Windows, wallets, balances, history
<1>6. QED
  BY <1>1, <1>2, <1>5 DEF IInv, Types, Control, WalletsFit, Fits, SessionAcknowledges,
     OneWalletAtATime, BalanceIsOfActiveWallet, storeVars, wallets, miner, history, balances

\* The material is shown, acknowledged as saved, or the window is closed.
LEMMA RecoveryWindowKeeps ==
  ASSUME IInv, ShowMaterial \/ Acknowledge \/ CloseRecovery
  PROVE  IInv'
<1>1. /\ Idle /\ material # None /\ UNCHANGED <<storeVars, open, call, wallets, miner, balances, pending_delete>>
      /\ UNCHANGED requires_ack
  BY DEF ShowMaterial, Acknowledge, CloseRecovery
<1>2. Plans' /\ OwnKeys' /\ SessionMade' /\ disk' = disk /\ todo' = <<>>
  BY <1>1, Quiet
<1>3. active # NoWallet /\ material \in Keys
  BY <1>1 DEF IInv, Control, Types
<1>4. CASE ShowMaterial
  BY <1>1, <1>2, <1>3, <1>4 DEF ShowMaterial, IInv, Types, Control, WalletsFit, Fits, SessionAcknowledges,
     OneWalletAtATime, BalanceIsOfActiveWallet, AcknowledgedWasShown, Windows,
     storeVars, wallets, miner, balances
<1>5. CASE Acknowledge
  BY <1>1, <1>2, <1>3, <1>5 DEF Acknowledge, IInv, Types, Control, WalletsFit, Fits, SessionAcknowledges,
     OneWalletAtATime, BalanceIsOfActiveWallet, AcknowledgedWasShown, Windows,
     storeVars, wallets, miner, balances, history
<1>6. CASE CloseRecovery
  BY <1>1, <1>2, <1>3, <1>6 DEF CloseRecovery, IInv, Types, Control, WalletsFit, Fits, SessionAcknowledges,
     OneWalletAtATime, BalanceIsOfActiveWallet, AcknowledgedWasShown, Windows,
     storeVars, wallets, miner, balances, history
<1>7. QED BY <1>4, <1>5, <1>6

----------------------------------------------------------------------------
(* Mining *)

\* Mining starts with the keypair on disk, which is the wallet's.
LEMMA MiningStarts ==
  ASSUME Types, NEW w \in Wallets, Fits(w), StartNativeMining(w),
         ~mining, active' = w, disk' = disk
  PROVE  mining' \in BOOLEAN /\ OneWalletAtATime'
<1>1. CASE UNCHANGED miner
  BY <1>1 DEF miner, OneWalletAtATime, Types
<1>2. CASE disk[Keypair(w.slot)] \in Keys /\ mining' = TRUE /\ runtime' = w
  <2>1. disk[Keypair(w.slot)] = w.key
    BY <1>2, Words DEF Fits
  <2>2. QED BY <1>2, <2>1, WalletOrNone DEF OneWalletAtATime
<1>3. QED BY <1>1, <1>2 DEF StartNativeMining

LEMMA StartMiningKeeps ==
  ASSUME IInv, StartMining
  PROVE  IInv'
<1>1. /\ Idle /\ ~mining /\ active # NoWallet
      /\ StartWith(active, requires_ack /\ ~acknowledged)
      /\ UNCHANGED <<storeVars, open, call, wallets, balances, pending_delete, history>>
  BY DEF StartMining
<1>2. Plans' /\ OwnKeys' /\ SessionMade' /\ disk' = disk /\ todo' = <<>> /\ call' = NoCall
  BY <1>1, Quiet DEF Idle
<1>3. active \in Wallets /\ Fits(active) /\ active' = active
  BY <1>1 DEF IInv, Types, WalletsFit, wallets
<1>4. CASE requires_ack /\ ~acknowledged
  <2>1. OpenSeedPhrase(active, TRUE) /\ UNCHANGED miner
    BY <1>1, <1>4 DEF StartWith
  <2>2. active.slot # Session \/ disk[Phrase(Session)] \in {None, active.key}
    BY <1>4 DEF IInv, WalletsFit, SessionAcknowledges
  <2>3. /\ material' \in Keys \cup {None} /\ revealed_once' \in BOOLEAN
        /\ requires_ack' \in BOOLEAN /\ acknowledged' \in BOOLEAN
        /\ Windows' /\ AcknowledgedWasShown'
    BY <1>1, <1>3, <2>1, <2>2, WindowOpens DEF IInv, Windows, balances, history
  <2>4. QED
    BY <1>1, <1>2, <1>3, <1>4, <2>1, <2>3
    DEF IInv, Types, Control, WalletsFit, Fits, SessionAcknowledges,
        OneWalletAtATime, BalanceIsOfActiveWallet, storeVars, wallets, miner, history, balances
<1>5. CASE ~(requires_ack /\ ~acknowledged)
  <2>1. StartNativeMining(active) /\ UNCHANGED recovery
    BY <1>1, <1>5 DEF StartWith
  <2>2. mining' \in BOOLEAN /\ OneWalletAtATime'
    BY <1>1, <1>2, <1>3, <2>1, MiningStarts DEF IInv
  <2>3. QED
    BY <1>1, <1>2, <1>3, <2>1, <2>2
    DEF IInv, Types, Control, WalletsFit, Fits, SessionAcknowledges, Windows,
        BalanceIsOfActiveWallet, AcknowledgedWasShown, storeVars, wallets, recovery, history, balances
<1>6. QED BY <1>4, <1>5

LEMMA PollMiningKeeps ==
  ASSUME IInv, PollMining
  PROVE  IInv'
<1>1. /\ Idle /\ mining' = FALSE
      /\ UNCHANGED <<storeVars, open, call, wallets, balances, recovery, pending_delete, history>>
  BY DEF PollMining
<1>2. Plans' /\ OwnKeys' /\ SessionMade'
  BY <1>1, Quiet
<1>3. Types' /\ Control'
  BY <1>1 DEF IInv, Types, Control, storeVars, wallets, recovery, history
<1>4. WalletsFit' /\ Windows' /\ BalanceIsOfActiveWallet' /\ AcknowledgedWasShown'
  BY <1>1 DEF IInv, WalletsFit, Fits, SessionAcknowledges, Windows,
     BalanceIsOfActiveWallet, AcknowledgedWasShown, storeVars, wallets, balances, recovery, history
<1>5. OneWalletAtATime'
  BY <1>1 DEF OneWalletAtATime
<1>6. QED BY <1>2, <1>3, <1>4, <1>5 DEF IInv

----------------------------------------------------------------------------
(* The files, step by step *)

\* Once there is an active wallet, no step makes another of the wallets known.
LEMMA StepFits ==
  ASSUME IInv, CallStep, active # NoWallet, NEW w \in Wallets, Fits(w)
  PROVE  Fits(w)'
<1> DEFINE file == Head(todo).file
           to   == Head(todo).to
<1>1. /\ todo \in Seq(Allowed) /\ todo # <<>> /\ disk' = [disk EXCEPT ![file] = to]
      /\ disk \in [Files -> Values]
  BY DEF IInv, Types, Plans, Allowed, CallStep, FileStep
<1>2. Head(todo) \in Allowed
  BY <1>1, HeadAndTail
<1>3. /\ file \in Files /\ to \in Values
      /\ \A k \in Keys : file \in {Keypair(k), Phrase(k)} => to \in {k, None, Torn}
      /\ file = Keypair(Session) /\ to \in Keys => active = NoWallet
  BY <1>2 DEF Allowed, Fitting, FileSteps
<1>4. \A f \in Files : disk'[f] = IF f = file THEN to ELSE disk[f]
  BY <1>1, <1>3
<1> HIDE DEF file, to
<1>5. w.slot \in Slots /\ Keypair(w.slot) \in Files /\ w.key \in Keys /\ w.slot \in {Session, w.key}
  BY WalletOrNone, FileNames DEF Fits
<1>6. file = Keypair(w.slot) => to \in {w.key, None, Torn}
  BY <1>3, <1>5 DEF Values
<1>7. disk'[Keypair(w.slot)] \in {w.key, None, Torn}
  BY <1>4, <1>5, <1>6 DEF Fits
<1>8. QED BY <1>7 DEF Fits

\* A step that fits leaves every file as it may be.
LEMMA CallStepKeeps ==
  ASSUME IInv, CallStep
  PROVE  IInv'
<1> DEFINE file == Head(todo).file
           to   == Head(todo).to
<1>1. /\ FileStep
      /\ UNCHANGED <<open, call, wallets, miner, balances, recovery, pending_delete, history>>
  BY DEF CallStep
<1>2. /\ todo \in Seq(Allowed) /\ todo # <<>> /\ todo' = Tail(todo)
      /\ disk' = [disk EXCEPT ![file] = to]
  BY <1>1 DEF IInv, Plans, Allowed, FileStep
<1>3. /\ Head(todo) \in Allowed /\ Tail(todo) \in Seq(Allowed)
  BY <1>2, HeadAndTail
<1>4. /\ Head(todo) \in FileSteps /\ file \in Files /\ to \in Values
      /\ \A k \in Keys : file \in {Keypair(k), Phrase(k)} => to \in {k, None, Torn}
      /\ file = Keypair(Session) /\ to \in Keys => active = NoWallet
      /\ file = Phrase(Session) /\ to # None => ~SessionAcknowledges
      /\ file = SeedTxt => to = None
  BY <1>3 DEF Allowed, Fitting, FileSteps
<1>5. disk \in [Files -> Values]
  BY DEF IInv, Types
<1>6. todo \in Seq(FileSteps)
  <2>1. Allowed \subseteq FileSteps
    BY DEF Allowed
  <2> HIDE DEF file, to
  <2>2. QED BY <1>2, <2>1
<1>7. \A f \in Files : disk'[f] = IF f = file THEN to ELSE disk[f]
  BY <1>2, <1>4, <1>5
<1> HIDE DEF file, to
<1>8. Types'
  BY <1>1, <1>2, <1>4, <1>5
  DEF IInv, Types, wallets, miner, recovery, history
<1>9. call # NoCall /\ ~mining /\ mining' = mining
  BY <1>1, <1>2 DEF IInv, Control, miner
<1>10. Control'
  BY <1>1, <1>2, <1>9 DEF IInv, Control, wallets, miner, recovery, SessionCalls
<1>11. Plans'
  <2>1. todo' \in Seq(Allowed) /\ UNCHANGED <<active, requires_ack>>
    BY <1>1, <1>2, <1>3 DEF wallets, recovery
  <2>2. QED BY <2>1, PlansKept
<1>12. OwnKeys'
  BY <1>4, <1>7, FileNames, SlotNames DEF IInv, OwnKeys
<1>13. ASSUME NEW w \in Wallets, Fits(w), active # NoWallet
       PROVE  Fits(w)'
  BY <1>13, StepFits
<1>14. WalletsFit'
  <2>1. active = NoWallet => available = {}
    BY DEF IInv, Control
  <2>2. available' = available /\ active' = active /\ requires_ack' = requires_ack
    BY <1>1 DEF wallets, recovery
  <2>3. \A w \in available : Fits(w)'
    BY <1>13, <2>1 DEF IInv, Types, WalletsFit
  <2>4. \A w \in Wallets : w = active /\ active # NoWallet => Fits(w)'
    BY <1>13 DEF IInv, WalletsFit
  <2>5. SessionAcknowledges => disk'[SeedTxt] = None /\ disk'[Phrase(Session)] \in {None, active.key}
    BY <1>4, <1>7, FileNames, SlotNames DEF IInv, WalletsFit
  <2>6. active \in Wallets \cup {NoWallet}
    BY DEF IInv, Types
  <2>7. \A w \in available' : Fits(w)'
    BY <2>2, <2>3
  <2>8. active' # NoWallet => Fits(active)'
    BY <2>2, <2>4, <2>6 DEF Fits
  <2>9. SessionAcknowledges' <=> SessionAcknowledges
    BY <2>2 DEF SessionAcknowledges
  <2>10. QED BY <2>2, <2>5, <2>7, <2>8, <2>9 DEF WalletsFit
<1>15. SessionMade'
  <2>1. \A f \in Files : \A v : Settles(f, v) => Settles(f, v)'
    BY <1>1, <1>5, <1>6, SettlesStep
  <2>2. call' = call
    BY <1>1
  <2>3. ASSUME call.name \in SessionCalls, call.key # None, call.ok
        PROVE  /\ call.part # "Listing"
               /\ Settles(Keypair(Session), call.key)'
               /\ Settles(Phrase(Session), call.key)'
               /\ Settles(SeedTxt, None)'
    <3>1. /\ call.part # "Listing"
          /\ Settles(Keypair(Session), call.key)
          /\ Settles(Phrase(Session), call.key)
          /\ Settles(SeedTxt, None)
      BY <2>3 DEF IInv, SessionMade
    <3>2. \A v : v = call.key => Settles(Keypair(Session), v)' /\ Settles(Phrase(Session), v)'
      BY <2>1, <3>1, FileNames, SlotNames
    <3>3. Settles(SeedTxt, None)'
      BY <2>1, <3>1, FileNames
    <3>4. QED BY <2>2, <3>1, <3>2, <3>3 DEF Settles
  <2>4. ASSUME call.name = "Open", call.key # None, call.part = "First", disk'[SeedTxt] # None
        PROVE  disk'[Keypair(Session)] = None /\ MigratesFirst(todo')
    <3>1. file # SeedTxt /\ disk[SeedTxt] # None
      BY <1>4, <1>7, <2>4, FileNames
    <3>2. disk[Keypair(Session)] = None /\ MigratesFirst(todo)
      BY <2>4, <3>1 DEF IInv, SessionMade, Exists
    <3>3. file # Keypair(Session) /\ MigratesFirst(Tail(todo))
      BY <1>2, <1>6, <3>1, <3>2, MigratesFirstStep DEF file
    <3>4. QED BY <1>2, <1>7, <3>2, <3>3, FileNames, SlotNames
  <2>5. QED BY <2>2, <2>3, <2>4 DEF SessionMade, Exists, MigratesFirst
<1>16. Windows' /\ OneWalletAtATime' /\ BalanceIsOfActiveWallet' /\ AcknowledgedWasShown'
  BY <1>1, <1>9 DEF IInv, Windows, OneWalletAtATime, BalanceIsOfActiveWallet, AcknowledgedWasShown,
     wallets, miner, balances, recovery, history
<1>17. QED BY <1>8, <1>10, <1>11, <1>12, <1>14, <1>15, <1>16 DEF IInv

\* What was on the files stays, and the rest of the plan is dropped.
LEMMA CallFailsKeeps ==
  ASSUME IInv, CallFails
  PROVE  IInv'
<1>1. /\ todo # <<>> /\ todo' = <<>> /\ disk' = disk
      /\ call' = [call EXCEPT !.ok = @ /\ call.part = "Listing"]
      /\ UNCHANGED <<open, wallets, miner, balances, recovery, pending_delete, history>>
  BY DEF CallFails, CutShort
<1>2. /\ call \in [name: CallNames, key: Keys \cup {None}, ok: BOOLEAN,
                   part: {"First", "Creating", "Listing"}]
  BY DEF IInv, Types
<1>3. /\ call' \in [name: CallNames, key: Keys \cup {None}, ok: BOOLEAN,
                    part: {"First", "Creating", "Listing"}]
      /\ call'.name = call.name /\ call'.key = call.key /\ call'.part = call.part
      /\ call'.ok => call.ok /\ call.part = "Listing"
  BY <1>1, <1>2
<1>4. call # NoCall /\ ~mining /\ mining' = mining
  BY <1>1 DEF IInv, Control, miner
<1>5. Types'
  BY <1>1, <1>3, <1>4 DEF IInv, Types, wallets, recovery, history
<1>6. Control'
  BY <1>1, <1>3, <1>4 DEF IInv, Control, wallets, miner, recovery
<1>7. Plans' /\ OwnKeys'
  <2>1. todo' \in Seq(Allowed) /\ UNCHANGED <<active, requires_ack>>
    BY <1>1 DEF wallets, recovery
  <2>2. QED BY <1>1, <2>1, PlansKept DEF IInv, OwnKeys
<1>8. SessionMade'
  <2>1. MigratesFirst(<<>>)
    BY DEF MigratesFirst
  <2>2. ~(call'.name \in SessionCalls /\ call'.key # None /\ call'.ok)
    BY <1>3 DEF IInv, SessionMade
  <2>3. call'.name = "Open" /\ call'.key # None /\ call'.part = "First" /\ disk'[SeedTxt] # None
          => disk'[Keypair(Session)] = None
    BY <1>1, <1>3 DEF IInv, SessionMade, Exists
  <2>4. MigratesFirst(todo)'
    BY <1>1, <2>1 DEF MigratesFirst
  <2>5. QED BY <2>2, <2>3, <2>4 DEF SessionMade, Exists
<1>9. WalletsFit' /\ Windows' /\ BalanceIsOfActiveWallet' /\ AcknowledgedWasShown'
  BY <1>1 DEF IInv, WalletsFit, Fits, SessionAcknowledges, Windows,
     BalanceIsOfActiveWallet, AcknowledgedWasShown, wallets, balances, recovery, history
<1>10. OneWalletAtATime'
  BY <1>4 DEF OneWalletAtATime
<1>11. QED BY <1>5, <1>6, <1>7, <1>8, <1>9, <1>10 DEF IInv

\* A call tries again what could not be migrated: the session wallet is made, or only the
\* migration done.
LEMMA RetryKeeps ==
  ASSUME IInv, Retry
  PROVE  IInv'
<1> DEFINE creates == call.name = "Open" /\ call.part = "First"
<1>1. /\ open /\ todo = <<>> /\ Exists(SeedTxt) /\ call.part # "Listing"
      /\ call.name \in {"Open", "Create", "ImportPhrase", "ImportKey", "Delete"}
      /\ disk' = disk
      /\ UNCHANGED <<open, wallets, miner, balances, recovery, pending_delete, history>>
  BY DEF Retry, RetryDue
<1>2. /\ call' = [call EXCEPT !.ok = @ \/ creates, !.part = IF creates THEN "Creating" ELSE "Listing"]
      /\ todo' = IF creates THEN CreateSession(call.key) ELSE Migrate
  BY DEF Retry
<1>3. call \in [name: CallNames, key: Keys \cup {None}, ok: BOOLEAN,
                part: {"First", "Creating", "Listing"}]
  BY DEF IInv, Types
<1>4. /\ call' \in [name: CallNames, key: Keys \cup {None}, ok: BOOLEAN,
                    part: {"First", "Creating", "Listing"}]
      /\ call'.name = call.name /\ call'.key = call.key
      /\ call'.part = IF creates THEN "Creating" ELSE "Listing"
      /\ ~creates => call'.ok = call.ok
  BY <1>2, <1>3
<1>5. call # NoCall /\ call' # NoCall /\ ~mining /\ mining' = mining
  BY <1>1, <1>4 DEF IInv, Control, miner, NoCall
<1>6. Types'
  BY <1>1, <1>4, <1>5 DEF IInv, Types, wallets, recovery, history
<1>7. Control'
  BY <1>1, <1>4, <1>5 DEF IInv, Control, wallets, miner, recovery
<1>8. disk \in [Files -> Values] /\ call.key \in Keys \cup {None}
  BY <1>3 DEF IInv, Types
<1>9. creates => active = NoWallet /\ ~requires_ack
  BY DEF IInv, Control, SessionCalls
<1>10. Plans' /\ OwnKeys'
  <2>1. ~SessionAcknowledges
    BY <1>1 DEF IInv, WalletsFit, Exists
  <2>2. todo' \in Seq(Allowed)
    BY <1>2, <1>8, <1>9, <2>1, MigrateFits, CreateSessionFits
  <2>3. UNCHANGED <<active, requires_ack>>
    BY <1>1 DEF wallets, recovery
  <2>4. QED BY <1>1, <2>2, <2>3, PlansKept DEF IInv, OwnKeys
<1>11. SessionMade'
  <2>1. CASE creates /\ call.key # None
    <3>1. call.key \in Keys /\ ~Exists(Keypair(Session))
      BY <1>1, <1>8, <2>1 DEF IInv, SessionMade
    <3>2. todo' = CreateSession(call.key)
      BY <1>2, <2>1
    <3>3. /\ Leaves(todo', Keypair(Session), call.key)
          /\ Leaves(todo', Phrase(Session), call.key)
          /\ Leaves(todo', SeedTxt, None) \/ (disk[SeedTxt] = None /\ Untouched(todo', SeedTxt))
      BY <1>8, <3>1, <3>2, CreateSessionSettles
    <3>4. /\ Settles(Keypair(Session), call.key)' /\ Settles(Phrase(Session), call.key)'
          /\ Settles(SeedTxt, None)'
      BY <1>1, <1>4, <3>3 DEF Settles, Leaves, Untouched
    <3>5. call'.part = "Creating"
      BY <1>4, <2>1
    <3>6. QED BY <1>4, <3>4, <3>5 DEF SessionMade, Settles
  <2>2. CASE ~creates /\ call.key # None
    <3>1. ~(call.name \in SessionCalls /\ call.ok)
      <4>1. SUFFICES ASSUME call.name \in SessionCalls, call.ok PROVE FALSE
        OBVIOUS
      <4>2. Settles(SeedTxt, None)
        BY <2>2, <4>1 DEF IInv, SessionMade
      <4>3. disk[SeedTxt] = None
        BY <1>1, <4>2 DEF Settles, Leaves
      <4>4. QED BY <1>1, <4>3 DEF Exists
    <3>2. call'.part = "Listing"
      BY <1>4, <2>2
    <3>3. QED BY <1>4, <2>2, <3>1, <3>2 DEF SessionMade
  <2>3. CASE call.key = None
    BY <1>4, <2>3 DEF SessionMade
  <2>4. QED BY <2>1, <2>2, <2>3
<1>12. WalletsFit' /\ Windows' /\ BalanceIsOfActiveWallet' /\ AcknowledgedWasShown'
  BY <1>1 DEF IInv, WalletsFit, Fits, SessionAcknowledges, Windows,
     BalanceIsOfActiveWallet, AcknowledgedWasShown, wallets, balances, recovery, history
<1>13. OneWalletAtATime'
  BY <1>5 DEF OneWalletAtATime
<1>14. QED BY <1>6, <1>7, <1>10, <1>11, <1>12, <1>13 DEF IInv

\* The program ends, in the middle of a call or not.
LEMMA QuitKeeps ==
  ASSUME IInv, Quit
  PROVE  IInv'
<1>1. /\ todo' = <<>> /\ disk' = disk
  BY DEF Quit, CutShort, storeVars
<1>2. /\ open' = FALSE /\ call' = NoCall
      /\ available' = {} /\ active' = NoWallet /\ mining' = FALSE
      /\ receiver' = None /\ summary' = None /\ material' = None
      /\ revealed_once' = FALSE /\ requires_ack' = FALSE /\ acknowledged' = FALSE
      /\ pending_delete' = NoWallet /\ UNCHANGED history
  BY DEF Quit
<1>3. call'.name = "None"
  BY <1>2 DEF NoCall
<1>4. Plans' /\ OwnKeys' /\ SessionMade'
  BY <1>1, <1>3, NoCallKeeps DEF IInv
<1>5. NoCall \in [name: CallNames, key: Keys \cup {None}, ok: BOOLEAN,
                  part: {"First", "Creating", "Listing"}]
  BY DEF NoCall, CallNames
<1>6. Types'
  BY <1>1, <1>2, <1>5 DEF IInv, Types, history
<1>7. Control'
  BY <1>1, <1>2, <1>3 DEF Control, SessionCalls
<1>8. WalletsFit' /\ Windows' /\ OneWalletAtATime' /\ BalanceIsOfActiveWallet' /\ AcknowledgedWasShown'
  BY <1>2 DEF WalletsFit, SessionAcknowledges, Windows, OneWalletAtATime, BalanceIsOfActiveWallet,
     AcknowledgedWasShown
<1>9. QED BY <1>4, <1>6, <1>7, <1>8 DEF IInv

----------------------------------------------------------------------------
(* Calls begin *)

\* A call begins: the windows stand still.
LEMMA CallBegins ==
  ASSUME IInv, disk' = disk, UNCHANGED <<wallets, miner, balances, recovery, pending_delete, revealed>>,
         todo' \in Seq(Allowed), SessionMade', open' = TRUE, ~mining,
         call' \in [name: CallNames \ {"None"}, key: Keys \cup {None}, ok: BOOLEAN,
                    part: {"First", "Creating", "Listing"}],
         call'.name \in SessionCalls => active = NoWallet,
         call'.name \in {"Create", "ImportPhrase", "ImportKey"} => call'.key \in Keys
  PROVE  IInv'
<1>1. call' # NoCall
  BY DEF NoCall
<1>2. call' \in [name: CallNames, key: Keys \cup {None}, ok: BOOLEAN,
                 part: {"First", "Creating", "Listing"}]
  OBVIOUS
<1>3. Types'
  BY <1>2 DEF IInv, Types, wallets, miner, recovery
<1>4. Control'
  BY <1>1 DEF IInv, Control, wallets, miner, recovery
<1>5. Plans' /\ OwnKeys'
  <2>1. UNCHANGED <<active, requires_ack>>
    BY DEF wallets, recovery
  <2>2. QED BY <2>1, PlansKept DEF IInv, OwnKeys
<1>6. WalletsFit' /\ Windows' /\ BalanceIsOfActiveWallet' /\ AcknowledgedWasShown'
  BY DEF IInv, WalletsFit, Fits, SessionAcknowledges, Windows,
     BalanceIsOfActiveWallet, AcknowledgedWasShown, wallets, balances, recovery
<1>7. OneWalletAtATime'
  BY DEF OneWalletAtATime, miner
<1>8. QED BY <1>3, <1>4, <1>5, <1>6, <1>7 DEF IInv

\* Loading the session wallet, or making it.
LEMMA CallSessionBegins ==
  ASSUME IInv, NEW name \in SessionCalls, CallSession(name), active = NoWallet,
         UNCHANGED <<wallets, miner, balances, recovery, pending_delete, revealed>>, open' = TRUE
  PROVE  IInv'
<1>1. ~requires_ack /\ ~mining /\ disk \in [Files -> Values]
  BY DEF IInv, Control, Types
<1>2. name \in CallNames \ {"None"}
  BY DEF SessionCalls, CallNames
<1>3. CASE Exists(Keypair(Session))
  <2>1. /\ call' = [name |-> name, key |-> None, ok |-> TRUE, part |-> "First"]
        /\ todo' = Migrate /\ disk' = disk
    BY <1>3 DEF CallSession, Call
  <2>2. todo' \in Seq(Allowed)
    BY <1>1, <2>1, MigrateFits DEF SessionAcknowledges
  <2>3. SessionMade'
    BY <2>1 DEF SessionMade
  <2>4. /\ call' \in [name: CallNames \ {"None"}, key: Keys \cup {None}, ok: BOOLEAN,
                      part: {"First", "Creating", "Listing"}]
        /\ call'.name = name
    BY <1>2, <2>1
  <2>5. name \notin {"Create", "ImportPhrase", "ImportKey"}
    BY DEF SessionCalls
  <2>6. QED BY <1>1, <2>1, <2>2, <2>3, <2>4, <2>5, CallBegins
<1>4. CASE ~Exists(Keypair(Session))
  <2>1. PICK key \in FreshKeys \ generated : Call(name, key, CreateSession(key))
    BY <1>4 DEF CallSession
  <2>2. /\ call' = [name |-> name, key |-> key, ok |-> TRUE, part |-> "First"]
        /\ todo' = CreateSession(key) /\ disk' = disk
        /\ key \in Keys /\ key # None
    BY <2>1, Words DEF Call
  <2>3. todo' \in Seq(Allowed)
    BY <1>1, <2>2, CreateSessionFits
  <2>4. /\ Leaves(todo', Keypair(Session), key)
        /\ Leaves(todo', Phrase(Session), key)
        /\ Leaves(todo', SeedTxt, None) \/ (disk[SeedTxt] = None /\ Untouched(todo', SeedTxt))
        /\ Exists(SeedTxt) => MigratesFirst(todo')
    BY <1>1, <1>4, <2>2, CreateSessionSettles
  <2>5. call'.name = name /\ call'.key = key /\ call'.part = "First"
    BY <2>2
  <2>6. SessionMade'
    <3>1. /\ Settles(Keypair(Session), key)' /\ Settles(Phrase(Session), key)'
          /\ Settles(SeedTxt, None)'
      BY <2>2, <2>4 DEF Settles, Leaves, Untouched
    <3>2. Exists(SeedTxt)' => ~Exists(Keypair(Session))' /\ MigratesFirst(todo)'
      BY <1>4, <2>2, <2>4 DEF Exists, MigratesFirst
    <3>3. QED BY <2>5, <3>1, <3>2 DEF SessionMade, Settles
  <2>7. /\ call' \in [name: CallNames \ {"None"}, key: Keys \cup {None}, ok: BOOLEAN,
                      part: {"First", "Creating", "Listing"}]
    BY <1>2, <2>2
  <2>8. name \notin {"Create", "ImportPhrase", "ImportKey"}
    BY DEF SessionCalls
  <2>9. QED BY <1>1, <2>2, <2>3, <2>5, <2>6, <2>7, <2>8, CallBegins
<1>5. QED BY <1>3, <1>4

LEMMA SessionCallsBegin ==
  ASSUME IInv, Open \/ Withdraw \/ \E name \in {"Deposit", "Start"} : EnsureActiveWallet(name)
  PROVE  IInv'
<1>1. CASE Open
  <2>1. active = NoWallet
    BY <1>1 DEF IInv, Control, Open
  <2>2. /\ CallSession("Open") /\ open' = TRUE
        /\ UNCHANGED <<wallets, miner, balances, recovery, pending_delete, revealed>>
    BY <1>1 DEF Open
  <2>3. "Open" \in SessionCalls
    BY DEF SessionCalls
  <2>4. QED BY <2>1, <2>2, <2>3, CallSessionBegins
<1>2. ASSUME NEW name \in {"Deposit", "Start"}, EnsureActiveWallet(name)
      PROVE  IInv'
  <2>1. /\ active = NoWallet /\ CallSession(name) /\ open' = TRUE
        /\ UNCHANGED <<wallets, miner, balances, recovery, pending_delete, revealed>>
    BY <1>2 DEF EnsureActiveWallet, Idle, IInv, Types
  <2>2. name \in SessionCalls
    BY DEF SessionCalls
  <2>3. QED BY <2>1, <2>2, CallSessionBegins
<1>3. CASE Withdraw
  <2>1. /\ active = NoWallet /\ CallSession("Withdraw") /\ open' = TRUE
        /\ UNCHANGED <<wallets, miner, balances, recovery, pending_delete, revealed>>
    BY <1>3 DEF Withdraw, Idle, IInv, Types
  <2>2. "Withdraw" \in SessionCalls
    BY DEF SessionCalls
  <2>3. QED BY <2>1, <2>2, CallSessionBegins
<1>4. QED BY <1>1, <1>2, <1>3

\* Creating, importing or deleting a wallet: none of them touches another key's files.
LEMMA WalletCallBegins ==
  ASSUME IInv, NEW name \in {"Create", "ImportPhrase", "ImportKey", "Delete"},
         NEW key \in Keys, NEW plan \in Seq(Allowed), Call(name, key, plan), Idle, ~mining,
         UNCHANGED <<open, wallets, miner, balances, recovery, pending_delete, revealed>>
  PROVE  IInv'
<1>1. /\ call' = [name |-> name, key |-> key, ok |-> TRUE, part |-> "First"]
      /\ todo' = plan /\ disk' = disk /\ open' = TRUE
  BY DEF Call, Idle, IInv, Types
<1>2. call'.name = name /\ name \notin SessionCalls /\ call'.key = key
  BY <1>1 DEF SessionCalls
<1>3. SessionMade'
  <2>1. "Open" \in SessionCalls
    BY DEF SessionCalls
  <2>2. QED BY <1>2, <2>1 DEF SessionMade
<1>4. call' \in [name: CallNames \ {"None"}, key: Keys \cup {None}, ok: BOOLEAN,
                 part: {"First", "Creating", "Listing"}]
  BY <1>1 DEF CallNames
<1>5. QED BY <1>1, <1>2, <1>3, <1>4, CallBegins

LEMMA WalletCallsBegin ==
  ASSUME IInv, CreateManagedWallet \/ ImportManagedWallet \/ ConfirmWalletDelete
  PROVE  IInv'
<1>1. CASE CreateManagedWallet
  <2>1. PICK key \in FreshKeys \ generated : Call("Create", key, CreateDedicatedWallet(key))
    BY <1>1 DEF CreateManagedWallet
  <2>2. key \in Keys /\ CreateDedicatedWallet(key) \in Seq(Allowed)
    BY Words, OwnWalletFits DEF CreateDedicatedWallet
  <2>3. Idle /\ ~mining /\ UNCHANGED <<open, wallets, miner, balances, recovery, pending_delete, revealed>>
    BY <1>1 DEF CreateManagedWallet
  <2>4. QED BY <2>1, <2>2, <2>3, WalletCallBegins
<1>2. CASE ImportManagedWallet
  <2>1. PICK key \in ForeignKeys \cup (revealed \ KeysOf(available)), with_phrase \in BOOLEAN :
          Call(IF with_phrase THEN "ImportPhrase" ELSE "ImportKey", key, ImportWallet(key, with_phrase))
    BY <1>2 DEF ImportManagedWallet
  <2>2. key \in Keys /\ ImportWallet(key, with_phrase) \in Seq(Allowed)
    BY Words, OwnWalletFits DEF ImportWallet, IInv, Types
  <2>3. /\ Idle /\ ~mining
        /\ UNCHANGED <<open, wallets, miner, balances, recovery, pending_delete, revealed>>
    BY <1>2 DEF ImportManagedWallet, history
  <2>4. QED BY <2>1, <2>2, <2>3, WalletCallBegins
<1>3. CASE ConfirmWalletDelete
  <2>1. /\ Idle /\ ~mining /\ pending_delete \in Wallets
        /\ Call("Delete", pending_delete.key, DeleteManagedWallet(pending_delete))
        /\ UNCHANGED <<open, wallets, miner, balances, recovery, pending_delete, revealed>>
    BY <1>3 DEF ConfirmWalletDelete, history, IInv, Types
  <2>2. pending_delete.key \in Keys /\ DeleteManagedWallet(pending_delete) \in Seq(Allowed)
    BY <2>1, WalletOrNone, DeleteFits
  <2>3. QED BY <2>1, <2>2, WalletCallBegins
<1>4. QED BY <1>1, <1>2, <1>3

----------------------------------------------------------------------------
(* Calls return *)

LEMMA CallReturns ==
  ASSUME IInv, NEW name, name # "None", Returns(name)
  PROVE  /\ call.name = name /\ todo = <<>> /\ disk' = disk /\ todo' = <<>>
         /\ call' = NoCall /\ call'.name = "None" /\ open' = open /\ open = TRUE
         /\ ~mining
         /\ Plans' /\ OwnKeys' /\ SessionMade'
<1>1. /\ call.name = name /\ todo = <<>> /\ disk' = disk /\ todo' = <<>>
      /\ call' = NoCall /\ call'.name = "None" /\ open' = open /\ open = TRUE
  BY DEF Returns, storeVars, NoCall, IInv, Types
<1>2. ~mining
  BY <1>1 DEF IInv, Control, NoCall
<1>3. QED BY <1>1, <1>2, NoCallKeeps DEF IInv

\* NoCall has its type, and needs nothing.
LEMMA NoCallType ==
  /\ NoCall \in [name: CallNames, key: Keys \cup {None}, ok: BOOLEAN,
                 part: {"First", "Creating", "Listing"}]
  /\ NoCall.name \notin SessionCalls
  /\ NoCall.name \notin {"Create", "ImportPhrase", "ImportKey"}
BY DEF NoCall, CallNames, SessionCalls

\* What a listing finds is true of the files.
LEMMA ListedFit ==
  ASSUME disk \in [Files -> Values], OwnKeys, NEW w \in ListManagedWallets
  PROVE  w \in Wallets /\ w # NoWallet /\ Fits(w) /\ w.key = disk[Keypair(w.slot)]
<1>1. PICK s \in Slots : /\ disk[Keypair(s)] \in Keys
                         /\ w = Managed(s, disk[Keypair(s)], Exists(Phrase(s)), None)
  BY DEF ListManagedWallets
<1>2. Exists(Phrase(s)) \in BOOLEAN
  BY DEF Exists
<1>3. /\ w \in Wallets /\ w.slot = s /\ w.key = disk[Keypair(s)] /\ w.phrase = None
  BY <1>1, <1>2, ManagedParts
<1>4. s \in {Session, w.key}
  BY <1>1, <1>3, Words DEF OwnKeys, Slots
<1>5. QED BY <1>3, <1>4, WalletOrNone DEF Fits

\* The list of wallets after a call.
LEMMA AfterListing ==
  ASSUME IInv, NEW w \in Listed
  PROVE  w \in Wallets /\ w # NoWallet /\ Fits(w)
BY ListedFit, WalletOrNone DEF Listed, IInv, Types, WalletsFit

\* One of the wallets, or of the others; none only if there are none.
LEMMA Chosen ==
  ASSUME NEW key, NEW others, NEW w \in Choices(key, others)
  PROVE  /\ w \in available' \cup others \cup {NoWallet}
         /\ w = NoWallet => w \in available' \cup others
<1> DEFINE same == {v \in available' : v.key = key}
<1>1. CASE same = {}
  BY <1>1 DEF Choices
<1>2. CASE same # {}
  <2>1. w \in Firsts(same)
    BY <1>2 DEF Choices
  <2>2. w \in same
    BY <1>2, <2>1 DEF Firsts
  <2>3. QED BY <2>2
<1>3. QED BY <1>1, <1>2

LEMMA FirstsOf ==
  ASSUME NEW ws, NEW w \in Firsts(ws)
  PROVE  w \in ws \/ (w = NoWallet /\ ws = {})
BY DEF Firsts

\* The session wallet that a call returns; if the call has made it, both files have its
\* key and no earlier phrase is left.
LEMMA SessionReturned ==
  ASSUME IInv, todo = <<>>, call.name \in SessionCalls, SessionWallet # NoWallet
  PROVE  LET w == SessionWallet
         IN  /\ w \in Wallets /\ Fits(w) /\ w.slot = Session /\ w.key = disk[Keypair(Session)]
             /\ w.phrase = call.key
             /\ call.key # None => /\ w.key = call.key /\ disk[Phrase(Session)] = call.key
                                   /\ disk[SeedTxt] = None
<1>1. /\ call.ok /\ disk[Keypair(Session)] \in Keys
      /\ SessionWallet = Managed(Session, disk[Keypair(Session)], Exists(Phrase(Session)), call.key)
  BY DEF SessionWallet
<1>2. call.key \in Keys \cup {None} /\ Exists(Phrase(Session)) \in BOOLEAN
  BY DEF IInv, Types, Exists
<1>3. /\ SessionWallet \in Wallets /\ SessionWallet.slot = Session
      /\ SessionWallet.key = disk[Keypair(Session)] /\ SessionWallet.phrase = call.key
  BY <1>1, <1>2, ManagedParts, SlotNames
<1>4. ASSUME call.key # None
      PROVE  /\ disk[Keypair(Session)] = call.key /\ disk[Phrase(Session)] = call.key
             /\ disk[SeedTxt] = None
  <2>1. /\ Settles(Keypair(Session), call.key) /\ Settles(Phrase(Session), call.key)
        /\ Settles(SeedTxt, None)
    BY <1>1, <1>4 DEF IInv, SessionMade
  <2>2. \A f, v : ~Leaves(<<>>, f, v)
    BY DEF Leaves
  <2>3. QED BY <2>1, <2>2 DEF Settles
<1>5. QED BY <1>3, <1>4 DEF Fits

\* The studio is open: the wallet of the preferences or the session wallet is selected.
LEMMA OpenedKeeps ==
  ASSUME IInv, Opened
  PROVE  IInv'
<1> DEFINE session == SessionWallet
           made    == session # NoWallet /\ call.key # None
<1>1. /\ call.name = "Open" /\ todo = <<>> /\ disk' = disk /\ todo' = <<>>
      /\ call' = NoCall /\ open' = open /\ open = TRUE /\ ~mining
      /\ Plans' /\ OwnKeys' /\ SessionMade'
  BY CallReturns DEF Opened
<1>2. call.name \in SessionCalls
  BY <1>1 DEF SessionCalls
<1>3. /\ active = NoWallet /\ available = {} /\ material = None
      /\ ~requires_ack /\ ~acknowledged /\ receiver = None /\ summary = None
  BY <1>2, WalletOrNone DEF IInv, Control, Windows, BalanceIsOfActiveWallet
<1>4. /\ available' = Listed
      /\ active' \in Choices(prefs, IF session # NoWallet THEN {session} ELSE Firsts(available'))
      /\ requires_ack' = made
      /\ receiver' = active'.key
      /\ UNCHANGED <<miner, summary, material, revealed_once, acknowledged, pending_delete, history>>
  BY <1>3 DEF Opened, StartBalance
<1>5. session # NoWallet =>
        /\ session \in Wallets /\ Fits(session) /\ session.slot = Session
        /\ session.key = disk[Keypair(Session)]
        /\ call.key # None => /\ session.key = call.key /\ disk[Phrase(Session)] = call.key
                              /\ disk[SeedTxt] = None
  BY <1>1, <1>2, SessionReturned
<1>6. \A w \in available' : w \in Wallets /\ w # NoWallet /\ Fits(w)
  BY <1>4, AfterListing
<1>7. ASSUME NEW w \in Choices(prefs, IF session # NoWallet THEN {session} ELSE Firsts(available'))
      PROVE  /\ w \in available' \/ (w = session /\ session # NoWallet) \/ w = NoWallet
             /\ w = NoWallet => session = NoWallet /\ available' = {}
  <2>1. CASE session # NoWallet
    BY <1>6, <2>1, Chosen
  <2>2. CASE session = NoWallet
    <3>1. w \in Choices(prefs, Firsts(available'))
      BY <2>2
    <3>2. NoWallet \in Firsts(available') => available' = {}
      BY <1>6, FirstsOf
    <3>3. w \in available' \cup Firsts(available') \cup {NoWallet}
      BY <3>1, Chosen
    <3>4. w = NoWallet => w \in available' \cup Firsts(available')
      BY <3>1, Chosen
    <3>5. QED BY <1>6, <2>2, <3>2, <3>3, <3>4, FirstsOf
  <2>3. QED BY <2>1, <2>2
<1> HIDE DEF session
<1>8. /\ active' \in Wallets \cup {NoWallet}
      /\ active' = NoWallet => ~made /\ available' = {}
      /\ active' \in available' \/ (active' = session /\ session # NoWallet) \/ active' = NoWallet
  BY <1>4, <1>5, <1>6, <1>7
<1>9. active' # NoWallet => Fits(active)'
  <2>1. \A w : w \in available' \/ (w = session /\ session # NoWallet) => Fits(w)
    BY <1>5, <1>6
  <2>2. QED BY <1>1, <1>8, <2>1 DEF Fits
<1>10. SessionAcknowledges' => disk'[SeedTxt] = None /\ disk'[Phrase(Session)] \in {None, active'.key}
  <2>1. SUFFICES ASSUME made, active'.slot = Session
                 PROVE  disk[SeedTxt] = None /\ disk[Phrase(Session)] \in {None, active'.key}
    BY <1>1, <1>4 DEF SessionAcknowledges
  <2>2. disk[SeedTxt] = None /\ disk[Phrase(Session)] = call.key /\ disk[Keypair(Session)] = call.key
    BY <1>5, <2>1
  <2>3. Listed = ListManagedWallets
    BY <2>2 DEF Listed, Exists
  <2>4. \A w \in ListManagedWallets : w.key = disk[Keypair(w.slot)]
    BY ListedFit DEF IInv, Types
  <2>5. active'.key = call.key
    BY <1>4, <1>5, <1>8, <2>1, <2>2, <2>3, <2>4
  <2>6. QED BY <2>2, <2>5
<1>11. Types'
  BY <1>1, <1>4, <1>6, <1>8, NoCallType DEF IInv, Types, miner, history
<1>12. Control'
  BY <1>1, <1>3, <1>4, <1>8, NoCallType DEF Control, miner
<1>13. WalletsFit'
  <2>1. \A w \in available' : Fits(w)'
    BY <1>1, <1>6 DEF Fits
  <2>2. QED BY <1>9, <1>10, <2>1 DEF WalletsFit
<1>14. Windows' /\ BalanceIsOfActiveWallet' /\ AcknowledgedWasShown' /\ OneWalletAtATime'
  BY <1>1, <1>3, <1>4 DEF IInv, Windows, BalanceIsOfActiveWallet, AcknowledgedWasShown,
     OneWalletAtATime, miner, history
<1>15. QED BY <1>1, <1>11, <1>12, <1>13, <1>14 DEF IInv

\* A call that changes nothing but the files returns, or one that has failed.
LEMMA NothingReturned ==
  ASSUME IInv, NEW name, name # "None", Returns(name),
         UNCHANGED <<wallets, miner, balances, recovery, pending_delete, history>>
  PROVE  IInv'
<1>1. /\ todo = <<>> /\ disk' = disk /\ call' = NoCall /\ open' = open /\ todo' = <<>> /\ open = TRUE
      /\ ~mining /\ Plans' /\ OwnKeys' /\ SessionMade'
  BY CallReturns
<1>2. Types' /\ Control'
  BY <1>1, NoCallType DEF IInv, Types, Control, wallets, miner, recovery, history
<1>3. WalletsFit' /\ Windows' /\ BalanceIsOfActiveWallet' /\ AcknowledgedWasShown'
  BY <1>1 DEF IInv, WalletsFit, Fits, SessionAcknowledges, Windows,
     BalanceIsOfActiveWallet, AcknowledgedWasShown, wallets, balances, recovery, history
<1>4. OneWalletAtATime'
  BY <1>1 DEF OneWalletAtATime, miner
<1>5. QED BY <1>1, <1>2, <1>3, <1>4 DEF IInv

\* A wallet that is selected when a call returns, with the list read again.
LEMMA SelectionReturned ==
  ASSUME IInv, NEW name, name # "None", Returns(name),
         available' = Listed, active' \in Wallets, disk' = disk => Fits(active)',
         ~SessionAcknowledges', Windows', BalanceIsOfActiveWallet', AcknowledgedWasShown',
         UNCHANGED <<miner, pending_delete, generated, revealed>>,
         material' \in Keys \cup {None},
         revealed_once' \in BOOLEAN, requires_ack' \in BOOLEAN, acknowledged' \in BOOLEAN
  PROVE  IInv'
<1>1. /\ todo = <<>> /\ disk' = disk /\ call' = NoCall /\ open' = open /\ todo' = <<>> /\ open = TRUE
      /\ ~mining /\ Plans' /\ OwnKeys' /\ SessionMade'
  BY CallReturns
<1>2. \A w \in available' : w \in Wallets /\ Fits(w)'
  BY <1>1, AfterListing DEF Fits
<1>3. Types'
  BY <1>1, <1>2, NoCallType DEF IInv, Types, miner
<1>4. Control'
  BY <1>1, NoCallType, WalletOrNone DEF IInv, Control, miner
<1>5. WalletsFit'
  BY <1>1, <1>2 DEF WalletsFit
<1>6. OneWalletAtATime'
  BY <1>1 DEF OneWalletAtATime, miner
<1>7. QED BY <1>1, <1>3, <1>4, <1>5, <1>6 DEF IInv

\* A wallet was created: it is selected, and its phrase must be acknowledged.
LEMMA CreatedKeeps ==
  ASSUME IInv, Created
  PROVE  IInv'
<1>1. CASE ~call.ok /\ UNCHANGED <<wallets, balances, recovery, prefs>>
  BY <1>1, NothingReturned DEF Created
<1>2. CASE ~(~call.ok /\ UNCHANGED <<wallets, balances, recovery, prefs>>)
  <2> DEFINE new == Managed(call.key, call.key, TRUE, call.key)
  <2>1. /\ Returns("Create") /\ call.ok
        /\ available' = Listed /\ active' = new
        /\ summary' \in Cached(active') /\ receiver' = call.key /\ material' = call.key
        /\ revealed_once' = FALSE /\ requires_ack' = TRUE /\ acknowledged' = FALSE
        /\ UNCHANGED <<miner, pending_delete, history>>
    BY <1>2 DEF Created
  <2>2. call.name = "Create" /\ call.key \in Keys /\ call.key \in Slots
    BY <2>1, SlotNames DEF Returns, IInv, Control
  <2>3. new \in Wallets /\ new.slot = call.key /\ new.key = call.key /\ new.phrase = call.key
    BY <2>2 DEF Managed, Wallets
  <2>4. Fits(new) /\ ~(new.slot = Session)
    BY <2>2, <2>3, Words DEF Fits, IInv, OwnKeys
  <2> HIDE DEF new
  <2>5. disk' = disk => Fits(active)'
    BY <2>1, <2>4 DEF Fits
  <2>6. ~SessionAcknowledges' /\ Windows' /\ BalanceIsOfActiveWallet' /\ AcknowledgedWasShown'
    BY <2>1, <2>3, <2>4 DEF SessionAcknowledges, Windows, BalanceIsOfActiveWallet,
       AcknowledgedWasShown, Cached
  <2>7. QED BY <2>1, <2>2, <2>3, <2>5, <2>6, SelectionReturned DEF history
<1>3. QED BY <1>1, <1>2

\* A wallet was imported: it is selected, and nothing is required of it.
LEMMA ImportedKeeps ==
  ASSUME IInv, NEW with_phrase \in BOOLEAN, Imported(with_phrase)
  PROVE  IInv'
<1> DEFINE name == IF with_phrase THEN "ImportPhrase" ELSE "ImportKey"
           new == Managed(call.key, call.key, with_phrase, IF with_phrase THEN call.key ELSE None)
<1>1. Returns(name) /\ name # "None" /\ name \in {"ImportPhrase", "ImportKey"}
  BY DEF Imported
<1>2. CASE ~call.ok /\ UNCHANGED <<wallets, balances, requires_ack, acknowledged, prefs>>
  <2>1. UNCHANGED <<wallets, miner, balances, recovery, pending_delete, history>>
    BY <1>2 DEF Imported, recovery
  <2>2. QED BY <1>1, <2>1, NothingReturned
<1>3. CASE ~(~call.ok /\ UNCHANGED <<wallets, balances, requires_ack, acknowledged, prefs>>)
  <2>1. /\ available' = Listed /\ Select(new)
        /\ UNCHANGED <<miner, material, revealed_once, pending_delete, history>>
    BY <1>3 DEF Imported
  <2>2. call.name = name /\ call.key \in Keys /\ call.key \in Slots
    BY <1>1, SlotNames DEF Returns, IInv, Control
  <2>3. new \in Wallets /\ new.slot = call.key /\ new.key = call.key /\ new.phrase \in {None, call.key}
    BY <2>2, ManagedParts
  <2>4. Fits(new)
    BY <2>2, <2>3, Words DEF Fits, IInv, OwnKeys
  <2>5. disk' = disk /\ ~mining
    BY <1>1, CallReturns
  <2> HIDE DEF new, name
  <2>6. /\ active' = new /\ Fits(active)' /\ ~SessionAcknowledges'
        /\ ~requires_ack' /\ ~acknowledged' /\ Windows' /\ BalanceIsOfActiveWallet' /\ AcknowledgedWasShown'
    BY <2>1, <2>3, <2>4, <2>5, SelectKeeps DEF history
  <2>7. requires_ack' = FALSE /\ acknowledged' = FALSE
    BY <2>1 DEF Select
  <2>8. QED BY <1>1, <2>1, <2>3, <2>6, <2>7, SelectionReturned DEF history, IInv, Types
<1>4. QED BY <1>2, <1>3

\* A wallet was deleted: another is selected if it was the active one, or none is left.
LEMMA DeletedKeeps ==
  ASSUME IInv, Deleted
  PROVE  IInv'
<1>1. CASE ~call.ok /\ UNCHANGED <<wallets, balances, recovery, pending_delete, prefs>>
  BY <1>1, NothingReturned DEF Deleted
<1>2. CASE ~(~call.ok /\ UNCHANGED <<wallets, balances, recovery, pending_delete, prefs>>)
  <2>1. /\ Returns("Delete")
        /\ available' = Listed
        /\ active' \in IF Exists(SeedTxt) THEN {active} ELSE Choices(active.key, Firsts(available'))
        /\ receiver' = active'.key /\ summary' = None /\ material' = None
        /\ revealed_once' = FALSE /\ requires_ack' = FALSE /\ acknowledged' = FALSE
        /\ pending_delete' = NoWallet
        /\ UNCHANGED <<miner, history>>
    BY <1>2 DEF Deleted
  <2>2. /\ disk' = disk /\ call' = NoCall /\ open' = open /\ todo' = <<>> /\ open = TRUE
        /\ ~mining /\ Plans' /\ OwnKeys' /\ SessionMade'
    BY <2>1, CallReturns
  <2>3. \A w \in available' : w \in Wallets /\ w # NoWallet /\ Fits(w)
    BY <2>1, AfterListing
  <2>4. ASSUME NEW w \in Choices(active.key, Firsts(available'))
        PROVE  w \in available' \/ (w = NoWallet /\ available' = {})
    <3>1. NoWallet \in Firsts(available') => available' = {}
      BY <2>3, FirstsOf
    <3>2. w \in available' \cup Firsts(available') \cup {NoWallet}
      BY Chosen
    <3>3. w = NoWallet => w \in available' \cup Firsts(available')
      BY Chosen
    <3>4. QED BY <2>3, <3>1, <3>2, <3>3, FirstsOf
  <2>5. \/ active' \in Wallets /\ Fits(active')
        \/ active' = NoWallet /\ available' = {}
    <3>1. CASE Exists(SeedTxt)
      <4>1. active' = active /\ available' = available
        BY <2>1, <3>1 DEF Listed
      <4>2. QED BY <4>1 DEF IInv, Types, WalletsFit, Control
    <3>2. CASE ~Exists(SeedTxt)
      BY <2>1, <2>3, <2>4, <3>2
    <3>3. QED BY <3>1, <3>2
  <2>6. Types'
    BY <2>1, <2>2, <2>3, <2>5, NoCallType DEF IInv, Types, miner, history
  <2>7. Control'
    BY <2>1, <2>2, <2>5, NoCallType, WalletOrNone DEF Control, miner
  <2>8. WalletsFit'
    <3>1. \A w \in available' : Fits(w)'
      BY <2>2, <2>3 DEF Fits
    <3>2. active' # NoWallet => Fits(active)'
      BY <2>2, <2>5 DEF Fits
    <3>3. QED BY <2>1, <3>1, <3>2 DEF WalletsFit, SessionAcknowledges
  <2>9. Windows' /\ BalanceIsOfActiveWallet' /\ AcknowledgedWasShown' /\ OneWalletAtATime'
    BY <2>1, <2>2 DEF Windows, BalanceIsOfActiveWallet, AcknowledgedWasShown, OneWalletAtATime, miner
  <2>10. QED BY <2>2, <2>6, <2>7, <2>8, <2>9 DEF IInv
<1>3. QED BY <1>1, <1>2

\* The session wallet is there: it is selected, and mined with unless it has just been
\* made, in which case its phrase must be acknowledged.
LEMMA EnsuredKeeps ==
  ASSUME IInv, NEW name \in {"Deposit", "Start"}, Ensured(name)
  PROVE  IInv'
<1> DEFINE w    == SessionWallet
           made == w # NoWallet /\ call.key # None
<1>1. /\ Returns(name) /\ name # "None" /\ name \in SessionCalls
      /\ UNCHANGED <<balances, pending_delete, history>>
  BY DEF Ensured, SessionCalls
<1>2. CASE w = NoWallet
  <2>1. UNCHANGED <<wallets, miner, balances, recovery, pending_delete, history>>
    BY <1>2 DEF Ensured
  <2>2. QED BY <1>1, <2>1, NothingReturned
<1>3. CASE w # NoWallet
  <2>1. /\ call.name = name /\ todo = <<>> /\ disk' = disk /\ call' = NoCall /\ open' = open
        /\ todo' = <<>> /\ open = TRUE
        /\ ~mining /\ Plans' /\ OwnKeys' /\ SessionMade'
    BY <1>1, CallReturns
  <2>2. /\ active = NoWallet /\ available = {} /\ material = None
        /\ ~requires_ack /\ ~acknowledged /\ receiver = None /\ summary = None
    BY <1>1, <2>1, WalletOrNone DEF IInv, Control, Windows, BalanceIsOfActiveWallet
  <2>3. /\ w \in Wallets /\ Fits(w) /\ w.slot = Session /\ w.phrase = call.key
        /\ call.key # None => /\ w.key = call.key /\ disk[Phrase(Session)] = call.key
                              /\ disk[SeedTxt] = None
    BY <1>1, <1>3, <2>1, SessionReturned
  <2>4. /\ active' = w /\ available' \in SUBSET {w}
        /\ IF name = "Start"
           THEN StartWith(w, made \/ (requires_ack /\ ~acknowledged))
           ELSE /\ requires_ack' = (made \/ requires_ack)
                /\ acknowledged' = (~made /\ acknowledged)
                /\ UNCHANGED <<miner, material, revealed_once>>
    BY <1>3, <2>2 DEF Ensured
  <2>5. receiver' = None /\ summary' = None /\ revealed' = revealed
    BY <1>1, <2>2 DEF balances, history
  <2> HIDE DEF w
  <2>6. /\ material' \in Keys \cup {None} /\ revealed_once' \in BOOLEAN
        /\ requires_ack' \in BOOLEAN /\ acknowledged' \in BOOLEAN /\ mining' \in BOOLEAN
        /\ requires_ack' => made
        /\ Windows' /\ AcknowledgedWasShown' /\ OneWalletAtATime'
    <3>1. CASE name = "Start" /\ made
      <4>1. OpenSeedPhrase(w, TRUE) /\ UNCHANGED miner
        BY <2>4, <3>1 DEF StartWith
      <4>2. /\ material' \in Keys \cup {None} /\ revealed_once' \in BOOLEAN
            /\ requires_ack' \in BOOLEAN /\ acknowledged' \in BOOLEAN
            /\ Windows' /\ AcknowledgedWasShown'
        BY <2>2, <2>3, <2>4, <2>5, <3>1, <4>1, WindowOpens DEF IInv
      <4>3. QED BY <2>1, <3>1, <4>1, <4>2 DEF OneWalletAtATime, miner, IInv, Types
    <3>2. CASE name = "Start" /\ ~made
      <4>1. StartNativeMining(w) /\ UNCHANGED recovery
        BY <2>2, <2>4, <3>2 DEF StartWith
      <4>2. mining' \in BOOLEAN /\ OneWalletAtATime'
        BY <2>1, <2>3, <2>4, <4>1, MiningStarts DEF IInv
      <4>3. QED BY <2>2, <2>5, <4>1, <4>2 DEF Windows, AcknowledgedWasShown, recovery, IInv, Types
    <3>3. CASE name # "Start"
      <4>1. /\ requires_ack' = made /\ acknowledged' = FALSE
            /\ UNCHANGED <<miner, material, revealed_once>>
        BY <2>2, <2>4, <3>3 DEF IInv, Types
      <4>2. made \in BOOLEAN
        OBVIOUS
      <4>3. QED BY <2>1, <2>2, <2>5, <4>1, <4>2 DEF Windows, AcknowledgedWasShown, OneWalletAtATime,
               miner, IInv, Types
    <3>4. QED BY <3>1, <3>2, <3>3
  <2>7. BalanceIsOfActiveWallet'
    BY <2>5 DEF BalanceIsOfActiveWallet
  <2>8. WalletsFit'
    <3>1. Fits(active)' /\ \A v \in available' : Fits(v)'
      BY <2>1, <2>3, <2>4 DEF Fits
    <3>2. SessionAcknowledges' => disk'[SeedTxt] = None /\ disk'[Phrase(Session)] \in {None, active'.key}
      BY <2>1, <2>3, <2>4, <2>6 DEF SessionAcknowledges
    <3>3. QED BY <3>1, <3>2 DEF WalletsFit
  <2>9. Types'
    BY <1>1, <2>1, <2>3, <2>4, <2>6, NoCallType DEF IInv, Types, history
  <2>10. Control'
    BY <1>3, <2>1, <2>3, <2>4, NoCallType, WalletOrNone DEF Control
  <2>11. QED BY <2>1, <2>6, <2>7, <2>8, <2>9, <2>10 DEF IInv
<1>4. QED BY <1>2, <1>3

----------------------------------------------------------------------------
(* The theorems *)

LEMMA IInvInit == Init => IInv
<1> SUFFICES ASSUME Init PROVE IInv
  OBVIOUS
<1>1. /\ open = FALSE /\ call = NoCall /\ available = {} /\ active = NoWallet
      /\ mining = FALSE /\ receiver = None /\ summary = None /\ material = None
      /\ revealed_once = FALSE /\ requires_ack = FALSE /\ acknowledged = FALSE
      /\ pending_delete = NoWallet /\ revealed = {} /\ todo = <<>>
  BY DEF Init, StoreInit
<1>2. PICK old \in ForeignKeys \cup {None} :
        disk = [f \in Files |-> IF f \in {Keypair(Session), SeedTxt} THEN old ELSE None]
  BY DEF Init, StoreInit
<1>3. disk \in [Files -> Values]
  BY <1>2, Words DEF Values
<1>4. OwnKeys
  BY <1>2, FileNames, SlotNames, Words DEF OwnKeys
<1>5. Types /\ Control
  BY <1>1, <1>3, NoCallType DEF Types, Control
<1>6. Plans
  BY <1>1 DEF Plans
<1>7. SessionMade
  BY <1>1, NoCallType DEF SessionMade, NoCall
<1>8. WalletsFit /\ Windows /\ OneWalletAtATime /\ BalanceIsOfActiveWallet /\ AcknowledgedWasShown
  BY <1>1 DEF WalletsFit, SessionAcknowledges, Windows, OneWalletAtATime, BalanceIsOfActiveWallet,
     AcknowledgedWasShown
<1>9. QED BY <1>4, <1>5, <1>6, <1>7, <1>8 DEF IInv

LEMMA IInvStep == IInv /\ [Next]_vars => IInv'
<1> SUFFICES ASSUME IInv, [Next]_vars PROVE IInv'
  OBVIOUS
<1>1. CASE Open \/ Withdraw \/ \E name \in {"Deposit", "Start"} : EnsureActiveWallet(name)
  BY <1>1, SessionCallsBegin
<1>2. CASE CreateManagedWallet \/ ImportManagedWallet \/ ConfirmWalletDelete
  BY <1>2, WalletCallsBegin
<1>3. CASE CallStep \/ CallFails \/ Retry \/ Quit
  BY <1>3, CallStepKeeps, CallFailsKeeps, RetryKeeps, QuitKeeps
<1>4. CASE Opened \/ Created \/ Deleted
  BY <1>4, OpenedKeeps, CreatedKeeps, DeletedKeeps
<1>5. CASE \/ \E with_phrase \in BOOLEAN : Imported(with_phrase)
           \/ \E name \in {"Deposit", "Start"} : Ensured(name)
  BY <1>5, ImportedKeeps, EnsuredKeeps
<1>6. CASE SessionReady
  BY <1>6, NothingReturned DEF SessionReady
<1>7. CASE TriggerRefresh \/ PollBalance \/ PollList
  BY <1>7, BalancesKeep
<1>8. CASE \E w \in available : UseWallet(w) \/ RequestWalletDelete(w)
  BY <1>8, UseWalletKeeps, DeleteWindowKeeps
<1>9. CASE CancelDelete
  BY <1>9, DeleteWindowKeeps
<1>10. CASE (\E require_ack \in BOOLEAN : OpenRecovery(require_ack)) \/ ShowMaterial \/ Acknowledge \/ CloseRecovery
  BY <1>10, OpenRecoveryKeeps, RecoveryWindowKeeps
<1>11. CASE StartMining \/ PollMining
  BY <1>11, StartMiningKeeps, PollMiningKeeps
<1>12. CASE UNCHANGED vars
  <2>1. /\ todo' = todo /\ disk' = disk
        /\ UNCHANGED <<open, call, wallets, miner, balances, recovery, pending_delete, history>>
    BY <1>12 DEF vars, storeVars
  <2>2. Plans'
    <3>1. todo' \in Seq(Allowed) /\ UNCHANGED <<active, requires_ack>>
      BY <2>1 DEF IInv, Plans, Allowed, wallets, recovery
    <3>2. QED BY <3>1, PlansKept
  <2>3. Types' /\ Control' /\ OwnKeys' /\ SessionMade'
    BY <2>1 DEF IInv, Types, Control, OwnKeys, SessionMade, Settles, Leaves, Untouched, MigratesFirst,
       Exists, wallets, miner, recovery, history
  <2>4. WalletsFit' /\ Windows' /\ OneWalletAtATime' /\ BalanceIsOfActiveWallet' /\ AcknowledgedWasShown'
    BY <2>1 DEF IInv, WalletsFit, Fits, SessionAcknowledges, Windows, OneWalletAtATime,
       BalanceIsOfActiveWallet, AcknowledgedWasShown, wallets, miner, balances, recovery, history
  <2>5. QED BY <2>2, <2>3, <2>4 DEF IInv
<1>13. QED
  BY <1>1, <1>2, <1>3, <1>4, <1>5, <1>6, <1>7, <1>8, <1>9, <1>10, <1>11, <1>12 DEF Next

\* The files, the call at work on them, the wallets and the windows agree, after every
\* step, failure and end of the program, for any keys.
THEOREM Inductive == Spec => []IInv
BY IInvInit, IInvStep, PTL DEF Spec

\* Only the active wallet is mined with, and with its own keypair, however selecting,
\* creating, deleting, failing and starting again are interleaved (select_active_wallet,
\* confirm_wallet_delete, poll_updates).
THEOREM MinesWithTheActiveWallet == Spec => []OneWalletAtATime
<1>1. IInv => OneWalletAtATime
  BY DEF IInv
<1>2. QED BY <1>1, Inductive, PTL

\* A balance read for a wallet selected before is never shown (poll_updates).
THEOREM ShowsTheActiveBalance == Spec => []BalanceIsOfActiveWallet
<1>1. IInv => BalanceIsOfActiveWallet
  BY DEF IInv
<1>2. QED BY <1>1, Inductive, PTL

\* Nobody acknowledges what the window has not shown, or has shown of another wallet
\* (open_seed_phrase_for_wallet, select_active_wallet).
THEOREM AcknowledgesWhatWasShown == Spec => []AcknowledgedWasShown
<1>1. IInv => AcknowledgedWasShown
  BY DEF IInv
<1>2. QED BY <1>1, Inductive, PTL

----------------------------------------------------------------------------
(* The session wallet's phrase, while at most one call fails *)

\* What the program knows of the session wallet.
SessionRecords == {w \in available \cup {active, pending_delete} : w.slot = Session}

\* A call for the session wallet, unless it fails, ends without the phrase of an earlier
\* version.
Migrated ==
  call.name \in SessionCalls /\ call.ok => call.part # "Listing" /\ Settles(SeedTxt, None)

\* While that phrase is there, so is its keypair: no call touches the keypair, or writes
\* another phrase, and no record of the wallet has been taken.
MigrationSteps(old) ==
  {s \in FileSteps : /\ s.file # Keypair(Session)
                     /\ s.file = Phrase(Session) => s.to \in {Torn, old}}
Legacy ==
  disk[SeedTxt] # None =>
    /\ disk[SeedTxt] \in Keys /\ disk[Keypair(Session)] = disk[SeedTxt]
    /\ disk[Phrase(Session)] \in {None, Torn, disk[SeedTxt]}
    /\ todo \in Seq(MigrationSteps(disk[SeedTxt]))
    /\ call.name \in SessionCalls => call.key = None
    /\ SessionRecords = {}

\* Before the first failure the session wallet's files come and go together: when the
\* call is done, no phrase is without its keypair, nor a keypair without its phrase,
\* unless that is still to be migrated.
Together ==
  failures = 0 =>
    /\ Settles(Phrase(Session), None) \/ \E k \in Keys : Settles(Keypair(Session), k)
    /\ \/ \E v \in Values \ {None} : Settles(Phrase(Session), v)
       \/ Settles(Keypair(Session), None)
       \/ disk[SeedTxt] # None /\ Untouched(todo, SeedTxt)

\* So the phrase is deleted with the keypair.
RecordsHavePhrases == failures = 0 => \A w \in SessionRecords : w.phrase_path

\* One key is in the files of the session wallet; a phrase that a failed deletion has left
\* is there only without a keypair, or until the call is done.
StepsOf(k) == {s \in FileSteps : s.file \in {Keypair(Session), Phrase(Session)} => s.to \in {None, Torn, k}}
KeylessSteps == {s \in FileSteps : s.file = Keypair(Session) => s.to \notin Keys}
OneKey ==
  \E k \in Values :
    /\ todo \in Seq(StepsOf(k))
    /\ disk[Keypair(Session)] \in {None, Torn, k}
    /\ \/ disk[Phrase(Session)] \in {None, Torn, k}
       \/ failures > 0 /\ Settles(Phrase(Session), k)
       \/ failures > 0 /\ disk[Keypair(Session)] \notin Keys /\ todo \in Seq(KeylessSteps)

PhraseInv ==
  /\ failures \in Nat
  /\ Migrated /\ Legacy /\ Together /\ RecordsHavePhrases /\ OneKey

----------------------------------------------------------------------------
(* Plans for the session wallet's files *)

LEMMA SessionFiles ==
  /\ Keypair(Session) \in Files /\ Phrase(Session) \in Files /\ SeedTxt \in Files
  /\ Keypair(Session) # Phrase(Session) /\ Keypair(Session) # SeedTxt
  /\ Phrase(Session) # SeedTxt
BY FileNames, SlotNames

\* Without a plan, what is in a file stays there.
LEMMA SettledNow ==
  ASSUME todo = <<>>
  PROVE  \A f, v : Settles(f, v) <=> disk[f] = v
<1>1. \A f, v : ~Leaves(<<>>, f, v) /\ Untouched(<<>>, f)
  BY DEF Leaves, Untouched
<1>2. QED BY <1>1 DEF Settles

LEMMA StepsIn ==
  ASSUME NEW A, NEW B, NEW plan \in Seq(A), \A i \in DOMAIN plan : plan[i] \in B
  PROVE  plan \in Seq(B)
OBVIOUS

LEMMA WriteIn ==
  ASSUME NEW A, NEW f, NEW v, [file |-> f, to |-> Torn] \in A, [file |-> f, to |-> v] \in A
  PROVE  Write(f, v) \in Seq(A)
BY DEF Write

LEMMA RemoveIn ==
  ASSUME NEW A, NEW f, [file |-> f, to |-> None] \in A
  PROVE  Remove(f) \in Seq(A)
<1>1. <<>> \in Seq(A) /\ <<[file |-> f, to |-> None]>> \in Seq(A)
  OBVIOUS
<1>2. QED BY <1>1 DEF Remove

\* A plan that does not touch the session wallet's files takes any key for it.
LEMMA UntouchedTakesAny ==
  ASSUME NEW plan \in Seq(FileSteps),
         Untouched(plan, Keypair(Session)), Untouched(plan, Phrase(Session))
  PROVE  (\A k : plan \in Seq(StepsOf(k))) /\ plan \in Seq(KeylessSteps)
<1>1. \A i \in DOMAIN plan : /\ plan[i] \in FileSteps
                             /\ plan[i].file \notin {Keypair(Session), Phrase(Session)}
  BY DEF Untouched
<1>2. ASSUME NEW k PROVE plan \in Seq(StepsOf(k))
  <2>1. \A i \in DOMAIN plan : plan[i] \in StepsOf(k)
    BY <1>1 DEF StepsOf
  <2>2. QED BY <2>1, StepsIn
<1>3. plan \in Seq(KeylessSteps)
  <2>1. \A i \in DOMAIN plan : plan[i] \in KeylessSteps
    BY <1>1 DEF KeylessSteps
  <2>2. QED BY <2>1, StepsIn
<1>4. QED BY <1>2, <1>3

\* The migration writes the phrase of the earlier version, unless there is one already.
LEMMA MigrateSteps ==
  ASSUME disk \in [Files -> Values]
  PROVE  /\ ~Exists(SeedTxt) => Migrate = <<>>
         /\ Migrate \in Seq(MigrationSteps(disk[SeedTxt]))
         /\ Migrate \in Seq(StepsOf(disk[SeedTxt]))
         /\ Exists(SeedTxt) /\ ~Exists(Phrase(Session)) => Leaves(Migrate, Phrase(Session), disk[SeedTxt])
         /\ Exists(Phrase(Session)) => Untouched(Migrate, Phrase(Session))
<1> DEFINE old  == disk[SeedTxt]
           copy == IF Exists(SeedTxt) /\ ~Exists(Phrase(Session)) THEN Write(Phrase(Session), old) ELSE <<>>
<1>1. Migrate = copy \o Remove(SeedTxt)
  BY DEF Migrate
<1>2. old \in Values
  BY SessionFiles
<1>3. ~Exists(SeedTxt) => Migrate = <<>>
  BY DEF Migrate, Remove
<1>4. ASSUME NEW A, [file |-> Phrase(Session), to |-> Torn] \in A,
             [file |-> Phrase(Session), to |-> old] \in A, [file |-> SeedTxt, to |-> None] \in A
      PROVE  Migrate \in Seq(A)
  <2>1. <<>> \in Seq(A)
    OBVIOUS
  <2>2. Write(Phrase(Session), old) \in Seq(A) /\ Remove(SeedTxt) \in Seq(A)
    BY <1>4, WriteIn, RemoveIn
  <2>3. copy \in Seq(A)
    BY <2>1, <2>2
  <2> HIDE DEF copy
  <2>4. QED BY <1>1, <2>2, <2>3, PlanJoin
<1>5. /\ \A v \in Values : [file |-> Phrase(Session), to |-> v] \in FileSteps
      /\ [file |-> SeedTxt, to |-> None] \in FileSteps
      /\ Torn \in Values
  BY SessionFiles DEF FileSteps, Values
<1>6. Migrate \in Seq(MigrationSteps(old))
  <2>1. /\ [file |-> Phrase(Session), to |-> Torn] \in MigrationSteps(old)
        /\ [file |-> Phrase(Session), to |-> old] \in MigrationSteps(old)
        /\ [file |-> SeedTxt, to |-> None] \in MigrationSteps(old)
    BY <1>2, <1>5, SessionFiles DEF MigrationSteps
  <2>2. QED BY <1>4, <2>1
<1>7. Migrate \in Seq(StepsOf(old))
  <2>1. /\ [file |-> Phrase(Session), to |-> Torn] \in StepsOf(old)
        /\ [file |-> Phrase(Session), to |-> old] \in StepsOf(old)
        /\ [file |-> SeedTxt, to |-> None] \in StepsOf(old)
    BY <1>2, <1>5, SessionFiles DEF StepsOf
  <2>2. QED BY <1>4, <2>1
<1>8. /\ Remove(SeedTxt) \in Seq(FileSteps) /\ Untouched(Remove(SeedTxt), Phrase(Session))
      /\ Write(Phrase(Session), old) \in Seq(FileSteps)
      /\ Leaves(Write(Phrase(Session), old), Phrase(Session), old)
      /\ <<>> \in Seq(FileSteps) /\ Untouched(<<>>, Phrase(Session))
  <2>1. <<>> \in Seq(FileSteps) /\ Untouched(<<>>, Phrase(Session))
    BY DEF Untouched
  <2>2. QED BY <1>2, <2>1, SessionFiles, RemoveLeaves, WriteLeaves
<1>9. Exists(SeedTxt) /\ ~Exists(Phrase(Session)) => Leaves(Migrate, Phrase(Session), old)
  <2>1. Exists(SeedTxt) /\ ~Exists(Phrase(Session)) => copy = Write(Phrase(Session), old)
    OBVIOUS
  <2> HIDE DEF copy
  <2>2. QED BY <1>1, <1>8, <2>1, LeavesJoin
<1>10. Exists(Phrase(Session)) => Untouched(Migrate, Phrase(Session))
  <2>1. Exists(Phrase(Session)) => copy = <<>>
    OBVIOUS
  <2> HIDE DEF copy
  <2>2. QED BY <1>1, <1>8, <2>1, LeavesJoin
<1>11. QED BY <1>3, <1>6, <1>7, <1>9, <1>10

\* What is known of the session wallet's files before a call begins.
LEMMA BeforeACall ==
  ASSUME Types, PhraseInv, todo = <<>>
  PROVE  /\ disk[Keypair(Session)] \in Values /\ disk[Phrase(Session)] \in Values
         /\ Exists(SeedTxt) =>
              /\ disk[SeedTxt] \in Keys /\ disk[Keypair(Session)] = disk[SeedTxt]
              /\ disk[Phrase(Session)] \in {None, Torn, disk[SeedTxt]}
         /\ failures = 0 =>
              /\ Exists(Phrase(Session)) => disk[Keypair(Session)] \in Keys
              /\ Exists(Keypair(Session)) => Exists(Phrase(Session)) \/ Exists(SeedTxt)
         /\ \E k \in Values :
              /\ disk[Keypair(Session)] \in {None, Torn, k}
              /\ \/ disk[Phrase(Session)] \in {None, Torn, k}
                 \/ failures > 0 /\ disk[Keypair(Session)] \notin Keys
<1>1. disk[Keypair(Session)] \in Values /\ disk[Phrase(Session)] \in Values
  BY SessionFiles DEF Types
<1>2. failures = 0 =>
        /\ Exists(Phrase(Session)) => disk[Keypair(Session)] \in Keys
        /\ Exists(Keypair(Session)) => Exists(Phrase(Session)) \/ Exists(SeedTxt)
  BY SettledNow DEF PhraseInv, Together, Exists
<1>3. \E k \in Values :
        /\ disk[Keypair(Session)] \in {None, Torn, k}
        /\ \/ disk[Phrase(Session)] \in {None, Torn, k}
           \/ failures > 0 /\ disk[Keypair(Session)] \notin Keys
  BY SettledNow DEF PhraseInv, OneKey
<1>4. QED BY <1>1, <1>2, <1>3 DEF PhraseInv, Legacy, Exists

\* A call that only migrates, if there is something to migrate.
LEMMA MigrationBegins ==
  ASSUME Types, PhraseInv, todo = <<>>, disk' = disk, failures' = failures, todo' = Migrate
  PROVE  /\ Together' /\ OneKey' /\ Settles(SeedTxt, None)'
         /\ todo' \in Seq(MigrationSteps(disk[SeedTxt]))
<1>1. disk \in [Files -> Values]
  BY DEF Types
<1>2. /\ Migrate \in Seq(FileSteps) /\ Untouched(Migrate, Keypair(Session))
      /\ Exists(SeedTxt) => Leaves(Migrate, SeedTxt, None)
      /\ ~Exists(SeedTxt) => Untouched(Migrate, SeedTxt)
  BY <1>1, MigrateLeaves
<1>3. Settles(SeedTxt, None)'
  BY <1>2 DEF Settles, Exists
<1>4. \A v : v = disk[Keypair(Session)] => Settles(Keypair(Session), v)'
  BY <1>2 DEF Settles
<1>5. CASE ~Exists(SeedTxt)
  <2>1. todo' = todo
    BY <1>1, <1>5, MigrateSteps
  <2>2. Together' /\ OneKey'
    BY <2>1 DEF PhraseInv, Together, OneKey, Settles
  <2>3. QED BY <1>1, <1>3, <2>2, MigrateSteps
<1>6. CASE Exists(SeedTxt)
  <2> DEFINE old == disk[SeedTxt]
  <2>1. /\ old \in Keys /\ old # None /\ disk[Keypair(Session)] = old
        /\ disk[Phrase(Session)] \in {None, Torn, old}
    BY <1>6, BeforeACall DEF Exists
  <2>2. \E v \in Values \ {None} : Settles(Phrase(Session), v)'
    <3>1. CASE Exists(Phrase(Session))
      <4>1. Untouched(Migrate, Phrase(Session))
        BY <1>1, <3>1, MigrateSteps
      <4>2. \A v : v = disk[Phrase(Session)] => Settles(Phrase(Session), v)'
        BY <4>1 DEF Settles
      <4>3. disk[Phrase(Session)] \in Values \ {None}
        BY <3>1, SessionFiles DEF Exists, Types
      <4>4. QED BY <4>2, <4>3
    <3>2. CASE ~Exists(Phrase(Session))
      <4>1. \A v : v = old => Settles(Phrase(Session), v)'
        BY <1>1, <1>6, <3>2, MigrateSteps DEF Settles
      <4>2. old \in Values \ {None}
        BY <2>1 DEF Values
      <4>3. QED BY <4>1, <4>2
    <3>3. QED BY <3>1, <3>2
  <2>3. \E k \in Keys : Settles(Keypair(Session), k)'
    BY <1>4, <2>1
  <2>4. Together'
    BY <2>2, <2>3 DEF Together
  <2>5. OneKey'
    <3>1. old \in Values /\ todo' \in Seq(StepsOf(old))
      BY <1>1, <2>1, MigrateSteps DEF Values
    <3>2. QED BY <2>1, <3>1 DEF OneKey
  <2>6. QED BY <1>1, <1>3, <2>4, <2>5, MigrateSteps
<1>7. QED BY <1>5, <1>6

\* A call that makes the session wallet, or finds its keypair there.
LEMMA SessionBegins ==
  ASSUME Types, PhraseInv, todo = <<>>, disk' = disk, failures' = failures,
         NEW key \in Keys \cup {None}, todo' = CreateSession(key),
         key \in Keys \/ Exists(Keypair(Session))
  PROVE  /\ Together' /\ OneKey' /\ Settles(SeedTxt, None)'
         /\ disk[SeedTxt] # None => todo' \in Seq(MigrationSteps(disk[SeedTxt]))
<1>1. disk \in [Files -> Values]
  BY DEF Types
<1>2. CASE Exists(Keypair(Session))
  <2>1. Migrate \in Seq(FileSteps)
    BY <1>1, MigrateLeaves
  <2>2. todo' = Migrate
    BY <1>2, <2>1 DEF CreateSession
  <2>3. QED BY <2>2, MigrationBegins
<1>3. CASE ~Exists(Keypair(Session))
  <2>1. key \in Keys /\ key \in Values /\ key # None
    BY <1>3, Words DEF Values
  <2>2. disk[SeedTxt] = None
    BY <1>3, BeforeACall DEF Exists
  <2>3. /\ todo' \in Seq(FileSteps)
        /\ Leaves(todo', Keypair(Session), key) /\ Leaves(todo', Phrase(Session), key)
        /\ Leaves(todo', SeedTxt, None) \/ (disk[SeedTxt] = None /\ Untouched(todo', SeedTxt))
    BY <1>1, <1>3, <2>1, CreateSessionSettles
  <2>4. /\ Settles(Keypair(Session), key)' /\ Settles(Phrase(Session), key)'
        /\ Settles(SeedTxt, None)'
    BY <2>3 DEF Settles
  <2>5. Together'
    BY <2>1, <2>4 DEF Together
  <2>6. todo' \in Seq(StepsOf(key))
    <3>1. Migrate = <<>> /\ <<>> \in Seq(StepsOf(key))
      BY <1>1, <2>2, MigrateSteps DEF Exists
    <3>2. \A f \in {Keypair(Session), Phrase(Session)}, v \in {Torn, key} :
            [file |-> f, to |-> v] \in StepsOf(key)
      BY <2>1, SessionFiles DEF StepsOf, FileSteps, Values
    <3>3. Write(Keypair(Session), key) \in Seq(StepsOf(key)) /\ Write(Phrase(Session), key) \in Seq(StepsOf(key))
      BY <3>2, WriteIn
    <3>4. WriteWallet(Session, key, TRUE) \in Seq(StepsOf(key))
      BY <3>3, PlanJoin DEF WriteWallet
    <3>5. QED BY <1>3, <3>1, <3>4, PlanJoin DEF CreateSession
  <2>7. OneKey'
    <3>1. disk[Keypair(Session)] = None
      BY <1>3 DEF Exists
    <3>2. disk[Phrase(Session)] = None \/ failures > 0
      BY <3>1, BeforeACall, Words DEF Exists, PhraseInv
    <3>3. QED BY <2>1, <2>4, <2>6, <3>1, <3>2 DEF OneKey
  <2>8. QED BY <2>2, <2>4, <2>5, <2>7
<1>4. QED BY <1>2, <1>3

\* A call that works on other files.
LEMMA OtherFilesBegin ==
  ASSUME PhraseInv, todo = <<>>, disk' = disk, failures' = failures, todo' \in Seq(FileSteps),
         Untouched(todo', Keypair(Session)), Untouched(todo', Phrase(Session)),
         Untouched(todo', SeedTxt)
  PROVE  /\ Together' /\ OneKey'
         /\ todo' \in Seq(MigrationSteps(disk[SeedTxt]))
<1>1. \A f, v : Settles(f, v) <=> disk[f] = v
  BY SettledNow
<1>2. \A v : /\ Settles(Keypair(Session), v) => Settles(Keypair(Session), v)'
             /\ Settles(Phrase(Session), v) => Settles(Phrase(Session), v)'
  BY <1>1 DEF Settles
<1>3. Together'
  BY <1>2 DEF PhraseInv, Together
<1>4. (\A k : todo' \in Seq(StepsOf(k))) /\ todo' \in Seq(KeylessSteps)
  BY UntouchedTakesAny
<1>5. OneKey'
  BY <1>2, <1>4 DEF PhraseInv, OneKey
<1>6. todo' \in Seq(MigrationSteps(disk[SeedTxt]))
  <2>1. \A i \in DOMAIN todo' : todo'[i] \in MigrationSteps(disk[SeedTxt])
    BY DEF MigrationSteps, Untouched
  <2>2. QED BY <2>1, StepsIn
<1>7. QED BY <1>3, <1>5, <1>6

\* The session wallet is deleted: its phrase with it, if no call has failed yet.
LEMMA SessionDeletionBegins ==
  ASSUME Types, PhraseInv, todo = <<>>, disk' = disk, failures' = failures,
         NEW w \in SessionRecords, todo' = DeleteManagedWallet(w)
  PROVE  Together' /\ OneKey' /\ disk[SeedTxt] = None
<1>1. disk \in [Files -> Values] /\ w.slot = Session
  BY DEF Types, SessionRecords
<1>2. disk[SeedTxt] = None
  BY DEF PhraseInv, Legacy
<1> DEFINE first  == Remove(Keypair(Session))
           second == IF w.phrase_path THEN Remove(Phrase(Session)) ELSE <<>>
<1>3. todo' = first \o second
  BY <1>1 DEF DeleteManagedWallet
<1>4. /\ first \in Seq(FileSteps) /\ Untouched(first, Phrase(Session))
      /\ Exists(Keypair(Session)) => Leaves(first, Keypair(Session), None)
      /\ ~Exists(Keypair(Session)) => Untouched(first, Keypair(Session))
  BY SessionFiles, RemoveLeaves
<1>5. /\ second \in Seq(FileSteps) /\ Untouched(second, Keypair(Session))
      /\ w.phrase_path /\ Exists(Phrase(Session)) => Leaves(second, Phrase(Session), None)
      /\ w.phrase_path /\ ~Exists(Phrase(Session)) => Untouched(second, Phrase(Session))
  <2>1. <<>> \in Seq(FileSteps) /\ Untouched(<<>>, Keypair(Session))
    BY DEF Untouched
  <2>2. QED BY <2>1, SessionFiles, RemoveLeaves
<1>6. \A k : first \in Seq(StepsOf(k)) /\ second \in Seq(StepsOf(k))
  <2>1. \A k : /\ [file |-> Keypair(Session), to |-> None] \in StepsOf(k)
               /\ [file |-> Phrase(Session), to |-> None] \in StepsOf(k)
    BY SessionFiles DEF StepsOf, FileSteps, Values
  <2>2. \A k : <<>> \in Seq(StepsOf(k))
    OBVIOUS
  <2>3. QED BY <2>1, <2>2, RemoveIn
<1>7. first \in Seq(KeylessSteps) /\ second \in Seq(KeylessSteps)
  <2>1. /\ [file |-> Keypair(Session), to |-> None] \in KeylessSteps
        /\ [file |-> Phrase(Session), to |-> None] \in KeylessSteps
    BY SessionFiles, Words DEF KeylessSteps, FileSteps, Values
  <2>2. <<>> \in Seq(KeylessSteps)
    OBVIOUS
  <2>3. QED BY <2>1, <2>2, RemoveIn
<1> HIDE DEF first, second
<1>8. Settles(Keypair(Session), None)'
  BY <1>3, <1>4, <1>5, LeavesJoin DEF Settles, Exists
<1>9. w.phrase_path => Settles(Phrase(Session), None)'
  BY <1>3, <1>4, <1>5, LeavesJoin DEF Settles, Exists
<1>10. Together'
  <2>1. failures = 0 => w.phrase_path
    BY DEF PhraseInv, RecordsHavePhrases
  <2>2. QED BY <1>8, <1>9, <2>1 DEF Together
<1>11. OneKey'
  <2>1. PICK k \in Values :
          /\ disk[Keypair(Session)] \in {None, Torn, k}
          /\ \/ disk[Phrase(Session)] \in {None, Torn, k}
             \/ failures > 0 /\ disk[Keypair(Session)] \notin Keys
    BY BeforeACall
  <2>2. todo' \in Seq(StepsOf(k)) /\ todo' \in Seq(KeylessSteps)
    BY <1>3, <1>6, <1>7, PlanJoin
  <2>3. QED BY <2>1, <2>2 DEF OneKey
<1>12. QED BY <1>2, <1>10, <1>11

----------------------------------------------------------------------------
(* The phrase through every step *)

\* A record of the session wallet that has just been read from its files.
JustRead(w) ==
  /\ todo = <<>> /\ disk[SeedTxt] = None /\ disk[Keypair(Session)] \in Keys
  /\ w.phrase_path = Exists(Phrase(Session))

\* The files stay, and the records of wallets are known already or just read.
LEMMA FilesStay ==
  ASSUME IInv, PhraseInv, UNCHANGED storeVars, call' = call \/ call'.name \notin SessionCalls,
         \A w \in available' \cup {active', pending_delete'} :
           \/ w \in available \cup {active, pending_delete, NoWallet}
           \/ w.slot # Session \/ JustRead(w)
  PROVE  PhraseInv'
<1>1. disk' = disk /\ todo' = todo /\ failures' = failures
  BY DEF storeVars
<1>2. \A w \in SessionRecords' : w \in SessionRecords \/ JustRead(w)
  <2>1. NoWallet.slot # Session
    BY WalletOrNone, Words
  <2>2. QED BY <2>1 DEF SessionRecords
<1>3. Migrated'
  BY <1>1 DEF PhraseInv, Migrated, Settles
<1>4. Legacy'
  BY <1>1, <1>2 DEF PhraseInv, Legacy, JustRead
<1>5. Together' /\ OneKey'
  BY <1>1 DEF PhraseInv, Together, OneKey, Settles
<1>6. RecordsHavePhrases'
  <2>1. ASSUME failures = 0, NEW w, JustRead(w) PROVE w.phrase_path
    <3>1. disk[Keypair(Session)] \in Keys /\ todo = <<>> /\ disk[SeedTxt] = None
      BY <2>1 DEF JustRead
    <3>2. Exists(Keypair(Session)) /\ ~Exists(SeedTxt)
      BY <3>1, Words DEF Exists
    <3>3. Exists(Phrase(Session))
      BY <2>1, <3>1, <3>2, BeforeACall DEF IInv
    <3>4. QED BY <2>1, <3>3 DEF JustRead
  <2>2. QED BY <1>1, <1>2, <2>1 DEF PhraseInv, RecordsHavePhrases
<1>7. QED BY <1>1, <1>3, <1>4, <1>5, <1>6 DEF PhraseInv

\* A call begins: the windows stand still.
LEMMA BeginningKeeps ==
  ASSUME PhraseInv, UNCHANGED <<disk, failures, wallets, pending_delete>>,
         Migrated', Together', OneKey',
         disk[SeedTxt] # None =>
           /\ todo' \in Seq(MigrationSteps(disk[SeedTxt]))
           /\ call'.name \in SessionCalls => call'.key = None
  PROVE  PhraseInv'
<1>1. SessionRecords' = SessionRecords
  BY DEF SessionRecords, wallets
<1>2. Legacy'
  BY <1>1 DEF PhraseInv, Legacy
<1>3. RecordsHavePhrases'
  BY <1>1 DEF PhraseInv, RecordsHavePhrases
<1>4. QED BY <1>2, <1>3 DEF PhraseInv

LEMMA SessionCallKeepsPhrase ==
  ASSUME IInv, PhraseInv, todo = <<>>, NEW name \in SessionCalls, CallSession(name),
         UNCHANGED <<wallets, pending_delete>>
  PROVE  PhraseInv'
<1>1. Types
  BY DEF IInv
<1>2. CASE Exists(Keypair(Session))
  <2>1. /\ call' = [name |-> name, key |-> None, ok |-> TRUE, part |-> "First"]
        /\ todo' = Migrate /\ disk' = disk /\ failures' = failures
    BY <1>2 DEF CallSession, Call
  <2>2. /\ Together' /\ OneKey' /\ Settles(SeedTxt, None)'
        /\ todo' \in Seq(MigrationSteps(disk[SeedTxt]))
    BY <1>1, <2>1, MigrationBegins
  <2>3. call'.key = None /\ call'.part # "Listing"
    BY <2>1
  <2>4. Migrated'
    BY <2>2, <2>3 DEF Migrated
  <2>5. QED BY <2>1, <2>2, <2>3, <2>4, BeginningKeeps
<1>3. CASE ~Exists(Keypair(Session))
  <2>1. PICK key \in FreshKeys \ generated : Call(name, key, CreateSession(key))
    BY <1>3 DEF CallSession
  <2>2. /\ call' = [name |-> name, key |-> key, ok |-> TRUE, part |-> "First"]
        /\ todo' = CreateSession(key) /\ disk' = disk /\ failures' = failures
        /\ key \in Keys
    BY <2>1, Words DEF Call
  <2>3. Together' /\ OneKey' /\ Settles(SeedTxt, None)'
    BY <1>1, <2>2, SessionBegins
  <2>4. disk[SeedTxt] = None
    BY <1>1, <1>3, BeforeACall DEF Exists
  <2>5. call'.part # "Listing"
    BY <2>2
  <2>6. Migrated'
    BY <2>3, <2>5 DEF Migrated
  <2>7. QED BY <2>2, <2>3, <2>4, <2>6, BeginningKeeps
<1>4. QED BY <1>2, <1>3

\* An idle program has nothing to do on the files.
LEMMA IdleHasNoPlan ==
  ASSUME IInv, Idle
  PROVE  todo = <<>>
BY DEF IInv, Control, Idle

LEMMA SessionCallsKeepPhrase ==
  ASSUME IInv, PhraseInv,
         Open \/ Withdraw \/ \E name \in {"Deposit", "Start"} : EnsureActiveWallet(name)
  PROVE  PhraseInv'
<1>1. \E name \in SessionCalls : CallSession(name)
  BY DEF Open, Withdraw, EnsureActiveWallet, SessionCalls
<1>2. todo = <<>> /\ UNCHANGED <<wallets, pending_delete>>
  BY IdleHasNoPlan DEF Open, Withdraw, EnsureActiveWallet, IInv, Control
<1>3. QED BY <1>1, <1>2, SessionCallKeepsPhrase

\* Another key's files.
LEMMA OwnFilesOnly ==
  ASSUME NEW k \in Keys, NEW p \in BOOLEAN, NEW f \in {Keypair(Session), Phrase(Session), SeedTxt}
  PROVE  WriteWallet(k, k, p) \in Seq(FileSteps) /\ Untouched(WriteWallet(k, k, p), f)
<1>1. /\ Keypair(k) \in Files /\ Phrase(k) \in Files /\ k \in Values
      /\ f # Keypair(k) /\ f # Phrase(k)
  BY FileNames, SlotNames, Words DEF Values
<1>2. /\ Write(Keypair(k), k) \in Seq(FileSteps) /\ Untouched(Write(Keypair(k), k), f)
      /\ Write(Phrase(k), k) \in Seq(FileSteps) /\ Untouched(Write(Phrase(k), k), f)
      /\ <<>> \in Seq(FileSteps) /\ Untouched(<<>>, f)
  <2>1. <<>> \in Seq(FileSteps) /\ Untouched(<<>>, f)
    BY DEF Untouched
  <2>2. QED BY <1>1, <2>1, WriteLeaves
<1>3. QED BY <1>2, PlanJoin, LeavesJoin DEF WriteWallet

LEMMA DeletesOwnFilesOnly ==
  ASSUME NEW w \in Wallets, w.slot # Session, NEW f \in {Keypair(Session), Phrase(Session), SeedTxt}
  PROVE  DeleteManagedWallet(w) \in Seq(FileSteps) /\ Untouched(DeleteManagedWallet(w), f)
<1>1. /\ Keypair(w.slot) \in Files /\ Phrase(w.slot) \in Files
      /\ f # Keypair(w.slot) /\ f # Phrase(w.slot)
  BY FileNames, WalletOrNone
<1>2. /\ Remove(Keypair(w.slot)) \in Seq(FileSteps) /\ Untouched(Remove(Keypair(w.slot)), f)
      /\ Remove(Phrase(w.slot)) \in Seq(FileSteps) /\ Untouched(Remove(Phrase(w.slot)), f)
      /\ <<>> \in Seq(FileSteps) /\ Untouched(<<>>, f)
  <2>1. <<>> \in Seq(FileSteps) /\ Untouched(<<>>, f)
    BY DEF Untouched
  <2>2. QED BY <1>1, <2>1, RemoveLeaves
<1>3. QED BY <1>2, PlanJoin, LeavesJoin DEF DeleteManagedWallet

\* Creating, importing and deleting.
LEMMA WalletCallKeepsPhrase ==
  ASSUME IInv, PhraseInv, todo = <<>>,
         NEW name \in {"Create", "ImportPhrase", "ImportKey", "Delete"}, NEW key, NEW plan,
         Call(name, key, plan), UNCHANGED <<wallets, pending_delete>>,
         \/ /\ plan \in Seq(FileSteps)
            /\ \A f \in {Keypair(Session), Phrase(Session), SeedTxt} : Untouched(plan, f)
         \/ \E w \in SessionRecords : plan = DeleteManagedWallet(w)
  PROVE  PhraseInv'
<1>1. /\ todo' = plan /\ disk' = disk /\ failures' = failures
      /\ call'.name = name /\ name \notin SessionCalls
  BY DEF Call, SessionCalls
<1>2. Migrated'
  BY <1>1 DEF Migrated
<1>3. /\ Together' /\ OneKey'
      /\ disk[SeedTxt] # None => todo' \in Seq(MigrationSteps(disk[SeedTxt]))
  <2>1. Types
    BY DEF IInv
  <2>2. CASE \E w \in SessionRecords : plan = DeleteManagedWallet(w)
    BY <1>1, <2>1, <2>2, SessionDeletionBegins
  <2>3. CASE /\ plan \in Seq(FileSteps)
             /\ \A f \in {Keypair(Session), Phrase(Session), SeedTxt} : Untouched(plan, f)
    <3>1. /\ todo' \in Seq(FileSteps) /\ Untouched(todo', Keypair(Session))
          /\ Untouched(todo', Phrase(Session)) /\ Untouched(todo', SeedTxt)
      BY <1>1, <2>3
    <3>2. QED BY <1>1, <3>1, OtherFilesBegin
  <2>4. QED BY <2>2, <2>3
<1>4. QED BY <1>1, <1>2, <1>3, BeginningKeeps

LEMMA WalletCallsKeepPhrase ==
  ASSUME IInv, PhraseInv, CreateManagedWallet \/ ImportManagedWallet \/ ConfirmWalletDelete
  PROVE  PhraseInv'
<1>1. todo = <<>> /\ UNCHANGED <<wallets, pending_delete>>
  BY IdleHasNoPlan DEF CreateManagedWallet, ImportManagedWallet, ConfirmWalletDelete
<1>2. CASE CreateManagedWallet
  <2>1. PICK key \in FreshKeys \ generated : Call("Create", key, CreateDedicatedWallet(key))
    BY <1>2 DEF CreateManagedWallet
  <2>2. key \in Keys
    BY Words
  <2>3. /\ CreateDedicatedWallet(key) \in Seq(FileSteps)
        /\ \A f \in {Keypair(Session), Phrase(Session), SeedTxt} : Untouched(CreateDedicatedWallet(key), f)
    BY <2>2, OwnFilesOnly DEF CreateDedicatedWallet
  <2>4. QED BY <1>1, <2>1, <2>3, WalletCallKeepsPhrase
<1>3. CASE ImportManagedWallet
  <2>1. PICK key \in ForeignKeys \cup (revealed \ KeysOf(available)), with_phrase \in BOOLEAN :
          Call(IF with_phrase THEN "ImportPhrase" ELSE "ImportKey", key, ImportWallet(key, with_phrase))
    BY <1>3 DEF ImportManagedWallet
  <2>2. key \in Keys
    BY Words DEF IInv, Types
  <2>3. /\ ImportWallet(key, with_phrase) \in Seq(FileSteps)
        /\ \A f \in {Keypair(Session), Phrase(Session), SeedTxt} : Untouched(ImportWallet(key, with_phrase), f)
    BY <2>2, OwnFilesOnly DEF ImportWallet
  <2>4. QED BY <1>1, <2>1, <2>3, WalletCallKeepsPhrase
<1>4. CASE ConfirmWalletDelete
  <2>1. /\ Call("Delete", pending_delete.key, DeleteManagedWallet(pending_delete))
        /\ pending_delete \in Wallets
    BY <1>4 DEF ConfirmWalletDelete, IInv, Types
  <2>2. CASE pending_delete.slot = Session
    <3>1. pending_delete \in SessionRecords
      BY <2>2 DEF SessionRecords
    <3>2. QED BY <1>1, <2>1, <3>1, WalletCallKeepsPhrase
  <2>3. CASE pending_delete.slot # Session
    BY <1>1, <2>1, <2>3, DeletesOwnFilesOnly, WalletCallKeepsPhrase
  <2>4. QED BY <2>2, <2>3
<1>5. QED BY <1>2, <1>3, <1>4

\* What could not be migrated is tried again: its keypair is there, so none is made.
LEMMA RetryKeepsPhrase ==
  ASSUME IInv, PhraseInv, Retry
  PROVE  PhraseInv'
<1> DEFINE creates == call.name = "Open" /\ call.part = "First"
<1>1. /\ todo = <<>> /\ Exists(SeedTxt) /\ disk' = disk /\ failures' = failures
      /\ UNCHANGED <<wallets, pending_delete>>
      /\ call' = [call EXCEPT !.ok = @ \/ creates, !.part = IF creates THEN "Creating" ELSE "Listing"]
      /\ todo' = IF creates THEN CreateSession(call.key) ELSE Migrate
  BY DEF Retry, RetryDue
<1>2. call \in [name: CallNames, key: Keys \cup {None}, ok: BOOLEAN,
                part: {"First", "Creating", "Listing"}] /\ Types
  BY DEF IInv, Types
<1>3. /\ call'.name = call.name /\ call'.key = call.key /\ call.key \in Keys \cup {None}
      /\ call'.part = IF creates THEN "Creating" ELSE "Listing"
      /\ ~creates => call'.ok = call.ok
  BY <1>1, <1>2
<1>4. Exists(Keypair(Session))
  BY <1>1, <1>2, Words, BeforeACall DEF Exists
<1>5. /\ Together' /\ OneKey' /\ Settles(SeedTxt, None)'
      /\ disk[SeedTxt] # None => todo' \in Seq(MigrationSteps(disk[SeedTxt]))
  <2>1. CASE creates
    BY <1>1, <1>2, <1>3, <1>4, <2>1, SessionBegins
  <2>2. CASE ~creates
    BY <1>1, <1>2, <2>2, MigrationBegins
  <2>3. QED BY <2>1, <2>2
<1>6. Migrated'
  <2>1. CASE creates
    BY <1>3, <1>5, <2>1 DEF Migrated
  <2>2. CASE ~creates
    <3>1. ~(call.name \in SessionCalls /\ call.ok)
      BY <1>1, SettledNow DEF PhraseInv, Migrated, Exists
    <3>2. QED BY <1>3, <2>2, <3>1 DEF Migrated
  <2>3. QED BY <2>1, <2>2
<1>7. call'.name \in SessionCalls => call'.key = None
  BY <1>1, <1>3 DEF PhraseInv, Legacy, Exists
<1>8. QED BY <1>1, <1>5, <1>6, <1>7, BeginningKeeps

\* A step of a call on its files.
LEMMA CallStepKeepsPhrase ==
  ASSUME IInv, PhraseInv, CallStep
  PROVE  PhraseInv'
<1> DEFINE file == Head(todo).file
           to   == Head(todo).to
<1>1. /\ FileStep /\ UNCHANGED <<call, wallets, pending_delete, failures>>
      /\ todo # <<>> /\ todo' = Tail(todo) /\ disk' = [disk EXCEPT ![file] = to]
  BY DEF CallStep, FileStep
<1>2. todo \in Seq(Allowed) /\ todo \in Seq(FileSteps) /\ disk \in [Files -> Values]
  <2>1. todo \in Seq(Allowed)
    BY DEF IInv, Plans, Allowed
  <2>2. Allowed \subseteq FileSteps
    BY DEF Allowed
  <2>3. QED BY <2>1, <2>2 DEF IInv, Types
<1>3. /\ Head(todo) \in Allowed /\ \A A : todo \in Seq(A) => Head(todo) \in A /\ Tail(todo) \in Seq(A)
  BY <1>1, <1>2, HeadAndTail
<1>4. file \in Files /\ (file = SeedTxt => to = None)
  BY <1>3 DEF Allowed, Fitting, FileSteps
<1>5. \A f \in Files : disk'[f] = IF f = file THEN to ELSE disk[f]
  BY <1>1, <1>2, <1>4
<1>6. \A f \in Files : \A v : Settles(f, v) => Settles(f, v)'
  BY <1>1, <1>2, SettlesStep
<1>7. SessionRecords' = SessionRecords
  BY <1>1 DEF SessionRecords, wallets
<1> DEFINE KS == Keypair(Session)
           PS == Phrase(Session)
<1>8. KS \in Files /\ PS \in Files /\ SeedTxt \in Files /\ KS # PS
  BY SessionFiles
<1>9. Migrated'
  BY <1>1, <1>6, <1>8 DEF PhraseInv, Migrated
<1>10. Legacy'
  <2>1. SUFFICES ASSUME disk'[SeedTxt] # None
                 PROVE  /\ disk'[SeedTxt] = disk[SeedTxt] /\ disk[SeedTxt] # None
                        /\ disk'[KS] = disk[KS]
                        /\ disk'[PS] \in {disk[PS], Torn, disk[SeedTxt]}
                        /\ todo' \in Seq(MigrationSteps(disk[SeedTxt]))
    BY <1>1, <1>7 DEF PhraseInv, Legacy
  <2>2. disk'[SeedTxt] = disk[SeedTxt] /\ disk[SeedTxt] # None
    BY <1>4, <1>5, <1>8, <2>1
  <2>3. todo \in Seq(MigrationSteps(disk[SeedTxt]))
    BY <2>2 DEF PhraseInv, Legacy
  <2>4. /\ Head(todo) \in MigrationSteps(disk[SeedTxt])
        /\ Tail(todo) \in Seq(MigrationSteps(disk[SeedTxt]))
    BY <1>3, <2>3
  <2>5. file # KS /\ (file = PS => to \in {Torn, disk[SeedTxt]})
    BY <2>4 DEF MigrationSteps
  <2>6. QED BY <1>1, <1>5, <1>8, <2>2, <2>4, <2>5
<1>11. Together'
  <2>1. disk[SeedTxt] # None /\ Untouched(todo, SeedTxt)
          => disk'[SeedTxt] # None /\ Untouched(todo', SeedTxt)
    BY <1>1, <1>2, <1>5, <1>8, UntouchedStep
  <2>2. QED BY <1>1, <1>6, <1>8, <2>1 DEF PhraseInv, Together
<1>12. OneKey'
  <2>1. PICK k \in Values :
          /\ todo \in Seq(StepsOf(k))
          /\ disk[KS] \in {None, Torn, k}
          /\ \/ disk[PS] \in {None, Torn, k}
             \/ failures > 0 /\ Settles(PS, k)
             \/ failures > 0 /\ disk[KS] \notin Keys /\ todo \in Seq(KeylessSteps)
    BY DEF PhraseInv, OneKey
  <2>2. Head(todo) \in StepsOf(k) /\ todo' \in Seq(StepsOf(k))
    BY <1>1, <1>3, <2>1
  <2>3. file \in {KS, PS} => to \in {None, Torn, k}
    BY <2>2 DEF StepsOf
  <2>4. disk'[KS] \in {None, Torn, k}
    BY <1>5, <1>8, <2>1, <2>3
  <2>5. \/ disk'[PS] \in {None, Torn, k}
        \/ failures > 0 /\ Settles(PS, k)'
        \/ failures > 0 /\ disk'[KS] \notin Keys /\ todo' \in Seq(KeylessSteps)
    <3>1. CASE disk[PS] \in {None, Torn, k}
      BY <1>5, <1>8, <2>3, <3>1
    <3>2. CASE failures > 0 /\ Settles(PS, k)
      BY <1>6, <1>8, <3>2
    <3>3. CASE failures > 0 /\ disk[KS] \notin Keys /\ todo \in Seq(KeylessSteps)
      <4>1. Head(todo) \in KeylessSteps /\ todo' \in Seq(KeylessSteps)
        BY <1>1, <1>3, <3>3
      <4>2. disk'[KS] \notin Keys
        BY <1>5, <1>8, <3>3, <4>1 DEF KeylessSteps
      <4>3. QED BY <3>3, <4>1, <4>2
    <3>4. QED BY <2>1, <3>1, <3>2, <3>3
  <2>6. QED BY <1>1, <2>2, <2>4, <2>5 DEF OneKey
<1>13. RecordsHavePhrases'
  BY <1>1, <1>7 DEF PhraseInv, RecordsHavePhrases
<1>14. QED BY <1>1, <1>9, <1>10, <1>11, <1>12, <1>13 DEF PhraseInv

\* The first call that fails, or is cut short, leaves one key in the two files.
LEMMA CutShortKeepsPhrase ==
  ASSUME PhraseInv, failures' <= 1, CutShort, SessionRecords' \subseteq SessionRecords,
         call'.name \in SessionCalls =>
           /\ call'.name = call.name /\ call'.key = call.key
           /\ call'.ok => call.ok /\ call.part = "Listing"
  PROVE  PhraseInv'
<1>1. /\ todo' = <<>> /\ disk' = disk /\ failures = 0 /\ failures' = 1
  BY DEF CutShort, PhraseInv
<1>2. Migrated'
  BY DEF PhraseInv, Migrated
<1>3. Legacy'
  <2>1. <<>> \in Seq(MigrationSteps(disk[SeedTxt]))
    OBVIOUS
  <2>2. QED BY <1>1, <2>1 DEF PhraseInv, Legacy
<1>4. Together' /\ RecordsHavePhrases'
  BY <1>1 DEF Together, RecordsHavePhrases
<1>5. OneKey'
  <2>1. \A k : <<>> \in Seq(StepsOf(k))
    OBVIOUS
  <2>2. PICK k \in Values : disk[Keypair(Session)] \in {None, Torn, k} /\ disk[Phrase(Session)] \in {None, Torn, k}
    BY <1>1 DEF PhraseInv, OneKey
  <2>3. QED BY <1>1, <2>1, <2>2 DEF OneKey
<1>6. QED BY <1>1, <1>2, <1>3, <1>4, <1>5 DEF PhraseInv

LEMMA FailureKeepsPhrase ==
  ASSUME IInv, PhraseInv, failures' <= 1, CallFails \/ Quit
  PROVE  PhraseInv'
<1>1. CASE CallFails
  <2>1. CutShort /\ UNCHANGED <<wallets, pending_delete>>
    BY <1>1 DEF CallFails
  <2>2. SessionRecords' = SessionRecords
    BY <2>1 DEF SessionRecords, wallets
  <2>3. call' = [call EXCEPT !.ok = @ /\ call.part = "Listing"]
    BY <1>1 DEF CallFails
  <2>4. call'.name = call.name /\ call'.key = call.key /\ (call'.ok => call.ok /\ call.part = "Listing")
    BY <2>3 DEF IInv, Types
  <2>5. QED BY <2>1, <2>2, <2>4, CutShortKeepsPhrase
<1>2. CASE Quit
  <2>1. /\ call'.name \notin SessionCalls /\ available' = {} /\ active' = NoWallet /\ pending_delete' = NoWallet
    BY <1>2, NoCallType DEF Quit
  <2>2. CASE todo = <<>>
    <3>1. UNCHANGED storeVars
      BY <1>2, <2>2 DEF Quit
    <3>2. QED BY <2>1, <3>1, FilesStay
  <2>3. CASE todo # <<>>
    <3>1. CutShort
      BY <1>2, <2>3 DEF Quit
    <3>2. SessionRecords' = {}
      BY <2>1, WalletOrNone, Words DEF SessionRecords
    <3>3. QED BY <2>1, <3>1, <3>2, CutShortKeepsPhrase
  <2>4. QED BY <2>2, <2>3
<1>3. QED BY <1>1, <1>2

\* What a listing finds under the session wallet's name has just been read, or was known.
LEMMA ListedIsRead ==
  ASSUME todo = <<>>, disk \in [Files -> Values], NEW w \in Listed, w.slot = Session
  PROVE  w \in available \/ JustRead(w)
<1>1. CASE Exists(SeedTxt)
  BY <1>1 DEF Listed
<1>2. CASE ~Exists(SeedTxt)
  <2>1. PICK s \in Slots : /\ disk[Keypair(s)] \in Keys
                           /\ w = Managed(s, disk[Keypair(s)], Exists(Phrase(s)), None)
    BY <1>2 DEF Listed, ListManagedWallets
  <2>2. w.slot = s /\ w.phrase_path = Exists(Phrase(s))
    BY <2>1 DEF Managed
  <2>3. s = Session
    BY <2>2
  <2>4. QED BY <1>2, <2>1, <2>2, <2>3 DEF JustRead, Exists
<1>3. QED BY <1>1, <1>2

\* So has the session wallet that a call returns.
LEMMA SessionIsRead ==
  ASSUME PhraseInv, todo = <<>>, call.name \in SessionCalls, SessionWallet # NoWallet
  PROVE  JustRead(SessionWallet)
<1>1. /\ call.ok /\ disk[Keypair(Session)] \in Keys
      /\ SessionWallet = Managed(Session, disk[Keypair(Session)], Exists(Phrase(Session)), call.key)
  BY DEF SessionWallet
<1>2. disk[SeedTxt] = None
  BY <1>1, SettledNow DEF PhraseInv, Migrated
<1>3. SessionWallet.phrase_path = Exists(Phrase(Session))
  BY <1>1 DEF Managed
<1>4. QED BY <1>1, <1>2, <1>3 DEF JustRead

\* A call returns.
LEMMA ReturnKeepsPhrase ==
  ASSUME IInv, PhraseInv,
         \/ Opened \/ Created \/ Deleted \/ SessionReady
         \/ \E with_phrase \in BOOLEAN : Imported(with_phrase)
         \/ \E name \in {"Deposit", "Start"} : Ensured(name)
  PROVE  PhraseInv'
<1> DEFINE Known == available \cup {active, pending_delete, NoWallet}
           May(w) == w \in Known \/ w.slot # Session \/ JustRead(w)
<1>1. UNCHANGED storeVars /\ todo = <<>> /\ call'.name \notin SessionCalls
  BY NoCallType DEF Opened, Created, Deleted, SessionReady, Imported, Ensured, Returns
<1>2. SUFFICES \A w \in available' \cup {active', pending_delete'} : May(w)
  BY <1>1, FilesStay
<1>3. \A w \in Listed : May(w)
  BY <1>1, ListedIsRead DEF IInv, Types
<1>4. \A w \in Firsts(Listed) : May(w)
  BY <1>3, FirstsOf
<1>5. call.name \in SessionCalls /\ SessionWallet # NoWallet => May(SessionWallet)
  BY <1>1, SessionIsRead
<1>6. CASE Opened
  <2>1. /\ available' = Listed /\ pending_delete' = pending_delete
        /\ active' \in Choices(prefs, IF SessionWallet # NoWallet THEN {SessionWallet} ELSE Firsts(available'))
        /\ call.name = "Open"
    BY <1>6 DEF Opened, Returns
  <2>2. call.name \in SessionCalls
    BY <2>1 DEF SessionCalls
  <2> DEFINE others == IF SessionWallet # NoWallet THEN {SessionWallet} ELSE Firsts(available')
  <2>3. active' \in available' \cup others \cup {NoWallet}
    <3> HIDE DEF others
    <3>1. active' \in Choices(prefs, others)
      BY <2>1 DEF others
    <3>2. QED BY <3>1, Chosen
  <2>4. \A w \in others : May(w)
    BY <1>4, <1>5, <2>1, <2>2
  <2> HIDE DEF others
  <2>5. May(active')
    BY <1>3, <2>1, <2>3, <2>4
  <2>6. QED BY <1>3, <2>1, <2>5
<1>7. CASE Created
  <2>1. CASE ~call.ok /\ UNCHANGED <<wallets, balances, recovery, prefs>>
    BY <1>7, <2>1 DEF Created, wallets
  <2>2. CASE ~(~call.ok /\ UNCHANGED <<wallets, balances, recovery, prefs>>)
    <3>1. /\ available' = Listed /\ active' = Managed(call.key, call.key, TRUE, call.key)
          /\ pending_delete' = pending_delete /\ call.name = "Create"
      BY <1>7, <2>2 DEF Created, Returns
    <3>2. call.key \in Keys
      BY <3>1 DEF IInv, Control
    <3>3. active'.slot # Session
      BY <3>1, <3>2, Words DEF Managed
    <3>4. QED BY <1>3, <3>1, <3>3
  <2>3. QED BY <2>1, <2>2
<1>8. CASE Deleted
  <2>1. CASE ~call.ok /\ UNCHANGED <<wallets, balances, recovery, pending_delete, prefs>>
    BY <1>8, <2>1 DEF Deleted, wallets
  <2>2. CASE ~(~call.ok /\ UNCHANGED <<wallets, balances, recovery, pending_delete, prefs>>)
    <3>1. /\ available' = Listed /\ pending_delete' = NoWallet
          /\ active' \in IF Exists(SeedTxt) THEN {active} ELSE Choices(active.key, Firsts(available'))
      BY <1>8, <2>2 DEF Deleted
    <3>2. May(active')
      <4>1. CASE Exists(SeedTxt)
        BY <3>1, <4>1
      <4>2. CASE ~Exists(SeedTxt)
        <5>1. active' \in available' \cup Firsts(available') \cup {NoWallet}
          BY <3>1, <4>2, Chosen
        <5>2. QED BY <1>3, <1>4, <3>1, <5>1
      <4>3. QED BY <4>1, <4>2
    <3>3. QED BY <1>3, <3>1, <3>2
  <2>3. QED BY <2>1, <2>2
<1>9. CASE SessionReady
  BY <1>9 DEF SessionReady, wallets
<1>10. ASSUME NEW with_phrase \in BOOLEAN, Imported(with_phrase)
       PROVE  \A w \in available' \cup {active', pending_delete'} : May(w)
  <2>1. CASE ~call.ok /\ UNCHANGED <<wallets, balances, requires_ack, acknowledged, prefs>>
    BY <1>10, <2>1 DEF Imported, wallets
  <2>2. CASE ~(~call.ok /\ UNCHANGED <<wallets, balances, requires_ack, acknowledged, prefs>>)
    <3>1. /\ available' = Listed /\ pending_delete' = pending_delete
          /\ active' = Managed(call.key, call.key, with_phrase, IF with_phrase THEN call.key ELSE None)
          /\ call.name \in {"ImportPhrase", "ImportKey"}
      BY <1>10, <2>2 DEF Imported, Returns, Select
    <3>2. call.key \in Keys
      BY <3>1 DEF IInv, Control
    <3>3. active'.slot # Session
      BY <3>1, <3>2, Words DEF Managed
    <3>4. QED BY <1>3, <3>1, <3>3
  <2>3. QED BY <2>1, <2>2
<1>11. ASSUME NEW name \in {"Deposit", "Start"}, Ensured(name)
       PROVE  \A w \in available' \cup {active', pending_delete'} : May(w)
  <2>1. call.name \in SessionCalls /\ pending_delete' = pending_delete
    BY <1>11 DEF Ensured, Returns, SessionCalls
  <2>2. CASE SessionWallet = NoWallet
    BY <1>11, <2>1, <2>2 DEF Ensured, wallets
  <2>3. CASE SessionWallet # NoWallet
    <3>1. available' \subseteq available \cup {SessionWallet} /\ active' = SessionWallet
      BY <1>11, <2>3 DEF Ensured
    <3>2. May(SessionWallet)
      BY <1>5, <2>1, <2>3
    <3>3. QED BY <2>1, <3>1, <3>2
  <2>4. QED BY <2>2, <2>3
<1>12. QED BY <1>6, <1>7, <1>8, <1>9, <1>10, <1>11

\* What the windows do while no call is at work.
LEMMA WindowsKeepPhrase ==
  ASSUME IInv, PhraseInv,
         \/ TriggerRefresh \/ PollBalance \/ PollList
         \/ \E w \in available : UseWallet(w) \/ RequestWalletDelete(w)
         \/ CancelDelete \/ \E require_ack \in BOOLEAN : OpenRecovery(require_ack)
         \/ ShowMaterial \/ Acknowledge \/ CloseRecovery
         \/ StartMining \/ PollMining
  PROVE  PhraseInv'
<1>1. /\ UNCHANGED <<storeVars, call, available>>
      /\ active' \in available \cup {active} /\ pending_delete' \in available \cup {pending_delete, NoWallet}
  BY DEF TriggerRefresh, PollBalance, PollList, UseWallet, Select, RequestWalletDelete, CancelDelete,
         OpenRecovery, ShowMaterial, Acknowledge, CloseRecovery, StartMining, PollMining, wallets
<1>2. \A w \in available' \cup {active', pending_delete'} :
        w \in available \cup {active, pending_delete, NoWallet}
  BY <1>1
<1>3. QED BY <1>1, <1>2, FilesStay

----------------------------------------------------------------------------
(* The session wallet's phrase *)

LEMMA PhraseInvInit == Init => PhraseInv
<1> SUFFICES ASSUME Init PROVE PhraseInv
  OBVIOUS
<1>1. /\ call = NoCall /\ available = {} /\ active = NoWallet /\ pending_delete = NoWallet
      /\ todo = <<>> /\ failures = 0
  BY DEF Init, StoreInit
<1>2. PICK old \in ForeignKeys \cup {None} :
        disk = [f \in Files |-> IF f \in {Keypair(Session), SeedTxt} THEN old ELSE None]
  BY DEF Init, StoreInit
<1>3. /\ disk[SeedTxt] = old /\ disk[Keypair(Session)] = old /\ disk[Phrase(Session)] = None
      /\ old \in Keys \cup {None} /\ old \in Values
  BY <1>2, SessionFiles, Words DEF Values
<1>4. SessionRecords = {}
  BY <1>1, WalletOrNone, Words DEF SessionRecords
<1>5. Migrated
  BY <1>1, NoCallType DEF Migrated
<1>6. Legacy
  <2>1. <<>> \in Seq(MigrationSteps(disk[SeedTxt]))
    OBVIOUS
  <2>2. QED BY <1>1, <1>3, <1>4, <2>1, NoCallType DEF Legacy
<1>7. Together
  <2>1. Untouched(todo, SeedTxt)
    BY <1>1 DEF Untouched
  <2>2. QED BY <1>1, <1>3, <2>1, SettledNow DEF Together
<1>8. OneKey
  <2>1. \A k : <<>> \in Seq(StepsOf(k))
    OBVIOUS
  <2>2. QED BY <1>1, <1>3, <2>1 DEF OneKey
<1>9. QED BY <1>1, <1>4, <1>5, <1>6, <1>7, <1>8 DEF PhraseInv, RecordsHavePhrases

\* Failures are counted, and none is forgotten.
LEMMA FailuresAreCounted ==
  ASSUME failures \in Nat, [Next]_vars
  PROVE  failures' \in Nat /\ failures <= failures'
<1>1. failures' = failures \/ CutShort
  <2>1. CASE CallStep \/ CallFails \/ Quit
    BY <2>1 DEF CallStep, FileStep, CallFails, Quit, storeVars
  <2>2. CASE Open \/ Withdraw \/ \E name \in {"Deposit", "Start"} : EnsureActiveWallet(name)
    BY <2>2 DEF Open, Withdraw, EnsureActiveWallet, CallSession, Call
  <2>3. CASE CreateManagedWallet \/ ImportManagedWallet \/ ConfirmWalletDelete \/ Retry
    BY <2>3 DEF CreateManagedWallet, ImportManagedWallet, ConfirmWalletDelete, Call, Retry
  <2>4. CASE \/ Opened \/ Created \/ Deleted \/ SessionReady
             \/ \E with_phrase \in BOOLEAN : Imported(with_phrase)
             \/ \E name \in {"Deposit", "Start"} : Ensured(name)
    BY <2>4 DEF Opened, Created, Deleted, SessionReady, Imported, Ensured, Returns, storeVars
  <2>5. CASE \/ TriggerRefresh \/ PollBalance \/ PollList
             \/ \E w \in available : UseWallet(w) \/ RequestWalletDelete(w)
             \/ CancelDelete \/ \E require_ack \in BOOLEAN : OpenRecovery(require_ack)
             \/ ShowMaterial \/ Acknowledge \/ CloseRecovery
             \/ StartMining \/ PollMining
    BY <2>5 DEF TriggerRefresh, PollBalance, PollList, UseWallet, RequestWalletDelete, CancelDelete,
         OpenRecovery, ShowMaterial, Acknowledge, CloseRecovery, StartMining, PollMining, storeVars
  <2>6. CASE UNCHANGED vars
    BY <2>6 DEF vars, storeVars
  <2>7. QED
    BY <2>1, <2>2, <2>3, <2>4, <2>5, <2>6 DEF Next
<1>2. CutShort => failures' = failures + 1
  BY DEF CutShort
<1>3. QED
  BY <1>1, <1>2

LEMMA PhraseInvStep ==
  ASSUME IInv, PhraseInv, failures' <= 1, [Next]_vars PROVE PhraseInv'
<1>1. CASE Open \/ Withdraw \/ \E name \in {"Deposit", "Start"} : EnsureActiveWallet(name)
  BY <1>1, SessionCallsKeepPhrase
<1>2. CASE CreateManagedWallet \/ ImportManagedWallet \/ ConfirmWalletDelete
  BY <1>2, WalletCallsKeepPhrase
<1>3. CASE CallStep \/ Retry
  BY <1>3, CallStepKeepsPhrase, RetryKeepsPhrase
<1>4. CASE CallFails \/ Quit
  BY <1>4, FailureKeepsPhrase
<1>5. CASE \/ Opened \/ Created \/ Deleted \/ SessionReady
           \/ \E with_phrase \in BOOLEAN : Imported(with_phrase)
           \/ \E name \in {"Deposit", "Start"} : Ensured(name)
  BY <1>5, ReturnKeepsPhrase
<1>6. CASE \/ TriggerRefresh \/ PollBalance \/ PollList
           \/ \E w \in available : UseWallet(w) \/ RequestWalletDelete(w)
           \/ CancelDelete \/ \E require_ack \in BOOLEAN : OpenRecovery(require_ack)
           \/ ShowMaterial \/ Acknowledge \/ CloseRecovery
           \/ StartMining \/ PollMining
  BY <1>6, WindowsKeepPhrase
<1>7. CASE UNCHANGED vars
  BY <1>7, FilesStay DEF vars, wallets
<1>8. QED
  BY <1>1, <1>2, <1>3, <1>4, <1>5, <1>6, <1>7 DEF Next

\* Until the second failure the files of the session wallet are as PhraseInv says.
PhraseInvAtFirst == failures \in Nat /\ (failures <= 1 => PhraseInv)

\* While at most one call has failed or been cut short, however many may, the phrase under
\* the session wallet's names is never another wallet's, for any keys, whatever was created,
\* deleted or migrated there (create_session_delegate_wallet, delete_managed_wallet,
\* migrate_legacy_session_wallet_files).
THEOREM ThePhraseRestores == Spec => []SessionPhraseRestores
<1>1. IInv /\ PhraseInvAtFirst /\ [Next]_vars => PhraseInvAtFirst'
  <2>1. SUFFICES ASSUME IInv, PhraseInvAtFirst, [Next]_vars PROVE PhraseInvAtFirst'
    OBVIOUS
  <2>2. failures \in Nat /\ failures' \in Nat /\ failures <= failures'
    BY <2>1, FailuresAreCounted DEF PhraseInvAtFirst
  <2>3. ASSUME failures' <= 1 PROVE PhraseInv'
    <3>1. PhraseInv
      BY <2>1, <2>2, <2>3 DEF PhraseInvAtFirst
    <3>2. QED BY <2>1, <2>3, <3>1, PhraseInvStep
  <2>4. QED BY <2>2, <2>3 DEF PhraseInvAtFirst
<1>2. PhraseInvAtFirst => SessionPhraseRestores
  <2>1. SUFFICES ASSUME PhraseInv, todo = <<>>, disk[Keypair(Session)] \in Keys
                 PROVE  disk[Phrase(Session)] \in {None, Torn, disk[Keypair(Session)]}
    BY DEF SessionPhraseRestores, PhraseInvAtFirst
  <2>2. PICK k \in Values : /\ disk[Keypair(Session)] \in {None, Torn, k}
                            /\ disk[Phrase(Session)] \in {None, Torn, k} \/ Settles(Phrase(Session), k)
    BY <2>1 DEF PhraseInv, OneKey
  <2>3. disk[Phrase(Session)] \in {None, Torn, k}
    BY <2>1, <2>2, SettledNow
  <2>4. disk[Keypair(Session)] = k
    BY <2>1, <2>2, Words
  <2>5. QED BY <2>3, <2>4
<1>3. Init => PhraseInvAtFirst
  BY PhraseInvInit DEF PhraseInv, PhraseInvAtFirst
<1>4. QED BY <1>1, <1>2, <1>3, Inductive, PTL DEF Spec
----------------------------------------------------------------------------
(* No keypair is lost *)

\* The keys that the program has generated, or can have been given.
KnownKeys == generated \cup ForeignKeys
KnownSteps(known) == {s \in FileSteps : s.to \in known \cup {None, Torn}}

\* No other key is in a file, on its way to one, in a call or in a window: a key that is
\* generated now is nowhere yet.
Provenance ==
  /\ \A f \in Files : disk[f] \in KnownKeys \cup {None, Torn}
  /\ todo \in Seq(KnownSteps(KnownKeys))
  /\ call.name # "Delete" => call.key \in KnownKeys \cup {None}
  /\ material \in KnownKeys \cup {None}
  /\ revealed \subseteq KnownKeys
  /\ \A w \in available \cup {active} : w.phrase \in KnownKeys \cup {None}

\* A plan leaves a file alone once it has put a key there.
Once(plan, f) ==
  \A i \in DOMAIN plan : plan[i].file = f /\ plan[i].to \in Keys =>
    \A j \in DOMAIN plan : j > i => plan[j].file # f

\* The wallet whose deletion is asked for is the one there still, or its keypair is gone.
RequestFits ==
  /\ active = NoWallet => pending_delete = NoWallet
  /\ pending_delete # NoWallet => Fits(pending_delete)

\* The keypairs that the call at work may replace: the one the user has given up, and the
\* one that is imported again.
MayGo(s) ==
  \/ call.name = "Delete" /\ pending_delete.slot = s /\ pending_delete.key = disk[Keypair(s)]
  \/ call.name \in {"ImportPhrase", "ImportKey"} /\ call.key = disk[Keypair(s)]

Spared ==
  \A s \in Slots : disk[Keypair(s)] \in Keys => Untouched(todo, Keypair(s)) \/ MayGo(s)

KeepInv ==
  /\ Provenance /\ RequestFits /\ Spared
  /\ \A s \in Slots : Once(todo, Keypair(s))

----------------------------------------------------------------------------
(* Plans for keypairs *)

LEMMA OnceJoin ==
  ASSUME NEW s \in Seq(FileSteps), NEW t \in Seq(FileSteps), NEW f
  PROVE  /\ Untouched(s, f) => Once(s, f)
         /\ Once(s, f) /\ Untouched(t, f) => Once(s \o t, f)
         /\ Untouched(s, f) /\ Once(t, f) => Once(s \o t, f)
<1>1. /\ Len(s) \in Nat /\ Len(t) \in Nat
      /\ DOMAIN s = 1 .. Len(s) /\ DOMAIN t = 1 .. Len(t)
      /\ DOMAIN (s \o t) = 1 .. Len(s) + Len(t)
      /\ \A i \in 1 .. Len(s) : (s \o t)[i] = s[i]
      /\ \A i \in 1 .. Len(s) + Len(t) : i > Len(s) => i - Len(s) \in 1 .. Len(t) /\ (s \o t)[i] = t[i - Len(s)]
  OBVIOUS
<1> DEFINE st == s \o t
<1> HIDE DEF st
<1>2. Untouched(s, f) => Once(s, f)
  BY DEF Untouched, Once
<1>3. ASSUME Once(s, f), Untouched(t, f) PROVE Once(st, f)
  <2>1. SUFFICES ASSUME NEW i \in DOMAIN st, st[i].file = f, st[i].to \in Keys,
                        NEW j \in DOMAIN st, j > i
                 PROVE  st[j].file # f
    BY DEF Once
  <2>2. i \in 1 .. Len(s) /\ st[i] = s[i]
    BY <1>1, <1>3, <2>1 DEF st, Untouched
  <2>3. CASE j \in 1 .. Len(s)
    <3>1. st[j] = s[j]
      BY <1>1, <2>3 DEF st
    <3>2. QED BY <1>1, <1>3, <2>1, <2>2, <2>3, <3>1 DEF Once
  <2>4. CASE j \notin 1 .. Len(s)
    <3>1. j - Len(s) \in DOMAIN t /\ st[j] = t[j - Len(s)]
      BY <1>1, <2>1, <2>4 DEF st
    <3>2. QED BY <1>3, <3>1 DEF Untouched
  <2>5. QED BY <2>3, <2>4
<1>4. ASSUME Untouched(s, f), Once(t, f) PROVE Once(st, f)
  <2>1. SUFFICES ASSUME NEW i \in DOMAIN st, st[i].file = f, st[i].to \in Keys,
                        NEW j \in DOMAIN st, j > i
                 PROVE  st[j].file # f
    BY DEF Once
  <2>2. i \notin 1 .. Len(s)
    BY <1>1, <1>4, <2>1 DEF st, Untouched
  <2>3. /\ i - Len(s) \in DOMAIN t /\ st[i] = t[i - Len(s)]
        /\ j - Len(s) \in DOMAIN t /\ st[j] = t[j - Len(s)]
        /\ j - Len(s) > i - Len(s)
    BY <1>1, <2>1, <2>2 DEF st
  <2>4. QED BY <1>4, <2>1, <2>3 DEF Once
<1>5. QED BY <1>2, <1>3, <1>4 DEF st

\* A file written, or removed, is written once.
LEMMA WriteOnce ==
  ASSUME NEW f \in Files, NEW v \in Values
  PROVE  Once(Write(f, v), f) /\ Once(Remove(f), f)
<1>1. /\ DOMAIN Write(f, v) = 1 .. 2 /\ Write(f, v)[1] = [file |-> f, to |-> Torn]
  BY DEF Write
<1>2. \A i \in DOMAIN Write(f, v) : i = 1 \/ i = 2
  BY <1>1
<1>3. Once(Write(f, v), f)
  BY <1>1, <1>2, Words DEF Once
<1>4. \A i \in DOMAIN Remove(f) : Remove(f)[i].to = None
  BY DEF Remove
<1>5. QED BY <1>3, <1>4, Words DEF Once

LEMMA MigrateSpares ==
  ASSUME disk \in [Files -> Values], NEW s \in Slots
  PROVE  Untouched(Migrate, Keypair(s))
<1> DEFINE copy == IF Exists(SeedTxt) /\ ~Exists(Phrase(Session))
                   THEN Write(Phrase(Session), disk[SeedTxt]) ELSE <<>>
<1>1. /\ Phrase(Session) \in Files /\ SeedTxt \in Files /\ disk[SeedTxt] \in Values
      /\ Keypair(s) # Phrase(Session) /\ Keypair(s) # SeedTxt
  BY FileNames, SlotNames
<1>2. copy \in Seq(FileSteps) /\ Untouched(copy, Keypair(s))
  <2>1. <<>> \in Seq(FileSteps) /\ Untouched(<<>>, Keypair(s))
    BY DEF Untouched
  <2>2. QED BY <1>1, <2>1, WriteLeaves
<1>3. Migrate = copy \o Remove(SeedTxt)
  BY DEF Migrate
<1> HIDE DEF copy
<1>4. QED BY <1>1, <1>2, <1>3, RemoveLeaves, LeavesJoin

\* A wallet written: its own keypair, once.
LEMMA WalletWrittenOnce ==
  ASSUME NEW slot \in Slots, NEW v \in Values, NEW p \in BOOLEAN, NEW s \in Slots
  PROVE  /\ WriteWallet(slot, v, p) \in Seq(FileSteps)
         /\ Once(WriteWallet(slot, v, p), Keypair(s))
         /\ s # slot => Untouched(WriteWallet(slot, v, p), Keypair(s))
<1> DEFINE first  == Write(Keypair(slot), v)
           second == IF p THEN Write(Phrase(slot), v) ELSE <<>>
<1>1. /\ Keypair(slot) \in Files /\ Phrase(slot) \in Files /\ Keypair(s) # Phrase(slot)
      /\ s # slot => Keypair(s) # Keypair(slot)
  BY FileNames
<1>2. second \in Seq(FileSteps) /\ Untouched(second, Keypair(s))
  <2>1. <<>> \in Seq(FileSteps) /\ Untouched(<<>>, Keypair(s))
    BY DEF Untouched
  <2>2. QED BY <1>1, <2>1, WriteLeaves
<1>3. /\ first \in Seq(FileSteps) /\ Once(first, Keypair(slot))
      /\ s # slot => Untouched(first, Keypair(s))
  BY <1>1, WriteLeaves, WriteOnce
<1>4. WriteWallet(slot, v, p) = first \o second
  BY DEF WriteWallet
<1> HIDE DEF first, second
<1>5. first \o second \in Seq(FileSteps)
  BY <1>2, <1>3, PlanJoin
<1>6. CASE s = slot
  BY <1>2, <1>3, <1>4, <1>5, <1>6, OnceJoin
<1>7. CASE s # slot
  <2>1. Untouched(first \o second, Keypair(s))
    BY <1>2, <1>3, <1>7, LeavesJoin
  <2>2. QED BY <1>4, <1>5, <2>1, OnceJoin
<1>8. QED BY <1>6, <1>7

LEMMA WalletRemovedOnce ==
  ASSUME NEW w \in Wallets, NEW s \in Slots
  PROVE  /\ Once(DeleteManagedWallet(w), Keypair(s))
         /\ s # w.slot => Untouched(DeleteManagedWallet(w), Keypair(s))
<1> DEFINE first  == Remove(Keypair(w.slot))
           second == IF w.phrase_path THEN Remove(Phrase(w.slot)) ELSE <<>>
<1>1. /\ Keypair(w.slot) \in Files /\ Phrase(w.slot) \in Files /\ Keypair(s) # Phrase(w.slot)
      /\ s # w.slot => Keypair(s) # Keypair(w.slot)
  BY FileNames, WalletOrNone
<1>2. second \in Seq(FileSteps) /\ Untouched(second, Keypair(s))
  <2>1. <<>> \in Seq(FileSteps) /\ Untouched(<<>>, Keypair(s))
    BY DEF Untouched
  <2>2. QED BY <1>1, <2>1, RemoveLeaves
<1>3. /\ first \in Seq(FileSteps) /\ Once(first, Keypair(w.slot))
      /\ s # w.slot => Untouched(first, Keypair(s))
  BY <1>1, RemoveLeaves, WriteOnce DEF Values
<1>4. DeleteManagedWallet(w) = first \o second
  BY DEF DeleteManagedWallet
<1> HIDE DEF first, second
<1>5. first \o second \in Seq(FileSteps)
  BY <1>2, <1>3, PlanJoin
<1>6. CASE s = w.slot
  BY <1>2, <1>3, <1>4, <1>5, <1>6, OnceJoin
<1>7. CASE s # w.slot
  <2>1. Untouched(first \o second, Keypair(s))
    BY <1>2, <1>3, <1>7, LeavesJoin
  <2>2. QED BY <1>4, <1>5, <2>1, OnceJoin
<1>8. QED BY <1>6, <1>7

\* A session wallet is made only where there is none, readable or not.
LEMMA SessionMadeOnce ==
  ASSUME disk \in [Files -> Values], NEW key \in Values, NEW s \in Slots
  PROVE  /\ Once(CreateSession(key), Keypair(s))
         /\ disk[Keypair(s)] \in Keys => Untouched(CreateSession(key), Keypair(s))
<1> DEFINE made == IF Exists(Keypair(Session)) THEN <<>> ELSE WriteWallet(Session, key, TRUE)
<1>1. Migrate \in Seq(FileSteps) /\ Untouched(Migrate, Keypair(s))
  BY MigrateLeaves, MigrateSpares
<1>2. <<>> \in Seq(FileSteps) /\ Untouched(<<>>, Keypair(s))
  BY DEF Untouched
<1>3. /\ made \in Seq(FileSteps) /\ Once(made, Keypair(s))
      /\ disk[Keypair(s)] \in Keys => Untouched(made, Keypair(s))
  <2>1. CASE Exists(Keypair(Session))
    <3>1. made = <<>>
      BY <2>1
    <3>2. QED BY <1>2, <3>1, OnceJoin
  <2>2. CASE ~Exists(Keypair(Session))
    <3>1. made = WriteWallet(Session, key, TRUE)
      BY <2>2
    <3>2. disk[Keypair(s)] \in Keys => s # Session
      BY <2>2, Words DEF Exists
    <3> HIDE DEF made
    <3>3. QED BY <3>1, <3>2, WalletWrittenOnce, SlotNames
  <2>3. QED BY <2>1, <2>2
<1>4. CreateSession(key) = Migrate \o made
  BY DEF CreateSession
<1> HIDE DEF made
<1>5. QED BY <1>1, <1>3, <1>4, OnceJoin, LeavesJoin

\* What is planned is to write known keys, the one generated for it among them.
LEMMA KnownPlans ==
  ASSUME disk \in [Files -> Values], Provenance, NEW known, KnownKeys \subseteq known,
         NEW slot \in Slots, NEW p \in BOOLEAN, NEW v \in Values, v \in known \cup {None, Torn}
  PROVE  /\ <<>> \in Seq(KnownSteps(known))
         /\ Migrate \in Seq(KnownSteps(known))
         /\ WriteWallet(slot, v, p) \in Seq(KnownSteps(known))
         /\ CreateSession(v) \in Seq(KnownSteps(known))
         /\ \A w \in Wallets : DeleteManagedWallet(w) \in Seq(KnownSteps(known))
<1> DEFINE steps == KnownSteps(known)
<1> HIDE DEF steps
<1>1. <<>> \in Seq(steps)
  OBVIOUS
<1>2. ASSUME NEW f \in Files, NEW u \in Values, u \in known \cup {None, Torn}
      PROVE  Write(f, u) \in Seq(steps)
  <2>1. [file |-> f, to |-> Torn] \in steps /\ [file |-> f, to |-> u] \in steps
    BY <1>2 DEF steps, KnownSteps, FileSteps, Values
  <2>2. QED BY <2>1, WriteIn
<1>3. ASSUME NEW f \in Files PROVE Remove(f) \in Seq(steps)
  <2>1. [file |-> f, to |-> None] \in steps
    BY DEF steps, KnownSteps, FileSteps, Values
  <2>2. QED BY <2>1, RemoveIn
<1>4. Migrate \in Seq(steps)
  <2>1. /\ disk[SeedTxt] \in Values /\ disk[SeedTxt] \in known \cup {None, Torn}
    BY SessionFiles DEF Provenance
  <2>2. Write(Phrase(Session), disk[SeedTxt]) \in Seq(steps) /\ Remove(SeedTxt) \in Seq(steps)
    BY <1>2, <1>3, <2>1, SessionFiles
  <2>3. QED BY <1>1, <2>2, PlanJoin DEF Migrate
<1>5. ASSUME NEW t \in Slots, NEW q \in BOOLEAN PROVE WriteWallet(t, v, q) \in Seq(steps)
  <2>1. Write(Keypair(t), v) \in Seq(steps) /\ Write(Phrase(t), v) \in Seq(steps)
    BY <1>2, FileNames
  <2>2. QED BY <1>1, <2>1, PlanJoin DEF WriteWallet
<1>6. CreateSession(v) \in Seq(steps)
  <2>1. WriteWallet(Session, v, TRUE) \in Seq(steps)
    BY <1>5, SlotNames
  <2>2. QED BY <1>1, <1>4, <2>1, PlanJoin DEF CreateSession
<1>7. ASSUME NEW w \in Wallets PROVE DeleteManagedWallet(w) \in Seq(steps)
  <2>1. Remove(Keypair(w.slot)) \in Seq(steps) /\ Remove(Phrase(w.slot)) \in Seq(steps)
    BY <1>3, FileNames, WalletOrNone
  <2>2. QED BY <1>1, <2>1, PlanJoin DEF DeleteManagedWallet
<1>8. QED BY <1>1, <1>4, <1>5, <1>6, <1>7 DEF steps
----------------------------------------------------------------------------
(* Keypairs through every step *)

\* The files stay, and no call is at work on them: what is shown and recorded is known.
LEMMA RestKeepsKeys ==
  ASSUME KeepInv, disk' = disk, todo' = <<>>, generated' = generated,
         call'.name # "Delete" => call'.key \in KnownKeys \cup {None}, material' \in KnownKeys \cup {None},
         revealed' \subseteq KnownKeys,
         \A w \in available' \cup {active'} : w.phrase \in KnownKeys \cup {None},
         RequestFits'
  PROVE  KeepInv'
<1>1. KnownKeys' = KnownKeys
  BY DEF KnownKeys
<1>2. (\A known : <<>> \in Seq(KnownSteps(known))) /\ \A f : Untouched(<<>>, f) /\ Once(<<>>, f)
  BY DEF Untouched, Once
<1>3. Provenance'
  BY <1>1, <1>2 DEF KeepInv, Provenance
<1>4. Spared' /\ \A s \in Slots : Once(todo, Keypair(s))'
  BY <1>2 DEF Spared, Untouched, Once
<1>5. QED BY <1>3, <1>4 DEF KeepInv

\* A call begins with a plan for known keys that spares what it must.
LEMMA PlanKeepsKeys ==
  ASSUME KeepInv, disk' = disk, UNCHANGED <<wallets, material, revealed, pending_delete>>,
         generated \subseteq generated', todo' \in Seq(KnownSteps(KnownKeys')),
         call'.name # "Delete" => call'.key \in KnownKeys' \cup {None},
         \A s \in Slots : Once(todo', Keypair(s)),
         \A s \in Slots : disk[Keypair(s)] \in Keys => Untouched(todo', Keypair(s)) \/ MayGo(s)'
  PROVE  KeepInv'
<1>1. KnownKeys \subseteq KnownKeys'
  BY DEF KnownKeys
<1>2. Provenance'
  BY <1>1 DEF KeepInv, Provenance, wallets
<1>3. RequestFits'
  BY DEF KeepInv, RequestFits, Fits, wallets
<1>4. Spared' /\ \A s \in Slots : Once(todo, Keypair(s))'
  BY DEF Spared, Untouched, Once
<1>5. QED BY <1>2, <1>3, <1>4 DEF KeepInv

\* The session wallet that is there is loaded; a new one takes a name that is free.
LEMMA SessionCallKeepsKeys ==
  ASSUME IInv, KeepInv, NEW name, CallSession(name),
         UNCHANGED <<wallets, material, revealed, pending_delete>>
  PROVE  KeepInv'
<1>1. disk \in [Files -> Values] /\ Provenance
  BY DEF IInv, Types, KeepInv
<1>2. CASE Exists(Keypair(Session))
  <2>1. /\ call' = [name |-> name, key |-> None, ok |-> TRUE, part |-> "First"]
        /\ todo' = Migrate /\ disk' = disk /\ generated' = generated
    BY <1>2 DEF CallSession, Call
  <2>2. KnownKeys' = KnownKeys /\ call'.key = None /\ generated \subseteq generated'
    BY <2>1 DEF KnownKeys
  <2>3. None \in Values /\ Session \in Slots /\ TRUE \in BOOLEAN
    BY SlotNames DEF Values
  <2>4. todo' \in Seq(KnownSteps(KnownKeys'))
    BY <1>1, <2>1, <2>2, <2>3, KnownPlans
  <2>5. \A s \in Slots : Untouched(todo', Keypair(s)) /\ Once(todo', Keypair(s))
    BY <1>1, <2>1, MigrateSpares DEF Untouched, Once
  <2>6. QED BY <2>1, <2>2, <2>4, <2>5, PlanKeepsKeys
<1>3. CASE ~Exists(Keypair(Session))
  <2>1. PICK key \in FreshKeys \ generated :
          Call(name, key, CreateSession(key)) /\ generated' = generated \cup {key}
    BY <1>3 DEF CallSession
  <2>2. /\ call' = [name |-> name, key |-> key, ok |-> TRUE, part |-> "First"]
        /\ todo' = CreateSession(key) /\ disk' = disk /\ key \in Values
    BY <2>1, Words DEF Call, Values
  <2>3. /\ call'.key = key /\ key \in KnownKeys' /\ generated \subseteq generated'
        /\ KnownKeys \subseteq KnownKeys'
    BY <2>1, <2>2 DEF KnownKeys
  <2>4. todo' \in Seq(KnownSteps(KnownKeys'))
    BY <1>1, <2>2, <2>3, KnownPlans, SlotNames
  <2>5. \A s \in Slots : /\ Once(todo', Keypair(s))
                         /\ disk[Keypair(s)] \in Keys => Untouched(todo', Keypair(s))
    BY <1>1, <2>2, SessionMadeOnce
  <2>6. QED BY <2>2, <2>3, <2>4, <2>5, PlanKeepsKeys
<1>4. QED BY <1>2, <1>3

LEMMA SessionCallsKeepKeys ==
  ASSUME IInv, KeepInv,
         Open \/ Withdraw \/ \E name \in {"Deposit", "Start"} : EnsureActiveWallet(name)
  PROVE  KeepInv'
<1>1. (\E name : CallSession(name)) /\ UNCHANGED <<wallets, material, revealed, pending_delete>>
  BY DEF Open, Withdraw, EnsureActiveWallet, recovery
<1>2. QED BY <1>1, SessionCallKeepsKeys

\* A wallet is created under the name of a key that is nowhere yet, or imported under the
\* name of its own; the one deleted is the one that was asked for.
LEMMA WalletCallsKeepKeys ==
  ASSUME IInv, KeepInv, CreateManagedWallet \/ ImportManagedWallet \/ ConfirmWalletDelete
  PROVE  KeepInv'
<1>1. /\ disk \in [Files -> Values] /\ Provenance /\ OwnKeys
      /\ UNCHANGED <<wallets, material, revealed, pending_delete>>
  BY DEF IInv, Types, KeepInv, CreateManagedWallet, ImportManagedWallet, ConfirmWalletDelete,
         recovery, history
<1>2. CASE CreateManagedWallet
  <2>1. PICK key \in FreshKeys \ generated :
          generated' = generated \cup {key} /\ Call("Create", key, CreateDedicatedWallet(key))
    BY <1>2 DEF CreateManagedWallet
  <2>2. /\ call' = [name |-> "Create", key |-> key, ok |-> TRUE, part |-> "First"]
        /\ todo' = WriteWallet(key, key, TRUE) /\ disk' = disk
        /\ key \in Keys /\ key \in Values /\ key \in Slots
    BY <2>1, Words, SlotNames DEF Call, Values, CreateDedicatedWallet
  <2>3. /\ call'.key = key /\ key \in KnownKeys' /\ generated \subseteq generated'
        /\ KnownKeys \subseteq KnownKeys'
    BY <2>1, <2>2 DEF KnownKeys
  <2>4. todo' \in Seq(KnownSteps(KnownKeys'))
    BY <1>1, <2>2, <2>3, KnownPlans
  <2>5. \A s \in Slots : /\ Once(todo', Keypair(s))
                         /\ s # key => Untouched(todo', Keypair(s))
    BY <2>2, WalletWrittenOnce
  <2>6. disk[Keypair(key)] \notin Keys
    <3>1. key \notin KnownKeys
      BY <2>1, StoreAssumption DEF StoreAssumption, KnownKeys
    <3>2. disk[Keypair(key)] \in KnownKeys \cup {None, Torn} /\ disk[Keypair(key)] \in {key, None, Torn}
      BY <1>1, <2>2, FileNames DEF Provenance, OwnKeys
    <3>3. QED BY <3>1, <3>2, Words
  <2>7. \A s \in Slots : disk[Keypair(s)] \in Keys => Untouched(todo', Keypair(s))
    BY <2>5, <2>6
  <2>8. QED BY <1>1, <2>2, <2>3, <2>4, <2>5, <2>7, PlanKeepsKeys
<1>3. CASE ImportManagedWallet
  <2>1. PICK key \in ForeignKeys \cup (revealed \ KeysOf(available)), with_phrase \in BOOLEAN :
          Call(IF with_phrase THEN "ImportPhrase" ELSE "ImportKey", key, ImportWallet(key, with_phrase))
    BY <1>3 DEF ImportManagedWallet
  <2>2. /\ call'.name \in {"ImportPhrase", "ImportKey"} /\ call'.key = key
        /\ todo' = WriteWallet(key, key, with_phrase) /\ disk' = disk
        /\ key \in Keys /\ key \in Values /\ key \in Slots
    BY <2>1, Words, SlotNames DEF Call, Values, ImportWallet, IInv, Types
  <2>3. generated' = generated /\ key \in KnownKeys
    BY <1>1, <1>3, <2>1 DEF ImportManagedWallet, history, KnownKeys, Provenance
  <2>4. KnownKeys' = KnownKeys /\ generated \subseteq generated'
    BY <2>3 DEF KnownKeys
  <2>5. todo' \in Seq(KnownSteps(KnownKeys'))
    BY <1>1, <2>2, <2>3, <2>4, KnownPlans
  <2>6. \A s \in Slots : /\ Once(todo', Keypair(s))
                         /\ s # key => Untouched(todo', Keypair(s))
    BY <2>2, WalletWrittenOnce
  <2>7. disk[Keypair(key)] \in Keys => MayGo(key)'
    <3>1. disk[Keypair(key)] \in {key, None, Torn}
      BY <1>1, <2>2 DEF OwnKeys
    <3>2. QED BY <2>2, <3>1, Words DEF MayGo
  <2>8. \A s \in Slots : disk[Keypair(s)] \in Keys => Untouched(todo', Keypair(s)) \/ MayGo(s)'
    BY <2>6, <2>7
  <2>9. QED BY <1>1, <2>2, <2>3, <2>4, <2>5, <2>6, <2>8, PlanKeepsKeys
<1>4. CASE ConfirmWalletDelete
  <2>1. /\ pending_delete # NoWallet /\ generated' = generated
        /\ Call("Delete", pending_delete.key, DeleteManagedWallet(pending_delete))
    BY <1>4 DEF ConfirmWalletDelete, history
  <2>2. /\ call'.name = "Delete" /\ call'.key = pending_delete.key
        /\ todo' = DeleteManagedWallet(pending_delete) /\ disk' = disk
        /\ pending_delete \in Wallets /\ Fits(pending_delete)
    BY <2>1 DEF Call, IInv, Types, KeepInv, RequestFits
  <2>3. KnownKeys' = KnownKeys /\ generated \subseteq generated'
    BY <2>1 DEF KnownKeys
  <2>4. todo' \in Seq(KnownSteps(KnownKeys'))
    <3>1. None \in Values /\ Session \in Slots /\ TRUE \in BOOLEAN
      BY SlotNames DEF Values
    <3>2. QED BY <1>1, <2>2, <2>3, <3>1, KnownPlans
  <2>5. \A s \in Slots : /\ Once(todo', Keypair(s))
                         /\ s # pending_delete.slot => Untouched(todo', Keypair(s))
    BY <2>2, WalletRemovedOnce
  <2>6. ASSUME NEW s \in Slots, disk[Keypair(s)] \in Keys, s = pending_delete.slot PROVE MayGo(s)'
    <3>1. disk[Keypair(s)] = pending_delete.key
      BY <2>2, <2>6, Words DEF Fits
    <3>2. QED BY <1>1, <2>2, <2>6, <3>1 DEF MayGo
  <2>7. \A s \in Slots : disk[Keypair(s)] \in Keys => Untouched(todo', Keypair(s)) \/ MayGo(s)'
    BY <2>5, <2>6
  <2>8. QED BY <1>1, <2>2, <2>3, <2>4, <2>5, <2>7, PlanKeepsKeys
<1>5. QED BY <1>2, <1>3, <1>4

\* A second attempt makes a session wallet only where there is none.
LEMMA RetryKeepsKeys ==
  ASSUME IInv, KeepInv, Retry
  PROVE  KeepInv'
<1> DEFINE creates == call.name = "Open" /\ call.part = "First"
<1>1. /\ disk' = disk /\ UNCHANGED <<wallets, material, revealed, pending_delete, generated>>
      /\ call' = [call EXCEPT !.ok = @ \/ creates, !.part = IF creates THEN "Creating" ELSE "Listing"]
      /\ todo' = IF creates THEN CreateSession(call.key) ELSE Migrate
  BY DEF Retry, recovery, history
<1>2. /\ call \in [name: CallNames, key: Keys \cup {None}, ok: BOOLEAN,
                   part: {"First", "Creating", "Listing"}]
      /\ disk \in [Files -> Values] /\ Provenance
  BY DEF IInv, Types, KeepInv
<1>3. call'.name = call.name /\ call'.key = call.key /\ call.key \in Values
  BY <1>1, <1>2 DEF Values
<1>4. KnownKeys' = KnownKeys /\ generated \subseteq generated'
  BY <1>1 DEF KnownKeys
<1>5. call.name # "Delete" => call.key \in KnownKeys \cup {None}
  BY <1>2 DEF Provenance
<1>6. None \in Values /\ Session \in Slots /\ TRUE \in BOOLEAN
  BY SlotNames DEF Values
<1>7. CASE creates
  <2>1. todo' = CreateSession(call.key) /\ call.key \in KnownKeys \cup {None}
    BY <1>1, <1>5, <1>7
  <2>2. todo' \in Seq(KnownSteps(KnownKeys'))
    BY <1>2, <1>3, <1>4, <1>6, <2>1, KnownPlans
  <2>3. \A s \in Slots : /\ Once(todo', Keypair(s))
                         /\ disk[Keypair(s)] \in Keys => Untouched(todo', Keypair(s))
    BY <1>2, <1>3, <2>1, SessionMadeOnce
  <2>4. QED BY <1>1, <1>3, <1>4, <1>5, <2>2, <2>3, PlanKeepsKeys
<1>8. CASE ~creates
  <2>1. todo' = Migrate
    BY <1>1, <1>8
  <2>2. todo' \in Seq(KnownSteps(KnownKeys'))
    BY <1>2, <1>4, <1>6, <2>1, KnownPlans
  <2>3. \A s \in Slots : Untouched(todo', Keypair(s)) /\ Once(todo', Keypair(s))
    BY <1>2, <2>1, MigrateSpares DEF Untouched, Once
  <2>4. QED BY <1>1, <1>3, <1>4, <1>5, <2>2, <2>3, PlanKeepsKeys
<1>9. QED BY <1>7, <1>8

\* What a step leaves in a file.
LEMMA StepWrites ==
  ASSUME IInv, CallStep
  PROVE  /\ todo \in Seq(FileSteps) /\ todo # <<>> /\ todo' = Tail(todo)
         /\ Head(todo).file \in Files
         /\ \A f \in Files : disk'[f] = IF f = Head(todo).file THEN Head(todo).to ELSE disk[f]
<1>1. todo \in Seq(Allowed) /\ Allowed \subseteq FileSteps
  BY DEF IInv, Plans, Allowed
<1>2. todo \in Seq(FileSteps)
  BY <1>1
<1>3. /\ todo # <<>> /\ todo' = Tail(todo)
      /\ disk' = [disk EXCEPT ![Head(todo).file] = Head(todo).to]
  BY DEF CallStep, FileStep
<1>4. Head(todo) \in FileSteps
  BY <1>2, <1>3, HeadAndTail
<1>5. QED BY <1>2, <1>3, <1>4 DEF IInv, Types, FileSteps

\* A plan that leaves a file alone once it has put a key there goes on doing so.
LEMMA OnceStep ==
  ASSUME NEW plan \in Seq(FileSteps), plan # <<>>, NEW f, Once(plan, f)
  PROVE  /\ Once(Tail(plan), f)
         /\ Head(plan).file = f /\ Head(plan).to \in Keys => Untouched(Tail(plan), f)
<1>1. ASSUME NEW j \in DOMAIN Tail(plan)
      PROVE  j \in Nat /\ j + 1 > 1 /\ j + 1 \in DOMAIN plan /\ Tail(plan)[j] = plan[j + 1]
  BY HeadAndTail
<1>2. 1 \in DOMAIN plan /\ Head(plan) = plan[1]
  BY HeadAndTail
<1>3. Once(Tail(plan), f)
  <2>1. SUFFICES ASSUME NEW i \in DOMAIN Tail(plan), Tail(plan)[i].file = f, Tail(plan)[i].to \in Keys,
                        NEW j \in DOMAIN Tail(plan), j > i
                 PROVE  Tail(plan)[j].file # f
    BY DEF Once
  <2>2. j + 1 > i + 1
    BY <1>1, <2>1
  <2>3. QED BY <1>1, <2>1, <2>2 DEF Once
<1>4. QED BY <1>1, <1>2, <1>3 DEF Once, Untouched

\* A step takes no keypair that it must spare.
LEMMA StepSpares ==
  ASSUME IInv, KeepInv, CallStep, NEW s \in Slots, disk[Keypair(s)] \in Keys
  PROVE  disk'[Keypair(s)] = disk[Keypair(s)] \/ MayGo(s)
<1>1. Keypair(s) \in Files
  BY FileNames
<1>2. CASE Untouched(todo, Keypair(s))
  <2>1. Head(todo).file # Keypair(s)
    BY <1>2, StepWrites, UntouchedStep
  <2>2. QED BY <1>1, <2>1, StepWrites
<1>3. QED BY <1>2 DEF KeepInv, Spared

LEMMA CallStepKeepsKeys ==
  ASSUME IInv, KeepInv, CallStep
  PROVE  KeepInv'
<1> DEFINE file == Head(todo).file
           to   == Head(todo).to
<1>1. /\ todo \in Seq(FileSteps) /\ todo # <<>> /\ todo' = Tail(todo) /\ file \in Files
      /\ \A f \in Files : disk'[f] = IF f = file THEN to ELSE disk[f]
  BY StepWrites
<1>2. UNCHANGED <<call, wallets, material, revealed, pending_delete, generated>>
  BY DEF CallStep, recovery, history
<1>3. KnownKeys' = KnownKeys
  BY <1>2 DEF KnownKeys
<1>4. Provenance'
  <2>1. todo \in Seq(KnownSteps(KnownKeys))
    BY DEF KeepInv, Provenance
  <2>2. Head(todo) \in KnownSteps(KnownKeys) /\ Tail(todo) \in Seq(KnownSteps(KnownKeys))
    BY <1>1, <2>1, HeadAndTail
  <2>3. to \in KnownKeys \cup {None, Torn}
    BY <2>2 DEF KnownSteps
  <2> HIDE DEF file, to
  <2>4. \A f \in Files : disk'[f] \in KnownKeys' \cup {None, Torn}
    BY <1>1, <1>3, <2>3 DEF KeepInv, Provenance
  <2>5. QED BY <1>1, <1>2, <1>3, <2>2, <2>4 DEF KeepInv, Provenance, wallets
<1>5. RequestFits'
  <2>1. ASSUME pending_delete # NoWallet PROVE Fits(pending_delete)'
    <3>1. pending_delete \in Wallets /\ Fits(pending_delete) /\ active # NoWallet
      BY <2>1 DEF IInv, Types, KeepInv, RequestFits
    <3>2. \A w \in Wallets : Fits(w) => Fits(w)'
      BY <3>1, StepFits
    <3>3. QED BY <1>2, <3>1, <3>2 DEF Fits
  <2>2. QED BY <1>2, <2>1 DEF KeepInv, RequestFits, wallets
<1>6. ASSUME NEW s \in Slots PROVE Once(todo, Keypair(s))'
  BY <1>1, OnceStep DEF KeepInv, Once
<1>7. ASSUME NEW s \in Slots, disk'[Keypair(s)] \in Keys
      PROVE  Untouched(todo', Keypair(s)) \/ MayGo(s)'
  <2>1. Keypair(s) \in Files /\ Once(todo, Keypair(s))
    BY FileNames DEF KeepInv
  <2>2. CASE file = Keypair(s)
    <3>1. to \in Keys
      BY <1>1, <1>7, <2>1, <2>2
    <3>2. QED BY <1>1, <2>1, <2>2, <3>1, OnceStep
  <2>3. CASE file # Keypair(s)
    <3>1. disk'[Keypair(s)] = disk[Keypair(s)]
      BY <1>1, <2>1, <2>3
    <3>2. CASE Untouched(todo, Keypair(s))
      BY <1>1, <3>2, UntouchedStep
    <3>3. CASE MayGo(s)
      BY <1>2, <3>1, <3>3 DEF MayGo
    <3>4. QED BY <1>7, <3>1, <3>2, <3>3 DEF KeepInv, Spared
  <2>4. QED BY <2>2, <2>3
<1>8. Spared'
  BY <1>7 DEF Spared, Untouched
<1>9. QED BY <1>4, <1>5, <1>6, <1>8 DEF KeepInv

LEMMA FailureKeepsKeys ==
  ASSUME IInv, KeepInv, CallFails \/ Quit
  PROVE  KeepInv'
<1>1. CASE CallFails
  <2>1. /\ disk' = disk /\ todo' = <<>>
        /\ UNCHANGED <<wallets, material, revealed, pending_delete, generated>>
        /\ call' = [call EXCEPT !.ok = @ /\ call.part = "Listing"]
    BY <1>1 DEF CallFails, CutShort, recovery, history
  <2>2. call'.name = call.name /\ call'.key = call.key
    BY <2>1 DEF IInv, Types
  <2>3. RequestFits'
    BY <2>1 DEF KeepInv, RequestFits, Fits, wallets
  <2>4. QED BY <2>1, <2>2, <2>3, RestKeepsKeys DEF KeepInv, Provenance, wallets
<1>2. CASE Quit
  <2>1. /\ disk' = disk /\ todo' = <<>> /\ call' = NoCall /\ material' = None
        /\ available' = {} /\ active' = NoWallet /\ pending_delete' = NoWallet
        /\ UNCHANGED <<revealed, generated>>
    BY <1>2 DEF Quit, CutShort, history, storeVars
  <2>2. RequestFits' /\ call'.key = None
    BY <2>1 DEF RequestFits, NoCall
  <2>3. NoWallet.phrase = None
    BY WalletOrNone
  <2>4. QED BY <2>1, <2>2, <2>3, RestKeepsKeys DEF KeepInv, Provenance
<1>3. QED BY <1>1, <1>2

----------------------------------------------------------------------------
(* What is shown, listed and returned is known *)

LEMMA RecoveryKnown ==
  ASSUME Provenance, NEW w, w.slot \in Slots, w.phrase \in KnownKeys \cup {None},
         NEW require_ack, OpenSeedPhrase(w, require_ack)
  PROVE  material' \in KnownKeys \cup {None}
<1>1. /\ disk[Phrase(w.slot)] \in KnownKeys \cup {None, Torn}
      /\ disk[Keypair(w.slot)] \in KnownKeys \cup {None, Torn}
  BY FileNames DEF Provenance
<1>2. RecoveryMaterial(w) \in KnownKeys \cup {None, Torn}
  BY <1>1 DEF RecoveryMaterial
<1>3. QED BY <1>2 DEF OpenSeedPhrase, Provenance, recovery

LEMMA ListedKnown ==
  ASSUME Provenance, NEW w \in Listed
  PROVE  w.phrase \in KnownKeys \cup {None}
<1>1. CASE Exists(SeedTxt)
  BY <1>1 DEF Listed, Provenance
<1>2. CASE ~Exists(SeedTxt)
  <2>1. PICK s \in Slots : w = Managed(s, disk[Keypair(s)], Exists(Phrase(s)), None)
    BY <1>2 DEF Listed, ListManagedWallets
  <2>2. QED BY <2>1 DEF Managed
<1>3. QED BY <1>1, <1>2

LEMMA SessionKnown ==
  ASSUME Provenance, call.name \in SessionCalls
  PROVE  SessionWallet.phrase \in KnownKeys \cup {None}
BY DEF SessionWallet, Managed, NoWallet, Provenance, SessionCalls

\* A call returns.
LEMMA ReturnKeepsKeys ==
  ASSUME IInv, KeepInv,
         \/ Opened \/ Created \/ Deleted \/ SessionReady
         \/ \E with_phrase \in BOOLEAN : Imported(with_phrase)
         \/ \E name \in {"Deposit", "Start"} : Ensured(name)
  PROVE  KeepInv'
<1> DEFINE Seen(w) == w.phrase \in KnownKeys \cup {None}
<1>1. /\ disk' = disk /\ todo' = <<>> /\ call' = NoCall /\ call'.key = None
      /\ UNCHANGED <<revealed, generated>>
  <2>1. (\E name : Returns(name)) /\ UNCHANGED history
    BY DEF Opened, Created, Deleted, SessionReady, Imported, Ensured
  <2>2. disk' = disk /\ todo' = <<>> /\ call' = NoCall
    BY <2>1 DEF Returns, storeVars
  <2>3. QED BY <2>1, <2>2 DEF history, NoCall
<1>2. Provenance /\ revealed \subseteq KnownKeys /\ material \in KnownKeys \cup {None}
  BY DEF KeepInv, Provenance
<1>3. /\ \A w \in available \cup {active, NoWallet} : Seen(w)
      /\ \A w \in Listed : Seen(w)
      /\ call.name \in SessionCalls => Seen(SessionWallet)
  BY <1>2, WalletOrNone, ListedKnown, SessionKnown DEF Provenance
<1>4. \A w \in Firsts(Listed) : Seen(w)
  BY <1>3, FirstsOf
<1>5. call.name # "Delete" => call.key \in KnownKeys \cup {None}
  BY <1>2 DEF Provenance
<1>6. call.name \in SessionCalls => pending_delete = NoWallet
  BY DEF IInv, Control, KeepInv, RequestFits
<1>7. SUFFICES /\ material' \in KnownKeys \cup {None}
               /\ \A w \in available' \cup {active'} : Seen(w)
               /\ pending_delete' \in {pending_delete, NoWallet}
               /\ active' = NoWallet => pending_delete' = NoWallet
  <2>1. ASSUME pending_delete' \in {pending_delete, NoWallet},
               active' = NoWallet => pending_delete' = NoWallet
        PROVE  RequestFits'
    BY <1>1, <2>1 DEF KeepInv, RequestFits, Fits
  <2>2. QED BY <1>1, <1>2, <2>1, RestKeepsKeys
<1>8. ASSUME UNCHANGED <<wallets, material, pending_delete>>
      PROVE  /\ material' \in KnownKeys \cup {None}
             /\ \A w \in available' \cup {active'} : Seen(w)
             /\ pending_delete' \in {pending_delete, NoWallet}
             /\ active' = NoWallet => pending_delete' = NoWallet
  BY <1>2, <1>3, <1>8 DEF KeepInv, RequestFits, wallets
<1>9. CASE Opened
  <2>1. /\ available' = Listed /\ pending_delete' = pending_delete /\ material' = material
        /\ active' \in Choices(prefs, IF SessionWallet # NoWallet THEN {SessionWallet} ELSE Firsts(available'))
        /\ call.name \in SessionCalls
    BY <1>9 DEF Opened, Returns, SessionCalls
  <2> DEFINE others == IF SessionWallet # NoWallet THEN {SessionWallet} ELSE Firsts(available')
  <2>2. active' \in available' \cup others \cup {NoWallet}
    <3> HIDE DEF others
    <3>1. active' \in Choices(prefs, others)
      BY <2>1 DEF others
    <3>2. QED BY <3>1, Chosen
  <2>3. \A w \in others : Seen(w)
    BY <1>3, <1>4, <2>1
  <2> HIDE DEF others
  <2>4. QED BY <1>2, <1>3, <1>6, <2>1, <2>2, <2>3
<1>10. CASE Created
  <2>1. CASE ~call.ok /\ UNCHANGED <<wallets, balances, recovery, prefs>>
    <3>1. UNCHANGED <<wallets, material, pending_delete>>
      BY <1>10, <2>1 DEF Created, recovery
    <3>2. QED BY <1>8, <3>1
  <2>2. CASE ~(~call.ok /\ UNCHANGED <<wallets, balances, recovery, prefs>>)
    <3>1. /\ available' = Listed /\ active' = Managed(call.key, call.key, TRUE, call.key)
          /\ pending_delete' = pending_delete /\ material' = call.key /\ call.name = "Create"
      BY <1>10, <2>2 DEF Created, Returns
    <3>2. call.key \in Keys
      BY <3>1 DEF IInv, Control
    <3>3. active'.phrase = call.key /\ active' # NoWallet
      BY <3>1, <3>2, Words, WalletOrNone DEF Managed
    <3>4. QED BY <1>3, <1>5, <3>1, <3>3
  <2>3. QED BY <2>1, <2>2
<1>11. CASE Deleted
  <2>1. CASE ~call.ok /\ UNCHANGED <<wallets, balances, recovery, pending_delete, prefs>>
    <3>1. UNCHANGED <<wallets, material, pending_delete>>
      BY <2>1 DEF recovery
    <3>2. QED BY <1>8, <3>1
  <2>2. CASE ~(~call.ok /\ UNCHANGED <<wallets, balances, recovery, pending_delete, prefs>>)
    <3>1. /\ available' = Listed /\ pending_delete' = NoWallet /\ material' = None
          /\ active' \in IF Exists(SeedTxt) THEN {active} ELSE Choices(active.key, Firsts(available'))
      BY <1>11, <2>2 DEF Deleted
    <3>2. Seen(active')
      <4>1. CASE Exists(SeedTxt)
        BY <1>3, <3>1, <4>1
      <4>2. CASE ~Exists(SeedTxt)
        <5>1. active' \in available' \cup Firsts(available') \cup {NoWallet}
          BY <3>1, <4>2, Chosen
        <5>2. QED BY <1>3, <1>4, <3>1, <5>1
      <4>3. QED BY <4>1, <4>2
    <3>3. QED BY <1>3, <3>1, <3>2
  <2>3. QED BY <2>1, <2>2
<1>12. CASE SessionReady
  <2>1. UNCHANGED <<wallets, material, pending_delete>>
    BY <1>12 DEF SessionReady, recovery
  <2>2. QED BY <1>8, <2>1
<1>13. ASSUME NEW with_phrase \in BOOLEAN, Imported(with_phrase)
       PROVE  /\ material' \in KnownKeys \cup {None}
              /\ \A w \in available' \cup {active'} : Seen(w)
              /\ pending_delete' \in {pending_delete, NoWallet}
              /\ active' = NoWallet => pending_delete' = NoWallet
  <2>1. CASE ~call.ok /\ UNCHANGED <<wallets, balances, requires_ack, acknowledged, prefs>>
    <3>1. UNCHANGED <<wallets, material, pending_delete>>
      BY <1>13, <2>1 DEF Imported
    <3>2. QED BY <1>8, <3>1
  <2>2. CASE ~(~call.ok /\ UNCHANGED <<wallets, balances, requires_ack, acknowledged, prefs>>)
    <3>1. /\ available' = Listed /\ pending_delete' = pending_delete /\ material' = material
          /\ active' = Managed(call.key, call.key, with_phrase, IF with_phrase THEN call.key ELSE None)
          /\ call.name \in {"ImportPhrase", "ImportKey"}
      BY <1>13, <2>2 DEF Imported, Returns, Select
    <3>2. call.key \in Keys
      BY <3>1 DEF IInv, Control
    <3>3. active'.phrase \in {call.key, None} /\ active' # NoWallet
      BY <3>1, <3>2, Words, WalletOrNone DEF Managed
    <3>4. QED BY <1>2, <1>3, <1>5, <3>1, <3>3
  <2>3. QED BY <2>1, <2>2
<1>14. ASSUME NEW name \in {"Deposit", "Start"}, Ensured(name)
       PROVE  /\ material' \in KnownKeys \cup {None}
              /\ \A w \in available' \cup {active'} : Seen(w)
              /\ pending_delete' \in {pending_delete, NoWallet}
              /\ active' = NoWallet => pending_delete' = NoWallet
  <2>1. call.name \in SessionCalls /\ pending_delete' = pending_delete /\ todo = <<>>
    BY <1>14 DEF Ensured, Returns, SessionCalls
  <2>2. CASE SessionWallet = NoWallet
    <3>1. UNCHANGED <<wallets, material, pending_delete>>
      BY <1>14, <2>2 DEF Ensured, recovery
    <3>2. QED BY <1>8, <3>1
  <2>3. CASE SessionWallet # NoWallet
    <3>1. available' \subseteq available \cup {SessionWallet} /\ active' = SessionWallet
      BY <1>14, <2>3 DEF Ensured
    <3>2. \/ material' = material
          \/ \E require_ack : OpenSeedPhrase(SessionWallet, require_ack)
      BY <1>14, <2>3 DEF Ensured, StartWith, recovery
    <3>3. SessionWallet.slot \in Slots
      BY <2>3, SlotNames DEF SessionWallet, Managed
    <3>4. material' \in KnownKeys \cup {None}
      BY <1>2, <1>3, <2>1, <3>2, <3>3, RecoveryKnown
    <3>5. QED BY <1>3, <1>6, <2>1, <3>1, <3>4
  <2>4. QED BY <2>2, <2>3
<1>15. QED BY <1>9, <1>10, <1>11, <1>12, <1>13, <1>14

\* What the windows do while no call is at work; a deletion is asked for a wallet on the
\* list.
LEMMA WindowsKeepKeys ==
  ASSUME IInv, KeepInv,
         \/ TriggerRefresh \/ PollBalance \/ PollList
         \/ \E w \in available : UseWallet(w) \/ RequestWalletDelete(w)
         \/ CancelDelete \/ \E require_ack \in BOOLEAN : OpenRecovery(require_ack)
         \/ ShowMaterial \/ Acknowledge \/ CloseRecovery
         \/ StartMining \/ PollMining
  PROVE  KeepInv'
<1>1. /\ Idle /\ UNCHANGED <<storeVars, call, available, generated>>
      /\ active' \in available \cup {active} /\ pending_delete' \in available \cup {pending_delete, NoWallet}
      /\ revealed' \subseteq revealed \cup {material} /\ (revealed' # revealed => material # None)
  BY DEF TriggerRefresh, PollBalance, PollList, UseWallet, Select, RequestWalletDelete, CancelDelete,
         OpenRecovery, ShowMaterial, Acknowledge, CloseRecovery, StartMining, PollMining, wallets, history
<1>2. disk' = disk /\ todo' = <<>> /\ Provenance /\ call'.key \in KnownKeys \cup {None}
  BY <1>1, IdleHasNoPlan DEF KeepInv, Provenance, Idle, NoCall, storeVars
<1>3. revealed' \subseteq KnownKeys
  BY <1>1, <1>2 DEF Provenance
<1>4. material' \in KnownKeys \cup {None}
  <2>1. \/ material' \in {material, None}
        \/ active # NoWallet /\ \E require_ack : OpenSeedPhrase(active, require_ack)
    BY DEF TriggerRefresh, PollBalance, PollList, UseWallet, RequestWalletDelete, CancelDelete,
           OpenRecovery, ShowMaterial, Acknowledge, CloseRecovery, StartMining, StartWith, PollMining, recovery
  <2>2. active # NoWallet => active.slot \in Slots
    BY WalletOrNone DEF IInv, Types
  <2>3. active.phrase \in KnownKeys \cup {None} /\ material \in KnownKeys \cup {None}
    BY <1>2 DEF Provenance
  <2>4. QED BY <1>2, <2>1, <2>2, <2>3, RecoveryKnown
<1>5. RequestFits'
  <2>1. /\ active = NoWallet => available = {} /\ pending_delete = NoWallet
        /\ pending_delete # NoWallet => Fits(pending_delete)
        /\ \A w \in available : Fits(w) /\ w # NoWallet
    BY WalletOrNone DEF IInv, Types, Control, WalletsFit, KeepInv, RequestFits
  <2>2. pending_delete' # NoWallet => Fits(pending_delete')
    BY <1>1, <2>1
  <2>3. active' = NoWallet => pending_delete' = NoWallet
    BY <1>1, <2>1
  <2>4. QED BY <1>2, <2>2, <2>3 DEF RequestFits, Fits
<1>6. \A w \in available' \cup {active'} : w.phrase \in KnownKeys \cup {None}
  BY <1>1, <1>2 DEF Provenance
<1>7. QED BY <1>1, <1>2, <1>3, <1>4, <1>5, <1>6, RestKeepsKeys

----------------------------------------------------------------------------
(* The keypairs are kept *)

LEMMA KeepInvInit == Init => KeepInv
<1> SUFFICES ASSUME Init PROVE KeepInv
  OBVIOUS
<1>1. /\ call = NoCall /\ available = {} /\ active = NoWallet /\ pending_delete = NoWallet
      /\ material = None /\ revealed = {} /\ todo = <<>>
  BY DEF Init, StoreInit
<1>2. PICK old \in ForeignKeys \cup {None} :
        disk = [f \in Files |-> IF f \in {Keypair(Session), SeedTxt} THEN old ELSE None]
  BY DEF Init, StoreInit
<1>3. \A f \in Files : disk[f] \in KnownKeys \cup {None, Torn}
  BY <1>2 DEF KnownKeys
<1>4. todo \in Seq(KnownSteps(KnownKeys))
  BY <1>1
<1>5. Provenance
  BY <1>1, <1>3, <1>4, WalletOrNone DEF Provenance, NoCall
<1>6. RequestFits
  BY <1>1 DEF RequestFits
<1>7. \A f : Untouched(todo, f) /\ Once(todo, f)
  BY <1>1 DEF Untouched, Once
<1>8. QED BY <1>5, <1>6, <1>7 DEF KeepInv, Spared

LEMMA KeepInvStep == IInv /\ KeepInv /\ [Next]_vars => KeepInv'
<1> SUFFICES ASSUME IInv, KeepInv, [Next]_vars PROVE KeepInv'
  OBVIOUS
<1>1. CASE Open \/ Withdraw \/ \E name \in {"Deposit", "Start"} : EnsureActiveWallet(name)
  BY <1>1, SessionCallsKeepKeys
<1>2. CASE CreateManagedWallet \/ ImportManagedWallet \/ ConfirmWalletDelete
  BY <1>2, WalletCallsKeepKeys
<1>3. CASE CallStep \/ Retry
  BY <1>3, CallStepKeepsKeys, RetryKeepsKeys
<1>4. CASE CallFails \/ Quit
  BY <1>4, FailureKeepsKeys
<1>5. CASE \/ Opened \/ Created \/ Deleted \/ SessionReady
           \/ \E with_phrase \in BOOLEAN : Imported(with_phrase)
           \/ \E name \in {"Deposit", "Start"} : Ensured(name)
  BY <1>5, ReturnKeepsKeys
<1>6. CASE \/ TriggerRefresh \/ PollBalance \/ PollList
           \/ \E w \in available : UseWallet(w) \/ RequestWalletDelete(w)
           \/ CancelDelete \/ \E require_ack \in BOOLEAN : OpenRecovery(require_ack)
           \/ ShowMaterial \/ Acknowledge \/ CloseRecovery
           \/ StartMining \/ PollMining
  BY <1>6, WindowsKeepKeys
<1>7. CASE UNCHANGED vars
  <2>1. UNCHANGED <<disk, todo, call, available, active, material, revealed, pending_delete, generated>>
    BY <1>7 DEF vars, storeVars, wallets, recovery, history
  <2>2. Provenance' /\ RequestFits'
    BY <2>1 DEF KeepInv, Provenance, KnownKeys, RequestFits, Fits
  <2>3. Spared' /\ \A s \in Slots : Once(todo, Keypair(s))'
    BY <2>1 DEF KeepInv, Spared, MayGo, Untouched, Once
  <2>4. QED BY <2>2, <2>3 DEF KeepInv
<1>8. QED
  BY <1>1, <1>2, <1>3, <1>4, <1>5, <1>6, <1>7 DEF Next

\* Only the steps of a call touch the files.
LEMMA OnlyStepsWrite ==
  ASSUME [Next]_vars, ~CallStep
  PROVE  disk' = disk
<1>1. CASE Open \/ Withdraw \/ Retry \/ \E name \in {"Deposit", "Start"} : EnsureActiveWallet(name)
  BY <1>1 DEF Open, Withdraw, Retry, EnsureActiveWallet, CallSession, Call
<1>2. CASE CreateManagedWallet \/ ImportManagedWallet \/ ConfirmWalletDelete
  BY <1>2 DEF CreateManagedWallet, ImportManagedWallet, ConfirmWalletDelete, Call
<1>3. CASE CallFails \/ Quit
  BY <1>3 DEF CallFails, Quit, CutShort, storeVars
<1>4. CASE \/ Opened \/ Created \/ Deleted \/ SessionReady
           \/ \E with_phrase \in BOOLEAN : Imported(with_phrase)
           \/ \E name \in {"Deposit", "Start"} : Ensured(name)
  BY <1>4 DEF Opened, Created, Deleted, SessionReady, Imported, Ensured, Returns, storeVars
<1>5. CASE \/ TriggerRefresh \/ PollBalance \/ PollList
           \/ \E w \in available : UseWallet(w) \/ RequestWalletDelete(w)
           \/ CancelDelete \/ \E require_ack \in BOOLEAN : OpenRecovery(require_ack)
           \/ ShowMaterial \/ Acknowledge \/ CloseRecovery
           \/ StartMining \/ PollMining
  BY <1>5 DEF TriggerRefresh, PollBalance, PollList, UseWallet, RequestWalletDelete, CancelDelete,
     OpenRecovery, ShowMaterial, Acknowledge, CloseRecovery, StartMining, PollMining, storeVars
<1>6. CASE UNCHANGED vars
  BY <1>6 DEF vars, storeVars
<1>7. QED BY <1>1, <1>2, <1>3, <1>4, <1>5, <1>6 DEF Next

\* No keypair is lost but the one the user has given up, or is importing again, for any
\* keys and any number of failures: a session wallet is made, and a wallet created, only
\* under a name that is free, and the delete window is never about a wallet whose name
\* another has taken (create_session_delegate_wallet, confirm_wallet_delete).
THEOREM KeysAreAlwaysKept == Spec => KeysAreKept
<1>1. ASSUME IInv, KeepInv, [Next]_vars
      PROVE  [\A s \in Slots : disk[Keypair(s)] \in Keys =>
               \/ disk'[Keypair(s)] = disk[Keypair(s)]
               \/ call.name = "Delete" /\ pending_delete.slot = s /\ pending_delete.key = disk[Keypair(s)]
               \/ call.name \in {"ImportPhrase", "ImportKey"} /\ call.key = disk[Keypair(s)]]_vars
  <2>1. CASE CallStep
    BY <1>1, <2>1, StepSpares DEF MayGo
  <2>2. CASE ~CallStep
    BY <1>1, <2>2, OnlyStepsWrite
  <2>3. QED BY <2>1, <2>2
<1>2. QED BY <1>1, KeepInvInit, KeepInvStep, Inductive, PTL DEF Spec, KeysAreKept
=============================================================================
