------------------------ MODULE TrainingPartsProofs ------------------------
(***************************************************************************)
(* Proofs about four parts of a training run that work beside the          *)
(* coordinator: ReplayLoader, for any shards, any limit of the cache and   *)
(* any lengths of batch and run; MinimaxLadder, for any depth and any      *)
(* number of games to a level; ArenaMatch, for any numbers of games, sizes *)
(* of batch and openings; League, for any weights and sizes of batch and   *)
(* any depth of the archive.                                               *)
(***************************************************************************)
EXTENDS ReplayLoader, MinimaxLadder, ArenaMatch, League,
        FiniteSetTheorems, FunctionTheorems, SequenceTheorems, TLAPS

-----------------------------------------------------------------------------
(* The window of shards and its loader.                                    *)

Adds    == {s \in Shards : Sent("add", s)}
Deleted == ToSet(removed)

\* TypeOK in three parts: the window, the batch being drawn, the trainer.
WindowTypeOK ==
  /\ files \subseteq Shards /\ commands \in Seq(Commands) /\ removed \in Seq(Shards)
  /\ active \subseteq Shards /\ cache \in Seq(Shards) /\ Len(cache) <= CacheLimit
BatchTypeOK ==
  /\ draws \in 0..MaxDraws /\ lock \in {"free", "trainer", "loader"}
  /\ left \in 0..BatchDraws /\ chosen \in Shards \cup {0} /\ misread \in BOOLEAN
TrainerTypeOK ==
  /\ saved \in -1..MaxDraws
  /\ future \in {"none", "queued", "running", "done", "failed"}
  /\ pc \in {"idle", "waiting", "drawing", "training", "saving", "halving",
             "stopping", "failing", "ended"}
  /\ next \in {"training", "saving"} /\ resumable \in BOOLEAN
  /\ reported \in {"no", "stopped", "error"}

(***************************************************************************)
(* The inductive invariant.  A file outlives the shard's stay in the       *)
(* window: it is there from the announcement until the trainer's removal   *)
(* is acted on, and these are stages a shard passes once, in order.        *)
(***************************************************************************)

\* A shard announced, in the window or just removed from it has its file, and is
\* at one of these stages only.
FilesAreKept ==
  /\ Adds \cup active \cup Deleted \subseteq files
  /\ Adds \cap active = {} /\ Adds \cap Deleted = {} /\ active \cap Deleted = {}
  /\ IsInjective(removed)

\* No command is sent twice, and a shard is removed after it was added.
CommandsAreInOrder ==
  /\ IsInjective(commands)
  /\ \A i \in DOMAIN commands, s \in Shards :
       commands[i] = [kind |-> "remove", shard |-> s] =>
         s \in active \/ \E j \in 1..i-1 : commands[j] = [kind |-> "add", shard |-> s]

\* Whoever draws holds the lock, in the place where it draws.
LockIsHeld ==
  /\ lock = "loader" => future = "running"
  /\ lock = "trainer" => pc = "drawing"
  /\ chosen # 0 => lock # "free" /\ chosen \in active

CacheIsSet == IsInjective(cache)

\* A checkpoint is good for resuming while no batch is drawn or prefetched.
NothingIsAhead ==
  resumable => future = "none" /\ pc \in {"idle", "stopping", "ended"}

IInv ==
  /\ ReplayIsSound
  /\ FilesAreKept
  /\ CommandsAreInOrder
  /\ LockIsHeld
  /\ CacheIsSet
  /\ NothingIsAhead

-----------------------------------------------------------------------------
(* Sequences without repetition.                                           *)

LEMMA AppendToSet ==
  ASSUME NEW S, NEW s \in Seq(S), NEW x \in S
  PROVE  /\ Append(s, x) \in Seq(S) /\ Len(Append(s, x)) = Len(s) + 1
         /\ ToSet(Append(s, x)) = ToSet(s) \cup {x}
         /\ IsInjective(s) /\ x \notin ToSet(s) => IsInjective(Append(s, x))
<1>1. Append(s, x) \in Seq(S) /\ Len(Append(s, x)) = Len(s) + 1 /\ Len(s) \in Nat
  OBVIOUS
<1>2. DOMAIN s = 1..Len(s) /\ DOMAIN Append(s, x) = 1..Len(s) + 1
  BY <1>1
<1>3. /\ \A i \in 1..Len(s) : Append(s, x)[i] = s[i]
      /\ Append(s, x)[Len(s) + 1] = x
  OBVIOUS
<1>4. ToSet(Append(s, x)) = ToSet(s) \cup {x}
  <2>1. \A y \in ToSet(Append(s, x)) : y \in ToSet(s) \cup {x}
    BY <1>1, <1>2, <1>3 DEF ToSet
  <2>2. \A y \in ToSet(s) : y \in ToSet(Append(s, x))
    BY <1>1, <1>2, <1>3 DEF ToSet
  <2>3. x \in ToSet(Append(s, x))
    BY <1>1, <1>2, <1>3 DEF ToSet
  <2> QED
    BY <2>1, <2>2, <2>3
<1>5. IsInjective(s) /\ x \notin ToSet(s) => IsInjective(Append(s, x))
  <2> HAVE IsInjective(s) /\ x \notin ToSet(s)
  <2>1. \A i \in 1..Len(s) : s[i] # x
    BY <1>2 DEF ToSet
  <2> QED
    BY <1>1, <1>2, <1>3, <2>1 DEF IsInjective
<1> QED
  BY <1>1, <1>4, <1>5

LEMMA TailOfSet ==
  ASSUME NEW S, NEW s \in Seq(S), s # <<>>
  PROVE  /\ Tail(s) \in Seq(S) /\ Len(Tail(s)) = Len(s) - 1
         /\ Head(s) \in ToSet(s) /\ Head(s) \in S
         /\ ToSet(Tail(s)) \subseteq ToSet(s)
         /\ IsInjective(s) => /\ IsInjective(Tail(s))
                              /\ ToSet(Tail(s)) = ToSet(s) \ {Head(s)}
<1>1. Tail(s) \in Seq(S) /\ Len(Tail(s)) = Len(s) - 1
  OBVIOUS
<1>2. Len(s) \in Nat \ {0} /\ Head(s) = s[1]
  OBVIOUS
<1>3. DOMAIN s = 1..Len(s) /\ DOMAIN Tail(s) = 1..Len(s) - 1
  BY <1>1, <1>2
<1>4. \A i \in 1..Len(s) - 1 : Tail(s)[i] = s[i + 1]
  BY <1>1
<1>5. Head(s) \in ToSet(s) /\ Head(s) \in S
  BY <1>2, <1>3 DEF ToSet
<1>6. ToSet(Tail(s)) \subseteq ToSet(s)
  BY <1>2, <1>3, <1>4 DEF ToSet
<1>7. ASSUME IsInjective(s)
      PROVE  IsInjective(Tail(s)) /\ ToSet(Tail(s)) = ToSet(s) \ {Head(s)}
  <2>1. IsInjective(Tail(s))
    BY <1>2, <1>3, <1>4, <1>7 DEF IsInjective
  <2>2. \A i \in 1..Len(s) - 1 : s[i + 1] # s[1]
    BY <1>2, <1>3, <1>7 DEF IsInjective
  <2>3. \A x \in ToSet(s) \ {Head(s)} : x \in ToSet(Tail(s))
    <3> TAKE x \in ToSet(s) \ {Head(s)}
    <3>2. PICK i \in 1..Len(s) : x = s[i]
      BY <1>3 DEF ToSet
    <3>3. i - 1 \in 1..Len(s) - 1 /\ Tail(s)[i - 1] = x
      BY <1>2, <1>4, <3>2
    <3> QED
      BY <1>3, <3>3 DEF ToSet
  <2>4. Head(s) \notin ToSet(Tail(s))
    BY <1>2, <1>3, <1>4, <2>2 DEF ToSet
  <2> QED
    BY <1>6, <2>1, <2>3, <2>4
<1> QED
  BY <1>1, <1>5, <1>6, <1>7

LEMMA RemoveAtIndex ==
  ASSUME NEW S, NEW s \in Seq(S), NEW n \in 1..Len(s)
  PROVE  /\ RemoveAt(s, n) \in Seq(S) /\ Len(RemoveAt(s, n)) = Len(s) - 1
         /\ \A i \in 1..Len(s) - 1 :
              RemoveAt(s, n)[i] = IF i < n THEN s[i] ELSE s[i + 1]
<1> DEFINE a == SubSeq(s, 1, n - 1)
           b == SubSeq(s, n + 1, Len(s))
<1>0. Len(s) \in Nat /\ n \in Nat /\ n >= 1 /\ n <= Len(s)
  OBVIOUS
<1>1. \A i \in 1..Len(s) : s[i] \in S
  OBVIOUS
<1>2. a \in Seq(S) /\ Len(a) = n - 1 /\ \A i \in 1..n - 1 : a[i] = s[i]
  <2>1. \A i \in 1..n - 1 : s[i] \in S
    BY <1>0, <1>1
  <2> QED
    BY <1>0, <2>1, SubSeqProperties
<1>3. /\ b \in Seq(S) /\ Len(b) = Len(s) - n
      /\ \A i \in 1..Len(s) - n : b[i] = s[i + n]
  <2>1. \A i \in n + 1..Len(s) : s[i] \in S
    BY <1>0, <1>1
  <2> QED
    BY <1>0, <2>1, SubSeqProperties
<1>4. RemoveAt(s, n) = a \o b
  BY DEF RemoveAt
<1> HIDE DEF a, b
<1>5. /\ a \o b \in Seq(S) /\ Len(a \o b) = Len(a) + Len(b)
      /\ \A i \in 1..Len(a) + Len(b) :
           (a \o b)[i] = IF i <= Len(a) THEN a[i] ELSE b[i - Len(a)]
  BY <1>2, <1>3, ConcatProperties
<1>6. \A i \in 1..Len(s) - 1 : (a \o b)[i] = IF i < n THEN s[i] ELSE s[i + 1]
  <2> TAKE i \in 1..Len(s) - 1
  <2>2. i \in 1..Len(a) + Len(b)
    BY <1>0, <1>2, <1>3
  <2>3. CASE i < n
    <3>1. i <= Len(a) /\ i \in 1..n - 1
      BY <1>0, <1>2, <2>3
    <3> QED
      BY <1>2, <1>5, <2>2, <2>3, <3>1
  <2>4. CASE i >= n
    <3>1. ~(i <= Len(a)) /\ i - Len(a) = i - n + 1 /\ i - n + 1 \in 1..Len(s) - n
      BY <1>0, <1>2, <2>4
    <3>2. b[i - n + 1] = s[i - n + 1 + n]
      BY <1>3, <3>1
    <3>3. i - n + 1 + n = i + 1
      BY <1>0
    <3> QED
      BY <1>0, <1>5, <2>2, <2>4, <3>1, <3>2, <3>3
  <2>5. i < n \/ i >= n
    BY <1>0
  <2> QED
    BY <2>3, <2>4, <2>5
<1> QED
  BY <1>0, <1>2, <1>3, <1>4, <1>5, <1>6

LEMMA RemoveAtOfSet ==
  ASSUME NEW S, NEW s \in Seq(S), IsInjective(s), NEW n \in 1..Len(s)
  PROVE  /\ RemoveAt(s, n) \in Seq(S) /\ IsInjective(RemoveAt(s, n))
         /\ ToSet(RemoveAt(s, n)) = ToSet(s) \ {s[n]}
         /\ Len(RemoveAt(s, n)) = Len(s) - 1
<1> DEFINE t == RemoveAt(s, n)
           e == s[n]
<1>1. DOMAIN s = 1..Len(s) /\ Len(s) \in Nat
  OBVIOUS
<1>2. \A i \in 1..Len(s) : s[i] = e => i = n
  BY <1>1 DEF IsInjective
<1>3. t \in Seq(S) /\ Len(t) = Len(s) - 1
  BY RemoveAtIndex
<1>4. \A i \in 1..Len(s) - 1 : t[i] = IF i < n THEN s[i] ELSE s[i + 1]
  BY RemoveAtIndex
<1>5. n \in 1..Len(s) /\ s[n] = e
  OBVIOUS
<1> HIDE DEF t, e
<1>6. DOMAIN t = 1..Len(s) - 1
  BY <1>3
<1>7. IsInjective(t)
  <2>1. ASSUME NEW i \in 1..Len(s) - 1, NEW k \in 1..Len(s) - 1, t[i] = t[k]
        PROVE  i = k
    <3>1. CASE i < n /\ k < n
      BY <1>1, <1>4, <2>1, <3>1 DEF IsInjective
    <3>2. CASE i < n /\ k >= n
      BY <1>1, <1>4, <2>1, <3>2 DEF IsInjective
    <3>3. CASE i >= n /\ k < n
      BY <1>1, <1>4, <2>1, <3>3 DEF IsInjective
    <3>4. CASE i >= n /\ k >= n
      BY <1>1, <1>4, <2>1, <3>4 DEF IsInjective
    <3> QED
      BY <1>1, <1>5, <3>1, <3>2, <3>3, <3>4
  <2> QED
    BY <1>6, <2>1 DEF IsInjective
<1>8. \A x \in ToSet(t) : x \in ToSet(s) \ {e}
  BY <1>1, <1>2, <1>4, <1>5, <1>6 DEF ToSet
<1>9. \A x \in ToSet(s) \ {e} : x \in ToSet(t)
  <2> TAKE x \in ToSet(s) \ {e}
  <2>1. PICK i \in 1..Len(s) : x = s[i]
    BY <1>1 DEF ToSet
  <2>2. i # n
    BY <1>5, <2>1
  <2>3. CASE i < n
    BY <1>1, <1>4, <1>5, <1>6, <2>1, <2>3 DEF ToSet
  <2>4. CASE i > n
    <3>1. i - 1 \in 1..Len(s) - 1 /\ t[i - 1] = x
      BY <1>1, <1>4, <1>5, <2>1, <2>4
    <3> QED
      BY <1>6, <3>1 DEF ToSet
  <2> QED
    BY <2>2, <2>3, <2>4
<1>10. ToSet(t) = ToSet(s) \ {e}
  BY <1>8, <1>9
<1> QED
  BY <1>3, <1>7, <1>10 DEF t, e

\* The first occurrence of an element is the only one.
LEMMA RemoveFirstOfSet ==
  ASSUME NEW S, NEW s \in Seq(S), IsInjective(s), NEW e
  PROVE  /\ RemoveFirst(s, e) \in Seq(S) /\ IsInjective(RemoveFirst(s, e))
         /\ ToSet(RemoveFirst(s, e)) = ToSet(s) \ {e}
         /\ Len(RemoveFirst(s, e)) =
              IF e \in ToSet(s) THEN Len(s) - 1 ELSE Len(s)
<1>0. DOMAIN s = 1..Len(s) /\ Len(s) \in Nat
  OBVIOUS
<1>1. CASE e \notin ToSet(s)
  BY <1>0, <1>1 DEF RemoveFirst, ToSet
<1>2. CASE e \in ToSet(s)
  <2>1. PICK n \in 1..Len(s) : s[n] = e
    BY <1>0, <1>2 DEF ToSet
  <2>2. \A i \in 1..Len(s) : s[i] = e => i = n
    BY <1>0, <2>1 DEF IsInjective
  <2>3. {i \in 1..Len(s) : s[i] = e} = {n}
    BY <2>1, <2>2
  <2>4. Min({n}) = n
    BY <1>0, <2>1 DEF Min
  <2>5. SelectInSeq(s, LAMBDA v : v = e) = n
    BY <2>3, <2>4 DEF SelectInSeq
  <2>6. RemoveFirst(s, e) = RemoveAt(s, n)
    BY <2>1, <2>5 DEF RemoveFirst
  <2>7. /\ RemoveAt(s, n) \in Seq(S) /\ IsInjective(RemoveAt(s, n))
        /\ ToSet(RemoveAt(s, n)) = ToSet(s) \ {e} /\ Len(RemoveAt(s, n)) = Len(s) - 1
    BY <2>1, RemoveAtOfSet
  <2> QED
    BY <1>2, <2>6, <2>7
<1> QED
  BY <1>1, <1>2

-----------------------------------------------------------------------------
(* The initial state, and the steps that leave the window alone.           *)

LEMMA TypeParts == TypeOK <=> WindowTypeOK /\ BatchTypeOK /\ TrainerTypeOK
BY DEF TypeOK, WindowTypeOK, BatchTypeOK, TrainerTypeOK

LEMMA TypePartsNext == TypeOK' <=> WindowTypeOK' /\ BatchTypeOK' /\ TrainerTypeOK'
BY DEF TypeOK, WindowTypeOK, BatchTypeOK, TrainerTypeOK

LEMMA InitInv == Init => IInv
<1> SUFFICES ASSUME Init PROVE IInv
  OBVIOUS
<1> USE ReplayLoaderAssumption
<1>1. commands = <<>> /\ removed = <<>> /\ cache = <<>>
  BY DEF Init
<1>2. /\ ToSet(commands) = {} /\ ToSet(removed) = {} /\ ToSet(cache) = {}
      /\ IsInjective(commands) /\ IsInjective(removed) /\ IsInjective(cache)
      /\ DOMAIN commands = {}
  BY <1>1 DEF ToSet, IsInjective
<1>3. TypeOK
  <2>1. WindowTypeOK
    BY <1>1 DEF Init, WindowTypeOK
  <2>2. BatchTypeOK
    <3>1. draws \in 0..MaxDraws /\ left \in 0..BatchDraws
      BY DEF Init
    <3>2. chosen \in Shards \cup {0} /\ misread \in BOOLEAN
      BY ZenonT(20) DEF Init
    <3> QED
      BY <3>1, <3>2 DEF Init, BatchTypeOK
  <2>3. TrainerTypeOK
    <3>1. saved \in -1..MaxDraws
      BY DEF Init
    <3>2. resumable \in BOOLEAN
      BY Zenon DEF Init
    <3> QED
      BY <3>1, <3>2 DEF Init, TrainerTypeOK
  <2> QED
    BY <2>1, <2>2, <2>3, TypeParts
<1>4. ReplayIsSound
  BY <1>2, <1>3 DEF Init, ReplayIsSound, NoDeletedRead, CacheIsOfTheWindow,
     CheckpointResumes, FailureIsReported
<1>5. FilesAreKept /\ CommandsAreInOrder
  BY <1>2 DEF Init, FilesAreKept, CommandsAreInOrder, Adds, Deleted, Sent
<1>6. LockIsHeld /\ CacheIsSet /\ NothingIsAhead
  BY <1>2 DEF Init, LockIsHeld, CacheIsSet, NothingIsAhead
<1> QED
  BY <1>4, <1>5, <1>6 DEF IInv

LEMMA SameWindow ==
  FilesAreKept /\ CommandsAreInOrder /\ UNCHANGED <<coordinator, active>>
    => FilesAreKept' /\ CommandsAreInOrder'
BY DEF FilesAreKept, CommandsAreInOrder, Adds, Deleted, Sent, coordinator

\* What a thread does that neither draws nor takes a command.
LEMMA SameCache ==
  IInv /\ UNCHANGED <<coordinator, active, cache, misread>>
    => FilesAreKept' /\ CommandsAreInOrder' /\ CacheIsSet' /\ NoDeletedRead'
       /\ CacheIsOfTheWindow'
<1> SUFFICES ASSUME IInv, UNCHANGED <<coordinator, active, cache, misread>>
             PROVE  /\ FilesAreKept' /\ CommandsAreInOrder' /\ CacheIsSet'
                    /\ NoDeletedRead' /\ CacheIsOfTheWindow'
  OBVIOUS
<1>1. FilesAreKept' /\ CommandsAreInOrder'
  BY SameWindow DEF IInv
<1> QED
  BY <1>1 DEF IInv, ReplayIsSound, CacheIsSet, NoDeletedRead, CacheIsOfTheWindow

LEMMA LoaderStartsInv == IInv /\ LoaderStarts => IInv'
<1> SUFFICES ASSUME IInv, LoaderStarts PROVE IInv'
  OBVIOUS
<1>1. UNCHANGED <<coordinator, active, cache, misread>>
  BY DEF LoaderStarts, Acquire, pool
<1>2. TypeOK'
  <2> USE ReplayLoaderAssumption, TypeParts DEF IInv, ReplayIsSound
  <2>1. WindowTypeOK'
    BY <1>1 DEF WindowTypeOK, coordinator
  <2>2. BatchTypeOK'
    BY DEF BatchTypeOK, LoaderStarts, Acquire, pool
  <2>3. TrainerTypeOK'
    BY DEF TrainerTypeOK, LoaderStarts, Acquire, pool, trainer
  <2> QED
    BY <2>1, <2>2, <2>3, TypePartsNext
<1>3. LockIsHeld' /\ NothingIsAhead' /\ CheckpointResumes' /\ FailureIsReported'
  BY DEF IInv, ReplayIsSound, LockIsHeld, NothingIsAhead, CheckpointResumes,
     FailureIsReported, LoaderStarts, Acquire, pool, trainer
<1> QED
  BY <1>1, <1>2, <1>3, SameCache DEF IInv, ReplayIsSound

LEMMA LoaderEndsInv == IInv /\ LoaderEnds => IInv'
<1> SUFFICES ASSUME IInv, LoaderEnds PROVE IInv'
  OBVIOUS
<1>1. UNCHANGED <<coordinator, active, cache, misread>>
  BY DEF LoaderEnds, Drawn, Raised
<1>2. TypeOK'
  <2> USE ReplayLoaderAssumption, TypeParts DEF IInv, ReplayIsSound
  <2>1. WindowTypeOK'
    BY <1>1 DEF WindowTypeOK, coordinator
  <2>2. BatchTypeOK'
    BY DEF BatchTypeOK, LoaderEnds, Drawn, Raised
  <2>3. TrainerTypeOK'
    BY DEF TrainerTypeOK, LoaderEnds, Drawn, Raised, trainer
  <2> QED
    BY <2>1, <2>2, <2>3, TypePartsNext
<1>3. LockIsHeld' /\ NothingIsAhead' /\ CheckpointResumes' /\ FailureIsReported'
  BY DEF IInv, ReplayIsSound, LockIsHeld, NothingIsAhead, CheckpointResumes,
     FailureIsReported, LoaderEnds, Drawn, Raised, trainer
<1> QED
  BY <1>1, <1>2, <1>3, SameCache DEF IInv, ReplayIsSound

LEMMA TrainingBatchInv == IInv /\ TrainingBatch => IInv'
<1> SUFFICES ASSUME IInv, TrainingBatch PROVE IInv'
  OBVIOUS
<1>1. UNCHANGED <<coordinator, active, cache, misread>>
  BY DEF TrainingBatch, pool
<1>2. TypeOK'
  <2> USE ReplayLoaderAssumption, TypeParts DEF IInv, ReplayIsSound
  <2>1. WindowTypeOK'
    BY <1>1 DEF WindowTypeOK, coordinator
  <2>2. BatchTypeOK'
    BY DEF BatchTypeOK, TrainingBatch, pool
  <2>3. TrainerTypeOK'
    BY DEF BatchTypeOK, TrainerTypeOK, TrainingBatch, pool
  <2> QED
    BY <2>1, <2>2, <2>3, TypePartsNext
<1>3. LockIsHeld' /\ NothingIsAhead' /\ CheckpointResumes' /\ FailureIsReported'
  BY DEF IInv, ReplayIsSound, LockIsHeld, NothingIsAhead, CheckpointResumes,
     FailureIsReported, TrainingBatch, pool
<1> QED
  BY <1>1, <1>2, <1>3, SameCache DEF IInv, ReplayIsSound

LEMMA PrefetchedInv == IInv /\ Prefetched => IInv'
<1> SUFFICES ASSUME IInv, Prefetched PROVE IInv'
  OBVIOUS
<1>1. UNCHANGED <<coordinator, active, cache, misread>>
  BY DEF Prefetched, pool
<1>2. TypeOK'
  <2> USE ReplayLoaderAssumption, TypeParts DEF IInv, ReplayIsSound
  <2>1. WindowTypeOK'
    BY <1>1 DEF WindowTypeOK, coordinator
  <2>2. BatchTypeOK'
    BY DEF BatchTypeOK, Prefetched, pool
  <2>3. TrainerTypeOK'
    BY DEF BatchTypeOK, TrainerTypeOK, Prefetched, Goto
  <2> QED
    BY <2>1, <2>2, <2>3, TypePartsNext
<1>3. LockIsHeld' /\ NothingIsAhead' /\ CheckpointResumes' /\ FailureIsReported'
  BY DEF IInv, ReplayIsSound, LockIsHeld, NothingIsAhead, CheckpointResumes,
     FailureIsReported, Prefetched, Goto, pool
<1> QED
  BY <1>1, <1>2, <1>3, SameCache DEF IInv, ReplayIsSound

LEMMA StartDrawingInv == IInv /\ StartDrawing => IInv'
<1> SUFFICES ASSUME IInv, StartDrawing PROVE IInv'
  OBVIOUS
<1>1. UNCHANGED <<coordinator, active, cache, misread>>
  BY DEF StartDrawing, Acquire
<1>2. TypeOK'
  <2> USE ReplayLoaderAssumption, TypeParts DEF IInv, ReplayIsSound
  <2>1. WindowTypeOK'
    BY <1>1 DEF WindowTypeOK, coordinator
  <2>2. BatchTypeOK'
    BY DEF BatchTypeOK, StartDrawing, Acquire
  <2>3. TrainerTypeOK'
    BY DEF BatchTypeOK, TrainerTypeOK, StartDrawing, trainer
  <2> QED
    BY <2>1, <2>2, <2>3, TypePartsNext
<1>3. LockIsHeld' /\ NothingIsAhead' /\ CheckpointResumes' /\ FailureIsReported'
  BY DEF IInv, ReplayIsSound, LockIsHeld, NothingIsAhead, CheckpointResumes,
     FailureIsReported, StartDrawing, Acquire, trainer
<1> QED
  BY <1>1, <1>2, <1>3, SameCache DEF IInv, ReplayIsSound

LEMMA EndDrawingInv == IInv /\ EndDrawing => IInv'
<1> SUFFICES ASSUME IInv, EndDrawing PROVE IInv'
  OBVIOUS
<1>1. UNCHANGED <<coordinator, active, cache, misread>>
  BY DEF EndDrawing, Drawn, Raised
<1>2. TypeOK'
  <2> USE ReplayLoaderAssumption, TypeParts DEF IInv, ReplayIsSound
  <2>1. WindowTypeOK'
    BY <1>1 DEF WindowTypeOK, coordinator
  <2>2. BatchTypeOK'
    BY DEF BatchTypeOK, EndDrawing, Drawn, Raised
  <2>3. TrainerTypeOK'
    BY DEF BatchTypeOK, TrainerTypeOK, EndDrawing, Goto
  <2> QED
    BY <2>1, <2>2, <2>3, TypePartsNext
<1>3. LockIsHeld' /\ NothingIsAhead' /\ CheckpointResumes' /\ FailureIsReported'
  <2>1. pc = "drawing" /\ lock' = "free" /\ chosen' = 0
    BY DEF EndDrawing, Drawn, Raised
  <2>2. resumable' = resumable /\ ~resumable
    BY <2>1 DEF IInv, NothingIsAhead, EndDrawing, Goto
  <2>3. pc' \in {"training", "saving", "failing"}
    BY DEF IInv, ReplayIsSound, TypeOK, EndDrawing, Goto
  <2> QED
    BY <2>1, <2>2, <2>3 DEF LockIsHeld, NothingIsAhead, CheckpointResumes,
       FailureIsReported
<1> QED
  BY <1>1, <1>2, <1>3, SameCache DEF IInv, ReplayIsSound

LEMMA TrainInv == IInv /\ Train => IInv'
<1> SUFFICES ASSUME IInv, Train PROVE IInv'
  OBVIOUS
<1>1. UNCHANGED <<coordinator, active, cache, misread>>
  BY DEF Train, pool
<1>2. TypeOK'
  <2> USE ReplayLoaderAssumption, TypeParts DEF IInv, ReplayIsSound
  <2>1. WindowTypeOK'
    BY <1>1 DEF WindowTypeOK, coordinator
  <2>2. BatchTypeOK'
    BY DEF BatchTypeOK, Train, pool
  <2>3. TrainerTypeOK'
    BY DEF BatchTypeOK, TrainerTypeOK, Train, Goto
  <2> QED
    BY <2>1, <2>2, <2>3, TypePartsNext
<1>3. LockIsHeld' /\ NothingIsAhead' /\ CheckpointResumes' /\ FailureIsReported'
  BY DEF IInv, ReplayIsSound, LockIsHeld, NothingIsAhead, CheckpointResumes,
     FailureIsReported, Train, Goto, pool
<1> QED
  BY <1>1, <1>2, <1>3, SameCache DEF IInv, ReplayIsSound

LEMMA SaveInv == IInv /\ Save => IInv'
<1> SUFFICES ASSUME IInv, Save PROVE IInv'
  OBVIOUS
<1>1. UNCHANGED <<coordinator, active, cache, misread>>
  BY DEF Save, pool
<1>2. TypeOK'
  <2> USE ReplayLoaderAssumption, TypeParts DEF IInv, ReplayIsSound
  <2>1. WindowTypeOK'
    BY <1>1 DEF WindowTypeOK, coordinator
  <2>2. BatchTypeOK'
    BY DEF BatchTypeOK, Save, pool
  <2>3. TrainerTypeOK'
    <3>1. saved' \in -1..MaxDraws
      BY DEF BatchTypeOK, TrainerTypeOK, Save, Goto
    <3>2. resumable' \in BOOLEAN
      BY Zenon DEF TrainerTypeOK, Save, Goto
    <3> QED
      BY <3>1, <3>2 DEF TrainerTypeOK, Save, Invalidated, Uncancelled, Goto
  <2> QED
    BY <2>1, <2>2, <2>3, TypePartsNext
<1>3. LockIsHeld' /\ NothingIsAhead' /\ CheckpointResumes' /\ FailureIsReported'
  BY DEF IInv, ReplayIsSound, LockIsHeld, NothingIsAhead, CheckpointResumes,
     FailureIsReported, Save, Invalidated, Uncancelled, Goto, pool
<1> QED
  BY <1>1, <1>2, <1>3, SameCache DEF IInv, ReplayIsSound

LEMMA HalveInv == IInv /\ Halve => IInv'
<1> SUFFICES ASSUME IInv, Halve PROVE IInv'
  OBVIOUS
<1>1. UNCHANGED <<coordinator, active, cache, misread>>
  BY DEF Halve, pool
<1>2. TypeOK'
  <2> USE ReplayLoaderAssumption, TypeParts DEF IInv, ReplayIsSound
  <2>1. WindowTypeOK'
    BY <1>1 DEF WindowTypeOK, coordinator
  <2>2. BatchTypeOK'
    BY DEF BatchTypeOK, Halve, pool
  <2>3. TrainerTypeOK'
    BY DEF BatchTypeOK, TrainerTypeOK, Halve, Invalidated, Uncancelled, Goto
  <2> QED
    BY <2>1, <2>2, <2>3, TypePartsNext
<1>3. LockIsHeld' /\ NothingIsAhead' /\ CheckpointResumes' /\ FailureIsReported'
  BY DEF IInv, ReplayIsSound, LockIsHeld, NothingIsAhead, CheckpointResumes,
     FailureIsReported, Halve, Invalidated, Uncancelled, Goto, pool
<1> QED
  BY <1>1, <1>2, <1>3, SameCache DEF IInv, ReplayIsSound

LEMMA FailInv == IInv /\ Fail => IInv'
<1> SUFFICES ASSUME IInv, Fail PROVE IInv'
  OBVIOUS
<1>1. UNCHANGED <<coordinator, active, cache, misread>>
  BY DEF Fail, pool
<1>2. TypeOK'
  <2> USE ReplayLoaderAssumption, TypeParts DEF IInv, ReplayIsSound
  <2>1. WindowTypeOK'
    BY <1>1 DEF WindowTypeOK, coordinator
  <2>2. BatchTypeOK'
    BY DEF BatchTypeOK, Fail, pool
  <2>3. TrainerTypeOK'
    BY DEF BatchTypeOK, TrainerTypeOK, Fail, Invalidated, Uncancelled
  <2> QED
    BY <2>1, <2>2, <2>3, TypePartsNext
<1>3. LockIsHeld' /\ NothingIsAhead' /\ CheckpointResumes' /\ FailureIsReported'
  BY DEF IInv, ReplayIsSound, LockIsHeld, NothingIsAhead, CheckpointResumes,
     FailureIsReported, Fail, Invalidated, Uncancelled, pool
<1> QED
  BY <1>1, <1>2, <1>3, SameCache DEF IInv, ReplayIsSound

-----------------------------------------------------------------------------
(* The draws of a batch.                                                   *)

\* Nobody draws between a checkpoint and the next batch.
LEMMA HolderIsAtWork ==
  ASSUME IInv, NEW who \in {"loader", "trainer"}, lock = who
  PROVE  ~resumable
BY DEF IInv, LockIsHeld, NothingIsAhead

LEMMA ChooseInv ==
  ASSUME NEW who \in {"loader", "trainer"}
  PROVE  IInv /\ Choose(who) => IInv'
<1> SUFFICES ASSUME IInv, Choose(who) PROVE IInv'
  OBVIOUS
<1>1. UNCHANGED <<coordinator, active, cache, misread>>
  BY DEF Choose
<1>2. TypeOK'
  <2> USE ReplayLoaderAssumption, TypeParts DEF IInv, ReplayIsSound
  <2>1. WindowTypeOK'
    BY <1>1 DEF WindowTypeOK, coordinator
  <2>2. BatchTypeOK'
    <3>1. draws' \in 0..MaxDraws /\ left' \in 0..BatchDraws
      BY DEF BatchTypeOK, Choose
    <3>2. chosen' \in Shards \cup {0}
      BY DEF WindowTypeOK, Choose
    <3> QED
      BY <1>1, <3>1, <3>2 DEF BatchTypeOK, Choose
  <2>3. TrainerTypeOK'
    BY DEF TrainerTypeOK, Choose, trainer
  <2> QED
    BY <2>1, <2>2, <2>3, TypePartsNext
<1>3. LockIsHeld'
  BY DEF IInv, LockIsHeld, Choose, trainer
<1>4. ~resumable'
  BY HolderIsAtWork DEF Choose, trainer
<1>5. NothingIsAhead' /\ CheckpointResumes' /\ FailureIsReported'
  BY <1>4 DEF IInv, ReplayIsSound, NothingIsAhead, CheckpointResumes,
     FailureIsReported, Choose, trainer
<1> QED
  BY <1>1, <1>2, <1>3, <1>5, SameCache DEF IInv, ReplayIsSound

\* The cache stays within its limit and keeps each shard once.
LEMMA InCacheOfSet ==
  ASSUME cache \in Seq(Shards), IsInjective(cache), Len(cache) <= CacheLimit,
         NEW s \in Shards
  PROVE  /\ InCache(s) \in Seq(Shards) /\ Len(InCache(s)) <= CacheLimit
         /\ IsInjective(InCache(s))
         /\ ToSet(InCache(s)) \subseteq ToSet(cache) \cup {s}
<1> DEFINE rest == RemoveFirst(cache, s)
<1>1. /\ rest \in Seq(Shards) /\ IsInjective(rest)
      /\ ToSet(rest) = ToSet(cache) \ {s} /\ Len(rest) <= Len(cache)
  BY RemoveFirstOfSet
<1>2. Recent(s) = Append(rest, s)
  BY DEF Recent
<1> HIDE DEF rest
<1>3. /\ Recent(s) \in Seq(Shards) /\ Len(Recent(s)) = Len(rest) + 1
      /\ ToSet(Recent(s)) = ToSet(cache) \cup {s} /\ IsInjective(Recent(s))
  BY <1>1, <1>2, AppendToSet
<1>4. Len(rest) \in Nat /\ Len(cache) \in Nat /\ CacheLimit \in Nat
  BY <1>1, ReplayLoaderAssumption
<1>5. CASE Len(Recent(s)) > CacheLimit
  <2>1. InCache(s) = Tail(Recent(s)) /\ Recent(s) # <<>>
    BY <1>3, <1>4, <1>5, ReplayLoaderAssumption DEF InCache
  <2>2. /\ Tail(Recent(s)) \in Seq(Shards) /\ IsInjective(Tail(Recent(s)))
        /\ Len(Tail(Recent(s))) = Len(Recent(s)) - 1
        /\ ToSet(Tail(Recent(s))) \subseteq ToSet(Recent(s))
    BY <1>3, <2>1, TailOfSet
  <2> QED
    BY <1>1, <1>3, <1>4, <2>1, <2>2
<1>6. CASE ~(Len(Recent(s)) > CacheLimit)
  <2>1. InCache(s) = Recent(s)
    BY <1>6 DEF InCache
  <2> QED
    BY <1>3, <1>4, <1>6, <2>1
<1> QED
  BY <1>5, <1>6

\* The shard being loaded is still in the window, so its file is there.
LEMMA LoadInv ==
  ASSUME NEW who \in {"loader", "trainer"}
  PROVE  IInv /\ Load(who) => IInv'
<1> SUFFICES ASSUME IInv, Load(who) PROVE IInv'
  OBVIOUS
<1>1. UNCHANGED <<coordinator, active, draws, lock, left, future, trainer>>
  BY DEF Load
<1>2. chosen \in active /\ active \subseteq Shards /\ active \subseteq files
  BY DEF IInv, ReplayIsSound, TypeOK, LockIsHeld, FilesAreKept, Load
<1>3. /\ cache' \in Seq(Shards) /\ Len(cache') <= CacheLimit
      /\ IsInjective(cache') /\ ToSet(cache') \subseteq ToSet(cache) \cup {chosen}
  BY <1>2, InCacheOfSet DEF IInv, ReplayIsSound, TypeOK, CacheIsSet, Load
<1>4. ~misread'
  BY <1>2 DEF IInv, ReplayIsSound, NoDeletedRead, Load
<1>5. chosen' = 0
  BY DEF Load
<1>6. TypeOK'
  <2> USE TypeParts DEF IInv, ReplayIsSound
  <2>1. WindowTypeOK'
    BY <1>1, <1>3 DEF WindowTypeOK, coordinator
  <2>2. BatchTypeOK'
    <3>1. misread' \in BOOLEAN
      BY DEF Load
    <3> QED
      BY <1>1, <1>5, <3>1 DEF BatchTypeOK
  <2>3. TrainerTypeOK'
    BY <1>1 DEF TrainerTypeOK, trainer
  <2> QED
    BY <2>1, <2>2, <2>3, TypePartsNext
<1>7. NoDeletedRead' /\ CacheIsOfTheWindow' /\ CacheIsSet'
  BY <1>1, <1>2, <1>3, <1>4
     DEF IInv, ReplayIsSound, NoDeletedRead, CacheIsOfTheWindow, CacheIsSet
<1>8. CheckpointResumes' /\ FailureIsReported' /\ LockIsHeld' /\ NothingIsAhead'
  BY <1>1, <1>5 DEF IInv, ReplayIsSound, CheckpointResumes, FailureIsReported,
     LockIsHeld, NothingIsAhead, trainer
<1>9. FilesAreKept' /\ CommandsAreInOrder'
  BY <1>1, SameWindow DEF IInv
<1> QED
  BY <1>6, <1>7, <1>8, <1>9 DEF IInv, ReplayIsSound

-----------------------------------------------------------------------------
(* The coordinator: commands are sent, files are made and deleted.         *)

\* What the trainer has is not touched.
LEMMA SameTrainer ==
  IInv /\ UNCHANGED <<pool, future, trainer>>
    => /\ BatchTypeOK' /\ TrainerTypeOK' /\ LockIsHeld' /\ CacheIsSet'
       /\ NothingIsAhead' /\ NoDeletedRead' /\ CacheIsOfTheWindow'
       /\ CheckpointResumes' /\ FailureIsReported'
<1> SUFFICES ASSUME IInv, UNCHANGED <<pool, future, trainer>>
             PROVE  /\ BatchTypeOK' /\ TrainerTypeOK' /\ LockIsHeld' /\ CacheIsSet'
                    /\ NothingIsAhead' /\ NoDeletedRead' /\ CacheIsOfTheWindow'
                    /\ CheckpointResumes' /\ FailureIsReported'
  OBVIOUS
<1>1. BatchTypeOK' /\ TrainerTypeOK'
  BY TypeParts DEF IInv, ReplayIsSound, BatchTypeOK, TrainerTypeOK, pool, trainer
<1>2. LockIsHeld' /\ CacheIsSet' /\ NothingIsAhead'
  BY DEF IInv, LockIsHeld, CacheIsSet, NothingIsAhead, pool, trainer
<1>3. NoDeletedRead' /\ CacheIsOfTheWindow' /\ CheckpointResumes' /\ FailureIsReported'
  BY DEF IInv, ReplayIsSound, NoDeletedRead, CacheIsOfTheWindow, CheckpointResumes,
     FailureIsReported, pool, trainer
<1> QED
  BY <1>1, <1>2, <1>3

\* A command that is not in the queue yet takes its place at the end of it.
LEMMA CommandSent ==
  ASSUME IInv, NEW c \in Commands, c \notin ToSet(commands),
         commands' = Append(commands, c)
  PROVE  /\ commands' \in Seq(Commands) /\ IsInjective(commands')
         /\ ToSet(commands') = ToSet(commands) \cup {c}
         /\ DOMAIN commands' = 1..Len(commands) + 1 /\ Len(commands) \in Nat
         /\ DOMAIN commands = 1..Len(commands)
         /\ \A i \in 1..Len(commands) : commands'[i] = commands[i]
         /\ commands'[Len(commands) + 1] = c
<1>1. commands \in Seq(Commands) /\ IsInjective(commands)
  BY DEF IInv, ReplayIsSound, TypeOK, CommandsAreInOrder
<1>2. /\ commands' \in Seq(Commands) /\ ToSet(commands') = ToSet(commands) \cup {c}
      /\ IsInjective(commands') /\ Len(commands') = Len(commands) + 1
  BY <1>1, AppendToSet
<1> QED
  BY <1>1, <1>2

\* A removal to come finds its shard in the window, or announced before it.
LEMMA RemovalIsOfTheWindow ==
  ASSUME IInv, NEW s \in Shards, Sent("remove", s)
  PROVE  s \in active \/ s \in Adds
<1>1. PICK i \in DOMAIN commands : commands[i] = [kind |-> "remove", shard |-> s]
  BY DEF Sent, ToSet
<1>2. CASE s \in active
  BY <1>2
<1>3. CASE \E j \in 1..i-1 : commands[j] = [kind |-> "add", shard |-> s]
  <2>1. PICK j \in 1..i-1 : commands[j] = [kind |-> "add", shard |-> s]
    BY <1>3
  <2>2. j \in DOMAIN commands
    BY <2>1 DEF IInv, ReplayIsSound, TypeOK
  <2> QED
    BY <2>1, <2>2 DEF Adds, Sent, ToSet
<1> QED
  BY <1>1, <1>2, <1>3 DEF IInv, CommandsAreInOrder

LEMMA OrderIsKept ==
  ASSUME IInv, NEW c \in Commands, c \notin ToSet(commands),
         commands' = Append(commands, c), active' = active,
         \A s \in Shards :
           c = [kind |-> "remove", shard |-> s] => s \in active \/ Sent("add", s)
  PROVE  CommandsAreInOrder'
<1>1. /\ IsInjective(commands') /\ DOMAIN commands' = 1..Len(commands) + 1
      /\ Len(commands) \in Nat /\ DOMAIN commands = 1..Len(commands)
      /\ \A i \in 1..Len(commands) : commands'[i] = commands[i]
      /\ commands'[Len(commands) + 1] = c
  BY CommandSent
<1>2. ASSUME NEW i \in DOMAIN commands', NEW s \in Shards,
             commands'[i] = [kind |-> "remove", shard |-> s], s \notin active
      PROVE  \E j \in 1..i-1 : commands'[j] = [kind |-> "add", shard |-> s]
  <2>1. CASE i \in 1..Len(commands)
    <3>1. commands[i] = [kind |-> "remove", shard |-> s] /\ i \in DOMAIN commands
      BY <1>1, <1>2, <2>1
    <3>2. PICK j \in 1..i-1 : commands[j] = [kind |-> "add", shard |-> s]
      BY <1>2, <3>1 DEF IInv, CommandsAreInOrder
    <3>3. j \in 1..Len(commands)
      BY <1>1, <2>1
    <3> QED
      BY <1>1, <3>2, <3>3
  <2>2. CASE i = Len(commands) + 1
    <3>1. Sent("add", s)
      BY <1>1, <1>2, <2>2
    <3>2. PICK j \in 1..Len(commands) : commands[j] = [kind |-> "add", shard |-> s]
      BY <1>1, <3>1 DEF Sent, ToSet
    <3>3. j \in 1..i-1
      BY <1>1, <2>2
    <3> QED
      BY <1>1, <3>2, <3>3
  <2> QED
    BY <1>1, <2>1, <2>2
<1> QED
  BY <1>1, <1>2 DEF CommandsAreInOrder

LEMMA AnnounceInv ==
  ASSUME NEW s \in Shards
  PROVE  IInv /\ Announce(s) => IInv'
<1> SUFFICES ASSUME IInv, Announce(s) PROVE IInv'
  OBVIOUS
<1> DEFINE c == [kind |-> "add", shard |-> s]
<1>0. UNCHANGED <<removed, active, cache, pool, future, trainer>>
  BY DEF Announce, pool
<1>1. s \notin files
  BY ReplayLoaderAssumption DEF Announce
<1>2. c \in Commands /\ c \notin ToSet(commands) /\ commands' = Append(commands, c)
  <2>1. ~Sent("add", s)
    BY <1>1 DEF IInv, FilesAreKept, Adds
  <2> QED
    BY <2>1 DEF Sent, Commands, Announce
<1> HIDE DEF c
<1>3. commands' \in Seq(Commands) /\ ToSet(commands') = ToSet(commands) \cup {c}
  BY <1>2, CommandSent
<1>4. Adds' = Adds \cup {s} /\ Deleted' = Deleted
  BY <1>0, <1>3 DEF Adds, Deleted, Sent, c
<1>5. s \notin Adds \cup active \cup Deleted
  BY <1>1 DEF IInv, FilesAreKept
<1>6. files' = files \cup {s}
  BY DEF Announce
<1>7. FilesAreKept'
  BY <1>0, <1>4, <1>5, <1>6 DEF IInv, FilesAreKept
<1>8. CommandsAreInOrder'
  BY <1>0, <1>2, OrderIsKept DEF c
<1>9. TypeOK'
  <2>1. WindowTypeOK'
    BY <1>0, <1>3, <1>6, TypeParts DEF IInv, ReplayIsSound, WindowTypeOK
  <2> QED
    BY <1>0, <2>1, SameTrainer, TypePartsNext
<1> QED
  BY <1>0, <1>7, <1>8, <1>9, SameTrainer DEF IInv, ReplayIsSound

LEMMA RetireInv ==
  ASSUME NEW s \in Shards
  PROVE  IInv /\ Retire(s) => IInv'
<1> SUFFICES ASSUME IInv, Retire(s) PROVE IInv'
  OBVIOUS
<1> DEFINE c == [kind |-> "remove", shard |-> s]
<1>0. UNCHANGED <<files, removed, active, cache, pool, future, trainer>>
  BY DEF Retire, pool
<1>1. ~Sent("remove", s) /\ (s \in active \/ Sent("add", s))
  BY DEF Retire, Window
<1>2. c \in Commands /\ c \notin ToSet(commands) /\ commands' = Append(commands, c)
  BY <1>1 DEF Sent, Commands, Retire
<1>3. \A t \in Shards : c = [kind |-> "remove", shard |-> t] => t = s
  OBVIOUS
<1>4. \A t \in Shards : c # [kind |-> "add", shard |-> t]
  OBVIOUS
<1> HIDE DEF c
<1>5. commands' \in Seq(Commands) /\ ToSet(commands') = ToSet(commands) \cup {c}
  BY <1>2, CommandSent
<1>6. Adds' = Adds /\ Deleted' = Deleted
  BY <1>0, <1>4, <1>5 DEF Adds, Deleted, Sent
<1>7. FilesAreKept'
  BY <1>0, <1>6 DEF IInv, FilesAreKept
<1>8. CommandsAreInOrder'
  BY <1>0, <1>1, <1>2, <1>3, OrderIsKept
<1>9. TypeOK'
  <2>1. WindowTypeOK'
    BY <1>0, <1>5, TypeParts DEF IInv, ReplayIsSound, WindowTypeOK
  <2> QED
    BY <1>0, <2>1, SameTrainer, TypePartsNext
<1> QED
  BY <1>0, <1>7, <1>8, <1>9, SameTrainer DEF IInv, ReplayIsSound

LEMMA StopInv == IInv /\ Stop => IInv'
<1> SUFFICES ASSUME IInv, Stop PROVE IInv'
  OBVIOUS
<1> DEFINE c == [kind |-> "stop"]
<1>0. UNCHANGED <<files, removed, active, cache, pool, future, trainer>>
  BY DEF Stop, pool
<1>2. c \in Commands /\ c \notin ToSet(commands) /\ commands' = Append(commands, c)
  BY DEF Commands, Stop
<1>3. \A t \in Shards : c # [kind |-> "remove", shard |-> t]
  OBVIOUS
<1>4. \A t \in Shards : c # [kind |-> "add", shard |-> t]
  OBVIOUS
<1> HIDE DEF c
<1>5. commands' \in Seq(Commands) /\ ToSet(commands') = ToSet(commands) \cup {c}
  BY <1>2, CommandSent
<1>6. Adds' = Adds /\ Deleted' = Deleted
  BY <1>0, <1>4, <1>5 DEF Adds, Deleted, Sent
<1>7. FilesAreKept'
  BY <1>0, <1>6 DEF IInv, FilesAreKept
<1>8. CommandsAreInOrder'
  BY <1>0, <1>2, <1>3, OrderIsKept
<1>9. TypeOK'
  <2>1. WindowTypeOK'
    BY <1>0, <1>5, TypeParts DEF IInv, ReplayIsSound, WindowTypeOK
  <2> QED
    BY <1>0, <2>1, SameTrainer, TypePartsNext
<1> QED
  BY <1>0, <1>7, <1>8, <1>9, SameTrainer DEF IInv, ReplayIsSound

\* The file deleted is that of a shard the trainer no longer has.
LEMMA DeleteInv == IInv /\ Delete => IInv'
<1> SUFFICES ASSUME IInv, Delete PROVE IInv'
  OBVIOUS
<1>0. UNCHANGED <<commands, active, cache, pool, future, trainer>>
  BY DEF Delete, pool
<1>1. removed \in Seq(Shards) /\ removed # <<>> /\ IsInjective(removed)
  BY DEF IInv, ReplayIsSound, TypeOK, FilesAreKept, Delete
<1>2. /\ Tail(removed) \in Seq(Shards) /\ IsInjective(Tail(removed))
      /\ ToSet(Tail(removed)) = ToSet(removed) \ {Head(removed)}
      /\ Head(removed) \in ToSet(removed)
  BY <1>1, TailOfSet
<1>3. removed' = Tail(removed) /\ files' = files \ {Head(removed)}
  BY DEF Delete
<1>4. Adds' = Adds /\ Deleted' = Deleted \ {Head(removed)} /\ Head(removed) \in Deleted
  BY <1>0, <1>2, <1>3 DEF Adds, Deleted, Sent
<1>5. FilesAreKept'
  BY <1>0, <1>2, <1>3, <1>4 DEF IInv, FilesAreKept
<1>6. CommandsAreInOrder'
  BY <1>0 DEF IInv, CommandsAreInOrder
<1>7. TypeOK'
  <2>1. WindowTypeOK'
    BY <1>0, <1>2, <1>3, TypeParts DEF IInv, ReplayIsSound, WindowTypeOK
  <2> QED
    BY <1>0, <2>1, SameTrainer, TypePartsNext
<1> QED
  BY <1>0, <1>5, <1>6, <1>7, SameTrainer DEF IInv, ReplayIsSound

-----------------------------------------------------------------------------
(* The trainer takes a command.                                            *)

LEMMA CommandTaken ==
  ASSUME IInv, commands # <<>>, commands' = Tail(commands),
         \A t \in Shards :
           /\ t \in active \/ Head(commands) = [kind |-> "add", shard |-> t]
           /\ Head(commands) # [kind |-> "remove", shard |-> t]
           => t \in active'
  PROVE  /\ commands' \in Seq(Commands) /\ Head(commands) \in Commands
         /\ Head(commands) \in ToSet(commands)
         /\ ToSet(commands') = ToSet(commands) \ {Head(commands)}
         /\ CommandsAreInOrder'
<1>1. commands \in Seq(Commands) /\ IsInjective(commands)
  BY DEF IInv, ReplayIsSound, TypeOK, CommandsAreInOrder
<1>2. /\ commands' \in Seq(Commands) /\ Head(commands) \in ToSet(commands)
      /\ ToSet(commands') = ToSet(commands) \ {Head(commands)}
      /\ IsInjective(commands') /\ Head(commands) \in Commands
  BY <1>1, TailOfSet
<1>3. /\ DOMAIN commands = 1..Len(commands) /\ Len(commands) \in Nat \ {0}
      /\ DOMAIN commands' = 1..Len(commands) - 1 /\ Head(commands) = commands[1]
      /\ \A i \in 1..Len(commands) - 1 : commands'[i] = commands[i + 1]
  BY <1>1
<1>4. ASSUME NEW i \in DOMAIN commands', NEW t \in Shards,
             commands'[i] = [kind |-> "remove", shard |-> t], t \notin active'
      PROVE  \E j \in 1..i-1 : commands'[j] = [kind |-> "add", shard |-> t]
  <2>1. /\ i \in 1..Len(commands) - 1 /\ i + 1 \in DOMAIN commands
        /\ 1 \in DOMAIN commands /\ i + 1 # 1
        /\ commands[i + 1] = [kind |-> "remove", shard |-> t]
    BY <1>3, <1>4
  <2>2. Head(commands) # [kind |-> "remove", shard |-> t]
    BY <1>1, <1>3, <2>1 DEF IsInjective
  <2>3. t \notin active /\ Head(commands) # [kind |-> "add", shard |-> t]
    BY <1>4, <2>2
  <2>4. PICK j \in 1..(i + 1)-1 : commands[j] = [kind |-> "add", shard |-> t]
    BY <2>1, <2>3 DEF IInv, CommandsAreInOrder
  <2>5. j # 1
    BY <1>3, <2>3, <2>4
  <2>6. j - 1 \in 1..i-1 /\ j - 1 \in 1..Len(commands) - 1 /\ (j - 1) + 1 = j
    BY <1>3, <2>1, <2>5
  <2>7. commands'[j - 1] = [kind |-> "add", shard |-> t]
    BY <1>3, <2>4, <2>6
  <2> QED
    BY <2>6, <2>7
<1> QED
  BY <1>2, <1>4 DEF CommandsAreInOrder

LEMMA CommandInv == IInv /\ Command => IInv'
<1> SUFFICES ASSUME IInv, Command PROVE IInv'
  OBVIOUS
<1> DEFINE c == Head(commands)
<1>1. /\ pc = "idle" /\ commands # <<>> /\ commands' = Tail(commands)
      /\ UNCHANGED <<files, draws, lock, left, chosen, misread, future>>
  BY DEF Command
<1>2. commands \in Seq(Commands) /\ c \in Commands /\ c \in ToSet(commands)
  BY <1>1, TailOfSet DEF IInv, ReplayIsSound, TypeOK
<1>3. BatchTypeOK'
  BY <1>1, TypeParts DEF IInv, ReplayIsSound, BatchTypeOK
<1>4. cache \in Seq(Shards) /\ IsInjective(cache) /\ ToSet(cache) \subseteq active
  BY DEF IInv, ReplayIsSound, TypeOK, CacheIsSet, CacheIsOfTheWindow
<1>5. CASE c.kind = "add"
  <2>1. PICK s \in Shards : c = [kind |-> "add", shard |-> s]
    BY <1>2, <1>5 DEF Commands
  <2>2. /\ lock = "free" /\ active' = active \cup {s} /\ pc' = "idle"
        /\ UNCHANGED <<cache, removed, next, saved, resumable, reported>>
    BY <1>5, <2>1 DEF Command, AddShard, Goto
  <2> HIDE DEF c
  <2>3. s \in Adds
    BY <1>2, <2>1 DEF Adds, Sent
  <2>4. \A t \in Shards :
          /\ t \in active \/ Head(commands) = [kind |-> "add", shard |-> t]
          /\ Head(commands) # [kind |-> "remove", shard |-> t]
          => t \in active'
    BY <2>1, <2>2 DEF c
  <2>5. /\ commands' \in Seq(Commands) /\ CommandsAreInOrder'
        /\ ToSet(commands') = ToSet(commands) \ {c}
    BY <1>1, <2>4, CommandTaken DEF c
  <2>6. Adds' = Adds \ {s} /\ Deleted' = Deleted
    BY <2>1, <2>2, <2>5 DEF Adds, Deleted, Sent
  <2>7. FilesAreKept'
    BY <1>1, <2>2, <2>3, <2>6 DEF IInv, FilesAreKept
  <2>8. WindowTypeOK' /\ TrainerTypeOK'
    BY <1>1, <2>2, <2>5, TypeParts DEF IInv, ReplayIsSound, WindowTypeOK, TrainerTypeOK
  <2>9. CacheIsOfTheWindow' /\ CacheIsSet' /\ LockIsHeld' /\ NoDeletedRead'
    BY <1>1, <1>4, <2>2 DEF IInv, ReplayIsSound, CacheIsOfTheWindow, CacheIsSet,
       LockIsHeld, NoDeletedRead
  <2>10. NothingIsAhead' /\ CheckpointResumes' /\ FailureIsReported'
    BY <1>1, <2>2 DEF IInv, ReplayIsSound, NothingIsAhead, CheckpointResumes,
       FailureIsReported
  <2> QED
    BY <1>3, <2>5, <2>7, <2>8, <2>9, <2>10, TypePartsNext DEF IInv, ReplayIsSound
<1>6. CASE c.kind = "remove"
  <2>1. PICK s \in Shards : c = [kind |-> "remove", shard |-> s]
    BY <1>2, <1>6 DEF Commands
  <2>2. /\ lock = "free" /\ active' = active \ {s} /\ pc' = "idle"
        /\ cache' = RemoveFirst(cache, s) /\ removed' = Append(removed, s)
        /\ UNCHANGED <<next, saved, resumable, reported>>
    BY <1>6, <2>1 DEF Command, RemoveShard, Goto
  <2> HIDE DEF c
  <2>3. s \in active
    <3>1. 1 \in DOMAIN commands /\ commands[1] = [kind |-> "remove", shard |-> s]
      BY <1>1, <1>2, <2>1 DEF c
    <3>2. ~\E j \in 1..1-1 : commands[j] = [kind |-> "add", shard |-> s]
      OBVIOUS
    <3> QED
      BY <3>1, <3>2 DEF IInv, CommandsAreInOrder
  <2>4. \A t \in Shards :
          /\ t \in active \/ Head(commands) = [kind |-> "add", shard |-> t]
          /\ Head(commands) # [kind |-> "remove", shard |-> t]
          => t \in active'
    BY <2>1, <2>2 DEF c
  <2>5. /\ commands' \in Seq(Commands) /\ CommandsAreInOrder'
        /\ ToSet(commands') = ToSet(commands) \ {c}
    BY <1>1, <2>4, CommandTaken DEF c
  <2>6. /\ cache' \in Seq(Shards) /\ IsInjective(cache')
        /\ ToSet(cache') = ToSet(cache) \ {s} /\ Len(cache') <= Len(cache)
    BY <1>4, <2>2, RemoveFirstOfSet
  <2>7. s \notin Deleted /\ removed \in Seq(Shards) /\ IsInjective(removed)
    BY <2>3 DEF IInv, ReplayIsSound, TypeOK, FilesAreKept
  <2>8. /\ removed' \in Seq(Shards) /\ IsInjective(removed')
        /\ ToSet(removed') = ToSet(removed) \cup {s}
    BY <2>2, <2>7, AppendToSet DEF Deleted
  <2>9. Adds' = Adds /\ Deleted' = Deleted \cup {s}
    <3>1. \A t \in Shards : c # [kind |-> "add", shard |-> t]
      BY <2>1
    <3> QED
      BY <2>5, <2>8, <3>1 DEF Adds, Deleted, Sent
  <2>10. FilesAreKept'
    BY <1>1, <2>2, <2>3, <2>8, <2>9 DEF IInv, FilesAreKept
  <2>11. WindowTypeOK' /\ TrainerTypeOK'
    <3>1. Len(cache') <= CacheLimit
      BY <1>4, <2>6, ReplayLoaderAssumption DEF IInv, ReplayIsSound, TypeOK
    <3> QED
      BY <1>1, <2>2, <2>5, <2>6, <2>8, <3>1, TypeParts
         DEF IInv, ReplayIsSound, WindowTypeOK, TrainerTypeOK
  <2>12. CacheIsOfTheWindow' /\ CacheIsSet' /\ LockIsHeld' /\ NoDeletedRead'
    BY <1>1, <1>4, <2>2, <2>6 DEF IInv, ReplayIsSound, CacheIsOfTheWindow,
       CacheIsSet, LockIsHeld, NoDeletedRead
  <2>13. NothingIsAhead' /\ CheckpointResumes' /\ FailureIsReported'
    BY <1>1, <2>2 DEF IInv, ReplayIsSound, NothingIsAhead, CheckpointResumes,
       FailureIsReported
  <2> QED
    BY <1>3, <2>5, <2>10, <2>11, <2>12, <2>13, TypePartsNext DEF IInv, ReplayIsSound
<1>7. CASE c.kind \notin {"add", "remove"}
  <2>1. /\ pc' = "stopping"
        /\ UNCHANGED <<next, saved, resumable, reported, active, cache, removed>>
    BY <1>7 DEF Command, Goto
  <2>2. \A t \in Shards : /\ c # [kind |-> "add", shard |-> t]
                          /\ c # [kind |-> "remove", shard |-> t]
    BY <1>7
  <2> HIDE DEF c
  <2>3. /\ commands' \in Seq(Commands) /\ CommandsAreInOrder'
        /\ ToSet(commands') = ToSet(commands) \ {c}
    BY <1>1, <2>1, <2>2, CommandTaken DEF c
  <2>4. Adds' = Adds /\ Deleted' = Deleted
    BY <2>1, <2>2, <2>3 DEF Adds, Deleted, Sent
  <2>5. FilesAreKept'
    BY <1>1, <2>1, <2>4 DEF IInv, FilesAreKept
  <2>6. WindowTypeOK' /\ TrainerTypeOK'
    BY <1>1, <2>1, <2>3, TypeParts DEF IInv, ReplayIsSound, WindowTypeOK, TrainerTypeOK
  <2>7. CacheIsOfTheWindow' /\ CacheIsSet' /\ LockIsHeld' /\ NoDeletedRead'
    BY <1>1, <1>4, <2>1 DEF IInv, ReplayIsSound, CacheIsOfTheWindow, CacheIsSet,
       LockIsHeld, NoDeletedRead
  <2>8. NothingIsAhead' /\ CheckpointResumes' /\ FailureIsReported'
    BY <1>1, <2>1 DEF IInv, ReplayIsSound, NothingIsAhead, CheckpointResumes,
       FailureIsReported
  <2> QED
    BY <1>3, <2>3, <2>5, <2>6, <2>7, <2>8, TypePartsNext DEF IInv, ReplayIsSound
<1> QED
  BY <1>5, <1>6, <1>7

-----------------------------------------------------------------------------
LEMMA StepInv == IInv /\ [Next]_vars => IInv'
<1> SUFFICES ASSUME IInv, [Next]_vars PROVE IInv'
  OBVIOUS
<1>1. CASE UNCHANGED vars
  <2>1. UNCHANGED <<coordinator, pool, future, trainer>>
    BY <1>1 DEF vars
  <2>2. WindowTypeOK'
    BY <2>1, TypeParts DEF IInv, ReplayIsSound, WindowTypeOK, coordinator, pool
  <2>3. FilesAreKept' /\ CommandsAreInOrder'
    BY <2>1, SameWindow DEF IInv, pool
  <2> QED
    BY <2>1, <2>2, <2>3, SameTrainer, TypePartsNext DEF IInv, ReplayIsSound
<1>2. CASE Coordinator
  BY <1>2, DeleteInv, StopInv, AnnounceInv, RetireInv DEF Coordinator
<1>3. CASE Loader
  BY <1>3, LoaderStartsInv, ChooseInv, LoadInv, LoaderEndsInv DEF Loader
<1>4. CASE Trainer
  BY <1>4, CommandInv, TrainingBatchInv, PrefetchedInv, StartDrawingInv, ChooseInv,
     LoadInv, EndDrawingInv, TrainInv, SaveInv, HalveInv, FailInv DEF Trainer
<1> QED
  BY <1>1, <1>2, <1>3, <1>4 DEF Next

\* The trainer and its loader share the replay pool soundly, whatever the
\* coordinator announces, retires and deletes meanwhile: the shard being loaded
\* stays in the window, whose files stay, since a removal waits for the lock and
\* a deletion for the removal; and a checkpoint is taken with no batch ahead.
THEOREM ReplayStaysSound == Spec => []ReplayIsSound
<1>1. IInv => ReplayIsSound
  BY DEF IInv
<1> QED
  BY <1>1, InitInv, StepInv, PTL DEF Spec

-----------------------------------------------------------------------------
(* Sizes of intervals.                                                     *)

LEMMA IntervalSize ==
  ASSUME NEW a \in Nat, NEW n \in Nat
  PROVE  a..a + n - 1 \subseteq Nat /\ IsFiniteSet(a..a + n - 1) /\ Cardinality(a..a + n - 1) = n
<1> DEFINE b == a + n - 1
<1>1. a \in Int /\ b \in Int
  OBVIOUS
<1>2. a..b \subseteq Nat
  OBVIOUS
<1>3. (IF a > b THEN 0 ELSE b - a + 1) = n
  OBVIOUS
<1> HIDE DEF b
<1>4. IsFiniteSet(a..b) /\ Cardinality(a..b) = IF a > b THEN 0 ELSE b - a + 1
  BY <1>1, FS_Interval
<1>5. a..b \subseteq Nat /\ IsFiniteSet(a..b) /\ Cardinality(a..b) = n
  BY <1>2, <1>3, <1>4
<1> QED
  BY <1>5 DEF b

-----------------------------------------------------------------------------
(* The ladder.                                                             *)

LevelRecords == [depth : Int, games : Int, points : Int, promoted : BOOLEAN]

ClimbShape ==
  /\ rung \in {"level", "promoted", "stopped", "raised"} /\ depth \in 0..MaxDepth
  /\ score \in [0..2 -> Nat] /\ firstGame \in Nat
  /\ levels \in Seq(LevelRecords)
  /\ truth \in [0..MaxDepth -> [red : Nat, gold : Nat, points : Nat]]

\* Whole pairs are played, and what is counted of the level is what was seen.
LevelAddsUp ==
  /\ truth[depth].red = truth[depth].gold
  /\ truth[depth].red + truth[depth].gold = LevelGames(score)
  /\ truth[depth].points = LevelPoints(score)
  /\ LevelGames(score) <= GamesPerLevel
  /\ firstGame % 2 = 0 /\ firstGame <= GamesPerLevel * depth + LevelGames(score)

\* The levels below are won, those above are not begun, and the one at hand goes on
\* while it is neither won nor over.
RungsAreClimbed ==
  /\ rung \in {"level", "raised"} => Len(levels) = depth
  /\ rung \in {"promoted", "stopped"} => Len(levels) = depth + 1
  /\ rung \in {"promoted", "stopped"} => levels[depth + 1].depth = depth
  /\ \A i \in 1..Len(levels) : levels[i].depth = i - 1 /\ levels[i].games <= GamesPerLevel
  /\ \A d \in 0..depth - 1 : truth[d].points > GamesPerLevel
  /\ \A d \in depth + 1..MaxDepth : truth[d] = [red |-> 0, gold |-> 0, points |-> 0]
  /\ rung = "level" => ~Promoted(score) /\ LevelGames(score) < GamesPerLevel
  /\ rung = "promoted" => Promoted(score)
  /\ rung = "stopped" => ~Promoted(score)

ClimbInv == ClimbShape /\ LevelAddsUp /\ RungsAreClimbed /\ LevelsAreDecided

-----------------------------------------------------------------------------
(* A batch of pairs.                                                       *)

LEMMA LeastOfTwo ==
  ASSUME NEW a \in Int, NEW b \in Int
  PROVE  Min({a, b}) = IF a <= b THEN a ELSE b
<1> DEFINE least == IF a <= b THEN a ELSE b
<1>1. least \in {a, b} /\ \A y \in {a, b} : least <= y
  OBVIOUS
<1>2. \A x \in {a, b} : (\A y \in {a, b} : x <= y) => x = least
  OBVIOUS
<1> QED
  BY <1>1, <1>2 DEF Min

LEMMA IntervalIsFinite == \A a, b \in Int : IsFiniteSet(a..b)
  BY FS_Interval

\* Of an even number of games that begin with an even one, half are even.
LEMMA EveryOther ==
  ASSUME NEW n \in Nat, n % 2 = 0, NEW p \in Nat, NEW r \in 0..1
  PROVE  LET some == {g \in n..n + 2 * p - 1 : g % 2 = r}
         IN  IsFiniteSet(some) /\ Cardinality(some) = p
<1> DEFINE some == {g \in n..n + 2 * p - 1 : g % 2 = r}
           f    == [i \in 1..p |-> n + 2 * (i - 1) + r]
<1>1. PICK m \in Nat : n = 2 * m
  <2>1. n = 2 * (n \div 2) /\ n \div 2 \in Nat
    OBVIOUS
  <2> QED
    BY <2>1
<1>2. f \in [1..p -> some]
  <2> SUFFICES ASSUME NEW i \in 1..p PROVE f[i] \in some
    OBVIOUS
  <2>1. f[i] = 2 * (m + i - 1) + r /\ f[i] >= n /\ f[i] <= n + 2 * p - 1
    BY <1>1
  <2>2. f[i] % 2 = r
    BY <2>1
  <2> QED
    BY <2>1, <2>2
<1>3. \A i, j \in 1..p : f[i] = f[j] => i = j
  OBVIOUS
<1>4. \A g \in some : \E i \in 1..p : f[i] = g
  <2> SUFFICES ASSUME NEW g \in some PROVE \E i \in 1..p : f[i] = g
    OBVIOUS
  <2>1. g = 2 * (g \div 2) + r /\ g \in Nat /\ g >= n /\ g <= n + 2 * p - 1
    OBVIOUS
  <2>2. g \div 2 - m + 1 \in 1..p
    BY <2>1, <1>1
  <2>3. f[g \div 2 - m + 1] = g
    BY <2>1, <2>2, <1>1
  <2> QED
    BY <2>2, <2>3
<1>5. ExistsBijection(1..p, some)
  BY <1>2, <1>3, <1>4, Fun_IsBij DEF ExistsBijection
<1>6. some \subseteq n..n + 2 * p - 1 /\ IsFiniteSet(n..n + 2 * p - 1)
  <2>1. n + 2 * p - 1 \in Int
    OBVIOUS
  <2>2. n \in Int
    OBVIOUS
  <2>3. IsFiniteSet(n..n + 2 * p - 1)
    BY <2>1, <2>2, IntervalIsFinite, Zenon
  <2> QED
    BY <2>3
<1> QED
  BY <1>5, <1>6, FS_CountingElements, FS_Subset

LEMMA DisjointSum ==
  ASSUME NEW S, NEW T, IsFiniteSet(S), IsFiniteSet(T), S \cap T = {}
  PROVE  /\ IsFiniteSet(S \cup T)
         /\ Cardinality(S \cup T) = Cardinality(S) + Cardinality(T)
         /\ Cardinality(S) \in Nat /\ Cardinality(T) \in Nat
  BY FS_Union, FS_EmptySet, FS_CardinalityType

\* What is counted of a batch is what is seen of it: as many games as were played,
\* and the points of the games with either colour.
LEMMA BatchIsCounted ==
  ASSUME NEW D, IsFiniteSet(D), D \subseteq Nat, NEW reds \in [D -> 0..2],
         NEW C, C = [k \in 0..2 |->
           Cardinality({g \in DOMAIN reds : ModelScore(g, reds[g]) = k})]
  PROVE  /\ C \in [0..2 -> Nat] /\ C[0] + C[1] + C[2] = Cardinality(D)
         /\ C[2] = Cardinality(AsRed(reds, 2)) + Cardinality(AsGold(reds, 0))
         /\ C[1] = Cardinality(AsRed(reds, 1)) + Cardinality(AsGold(reds, 1))
         /\ \A k \in 0..2 : /\ Cardinality(AsRed(reds, k)) \in Nat
                            /\ Cardinality(AsGold(reds, k)) \in Nat
<1> DEFINE With(k) == {g \in D : ModelScore(g, reds[g]) = k}
<1>1. DOMAIN reds = D /\ \A g \in D : g % 2 \in 0..1 /\ reds[g] \in 0..2
  OBVIOUS
<1>2. \A g \in D :
        /\ ModelScore(g, reds[g]) \in 0..2
        /\ ModelScore(g, reds[g]) = 2 <=>
             (g % 2 = 0 /\ reds[g] = 2) \/ (g % 2 = 1 /\ reds[g] = 0)
        /\ ModelScore(g, reds[g]) = 1 <=>
             (g % 2 = 0 /\ reds[g] = 1) \/ (g % 2 = 1 /\ reds[g] = 1)
  <2> SUFFICES ASSUME NEW g \in D
               PROVE  /\ ModelScore(g, reds[g]) \in 0..2
                      /\ ModelScore(g, reds[g]) = 2 <=>
                           (g % 2 = 0 /\ reds[g] = 2) \/ (g % 2 = 1 /\ reds[g] = 0)
                      /\ ModelScore(g, reds[g]) = 1 <=>
                           (g % 2 = 0 /\ reds[g] = 1) \/ (g % 2 = 1 /\ reds[g] = 1)
    OBVIOUS
  <2>1. g % 2 \in 0..1 /\ reds[g] \in 0..2
    BY <1>1
  <2> QED
    BY <2>1 DEF ModelScore, ModelIsRed
<1>3. \A k : With(k) \subseteq D /\ AsRed(reds, k) \subseteq D /\ AsGold(reds, k) \subseteq D
  BY <1>1 DEF AsRed, AsGold
<1>4. \A k : IsFiniteSet(With(k)) /\ Cardinality(With(k)) \in Nat
  BY <1>3, FS_Subset, FS_CardinalityType
<1>5. \A k : /\ IsFiniteSet(AsRed(reds, k)) /\ Cardinality(AsRed(reds, k)) \in Nat
             /\ IsFiniteSet(AsGold(reds, k)) /\ Cardinality(AsGold(reds, k)) \in Nat
  BY <1>3, FS_Subset, FS_CardinalityType
<1>6. \A k \in 0..2 : C[k] = Cardinality(With(k))
  BY <1>1
<1>7. C[2] = Cardinality(AsRed(reds, 2)) + Cardinality(AsGold(reds, 0))
  <2>1. With(2) = AsRed(reds, 2) \cup AsGold(reds, 0)
    BY <1>2, <1>1 DEF AsRed, AsGold
  <2>2. AsRed(reds, 2) \cap AsGold(reds, 0) = {}
    BY DEF AsRed, AsGold
  <2>3. Cardinality(With(2)) = Cardinality(AsRed(reds, 2)) + Cardinality(AsGold(reds, 0))
    BY <1>5, <2>1, <2>2, DisjointSum
  <2> QED
    BY <1>6, <2>3
<1>8. C[1] = Cardinality(AsRed(reds, 1)) + Cardinality(AsGold(reds, 1))
  <2>1. With(1) = AsRed(reds, 1) \cup AsGold(reds, 1)
    BY <1>2, <1>1 DEF AsRed, AsGold
  <2>2. AsRed(reds, 1) \cap AsGold(reds, 1) = {}
    BY DEF AsRed, AsGold
  <2>3. Cardinality(With(1)) = Cardinality(AsRed(reds, 1)) + Cardinality(AsGold(reds, 1))
    BY <1>5, <2>1, <2>2, DisjointSum
  <2> QED
    BY <1>6, <2>3
<1>9. C[0] + C[1] + C[2] = Cardinality(D)
  <2>1. With(0) \cap With(1) = {} /\ (With(0) \cup With(1)) \cap With(2) = {}
    OBVIOUS
  <2>2. With(0) \cup With(1) \cup With(2) = D
    <3>1. \A g \in D : ModelScore(g, reds[g]) \in {0, 1, 2}
      BY <1>2
    <3> QED
      BY <3>1
  <2>3. /\ Cardinality(With(0) \cup With(1)) = Cardinality(With(0)) + Cardinality(With(1))
        /\ IsFiniteSet(With(0) \cup With(1))
    BY <1>4, <2>1, DisjointSum
  <2>4. IsFiniteSet(With(2)) /\ IsFiniteSet(With(0) \cup With(1))
    BY <1>4, <2>3
  <2>5. Cardinality((With(0) \cup With(1)) \cup With(2))
          = Cardinality(With(0) \cup With(1)) + Cardinality(With(2))
    <3> HIDE DEF With
    <3> QED
      BY <2>1, <2>4, DisjointSum
  <2> QED
    BY <1>4, <1>6, <2>2, <2>3, <2>5
<1>10. C \in [0..2 -> Nat]
  BY <1>4, <1>6
<1> QED
  BY <1>5, <1>7, <1>8, <1>9, <1>10

\* A batch, while the level goes on, is at least one pair and fits.
LEMMA PairsFit ==
  ASSUME ClimbInv, rung = "level"
  PROVE  /\ PairCount \in Nat \ {0}
         /\ LevelGames(score) + 2 * PairCount <= GamesPerLevel
<1>1. /\ LevelGames(score) \in Nat /\ LevelGames(score) < GamesPerLevel
      /\ depth \in 0..MaxDepth
  BY DEF ClimbInv, ClimbShape, RungsAreClimbed, LevelGames
<1>2. PICK h \in Nat : LevelGames(score) = 2 * h
  <2>1. truth[depth].red \in Nat /\ LevelGames(score) = truth[depth].red + truth[depth].gold
    BY <1>1 DEF ClimbInv, ClimbShape, LevelAddsUp
  <2> QED
    BY <2>1 DEF ClimbInv, LevelAddsUp
<1>3. PICK m \in Nat : GamesPerLevel = 2 * m
  <2>1. GamesPerLevel = 2 * (GamesPerLevel \div 2) /\ GamesPerLevel \div 2 \in Nat
    BY MinimaxLadderAssumption
  <2> QED
    BY <2>1
<1>4. (GamesPerLevel - LevelGames(score)) \div 2 = m - h /\ m - h \in Nat \ {0}
  BY <1>1, <1>2, <1>3
<1>5. PairCount \in {PairBatchSize, m - h} /\ PairCount <= m - h
  BY <1>4, LeastOfTwo, MinimaxLadderAssumption DEF PairCount
<1> QED
  BY <1>2, <1>3, <1>4, <1>5, MinimaxLadderAssumption

-----------------------------------------------------------------------------
(* The steps.                                                              *)

LEMMA ClimbInitInv == ClimbInit => ClimbInv
<1> SUFFICES ASSUME ClimbInit PROVE ClimbInv
  OBVIOUS
<1>1. LevelGames(score) = 0 /\ LevelPoints(score) = 0 /\ 0 \in 0..MaxDepth
  BY MinimaxLadderAssumption DEF ClimbInit, NoGames, LevelGames, LevelPoints
<1>2. ClimbShape
  BY <1>1 DEF ClimbInit, ClimbShape, NoGames
<1>3. LevelAddsUp
  BY <1>1, MinimaxLadderAssumption DEF ClimbInit, LevelAddsUp
<1>4. RungsAreClimbed
  BY <1>1, MinimaxLadderAssumption DEF ClimbInit, RungsAreClimbed, Promoted
<1>5. LevelsAreDecided
  BY DEF ClimbInit, LevelsAreDecided
<1> QED
  BY <1>2, <1>3, <1>4, <1>5 DEF ClimbInv

LEMMA RaiseInv == ClimbInv /\ Raise => ClimbInv'
<1> SUFFICES ASSUME ClimbInv, Raise PROVE ClimbInv'
  OBVIOUS
<1> QED
  BY DEF ClimbInv, Raise, ClimbShape, LevelAddsUp, RungsAreClimbed, LevelsAreDecided,
     LevelGames, LevelPoints, Promoted

LEMMA NextLevelInv == ClimbInv /\ NextLevel => ClimbInv'
<1> SUFFICES ASSUME ClimbInv, NextLevel PROVE ClimbInv'
  OBVIOUS
<1>1. /\ depth \in 0..MaxDepth /\ depth < MaxDepth /\ depth' = depth + 1
      /\ rung = "promoted" /\ rung' = "level" /\ score' = NoGames
      /\ UNCHANGED <<firstGame, levels, truth>>
  BY DEF ClimbInv, ClimbShape, NextLevel
<1>2. LevelGames(score') = 0 /\ LevelPoints(score') = 0 /\ score' \in [0..2 -> Nat]
  BY <1>1 DEF NoGames, LevelGames, LevelPoints
<1>3. depth' \in 0..MaxDepth
  BY <1>1, MinimaxLadderAssumption
<1>4. ClimbShape'
  BY <1>1, <1>2, <1>3 DEF ClimbInv, ClimbShape
<1>5. LevelAddsUp'
  <2>1. truth'[depth'] = [red |-> 0, gold |-> 0, points |-> 0]
    BY <1>1, <1>3 DEF ClimbInv, RungsAreClimbed
  <2>2. firstGame <= GamesPerLevel * depth + GamesPerLevel /\ firstGame \in Nat
    <3>1. LevelGames(score) \in Nat /\ GamesPerLevel * depth \in Nat
      BY <1>1, MinimaxLadderAssumption DEF ClimbInv, ClimbShape, LevelGames
    <3>2. /\ firstGame <= GamesPerLevel * depth + LevelGames(score)
          /\ LevelGames(score) <= GamesPerLevel /\ firstGame \in Nat
      BY DEF ClimbInv, LevelAddsUp, ClimbShape
    <3> QED
      BY <3>1, <3>2, MinimaxLadderAssumption
  <2>3. firstGame' <= GamesPerLevel * depth' + 0
    <3>1. GamesPerLevel * (depth + 1) = GamesPerLevel * depth + GamesPerLevel
      BY <1>1, MinimaxLadderAssumption
    <3> QED
      BY <1>1, <2>2, <3>1, MinimaxLadderAssumption
  <2> QED
    BY <1>1, <1>2, <2>1, <2>3, MinimaxLadderAssumption DEF ClimbInv, LevelAddsUp
<1>6. RungsAreClimbed'
  <2>1. Len(levels') = depth'
    BY <1>1 DEF ClimbInv, RungsAreClimbed
  <2>2. truth[depth].points > GamesPerLevel
    BY <1>1 DEF ClimbInv, RungsAreClimbed, LevelAddsUp, Promoted
  <2>3. \A d \in 0..depth' - 1 : truth'[d].points > GamesPerLevel
    BY <1>1, <2>2 DEF ClimbInv, RungsAreClimbed
  <2>4. \A d \in depth' + 1..MaxDepth : truth'[d] = [red |-> 0, gold |-> 0, points |-> 0]
    BY <1>1 DEF ClimbInv, RungsAreClimbed
  <2>5. ~Promoted(score') /\ LevelGames(score') < GamesPerLevel
    BY <1>2, MinimaxLadderAssumption DEF Promoted
  <2>6. \A i \in 1..Len(levels') : levels'[i].depth = i - 1 /\ levels'[i].games <= GamesPerLevel
    BY <1>1 DEF ClimbInv, RungsAreClimbed
  <2> QED
    BY <1>1, <2>1, <2>3, <2>4, <2>5, <2>6 DEF RungsAreClimbed
<1>7. LevelsAreDecided'
  BY <1>1 DEF ClimbInv, LevelsAreDecided
<1> QED
  BY <1>4, <1>5, <1>6, <1>7 DEF ClimbInv

\* What a batch changes: p pairs are played, counted and seen.
LEMMA PairsAreSeen ==
  ASSUME ClimbInv, PlayPairs
  PROVE  \E p \in Nat \ {0} :
           /\ LevelGames(score) + 2 * p <= GamesPerLevel /\ firstGame' = firstGame + 2 * p
           /\ score' \in [0..2 -> Nat] /\ LevelGames(score') = LevelGames(score) + 2 * p
           /\ \E seen \in [red : Nat, gold : Nat, points : Nat] :
                /\ truth' = [truth EXCEPT ![depth] = seen]
                /\ seen.red = truth[depth].red + p /\ seen.gold = truth[depth].gold + p
                /\ seen.points = LevelPoints(score')
<1> DEFINE p == PairCount
           D == firstGame..firstGame + 2 * p - 1
<1>1. p \in Nat \ {0} /\ LevelGames(score) + 2 * p <= GamesPerLevel
  BY PairsFit DEF PlayPairs
<1>2. PICK reds \in [D -> 0..2] :
        /\ score' = [k \in 0..2 |->
             score[k] + Cardinality({g \in DOMAIN reds : ModelScore(g, reds[g]) = k})]
        /\ truth' = [truth EXCEPT ![depth] = Observed(truth[depth], reds)]
  BY DEF PlayPairs
<1>3. firstGame' = firstGame + 2 * p
  BY DEF PlayPairs
<1> HIDE DEF p
<1>4. firstGame \in Nat /\ firstGame % 2 = 0 /\ depth \in 0..MaxDepth
  BY DEF ClimbInv, ClimbShape, LevelAddsUp
<1>5. D \subseteq Nat /\ IsFiniteSet(D) /\ Cardinality(D) = 2 * p
  <2>1. 2 * p \in Nat
    BY <1>1
  <2> QED
    BY <1>4, <2>1, IntervalSize
<1> DEFINE C == [k \in 0..2 |->
              Cardinality({g \in DOMAIN reds : ModelScore(g, reds[g]) = k})]
<1>6. \A k \in 0..2 : score'[k] = score[k] + C[k]
  BY <1>2
<1> HIDE DEF D
<1>7. /\ C \in [0..2 -> Nat] /\ C[0] + C[1] + C[2] = 2 * p
      /\ C[2] = Cardinality(AsRed(reds, 2)) + Cardinality(AsGold(reds, 0))
      /\ C[1] = Cardinality(AsRed(reds, 1)) + Cardinality(AsGold(reds, 1))
      /\ \A k \in 0..2 : /\ Cardinality(AsRed(reds, k)) \in Nat
                         /\ Cardinality(AsGold(reds, k)) \in Nat
  BY <1>2, <1>5, BatchIsCounted
<1>8. /\ Cardinality({g \in DOMAIN reds : g % 2 = 0}) = p
      /\ Cardinality({g \in DOMAIN reds : g % 2 = 1}) = p
  <2>1. p \in Nat /\ 0 \in 0..1 /\ 1 \in 0..1 /\ DOMAIN reds = D
    BY <1>1, <1>2
  <2>2. \A r \in 0..1 : Cardinality({g \in D : g % 2 = r}) = p
    BY <1>4, <2>1, EveryOther DEF D
  <2> QED
    BY <2>1, <2>2
<1> HIDE DEF C
<1>9. score \in [0..2 -> Nat]
  BY DEF ClimbInv, ClimbShape
<1>10. score' \in [0..2 -> Nat]
  BY <1>2, <1>6, <1>7, <1>9 DEF C
<1>11. LevelGames(score') = LevelGames(score) + 2 * p
  BY <1>6, <1>7, <1>9, <1>1 DEF LevelGames
<1>12. LevelPoints(score') = LevelPoints(score) + 2 * C[2] + C[1]
  BY <1>6, <1>7, <1>9 DEF LevelPoints
<1> DEFINE seen == Observed(truth[depth], reds)
<1>13. truth[depth] \in [red : Nat, gold : Nat, points : Nat]
  BY <1>4 DEF ClimbInv, ClimbShape
<1>14. seen.red = truth[depth].red + p /\ seen.gold = truth[depth].gold + p
  BY <1>8 DEF Observed
<1>15. seen.points = LevelPoints(score')
  <2>1. seen.points = truth[depth].points
          + 2 * (Cardinality(AsRed(reds, 2)) + Cardinality(AsGold(reds, 0)))
          + Cardinality(AsRed(reds, 1)) + Cardinality(AsGold(reds, 1))
    BY DEF Observed
  <2>2. truth[depth].points = LevelPoints(score) /\ truth[depth].points \in Nat
    BY <1>13 DEF ClimbInv, LevelAddsUp
  <2>3. \A k \in 0..2 : /\ Cardinality(AsRed(reds, k)) \in Nat
                        /\ Cardinality(AsGold(reds, k)) \in Nat
    BY <1>7
  <2> QED
    BY <1>7, <1>12, <2>1, <2>2, <2>3
<1>16. seen \in [red : Nat, gold : Nat, points : Nat]
  <2>1. LevelPoints(score') \in Nat
    BY <1>10 DEF LevelPoints
  <2>2. seen = [red |-> seen.red, gold |-> seen.gold, points |-> seen.points]
    BY DEF Observed
  <2>3. seen.red \in Nat /\ seen.gold \in Nat /\ seen.points \in Nat
    BY <1>1, <1>13, <1>14, <1>15, <2>1
  <2> HIDE DEF seen
  <2> QED
    BY <2>2, <2>3
<1>17. truth' = [truth EXCEPT ![depth] = seen]
  BY <1>2
<1> HIDE DEF seen
<1> QED
  BY <1>1, <1>3, <1>10, <1>11, <1>14, <1>15, <1>16, <1>17

LEMMA PlayPairsInv == ClimbInv /\ PlayPairs => ClimbInv'
<1> SUFFICES ASSUME ClimbInv, PlayPairs PROVE ClimbInv'
  OBVIOUS
<1>1. PICK p \in Nat \ {0} :
        /\ LevelGames(score) + 2 * p <= GamesPerLevel /\ firstGame' = firstGame + 2 * p
        /\ score' \in [0..2 -> Nat] /\ LevelGames(score') = LevelGames(score) + 2 * p
        /\ \E seen \in [red : Nat, gold : Nat, points : Nat] :
             /\ truth' = [truth EXCEPT ![depth] = seen]
             /\ seen.red = truth[depth].red + p /\ seen.gold = truth[depth].gold + p
             /\ seen.points = LevelPoints(score')
  BY PairsAreSeen
<1>2. PICK seen \in [red : Nat, gold : Nat, points : Nat] :
        /\ truth' = [truth EXCEPT ![depth] = seen]
        /\ seen.red = truth[depth].red + p /\ seen.gold = truth[depth].gold + p
        /\ seen.points = LevelPoints(score')
  BY <1>1
<1>3. /\ depth \in 0..MaxDepth /\ depth' = depth /\ rung = "level"
      /\ score \in [0..2 -> Nat] /\ firstGame \in Nat /\ levels \in Seq(LevelRecords)
      /\ truth \in [0..MaxDepth -> [red : Nat, gold : Nat, points : Nat]]
      /\ Len(levels) = depth
  BY DEF ClimbInv, ClimbShape, RungsAreClimbed, PlayPairs
<1>16. depth \in 0..MaxDepth /\ depth \in Nat /\ MaxDepth \in Nat /\ firstGame \in Nat
  BY <1>3, MinimaxLadderAssumption
<1>17. firstGame' = firstGame + 2 * p /\ LevelGames(score') = LevelGames(score) + 2 * p
  BY <1>1
<1>4. /\ truth'[depth] = seen /\ \A d \in 0..MaxDepth \ {depth} : truth'[d] = truth[d]
      /\ truth' \in [0..MaxDepth -> [red : Nat, gold : Nat, points : Nat]]
  BY <1>2, <1>3
<1>5. LevelGames(score') \in Nat /\ LevelPoints(score') \in Nat /\ LevelGames(score) \in Nat
  <2>1. \A s \in [0..2 -> Nat] : LevelGames(s) \in Nat /\ LevelPoints(s) \in Nat
    BY DEF LevelGames, LevelPoints
  <2> QED
    BY <1>1, <1>3, <2>1
<1>6. LevelGames(score') <= GamesPerLevel
  BY <1>1
<1> DEFINE ended == [depth |-> depth, games |-> LevelGames(score'),
                     points |-> LevelPoints(score'), promoted |-> Promoted(score')]
<1>7. /\ rung' \in {"level", "promoted", "stopped"}
      /\ rung' = "promoted" => Promoted(score')
      /\ rung' = "stopped" => ~Promoted(score') /\ LevelGames(score') >= GamesPerLevel
      /\ rung' = "level" => ~Promoted(score') /\ ~(LevelGames(score') >= GamesPerLevel)
  <2>1. rung' = IF Promoted(score') THEN "promoted"
                ELSE IF LevelGames(score') >= GamesPerLevel THEN "stopped" ELSE "level"
    BY DEF PlayPairs
  <2>2. CASE Promoted(score')
    BY <2>1, <2>2
  <2>3. CASE ~Promoted(score') /\ LevelGames(score') >= GamesPerLevel
    BY <2>1, <2>3
  <2>4. CASE ~Promoted(score') /\ ~(LevelGames(score') >= GamesPerLevel)
    BY <2>1, <2>4
  <2> QED
    BY <2>2, <2>3, <2>4
<1>8. levels' = IF rung' = "level" THEN levels ELSE Append(levels, ended)
  BY DEF PlayPairs
<1>9. ended \in LevelRecords
  BY <1>3, <1>5 DEF LevelRecords, Promoted
<1>10. /\ ended.depth = depth /\ ended.games = LevelGames(score')
       /\ ended.points = LevelPoints(score') /\ ended.promoted = Promoted(score')
  OBVIOUS
<1> HIDE DEF ended
<1>11. /\ levels' \in Seq(LevelRecords)
       /\ rung' = "level" => levels' = levels
       /\ rung' # "level" => /\ Len(levels') = depth + 1 /\ levels'[depth + 1] = ended
                             /\ \A i \in 1..depth : levels'[i] = levels[i]
  BY <1>3, <1>8, <1>9
<1>12. ClimbShape'
  <2>1. firstGame' \in Nat
    BY <1>1, <1>3
  <2> QED
    BY <1>1, <1>3, <1>4, <1>7, <1>11, <2>1 DEF ClimbShape
<1>13. LevelAddsUp'
  <2>1. /\ truth[depth].red = truth[depth].gold
        /\ truth[depth].red + truth[depth].gold = LevelGames(score)
        /\ truth[depth].red \in Nat /\ truth[depth].gold \in Nat
    BY <1>3 DEF ClimbInv, LevelAddsUp
  <2>2. seen.red = seen.gold /\ seen.red + seen.gold = LevelGames(score')
    BY <1>1, <1>2, <2>1
  <2>3. firstGame % 2 = 0 /\ firstGame <= GamesPerLevel * depth + LevelGames(score)
    BY DEF ClimbInv, LevelAddsUp
  <2>4. GamesPerLevel * depth \in Nat
    BY <1>3, MinimaxLadderAssumption
  <2>5. firstGame' <= GamesPerLevel * depth + LevelGames(score')
    <3> DEFINE below == GamesPerLevel * depth
    <3> HIDE DEF below
    <3>1. below \in Nat /\ firstGame <= below + LevelGames(score)
      BY <2>3, <2>4 DEF below
    <3>2. firstGame' <= below + LevelGames(score')
      BY <1>16, <1>17, <1>5, <3>1
    <3> QED
      BY <3>2 DEF below
  <2>6. firstGame' % 2 = 0
    <3>1. firstGame = 2 * (firstGame \div 2) /\ firstGame \div 2 \in Nat
      BY <1>3, <2>3
    <3>2. firstGame' = 2 * (firstGame \div 2 + p) /\ firstGame \div 2 + p \in Nat
      BY <1>1, <3>1
    <3> QED
      BY <3>2
  <2> QED
    BY <1>2, <1>3, <1>4, <1>6, <2>2, <2>5, <2>6 DEF LevelAddsUp
<1>14. RungsAreClimbed'
  <2>3. \A d \in 0..depth' - 1 : truth'[d].points > GamesPerLevel
    <3>1. \A d \in 0..depth - 1 : d \in 0..MaxDepth \ {depth}
      BY <1>16
    <3> QED
      BY <1>3, <1>4, <3>1 DEF ClimbInv, RungsAreClimbed
  <2>4. \A d \in depth' + 1..MaxDepth : truth'[d] = [red |-> 0, gold |-> 0, points |-> 0]
    <3>1. \A d \in depth + 1..MaxDepth : d \in 0..MaxDepth \ {depth}
      BY <1>16
    <3> QED
      BY <1>3, <1>4, <3>1 DEF ClimbInv, RungsAreClimbed
  <2>1. CASE rung' = "level"
    <3>1. ~Promoted(score') /\ LevelGames(score') < GamesPerLevel
      BY <2>1, <1>5, <1>7, MinimaxLadderAssumption
    <3>2. Len(levels') = depth' /\ \A i \in 1..Len(levels') :
            levels'[i].depth = i - 1 /\ levels'[i].games <= GamesPerLevel
      BY <2>1, <1>3, <1>11 DEF ClimbInv, RungsAreClimbed
    <3> QED
      BY <2>1, <2>3, <2>4, <3>1, <3>2 DEF RungsAreClimbed
  <2>2. CASE rung' # "level"
    <3>1. rung' \in {"promoted", "stopped"}
      BY <1>7, <2>2
    <3>2. \A i \in 1..Len(levels') :
            levels'[i].depth = i - 1 /\ levels'[i].games <= GamesPerLevel
      <4> SUFFICES ASSUME NEW i \in 1..depth + 1
                   PROVE  levels'[i].depth = i - 1 /\ levels'[i].games <= GamesPerLevel
        BY <1>11, <2>2
      <4>1. CASE i = depth + 1
        BY <4>1, <1>3, <1>6, <1>10, <1>11, <2>2
      <4>2. CASE i # depth + 1
        <5>1. i \in 1..depth
          BY <4>2, <1>3
        <5> QED
          BY <5>1, <1>3, <1>11, <2>2 DEF ClimbInv, RungsAreClimbed
      <4> QED
        BY <4>1, <4>2
    <3>3. Len(levels') = depth' + 1 /\ levels'[depth' + 1].depth = depth'
      BY <1>3, <1>10, <1>11, <2>2
    <3> QED
      BY <1>7, <2>3, <2>4, <3>1, <3>2, <3>3 DEF RungsAreClimbed
  <2> QED
    BY <2>1, <2>2
<1>15. LevelsAreDecided'
  <2>1. \A i \in 1..depth : levels[i].depth = i - 1 /\ truth'[i - 1] = truth[i - 1]
    <3>1. \A i \in 1..depth : levels[i].depth = i - 1
      BY <1>3 DEF ClimbInv, RungsAreClimbed
    <3>2. \A i \in 1..depth : i - 1 \in 0..MaxDepth \ {depth}
      BY <1>16
    <3> QED
      BY <1>4, <3>1, <3>2
  <2> DEFINE Decided(level, at) ==
               /\ at.points = level.points /\ at.red + at.gold = level.games
               /\ at.red = at.gold
               /\ IF level.promoted THEN at.points > GamesPerLevel
                  ELSE level.games = GamesPerLevel /\ at.points <= GamesPerLevel
  <2>2. \A i \in 1..depth : Decided(levels[i], truth[levels[i].depth])
    BY <1>3 DEF ClimbInv, LevelsAreDecided
  <2>3. rung' # "level" => Decided(ended, truth'[depth])
    <3> SUFFICES ASSUME rung' # "level" PROVE Decided(ended, seen)
      BY <1>4
    <3>1. seen.red = seen.gold /\ seen.red + seen.gold = ended.games
      BY <1>3, <1>4, <1>10, <1>13 DEF LevelAddsUp
    <3>2. seen.points = ended.points
      BY <1>2, <1>10
    <3>3. IF ended.promoted THEN seen.points > GamesPerLevel
          ELSE ended.games = GamesPerLevel /\ seen.points <= GamesPerLevel
      <4>1. CASE Promoted(score')
        BY <4>1, <1>2, <1>10 DEF Promoted
      <4>2. CASE ~Promoted(score')
        <5>1. LevelGames(score') >= GamesPerLevel
          BY <1>7, <4>2
        <5>2. LevelGames(score') = GamesPerLevel
          BY <5>1, <1>5, <1>6, MinimaxLadderAssumption
        <5>3. LevelPoints(score') <= GamesPerLevel
          BY <4>2, <1>5, MinimaxLadderAssumption DEF Promoted
        <5> QED
          BY <4>2, <5>2, <5>3, <1>2, <1>10
      <4> QED
        BY <4>1, <4>2
    <3> QED
      BY <3>1, <3>2, <3>3
  <2>4. \A i \in DOMAIN levels' : Decided(levels'[i], truth'[levels'[i].depth])
    <3> HIDE DEF Decided
    <3>1. \A i \in 1..depth : Decided(levels[i], truth'[levels[i].depth])
      BY <2>1, <2>2
    <3>2. CASE rung' = "level"
      BY <3>1, <3>2, <1>3, <1>11
    <3>3. CASE rung' # "level"
      <4>1. DOMAIN levels' = 1..depth + 1 /\ \A i \in 1..depth + 1 : i \in 1..depth \/ i = depth + 1
        BY <3>3, <1>3, <1>11
      <4> QED
        BY <3>1, <3>3, <4>1, <2>3, <1>10, <1>11
    <3> QED
      BY <3>2, <3>3
  <2> QED
    BY <2>4 DEF LevelsAreDecided
<1> QED
  BY <1>12, <1>13, <1>14, <1>15 DEF ClimbInv

LEMMA ClimbStepInv == ClimbInv /\ [ClimbNext]_climbVars => ClimbInv'
<1> SUFFICES ASSUME ClimbInv, [ClimbNext]_climbVars PROVE ClimbInv'
  OBVIOUS
<1>1. CASE UNCHANGED climbVars
  BY <1>1 DEF climbVars, ClimbInv, ClimbShape, LevelAddsUp, RungsAreClimbed,
     LevelsAreDecided, LevelGames, LevelPoints, Promoted
<1> QED
  BY <1>1, PlayPairsInv, NextLevelInv, RaiseInv DEF ClimbNext

LEMMA ClimbInvIsEnough == ClimbInv => LadderIsTrue
<1> SUFFICES ASSUME ClimbInv PROVE LadderIsTrue
  OBVIOUS
<1>1. /\ depth \in 0..MaxDepth /\ score \in [0..2 -> Nat] /\ firstGame \in Nat
      /\ LevelGames(score) <= GamesPerLevel /\ LevelGames(score) \in Nat
      /\ firstGame <= GamesPerLevel * depth + LevelGames(score)
  BY DEF ClimbInv, ClimbShape, LevelAddsUp, LevelGames
<1>2. ClimbTypeOK
  <2>1. score \in [0..2 -> 0..GamesPerLevel]
    <3>1. \A k \in 0..2 : score[k] <= LevelGames(score) /\ score[k] \in Nat
      BY <1>1 DEF LevelGames
    <3>2. \A k \in 0..2 : score[k] \in 0..GamesPerLevel
      BY <1>1, <3>1, MinimaxLadderAssumption
    <3> QED
      BY <1>1, <3>2
  <2>2. firstGame \in 0..GamesPerLevel * (MaxDepth + 1)
    <3>1. GamesPerLevel * depth <= GamesPerLevel * MaxDepth
      <4>1. GamesPerLevel \in Nat /\ MaxDepth \in Nat /\ depth \in Nat /\ MaxDepth - depth \in Nat
        BY <1>1, MinimaxLadderAssumption
      <4>2. GamesPerLevel * (MaxDepth - depth) \in Nat
        BY <4>1
      <4>3. GamesPerLevel * MaxDepth = GamesPerLevel * depth + GamesPerLevel * (MaxDepth - depth)
        BY <4>1
      <4> QED
        BY <4>1, <4>2, <4>3
    <3>2. GamesPerLevel * (MaxDepth + 1) = GamesPerLevel * MaxDepth + GamesPerLevel
      BY MinimaxLadderAssumption
    <3>3. GamesPerLevel * depth \in Nat /\ GamesPerLevel * MaxDepth \in Nat
      BY <1>1, MinimaxLadderAssumption
    <3> QED
      BY <1>1, <3>1, <3>2, <3>3, MinimaxLadderAssumption
  <2>3. \A i \in DOMAIN levels : levels[i].depth = i - 1 /\ levels[i].games <= GamesPerLevel
    BY DEF ClimbInv, ClimbShape, RungsAreClimbed
  <2> QED
    BY <1>1, <2>1, <2>2, <2>3 DEF ClimbInv, ClimbShape, ClimbTypeOK
<1>3. HighestDefeatedIsTrue
  <2> SUFFICES ASSUME Returned, NEW d \in 0..MaxDepth
               PROVE  truth[d].points > GamesPerLevel <=> d <= HighestDefeated
    BY DEF HighestDefeatedIsTrue
  <2>1. /\ \A e \in 0..depth - 1 : truth[e].points > GamesPerLevel
        /\ \A e \in depth + 1..MaxDepth : truth[e].points = 0
        /\ truth[depth].points > GamesPerLevel <=> Promoted(score)
    BY DEF ClimbInv, RungsAreClimbed, LevelAddsUp, Promoted
  <2>2. Len(levels) = depth + 1 /\ \A i \in 1..depth + 1 : levels[i].depth = i - 1
    BY DEF Returned, ClimbInv, RungsAreClimbed
  <2>3. CASE rung = "promoted"
    <3>1. HighestDefeated = depth /\ Promoted(score) /\ depth = MaxDepth
      BY <1>1, <2>2, <2>3 DEF HighestDefeated, Returned, ClimbInv, RungsAreClimbed
    <3>2. d <= depth /\ (d = depth \/ d \in 0..depth - 1)
      BY <1>1, <3>1
    <3> QED
      BY <2>1, <3>1, <3>2
  <2>4. CASE rung = "stopped"
    <3>1. ~Promoted(score) /\ HighestDefeated = depth - 1
      <4>1. ~Promoted(score)
        BY <2>4 DEF ClimbInv, RungsAreClimbed
      <4>2. CASE depth = 0
        <5>1. ~(Len(levels) > 1) /\ rung # "promoted" /\ 0 - 1 = -1
          BY <2>2, <2>4, <4>2
        <5>2. HighestDefeated = NoDepth
          BY <5>1 DEF HighestDefeated
        <5> QED
          BY <4>1, <4>2, <5>1, <5>2 DEF NoDepth
      <4>3. CASE depth # 0
        <5>1. depth + 1 > 1 /\ depth + 1 - 1 = depth /\ depth \in 1..depth + 1
          BY <1>1, <4>3
        <5>2. HighestDefeated = levels[depth].depth
          BY <2>2, <2>4, <5>1 DEF HighestDefeated
        <5> QED
          BY <4>1, <2>2, <5>1, <5>2
      <4> QED
        BY <4>1, <4>2, <4>3
    <3>2. d \in 0..depth - 1 \/ d = depth \/ d \in depth + 1..MaxDepth
      BY <1>1
    <3>3. ~(0 > GamesPerLevel)
      BY MinimaxLadderAssumption
    <3> QED
      BY <1>1, <2>1, <3>1, <3>2, <3>3
  <2> QED
    BY <2>3, <2>4 DEF Returned
<1> QED
  BY <1>2, <1>3 DEF ClimbInv, LadderIsTrue

\* What the ladder of opponents reports is what the games showed: every level
\* that was ended is decided by its own games, as many with either colour, and
\* the highest opponent defeated is the last of an unbroken row of wins.
THEOREM LadderStaysTrue == ClimbSpec => []LadderIsTrue
  BY ClimbInitInv, ClimbStepInv, ClimbInvIsEnough, PTL DEF ClimbSpec

-----------------------------------------------------------------------------
(* The arena match.                                                        *)

MaxPairs    == MaxGames \div 2
GameResults == [game : ArenaGames, red : 0..2]
Gates       == [games : Nat, counts : [0..4 -> Nat], first : 0..3,
                llr : {"below", "between", "above"}, crossed : BOOLEAN]

MatchShape ==
  /\ place \in {"batch", "playing", "done", "failed"} /\ index \in 0..MaxPairs
  /\ playing \subseteq ArenaGames /\ results \in Seq(GameResults)
  /\ played \subseteq GameResults
  /\ gate \in Gates /\ gate.games <= 2 * index
  /\ tally \in [0..2 -> Nat] /\ decision \in {"none", "accepted", "rejected"}
  /\ batch \in 1..InferenceBatch

\* Each game of the openings begun is played once or being played; those being
\* played are not counted.
GamesArePlayedOnce ==
  /\ \A a, b \in played : a.game = b.game => a = b
  /\ \A game \in 1..2 * index : game \in playing \/ \E r \in played : r.game = game
  /\ \A r \in played : r.game <= 2 * index /\ r.game \notin playing
  /\ \A game \in playing : gate.games < game /\ game <= 2 * index

\* What waits to be counted is what was played and is not counted, once each.
ResultsArePlayed ==
  /\ ToSet(results) = {r \in played : r.game > gate.games}
  /\ \A i, j \in DOMAIN results : results[i] = results[j] => i = j

\* Games are counted in order, and of an opening counted by half the other half
\* comes next.
HalvesMeet ==
  /\ gate.first = Unpaired => gate.games % 2 = 0
  /\ gate.first # Unpaired =>
       /\ gate.games % 2 = 1
       /\ \E r \in played : r.game = gate.games /\ gate.first = CandidateWon(r)
  /\ playing # {} => gate.first = Unpaired

VerdictIsTheGates ==
  /\ place \in {"batch", "done"} => playing = {} /\ results = <<>>
  /\ place # "done" => decision = "none"
  /\ place = "done" => /\ decision = Verdict(gate) /\ decision # "none"
                       /\ gate.crossed = Crossed(gate)

PairsAreCounted ==
  \A k \in 0..4 : gate.counts[k] =
    Cardinality({o \in OpeningNumbers : \E a, b \in Counted :
      a.game = 2 * o - 1 /\ b.game = 2 * o /\ CandidateWon(a) + CandidateWon(b) = k})

MatchInv ==
  /\ MatchShape /\ GamesArePlayedOnce /\ ResultsArePlayed /\ HalvesMeet
  /\ VerdictIsTheGates /\ PairsAreCounted /\ TallyIsTheCandidates

-----------------------------------------------------------------------------
LEMMA HalfOfTheGames ==
  /\ MaxPairs \in Nat /\ MaxGames = 2 * MaxPairs /\ OpeningNumbers = 1..MaxPairs
  /\ IsFiniteSet(OpeningNumbers) /\ Cardinality(OpeningNumbers) = MaxPairs
  /\ IsFiniteSet(ArenaGames) /\ Cardinality(ArenaGames) = MaxGames /\ MaxGames \in Nat
<1>1. MaxPairs \in Nat /\ MaxGames = 2 * MaxPairs /\ MaxGames \in Nat
  BY ArenaMatchAssumption DEF MaxPairs
<1>2. OpeningNumbers = 1..1 + MaxPairs - 1
  BY <1>1 DEF OpeningNumbers, MaxPairs
<1>3. ArenaGames = 1..1 + MaxGames - 1
  BY <1>1 DEF ArenaGames
<1>4. 1 \in Nat
  OBVIOUS
<1>5. IsFiniteSet(OpeningNumbers) /\ Cardinality(OpeningNumbers) = MaxPairs
  BY <1>1, <1>2, <1>4, IntervalSize
<1>6. IsFiniteSet(ArenaGames) /\ Cardinality(ArenaGames) = MaxGames
  BY <1>1, <1>3, <1>4, IntervalSize
<1> QED
  BY <1>1, <1>5, <1>6 DEF OpeningNumbers, MaxPairs

\* A match that begins: nothing is played or counted.
Fresh ==
  /\ place = "batch" /\ index = 0 /\ playing = {} /\ results = <<>>
  /\ gate = NewGate /\ tally = [k \in 0..2 |-> 0] /\ decision = "none"
  /\ batch \in 1..InferenceBatch /\ played = {}

LEMMA FreshInv == Fresh => MatchInv
<1> SUFFICES ASSUME Fresh PROVE MatchInv
  OBVIOUS
<1>1. Counted = {}
  BY DEF Fresh, Counted
<1>2. Cardinality({}) = 0
  BY FS_EmptySet
<1>3. gate \in Gates /\ gate.games = 0 /\ gate.first = Unpaired /\ Unpaired = 3
      /\ \A k \in 0..4 : gate.counts[k] = 0
  BY DEF Fresh, Gates, NewGate, Unpaired
<1>4. MatchShape
  BY <1>3, HalfOfTheGames DEF Fresh, MatchShape
<1>5. GamesArePlayedOnce
  BY DEF Fresh, GamesArePlayedOnce
<1>6. ResultsArePlayed
  BY DEF Fresh, ResultsArePlayed, ToSet
<1>7. HalvesMeet
  BY <1>3 DEF Fresh, HalvesMeet
<1>8. VerdictIsTheGates
  BY DEF Fresh, VerdictIsTheGates
<1>9. PairsAreCounted
  <2> SUFFICES ASSUME NEW k \in 0..4
               PROVE  gate.counts[k] =
                        Cardinality({o \in OpeningNumbers : \E a, b \in Counted :
                          a.game = 2 * o - 1 /\ b.game = 2 * o
                            /\ CandidateWon(a) + CandidateWon(b) = k})
    BY DEF PairsAreCounted
  <2>1. {o \in OpeningNumbers : \E a, b \in Counted :
           a.game = 2 * o - 1 /\ b.game = 2 * o
             /\ CandidateWon(a) + CandidateWon(b) = k} = {}
    BY <1>1
  <2> QED
    BY <1>2, <1>3, <2>1
<1>10. TallyIsTheCandidates
  <2>1. \A k \in 0..2 : {r \in Counted : CandidateWon(r) = k} = {}
    BY <1>1
  <2> QED
    BY <1>2, <2>1 DEF TallyIsTheCandidates, Fresh
<1> QED
  BY <1>4, <1>5, <1>6, <1>7, <1>8, <1>9, <1>10 DEF MatchInv

LEMMA RestartInv == MatchInv /\ Restart => MatchInv'
<1> SUFFICES ASSUME MatchInv, Restart PROVE MatchInv'
  OBVIOUS
<1>1. batch \div 2 \in 1..InferenceBatch
  <2>1. batch \in 1..InferenceBatch /\ batch > 1
    BY DEF MatchInv, MatchShape, Restart
  <2> QED
    BY <2>1, ArenaMatchAssumption
<1>2. Fresh'
  BY <1>1 DEF Restart, Begin, Fresh
<1> QED
  BY <1>2, FreshInv, PTL

\* A step that changes nothing the counts depend on.
LEMMA SameCounts ==
  ASSUME MatchInv, gate' = gate, tally' = tally, Counted' = Counted
  PROVE  PairsAreCounted' /\ TallyIsTheCandidates'
<1>1. PairsAreCounted'
  BY DEF MatchInv, PairsAreCounted
<1> QED
  BY <1>1 DEF MatchInv, TallyIsTheCandidates

LEMMA MatchFailsInv == MatchInv /\ MatchFails => MatchInv'
<1> SUFFICES ASSUME MatchInv, MatchFails PROVE MatchInv'
  OBVIOUS
<1>1. UNCHANGED <<index, playing, results, gate, tally, decision, played, batch>>
      /\ place' = "failed" /\ place = "playing"
  BY DEF MatchFails, match
<1>2. Counted' = Counted
  BY <1>1 DEF Counted
<1>3. MatchShape' /\ GamesArePlayedOnce' /\ ResultsArePlayed' /\ HalvesMeet'
  BY <1>1 DEF MatchInv, MatchShape, GamesArePlayedOnce, ResultsArePlayed, HalvesMeet
<1>4. VerdictIsTheGates'
  BY <1>1 DEF MatchInv, VerdictIsTheGates
<1> QED
  BY <1>1, <1>2, <1>3, <1>4, SameCounts DEF MatchInv

LEMMA LeastOfThree ==
  ASSUME NEW a \in Int, NEW b \in Int, NEW c \in Int
  PROVE  /\ Min({a, b, c}) \in {a, b, c}
         /\ Min({a, b, c}) <= a /\ Min({a, b, c}) <= b /\ Min({a, b, c}) <= c
<1>1. \E x \in {a, b, c} : \A y \in {a, b, c} : x <= y
  <2>1. CASE a <= b /\ a <= c
    BY <2>1
  <2>2. CASE b <= a /\ b <= c
    BY <2>2
  <2>3. CASE c <= a /\ c <= b
    BY <2>3
  <2> QED
    BY <2>1, <2>2, <2>3
<1> QED
  BY <1>1 DEF Min

\* When everything is counted, the games counted are those of the openings begun.
LEMMA AllAreCounted ==
  ASSUME MatchInv, playing = {}, results = <<>>
  PROVE  gate.games = 2 * index /\ \A r \in played : r.game <= gate.games
<1>1. index \in Nat /\ gate.games \in Nat /\ gate.games <= 2 * index
  BY HalfOfTheGames DEF MatchInv, MatchShape, Gates
<1>2. \A r \in played : r.game \in Nat
  BY HalfOfTheGames DEF MatchInv, MatchShape, GameResults, ArenaGames
<1>3. \A r \in played : ~(r.game > gate.games)
  BY DEF MatchInv, ResultsArePlayed, ToSet
<1>4. CASE gate.games # 2 * index
  <2>1. 2 * index \in 1..2 * index
    BY <1>1, <1>4
  <2>2. PICK r \in played : r.game = 2 * index
    BY <2>1 DEF MatchInv, GamesArePlayedOnce
  <2> QED
    BY <1>1, <1>3, <1>4, <2>2
<1> QED
  BY <1>1, <1>2, <1>3, <1>4

\* The games of the openings from i + 1 to j.
LEMMA GamesOfOpenings ==
  ASSUME NEW i \in Nat, NEW j \in Nat, NEW h \in Nat, i <= j, j <= h
  PROVE  /\ \A game \in 1..2 * h : (game + 1) \div 2 \in i + 1..j <=> game \in 2 * i + 1..2 * j
         /\ \A game \in 2 * i + 1..2 * j : game \in 1..2 * h
         /\ \A game \in 1..2 * j : game \in 1..2 * i \/ game \in 2 * i + 1..2 * j
<1>1. ASSUME NEW game \in 1..2 * h
      PROVE  (game + 1) \div 2 \in i + 1..j <=> game \in 2 * i + 1..2 * j
  <2>1. game \in Int
    OBVIOUS
  <2> DEFINE n == game + 1
             q == n \div 2
  <2>2. n \in Int
    BY <2>1
  <2>3. q \in Int /\ (n = 2 * q \/ n = 2 * q + 1)
    <3> HIDE DEF n
    <3> QED
      BY <2>2
  <2> QED
    BY <2>1, <2>3
<1>2. \A game \in 2 * i + 1..2 * j : game \in 1..2 * h
  OBVIOUS
<1>3. \A game \in 1..2 * j : game \in 1..2 * i \/ game \in 2 * i + 1..2 * j
  OBVIOUS
<1> QED
  BY <1>1, <1>2, <1>3

LEMMA StartBatchInv == MatchInv /\ StartBatch => MatchInv'
<1> SUFFICES ASSUME MatchInv, StartBatch PROVE MatchInv'
  OBVIOUS
<1> DEFINE p == Pairs(MaxPairs - index)
<1>1. /\ place = "batch" /\ place' = "playing" /\ index' = index + p /\ results' = <<>>
      /\ playing' = {game \in ArenaGames : Opening(game) \in index + 1..index'}
      /\ index < MaxPairs /\ gate.games < MaxGames
      /\ UNCHANGED <<gate, tally, decision, batch, played>>
  BY HalfOfTheGames DEF StartBatch
<1>2. playing = {} /\ results = <<>>
  BY <1>1 DEF MatchInv, VerdictIsTheGates
<1>3. gate.games = 2 * index /\ \A r \in played : r.game <= gate.games
  BY <1>2, AllAreCounted
<1>4. index \in Nat /\ index <= MaxPairs /\ MaxPairs \in Nat /\ MaxGames = 2 * MaxPairs
  BY HalfOfTheGames DEF MatchInv, MatchShape
<1>5. p \in 0..MaxPairs - index
  <2>1. (MaxGames - gate.games) \div 2 = MaxPairs - index
    BY <1>3, <1>4
  <2>2. PairBatch \in Nat /\ MaxPairs - index \in Nat
    BY <1>4, ArenaMatchAssumption
  <2>3. p = Min({PairBatch, MaxPairs - index, MaxPairs - index})
    BY <2>1 DEF Pairs
  <2> DEFINE rest == MaxPairs - index
  <2>4. p = Min({PairBatch, rest, rest}) /\ PairBatch \in Nat /\ rest \in Nat
    BY <2>2, <2>3
  <2> HIDE DEF p, rest
  <2>5. p \in {PairBatch, rest} /\ p <= rest
    BY <2>4, LeastOfThree
  <2>6. p \in 0..rest
    BY <2>4, <2>5
  <2> QED
    BY <2>6 DEF rest
<1> HIDE DEF p
<1>6. index' \in 0..MaxPairs /\ index <= index'
  BY <1>1, <1>4, <1>5
<1>7. \A game : game \in playing' <=> game \in 2 * index + 1..2 * index'
  <2>1. ArenaGames = 1..2 * MaxPairs /\ index' \in Nat /\ index' <= MaxPairs
    BY <1>4, <1>6 DEF ArenaGames
  <2>2. \A game \in ArenaGames : Opening(game) \in index + 1..index'
                                 <=> game \in 2 * index + 1..2 * index'
    BY <1>4, <1>6, <2>1, GamesOfOpenings DEF Opening
  <2>3. \A game \in 2 * index + 1..2 * index' : game \in ArenaGames
    BY <1>4, <1>6, <2>1, GamesOfOpenings
  <2> QED
    BY <1>1, <2>2, <2>3
<1>8. MatchShape'
  <2>1. playing' \subseteq ArenaGames
    BY <1>1
  <2>2. gate'.games <= 2 * index'
    BY <1>1, <1>3, <1>4, <1>6
  <2> QED
    BY <1>1, <1>6, <2>1, <2>2 DEF MatchInv, MatchShape
<1>9. GamesArePlayedOnce'
  <2>1. \A game \in 1..2 * index' : game \in 1..2 * index \/ game \in 2 * index + 1..2 * index'
    <3>1. index' \in Nat /\ index' <= MaxPairs
      BY <1>4, <1>6
    <3> QED
      BY <1>4, <1>6, <3>1, GamesOfOpenings
  <2>2. \A game \in 1..2 * index : \E r \in played : r.game = game
    BY <1>2 DEF MatchInv, GamesArePlayedOnce
  <2>3. \A r \in played : r.game \in Nat
    BY HalfOfTheGames DEF MatchInv, MatchShape, GameResults, ArenaGames
  <2>4. \A r \in played : r.game <= 2 * index' /\ r.game \notin 2 * index + 1..2 * index'
    BY <1>3, <1>4, <1>6, <2>3
  <2>5. \A game \in playing' : gate'.games < game /\ game <= 2 * index'
    BY <1>1, <1>3, <1>4, <1>6, <1>7
  <2> QED
    BY <1>1, <1>7, <2>1, <2>2, <2>4, <2>5 DEF MatchInv, GamesArePlayedOnce
<1>10. ResultsArePlayed'
  <2>1. \A r \in played : ~(r.game > gate.games)
    <3>1. \A r \in played : r.game \in Nat /\ gate.games \in Nat
      BY HalfOfTheGames DEF MatchInv, MatchShape, GameResults, ArenaGames, Gates
    <3> QED
      BY <1>3, <3>1
  <2> QED
    BY <1>1, <2>1 DEF ResultsArePlayed, ToSet
<1>11. HalvesMeet'
  <2>1. gate.first = Unpaired
    <3>1. gate.games % 2 = 0
      BY <1>3, <1>4
    <3> QED
      BY <3>1 DEF MatchInv, HalvesMeet
  <2> QED
    BY <1>1, <2>1 DEF MatchInv, HalvesMeet
<1>12. VerdictIsTheGates'
  BY <1>1 DEF MatchInv, VerdictIsTheGates
<1>13. Counted' = Counted
  BY <1>1 DEF Counted
<1> QED
  BY <1>1, <1>8, <1>9, <1>10, <1>11, <1>12, <1>13, SameCounts DEF MatchInv

LEMMA FinishInv == ASSUME NEW game \in playing PROVE MatchInv /\ Finish(game) => MatchInv'
<1> SUFFICES ASSUME MatchInv, Finish(game) PROVE MatchInv'
  OBVIOUS
<1>1. PICK red \in 0..2 :
        /\ results' = Append(results, [game |-> game, red |-> red])
        /\ played' = played \cup {[game |-> game, red |-> red]}
  BY DEF Finish
<1> DEFINE new == [game |-> game, red |-> red]
<1>2. /\ place = "playing" /\ playing' = playing \ {game}
      /\ UNCHANGED <<place, index, gate, tally, decision, batch>>
  BY DEF Finish
<1>3. /\ game \in ArenaGames /\ gate.games < game /\ game <= 2 * index /\ game \in Nat
      /\ new \in GameResults /\ new.game = game
  BY HalfOfTheGames DEF MatchInv, MatchShape, GamesArePlayedOnce, GameResults, ArenaGames
<1>4. \A r \in played : r.game # game
  BY DEF MatchInv, GamesArePlayedOnce
<1> HIDE DEF new
<1>5. played' = played \cup {new} /\ results' = Append(results, new) /\ new \notin played
  BY <1>1, <1>3, <1>4 DEF new
<1>6. results \in Seq(GameResults) /\ gate.games \in Nat
  BY DEF MatchInv, MatchShape, Gates
<1>7. MatchShape'
  BY <1>2, <1>3, <1>5, <1>6 DEF MatchInv, MatchShape
<1>8. GamesArePlayedOnce'
  BY <1>2, <1>3, <1>4, <1>5 DEF MatchInv, GamesArePlayedOnce
<1>9. ResultsArePlayed'
  <2>1. ToSet(results') = ToSet(results) \cup {new}
    <3>1. ToSet(results) = {results[i] : i \in 1..Len(results)}
      BY <1>6 DEF ToSet
    <3>2. ToSet(results') = {results'[i] : i \in 1..Len(results) + 1}
      BY <1>3, <1>5, <1>6 DEF ToSet
    <3>3. Len(results) \in Nat /\ results'[Len(results) + 1] = new
          /\ \A i \in 1..Len(results) : results'[i] = results[i]
      BY <1>3, <1>5, <1>6
    <3> QED
      BY <3>1, <3>2, <3>3
  <2>2. {r \in played' : r.game > gate.games} = {r \in played : r.game > gate.games} \cup {new}
    BY <1>3, <1>5, <1>6
  <2>3. new \notin ToSet(results)
    BY <1>5 DEF MatchInv, ResultsArePlayed
  <2>4. \A i, j \in DOMAIN results' : results'[i] = results'[j] => i = j
    <3>1. DOMAIN results' = 1..Len(results) + 1 /\ DOMAIN results = 1..Len(results)
          /\ Len(results) \in Nat /\ results'[Len(results) + 1] = new
          /\ \A i \in 1..Len(results) : results'[i] = results[i]
      BY <1>3, <1>5, <1>6
    <3>2. \A i \in 1..Len(results) : results[i] # new
      BY <2>3, <3>1 DEF ToSet
    <3>3. \A i, j \in 1..Len(results) : results[i] = results[j] => i = j
      BY <3>1 DEF MatchInv, ResultsArePlayed
    <3>4. \A i \in 1..Len(results) + 1 : i \in 1..Len(results) \/ i = Len(results) + 1
      BY <3>1
    <3> QED
      BY <3>1, <3>2, <3>3, <3>4
  <2> QED
    BY <1>2, <2>1, <2>2, <2>4 DEF MatchInv, ResultsArePlayed
<1>10. HalvesMeet'
  BY <1>2, <1>5 DEF MatchInv, HalvesMeet
<1>11. VerdictIsTheGates'
  BY <1>2 DEF MatchInv, VerdictIsTheGates
<1>12. Counted' = Counted
  BY <1>2, <1>3, <1>5, <1>6 DEF Counted
<1> QED
  BY <1>2, <1>7, <1>8, <1>9, <1>10, <1>11, <1>12, SameCounts DEF MatchInv

LEMMA JudgeInv == MatchInv /\ Judge => MatchInv'
<1> SUFFICES ASSUME MatchInv, Judge PROVE MatchInv'
  OBVIOUS
<1>1. PICK side \in {"below", "between", "above"} :
        gate' = [gate EXCEPT !.llr = side, !.crossed = Crossed([gate EXCEPT !.llr = side])]
  BY DEF Judge
<1>2. /\ place = "playing" /\ playing = {} /\ results = <<>>
      /\ decision' = Verdict(gate') /\ place' = (IF decision' = "none" THEN "batch" ELSE "done")
      /\ UNCHANGED <<index, playing, results, tally, batch, played>>
  BY DEF Judge
<1>3. gate \in Gates
  BY DEF MatchInv, MatchShape
<1>4. /\ gate' \in Gates /\ gate'.games = gate.games /\ gate'.counts = gate.counts
      /\ gate'.first = gate.first /\ gate'.llr = side
      /\ gate'.crossed = Crossed([gate EXCEPT !.llr = side])
  BY <1>1, <1>3 DEF Gates, Crossed
<1>5. gate'.crossed = Crossed(gate')
  <2>1. [gate EXCEPT !.llr = side].games = gate.games /\ [gate EXCEPT !.llr = side].llr = side
    BY <1>3 DEF Gates
  <2> QED
    BY <1>4, <2>1 DEF Crossed
<1>6. decision' \in {"none", "accepted", "rejected"}
  BY <1>2 DEF Verdict
<1>7. MatchShape'
  BY <1>2, <1>4, <1>6 DEF MatchInv, MatchShape
<1>8. GamesArePlayedOnce' /\ ResultsArePlayed' /\ HalvesMeet'
  BY <1>2, <1>4 DEF MatchInv, GamesArePlayedOnce, ResultsArePlayed, HalvesMeet
<1>9. VerdictIsTheGates'
  BY <1>2, <1>5 DEF VerdictIsTheGates
<1>10. Counted' = Counted
  BY <1>2, <1>4 DEF Counted
<1>11. PairsAreCounted' /\ TallyIsTheCandidates'
  BY <1>2, <1>4, <1>10 DEF MatchInv, PairsAreCounted, TallyIsTheCandidates
<1> QED
  BY <1>7, <1>8, <1>9, <1>11 DEF MatchInv

\* A sequence without repetitions, and one of its elements taken out.
LEMMA OneIsRemoved ==
  ASSUME NEW S, NEW s \in Seq(S), \A i, j \in DOMAIN s : s[i] = s[j] => i = j,
         NEW at \in DOMAIN s, NEW t, t = RemoveAt(s, at)
  PROVE  /\ t \in Seq(S) /\ \A i, j \in DOMAIN t : t[i] = t[j] => i = j
         /\ ToSet(t) = ToSet(s) \ {s[at]}
<1>1. IsInjective(s)
  BY DEF IsInjective
<1>2. at \in 1..Len(s)
  OBVIOUS
<1>3. t \in Seq(S) /\ IsInjective(t) /\ ToSet(t) = ToSet(s) \ {s[at]}
  BY <1>1, <1>2, RemoveAtOfSet
<1> QED
  BY <1>3 DEF IsInjective

\* The games played are finitely many: as many as their numbers.
LEMMA PlayedAreFinite ==
  ASSUME MatchInv
  PROVE  /\ IsFiniteSet(played) /\ Cardinality(played) <= MaxGames
         /\ playing = {} => Cardinality(played) = 2 * index
<1> DEFINE f == [r \in played |-> r.game]
<1>1. \A r \in played : r.game \in ArenaGames /\ r.game <= 2 * index
  BY DEF MatchInv, MatchShape, GameResults, GamesArePlayedOnce
<1>2. f \in Injection(played, ArenaGames)
  <2>1. f \in [played -> ArenaGames] /\ \A a, b \in played : f[a] = f[b] => a = b
    BY <1>1 DEF MatchInv, GamesArePlayedOnce
  <2> QED
    BY <2>1, Fun_IsInj
<1>3. IsFiniteSet(played) /\ Cardinality(played) <= MaxGames
  BY <1>2, HalfOfTheGames, FS_Injection
<1>4. ASSUME playing = {} PROVE Cardinality(played) = 2 * index
  <2>1. index \in Nat /\ 2 * index \in Nat
    BY HalfOfTheGames DEF MatchInv, MatchShape
  <2>2. \A r \in played : r.game \in 1..2 * index
    BY <1>1, <2>1 DEF ArenaGames
  <2>3. \A game \in 1..2 * index : \E r \in played : r.game = game
    BY <1>4 DEF MatchInv, GamesArePlayedOnce
  <2>4. f \in Bijection(played, 1..2 * index)
    <3>1. f \in [played -> 1..2 * index] /\ \A a, b \in played : f[a] = f[b] => a = b
      BY <2>2 DEF MatchInv, GamesArePlayedOnce
    <3>2. \A game \in 1..2 * index : \E r \in played : f[r] = game
      BY <2>3
    <3> QED
      BY <3>1, <3>2, Fun_IsBij
  <2>5. Cardinality(1..2 * index) = Cardinality(played)
    BY <1>3, <2>4, FS_Bijection DEF ExistsBijection
  <2>6. Cardinality(1..1 + 2 * index - 1) = 2 * index
    <3>1. 1 \in Nat
      OBVIOUS
    <3> QED
      BY <2>1, <3>1, IntervalSize
  <2>7. 1 + 2 * index - 1 = 2 * index
    BY <2>1
  <2> QED
    BY <2>5, <2>6, <2>7
<1> QED
  BY <1>3, <1>4

\* The game counted is the one after those that were: all of the batch are over,
\* so the least of those that wait is the next.
LEMMA NextGame ==
  ASSUME MatchInv, playing = {}, NEW i \in DOMAIN results, IsNext(i)
  PROVE  /\ results[i] \in played /\ results[i].game = gate.games + 1
         /\ gate.games + 1 <= 2 * index /\ gate.games \in Nat /\ index \in Nat
         /\ CandidateWon(results[i]) \in 0..2 /\ Score(results[i]) = CandidateWon(results[i])
<1> DEFINE r == results[i]
<1>1. gate.games \in Nat /\ index \in Nat /\ \A q \in played : q.game \in Nat /\ q.red \in 0..2
  <2>1. gate.games \in Nat /\ index \in Nat
    BY HalfOfTheGames DEF MatchInv, MatchShape, Gates
  <2>2. \A q \in played : q.game \in ArenaGames /\ q.red \in 0..2
    BY DEF MatchInv, MatchShape, GameResults
  <2> QED
    BY <2>1, <2>2, HalfOfTheGames DEF ArenaGames
<1>2. r \in played /\ r.game > gate.games /\ r.game <= 2 * index
  BY DEF MatchInv, ResultsArePlayed, ToSet, GamesArePlayedOnce
<1>3. gate.games + 1 \in 1..2 * index
  BY <1>1, <1>2
<1>4. PICK q \in played : q.game = gate.games + 1
  BY <1>3 DEF MatchInv, GamesArePlayedOnce
<1>5. PICK j \in DOMAIN results : results[j] = q
  <2>1. q \in ToSet(results)
    BY <1>1, <1>4 DEF MatchInv, ResultsArePlayed
  <2> QED
    BY <2>1 DEF ToSet
<1>6. r.game <= gate.games + 1
  BY <1>4, <1>5 DEF IsNext
<1>7. r.game = gate.games + 1
  BY <1>1, <1>2, <1>6
<1>8. CandidateWon(r) \in 0..2 /\ Score(r) = CandidateWon(r)
  BY <1>1, <1>2 DEF CandidateWon, Score, CandidateRed
<1> QED
  BY <1>1, <1>2, <1>3, <1>7, <1>8

LEMMA CountInv == MatchInv /\ Count => MatchInv'
<1> SUFFICES ASSUME MatchInv, Count PROVE MatchInv'
  OBVIOUS
<1>1. PICK i \in DOMAIN results :
        /\ IsNext(i) /\ results' = RemoveAt(results, i)
        /\ gate' = Update(gate, Score(results[i]))
        /\ tally' = [tally EXCEPT ![Score(results[i])] = @ + 1]
  BY DEF Count
<1>2. /\ place = "playing" /\ playing = {}
      /\ UNCHANGED <<place, index, playing, decision, batch, played>>
  BY DEF Count
<1> DEFINE r == results[i]
           n == gate.games + 1
           won == CandidateWon(r)
<1>3. /\ r \in played /\ r.game = n /\ n <= 2 * index /\ gate.games \in Nat /\ index \in Nat
      /\ won \in 0..2 /\ Score(r) = won
  BY <1>1, <1>2, NextGame
<1>4. /\ results \in Seq(GameResults) /\ gate \in Gates /\ tally \in [0..2 -> Nat]
      /\ played \subseteq GameResults /\ index <= MaxPairs
      /\ \A a, b \in played : a.game = b.game => a = b
      /\ ToSet(results) = {q \in played : q.game > gate.games}
  BY HalfOfTheGames DEF MatchInv, MatchShape, GamesArePlayedOnce, ResultsArePlayed
<1>5. /\ results' \in Seq(GameResults) /\ ToSet(results') = ToSet(results) \ {r}
      /\ \A j, k \in DOMAIN results' : results'[j] = results'[k] => j = k
  BY <1>1, <1>4, OneIsRemoved DEF MatchInv, ResultsArePlayed
<1>6. gate' = Update(gate, won) /\ tally' = [tally EXCEPT ![won] = @ + 1]
  BY <1>1, <1>3
<1>7. \A q \in played : q.game \in Nat
  BY <1>4, HalfOfTheGames DEF GameResults, ArenaGames
<1> HIDE DEF r, won
<1>8. /\ gate' \in Gates /\ gate'.games = n
      /\ gate.first = Unpaired => gate'.first = won /\ gate'.counts = gate.counts
      /\ gate.first # Unpaired =>
           /\ gate'.first = Unpaired /\ gate.first + won \in 0..4
           /\ \A k \in 0..4 : gate'.counts[k] =
                gate.counts[k] + IF k = gate.first + won THEN 1 ELSE 0
  <2>1. CASE gate.first = Unpaired
    <3>1. gate' = [gate EXCEPT !.games = @ + 1, !.first = won]
      BY <1>6, <2>1 DEF Update
    <3>2. /\ gate'.games = n /\ gate'.first = won /\ gate'.counts = gate.counts
          /\ gate'.llr = gate.llr /\ gate'.crossed = gate.crossed
          /\ gate' = [games |-> gate'.games, counts |-> gate'.counts, first |-> gate'.first,
                      llr |-> gate'.llr, crossed |-> gate'.crossed]
      BY <1>4, <3>1 DEF Gates
    <3>3. n \in Nat /\ won \in 0..3
      BY <1>3
    <3>4. /\ gate.counts \in [0..4 -> Nat] /\ gate.llr \in {"below", "between", "above"}
          /\ gate.crossed \in BOOLEAN
      BY <1>4 DEF Gates
    <3> HIDE DEF n
    <3>5. gate' \in Gates
      BY <3>2, <3>3, <3>4 DEF Gates
    <3> QED
      BY <2>1, <3>2, <3>5
  <2>2. CASE gate.first # Unpaired
    <3>1. gate' = [gate EXCEPT !.games = @ + 1, !.counts[gate.first + won] = @ + 1,
                               !.first = Unpaired]
      BY <1>6, <2>2 DEF Update
    <3>2. gate.first \in 0..2
      BY <1>4, <2>2 DEF MatchInv, HalvesMeet, Gates, Unpaired
    <3>3. gate.first + won \in 0..4
      BY <1>3, <3>2
    <3>4. /\ gate'.games = n /\ gate'.first = Unpaired /\ gate'.llr = gate.llr
          /\ gate'.crossed = gate.crossed
          /\ gate'.counts = [gate.counts EXCEPT ![gate.first + won] = @ + 1]
          /\ gate' = [games |-> gate'.games, counts |-> gate'.counts, first |-> gate'.first,
                      llr |-> gate'.llr, crossed |-> gate'.crossed]
      BY <1>4, <3>1 DEF Gates
    <3>5. gate.counts \in [0..4 -> Nat] /\ gate'.counts \in [0..4 -> Nat]
      <4>1. gate.counts \in [0..4 -> Nat]
        BY <1>4 DEF Gates
      <4>2. \A k \in 0..4 : gate.counts[k] + 1 \in Nat
        BY <4>1
      <4> QED
        BY <3>3, <3>4, <4>1, <4>2
    <3>6. \A k \in 0..4 : gate'.counts[k] = gate.counts[k] + IF k = gate.first + won THEN 1 ELSE 0
      BY <3>3, <3>4, <3>5
    <3>7. gate' \in Gates
      <4>1. n \in Nat /\ Unpaired \in 0..3
        BY <1>3 DEF Unpaired
      <4>2. gate.llr \in {"below", "between", "above"} /\ gate.crossed \in BOOLEAN
        BY <1>4 DEF Gates
      <4> HIDE DEF n
      <4> QED
        BY <3>4, <3>5, <4>1, <4>2 DEF Gates
    <3> QED
      BY <2>2, <3>3, <3>4, <3>6, <3>7
  <2> QED
    BY <2>1, <2>2
<1>9. n \in Nat /\ n > gate.games
  BY <1>3
<1>10. Counted' = Counted \cup {r} /\ r \notin Counted /\ Counted \subseteq played
  <2>1. \A q \in played : q.game <= n <=> q.game <= gate.games \/ q.game = n
    BY <1>3, <1>7, <1>9
  <2>2. \A q \in played : q.game = n => q = r
    BY <1>3, <1>4
  <2>3. ~(r.game <= gate.games)
    BY <1>3, <1>9
  <2> QED
    BY <1>2, <1>3, <1>8, <2>1, <2>2, <2>3 DEF Counted
<1> HIDE DEF n
<1>11. MatchShape'
  <2>1. \A k \in 0..2 : tally[k] + 1 \in Nat
    BY <1>4
  <2>2. tally' \in [0..2 -> Nat]
    BY <1>3, <1>4, <1>6, <2>1
  <2>3. gate'.games <= 2 * index'
    BY <1>2, <1>3, <1>8
  <2> QED
    BY <1>2, <1>5, <1>8, <2>2, <2>3 DEF MatchInv, MatchShape
<1>12. GamesArePlayedOnce'
  BY <1>2 DEF MatchInv, GamesArePlayedOnce
<1>13. ResultsArePlayed'
  <2>1. \A q \in played : q.game > n <=> q.game > gate.games /\ q # r
    <3>1. \A q \in played : q # r => q.game # n
      BY <1>3, <1>4
    <3>2. \A m \in Nat : m > n <=> m > gate.games /\ m # n
      BY <1>3 DEF n
    <3> QED
      BY <1>3, <1>7, <3>1, <3>2
  <2> QED
    BY <1>2, <1>4, <1>5, <1>8, <2>1 DEF ResultsArePlayed
<1>14. HalvesMeet'
  <2>1. gate.first = Unpaired => n % 2 = 1
    <3> SUFFICES ASSUME gate.first = Unpaired PROVE n % 2 = 1
      OBVIOUS
    <3>1. gate.games % 2 = 0
      BY DEF MatchInv, HalvesMeet
    <3> QED
      BY <1>3, <3>1 DEF n
  <2>2. gate.first # Unpaired => n % 2 = 0
    <3> SUFFICES ASSUME gate.first # Unpaired PROVE n % 2 = 0
      OBVIOUS
    <3>1. gate.games % 2 = 1
      BY DEF MatchInv, HalvesMeet
    <3> QED
      BY <1>3, <3>1 DEF n
  <2>3. won # Unpaired
    BY <1>3 DEF Unpaired
  <2> QED
    BY <1>2, <1>3, <1>8, <2>1, <2>2, <2>3 DEF HalvesMeet, won
<1>15. VerdictIsTheGates'
  BY <1>2 DEF MatchInv, VerdictIsTheGates
<1>16. IsFiniteSet(Counted)
  BY <1>10, PlayedAreFinite, FS_Subset
<1>17. TallyIsTheCandidates'
  <2> DEFINE Of(k) == {q \in Counted : CandidateWon(q) = k}
  <2>1. \A k : IsFiniteSet(Of(k)) /\ Cardinality(Of(k)) \in Nat /\ r \notin Of(k)
    BY <1>10, <1>16, FS_Subset, FS_CardinalityType
  <2>2. ASSUME NEW k \in 0..2
        PROVE  tally'[k] = Cardinality({q \in Counted' : CandidateWon(q) = k})
    <3>1. /\ tally[k] = Cardinality(Of(k))
          /\ k = won => tally'[k] = tally[k] + 1
          /\ k # won => tally'[k] = tally[k]
      <4>1. tally[k] = Cardinality(Of(k))
        BY DEF MatchInv, TallyIsTheCandidates
      <4>2. (k = won => tally'[k] = tally[k] + 1) /\ (k # won => tally'[k] = tally[k])
        BY <1>3, <1>4, <1>6
      <4> QED
        BY <4>1, <4>2
    <3>2. CASE k = won
      <4>1. {q \in Counted' : CandidateWon(q) = k} = Of(k) \cup {r}
        BY <1>10, <3>2 DEF won
      <4> HIDE DEF Of
      <4>2. Cardinality(Of(k) \cup {r}) = Cardinality(Of(k)) + 1
        BY <2>1, FS_AddElement
      <4> QED
        BY <3>1, <3>2, <4>1, <4>2
    <3>3. CASE k # won
      <4>1. {q \in Counted' : CandidateWon(q) = k} = Of(k)
        BY <1>10, <3>3 DEF won
      <4> QED
        BY <2>1, <3>1, <3>3, <4>1
    <3> QED
      BY <3>2, <3>3
  <2> QED
    BY <2>2 DEF TallyIsTheCandidates
<1>18. PairsAreCounted'
  <2> DEFINE Pair(a, b, o, k) == /\ a.game = 2 * o - 1 /\ b.game = 2 * o
                                 /\ CandidateWon(a) + CandidateWon(b) = k
             Of(k)  == {o \in OpeningNumbers : \E a, b \in Counted : Pair(a, b, o, k)}
             New(k) == {o \in OpeningNumbers : \E a, b \in Counted' : Pair(a, b, o, k)}
  <2>1. \A o \in OpeningNumbers : o \in Nat /\ 2 * o \in Nat /\ 2 * o - 1 < 2 * o
    BY HalfOfTheGames
  <2>2. \A k : IsFiniteSet(Of(k)) /\ Cardinality(Of(k)) \in Nat
    BY HalfOfTheGames, FS_Subset, FS_CardinalityType
  <2>3. \A k \in 0..4 : gate.counts[k] = Cardinality(Of(k))
    BY DEF MatchInv, PairsAreCounted
  <2>4. \A q \in Counted' : q \in Counted \/ q = r
    BY <1>10
  <2>5. \A q \in Counted : q.game \in Nat /\ q.game < n /\ q \in Counted' /\ q \in played
    BY <1>3, <1>7, <1>10 DEF Counted, n
  <2>6. SUFFICES ASSUME NEW k \in 0..4 PROVE gate'.counts[k] = Cardinality(New(k))
    BY DEF PairsAreCounted
  <2>7. CASE gate.first = Unpaired
    <3>1. n % 2 = 1
      BY <1>8, <1>14, <1>3, <2>7 DEF HalvesMeet, Unpaired
    <3>2. ASSUME NEW o \in OpeningNumbers, NEW a \in Counted', NEW b \in Counted', Pair(a, b, o, k)
          PROVE  a \in Counted /\ b \in Counted
      <4>1. b.game # n
        BY <1>9, <2>1, <3>1, <3>2
      <4>2. b \in Counted
        BY <1>3, <2>4, <4>1
      <4>3. a.game < b.game
        BY <2>1, <3>2
      <4>4. a.game # n
        BY <1>9, <2>1, <2>5, <3>2, <4>2, <4>3
      <4> QED
        BY <1>3, <2>4, <4>2, <4>4
    <3>3. New(k) = Of(k)
      BY <2>5, <3>2
    <3> QED
      BY <1>8, <2>3, <2>7, <3>3
  <2>8. CASE gate.first # Unpaired
    <3>1. n % 2 = 0
      BY <1>8, <1>14, <2>8 DEF HalvesMeet
    <3>2. PICK f \in played : f.game = gate.games /\ gate.first = CandidateWon(f)
      BY <2>8 DEF MatchInv, HalvesMeet
    <3> DEFINE m == n \div 2
    <3>3. m \in OpeningNumbers /\ n = 2 * m /\ gate.games = 2 * m - 1
      <4>1. n = 2 * m /\ m \in Nat /\ n \in Nat \ {0}
        BY <1>3, <3>1, <1>9
      <4>2. m <= index /\ m >= 1
        BY <1>3, <4>1
      <4>3. m \in 1..MaxPairs
        BY <1>3, <1>4, <4>1, <4>2, HalfOfTheGames
      <4>4. gate.games = n - 1
        BY <1>3 DEF n
      <4> QED
        BY <4>1, <4>3, <4>4, HalfOfTheGames
    <3> HIDE DEF m
    <3>4. f \in Counted
      BY <1>3, <3>2 DEF Counted
    <3>5. m \notin Of(k)
      BY <1>9, <2>5, <3>3
    <3>6. ASSUME NEW o \in OpeningNumbers, o # m, NEW a \in Counted', NEW b \in Counted',
                 Pair(a, b, o, k)
          PROVE  a \in Counted /\ b \in Counted
      <4>1. a.game # n /\ b.game # n
        BY <2>1, <3>3, <3>6
      <4> QED
        BY <1>3, <2>4, <4>1
    <3>7. \A o \in OpeningNumbers \ {m} : o \in New(k) <=> o \in Of(k)
      BY <2>5, <3>6
    <3>8. m \in New(k) <=> k = gate.first + won
      <4>1. Pair(f, r, m, gate.first + won)
        BY <1>3, <3>2, <3>3 DEF won
      <4>2. f \in Counted' /\ r \in Counted'
        BY <1>10, <3>4
      <4>3. ASSUME NEW a \in Counted', NEW b \in Counted', Pair(a, b, m, k)
            PROVE  a = f /\ b = r
        <5>1. a \in played /\ b \in played /\ a.game = gate.games /\ b.game = n
          BY <1>2, <1>3, <1>10, <3>3, <4>3
        <5> QED
          BY <1>3, <1>4, <3>2, <5>1
      <4>4. k = gate.first + won => m \in New(k)
        BY <3>3, <4>1, <4>2
      <4>5. m \in New(k) => k = gate.first + won
        <5> SUFFICES ASSUME m \in New(k) PROVE k = gate.first + won
          OBVIOUS
        <5>1. PICK a \in Counted', b \in Counted' : Pair(a, b, m, k)
          OBVIOUS
        <5>2. a = f /\ b = r
          BY <4>3, <5>1
        <5> QED
          BY <3>2, <5>1, <5>2 DEF won
      <4> QED
        BY <4>4, <4>5
    <3>9. CASE k = gate.first + won
      <4>1. New(k) = Of(k) \cup {m}
        <5>1. New(k) \subseteq OpeningNumbers /\ Of(k) \subseteq OpeningNumbers
          OBVIOUS
        <5> HIDE DEF New, Of
        <5> QED
          BY <3>3, <3>7, <3>8, <3>9, <5>1
      <4> HIDE DEF New, Of
      <4>2. Cardinality(Of(k) \cup {m}) = Cardinality(Of(k)) + 1
        BY <2>2, <3>5, FS_AddElement
      <4> QED
        BY <1>8, <2>3, <2>8, <3>9, <4>1, <4>2
    <3>10. CASE k # gate.first + won
      <4>1. New(k) = Of(k)
        <5>1. New(k) \subseteq OpeningNumbers /\ Of(k) \subseteq OpeningNumbers
          OBVIOUS
        <5> HIDE DEF New, Of
        <5> QED
          BY <3>5, <3>7, <3>8, <3>10, <5>1
      <4> HIDE DEF New, Of
      <4> QED
        BY <1>8, <2>2, <2>3, <2>8, <3>10, <4>1
    <3> QED
      BY <3>9, <3>10
  <2> QED
    BY <2>7, <2>8
<1> QED
  BY <1>11, <1>12, <1>13, <1>14, <1>15, <1>17, <1>18 DEF MatchInv

LEMMA MatchStepInv == MatchInv /\ [MatchNext]_matchVars => MatchInv'
<1> SUFFICES ASSUME MatchInv, [MatchNext]_matchVars PROVE MatchInv'
  OBVIOUS
<1>1. CASE UNCHANGED matchVars
  BY <1>1 DEF matchVars, match, MatchInv, MatchShape, GamesArePlayedOnce, ResultsArePlayed,
     HalvesMeet, VerdictIsTheGates, PairsAreCounted, TallyIsTheCandidates, Counted
<1>2. CASE \E game \in playing : Finish(game)
  BY <1>2, FinishInv
<1> QED
  BY <1>1, <1>2, StartBatchInv, CountInv, JudgeInv, RestartInv, MatchFailsInv DEF MatchNext

LEMMA MatchInvIsEnough == MatchInv => MatchIsFair
<1> SUFFICES ASSUME MatchInv PROVE MatchIsFair
  OBVIOUS
<1>1. IsFiniteSet(Counted) /\ Cardinality(Counted) <= MaxGames
  <2>1. Counted \subseteq played
    BY DEF Counted
  <2>2. IsFiniteSet(Counted) /\ Cardinality(Counted) <= Cardinality(played)
    BY <2>1, PlayedAreFinite, FS_Subset
  <2>3. Cardinality(Counted) \in Nat /\ Cardinality(played) \in Nat
    BY <2>2, PlayedAreFinite, FS_CardinalityType
  <2> QED
    BY <2>2, <2>3, PlayedAreFinite, HalfOfTheGames
<1>2. Cardinality(Counted) \in Nat /\ MaxGames \in Nat
  BY <1>1, FS_CardinalityType, HalfOfTheGames
<1>3. tally \in [0..2 -> 0..MaxGames]
  <2>1. ASSUME NEW k \in 0..2 PROVE tally[k] \in 0..MaxGames
    <3> DEFINE Of == {q \in Counted : CandidateWon(q) = k}
    <3>1. tally[k] = Cardinality(Of)
      BY DEF MatchInv, TallyIsTheCandidates
    <3>2. Cardinality(Of) \in Nat /\ Cardinality(Of) <= Cardinality(Counted)
      BY <1>1, FS_Subset, FS_CardinalityType
    <3> HIDE DEF Of
    <3> QED
      BY <1>1, <1>2, <3>1, <3>2
  <2> QED
    BY <2>1 DEF MatchInv, MatchShape
<1>4. gate.counts \in [0..4 -> 0..Cardinality(OpeningNumbers)]
  <2>1. ASSUME NEW k \in 0..4 PROVE gate.counts[k] \in 0..Cardinality(OpeningNumbers)
    <3> DEFINE Of == {o \in OpeningNumbers : \E a, b \in Counted :
                        a.game = 2 * o - 1 /\ b.game = 2 * o
                          /\ CandidateWon(a) + CandidateWon(b) = k}
    <3>1. gate.counts[k] = Cardinality(Of)
      BY DEF MatchInv, PairsAreCounted
    <3>2. Cardinality(Of) \in Nat /\ Cardinality(Of) <= Cardinality(OpeningNumbers)
      BY HalfOfTheGames, FS_Subset, FS_CardinalityType
    <3> HIDE DEF Of
    <3> QED
      BY <3>1, <3>2, HalfOfTheGames
  <2> QED
    BY <2>1 DEF MatchInv, MatchShape, Gates
<1>5. MatchTypeOK
  <2>1. \A i \in DOMAIN results : results[i] \in GameResults
    BY DEF MatchInv, MatchShape
  <2>2. gate.games \in 0..MaxGames
    <3>1. gate.games \in Nat /\ gate.games <= 2 * index /\ index \in Nat /\ index <= MaxPairs
      BY HalfOfTheGames DEF MatchInv, MatchShape, Gates
    <3> QED
      BY <3>1, HalfOfTheGames
  <2>3. /\ gate.first \in 0..Unpaired /\ gate.llr \in {"below", "between", "above"}
        /\ gate.crossed \in BOOLEAN
    BY DEF MatchInv, MatchShape, Gates, Unpaired
  <2>4. index \in 0..Cardinality(OpeningNumbers)
    BY HalfOfTheGames DEF MatchInv, MatchShape
  <2> QED
    BY <1>3, <1>4, <2>1, <2>2, <2>3, <2>4 DEF MatchInv, MatchShape, MatchTypeOK, GameResults
<1>6. PairsAreOpenings
  <2>1. ASSUME results = <<>> PROVE gate.first = Unpaired
    <3>1. CASE playing # {}
      BY <3>1 DEF MatchInv, HalvesMeet
    <3>2. CASE playing = {}
      <4>1. gate.games = 2 * index /\ index \in Nat
        BY <2>1, <3>2, AllAreCounted, HalfOfTheGames DEF MatchInv, MatchShape
      <4>2. gate.games % 2 = 0
        BY <4>1
      <4> QED
        BY <4>2 DEF MatchInv, HalvesMeet
    <3> QED
      BY <3>1, <3>2
  <2> QED
    BY <2>1 DEF MatchInv, PairsAreCounted, PairsAreOpenings
<1>7. VerdictIsBacked
  <2> SUFFICES ASSUME place = "done"
               PROVE  /\ decision = "accepted" => gate.llr = "above" /\ gate.games >= MinGames
                      /\ ~gate.crossed =>
                           decision = "rejected" /\ Opening(gate.games) = Cardinality(OpeningNumbers)
                      /\ Cardinality(played) = gate.games
    BY DEF VerdictIsBacked
  <2>1. /\ playing = {} /\ results = <<>> /\ decision = Verdict(gate) /\ decision # "none"
        /\ gate.crossed = Crossed(gate)
    BY DEF MatchInv, VerdictIsTheGates
  <2>2. gate.games = 2 * index /\ index \in Nat /\ index <= MaxPairs
    BY <2>1, AllAreCounted, HalfOfTheGames DEF MatchInv, MatchShape
  <2>3. Cardinality(played) = gate.games
    BY <2>1, <2>2, PlayedAreFinite
  <2>4. decision = "accepted" => gate.llr = "above" /\ gate.games >= MinGames
    BY <2>1 DEF Verdict, Crossed
  <2>5. ASSUME ~gate.crossed
        PROVE  decision = "rejected" /\ Opening(gate.games) = Cardinality(OpeningNumbers)
    <3>1. decision = "rejected" /\ gate.games >= MaxGames
      BY <2>1, <2>5 DEF Verdict
    <3>2. index = MaxPairs
      BY <2>2, <3>1, HalfOfTheGames
    <3>3. (2 * MaxPairs + 1) \div 2 = MaxPairs
      BY HalfOfTheGames
    <3> QED
      BY <2>2, <3>1, <3>2, <3>3, HalfOfTheGames DEF Opening
  <2> QED
    BY <2>3, <2>4, <2>5
<1> QED
  BY <1>5, <1>6, <1>7 DEF MatchInv, MatchIsFair

\* A candidate is judged on its own results only, by whole openings, each played
\* with either colour, and promoted on evidence only, for any limits of the match
\* and its batches, in whatever order the games end and however often the match
\* begins again: the games that wait are those after the last one counted, and
\* the least of them comes next.
THEOREM MatchStaysFair == MatchSpec => []MatchIsFair
<1>1. MatchInit => Fresh
  BY ArenaMatchAssumption DEF MatchInit, Fresh
<1> QED
  BY <1>1, FreshInv, MatchStepInv, MatchInvIsEnough, PTL DEF MatchSpec

-----------------------------------------------------------------------------
(* The league of opponents.                                                *)

GenerateOrder == [type |-> "generate", champion |-> Champion, others |-> Archives,
                  first |-> nextGame]
ArenaOrder    == ArenaCommand(Champion, pending)
ReloadOrder   == [type |-> "reload", champion |-> Champion, others |-> Archives, first |-> 0]

LeagueShape ==
  /\ accepted \in Seq(0..MaxAttempt) /\ accepted # <<>> /\ attempt \in 0..MaxAttempt
  /\ pending \in 0..MaxAttempt \cup {NoAttempt} /\ nextGame \in 1..MaxGame + 1
  /\ models \subseteq 0..MaxAttempt /\ Cardinality(models) <= ArchiveDepth + 1

\* A candidate was not accepted before.
AttemptsAreFresh ==
  /\ \A i, j \in DOMAIN accepted : accepted[i] = accepted[j] => i = j
  /\ \A i \in DOMAIN accepted : accepted[i] <= attempt
  /\ pending # NoAttempt =>
       pending = attempt /\ \A i \in DOMAIN accepted : accepted[i] < attempt

\* What the actor does or has still to do is of the league as it is: a decision
\* waits for the batch before it, and no batch is queued before the reload after it;
\* the next arena may be.
OrdersAreCurrent ==
  \/ job = "none" /\ orders = <<>> /\ busy = {}
  \/ job = "none" /\ orders = <<GenerateOrder>> /\ busy = {"generate"}
  \/ job = "none" /\ orders = <<GenerateOrder, ArenaOrder>> /\ busy = {"generate", "arena"}
  \/ job = "none" /\ orders = <<ArenaOrder>> /\ busy = {"arena"}
  \/ job = "none" /\ orders = <<ReloadOrder>> /\ busy = {"reload"}
  \/ job = "none" /\ orders = <<ReloadOrder, ArenaOrder>> /\ busy = {"reload", "arena"}
  \/ job = "generate" /\ orders = <<>> /\ busy = {"generate"}
  \/ job = "generate" /\ orders = <<ArenaOrder>> /\ busy = {"generate", "arena"}
  \/ job = "arena" /\ orders = <<>> /\ busy = {"arena"}
  \/ job = "reload" /\ orders = <<>> /\ busy = {"reload"}
  \/ job = "reload" /\ orders = <<ArenaOrder>> /\ busy = {"reload", "arena"}

WorkIsAhead ==
  /\ pending # NoAttempt <=> "arena" \in busy
  /\ "generate" \in busy => nextGame + GameBatch - 1 <= MaxGame

GamesAreOfTheOrder ==
  /\ job = "generate" =>
       models = Configure(GenerateOrder) /\ requests \in Leagues(GenerateOrder)
  /\ job = "arena" =>
       /\ models = Configure(ArenaOrder)
       /\ requests = {[kind |-> "arena", game |-> 1, gold |-> Champion, red |-> pending]}
  /\ job \in {"none", "reload"} => requests = {}

LeagueInv ==
  LeagueShape /\ AttemptsAreFresh /\ OrdersAreCurrent /\ WorkIsAhead /\ GamesAreOfTheOrder

-----------------------------------------------------------------------------
LEMMA SequenceSize ==
  ASSUME NEW S, NEW s \in Seq(S)
  PROVE  IsFiniteSet(ToSet(s)) /\ Cardinality(ToSet(s)) <= Len(s) /\ ToSet(s) \subseteq S
         /\ Cardinality(ToSet(s)) \in Nat
<1>1. Len(s) \in Nat /\ DOMAIN s = 1..Len(s) /\ s \in [1..Len(s) -> S]
  OBVIOUS
<1>2. ToSet(s) = {s[i] : i \in 1..Len(s)} /\ ToSet(s) \subseteq S
  BY <1>1 DEF ToSet
<1>3. s \in Surjection(1..Len(s), ToSet(s))
  BY <1>1, <1>2, Fun_IsSurj
<1>4. 1..1 + Len(s) - 1 = 1..Len(s) /\ 1 \in Nat
  BY <1>1
<1>5. IsFiniteSet(1..Len(s)) /\ Cardinality(1..Len(s)) = Len(s)
  BY <1>1, <1>4, IntervalSize
<1> QED
  BY <1>2, <1>3, <1>5, FS_Surjection, FS_CardinalityType

LEMMA OneMore == ASSUME NEW x, NEW y PROVE Append(<<x>>, y) = <<x, y>>
<1> DEFINE S == {x, y}
<1>1. /\ <<x>> \in Seq(S) /\ Len(<<x>>) = 1
      /\ <<x, y>> \in Seq(S) /\ Len(<<x, y>>) = 2
  OBVIOUS
<1>2. /\ Append(<<x>>, y) \in Seq(S) /\ Len(Append(<<x>>, y)) = 2
      /\ Append(<<x>>, y)[1] = x /\ Append(<<x>>, y)[2] = y
  BY <1>1
<1>3. \A i \in 1..2 : Append(<<x>>, y)[i] = <<x, y>>[i]
  BY <1>2
<1> HIDE DEF S
<1> QED
  BY <1>1, <1>2, <1>3, SeqEqual

\* The champion and its archive are different accepted candidates.
LEMMA ChampionAndArchives ==
  ASSUME LeagueShape, AttemptsAreFresh
  PROVE  /\ Champion \in 0..MaxAttempt /\ Champion <= attempt
         /\ Archives \in Seq(0..MaxAttempt) /\ Len(Archives) <= ArchiveDepth
         /\ Champion \notin ToSet(Archives)
<1> DEFINE n    == Len(accepted)
           past == Front(accepted)
           from == (IF n - 1 > ArchiveDepth THEN n - 1 - ArchiveDepth ELSE 0) + 1
<1>1. n \in Nat \ {0} /\ DOMAIN accepted = 1..n /\ \A i \in 1..n : accepted[i] \in 0..MaxAttempt
  <2>1. accepted \in Seq(0..MaxAttempt) /\ accepted # <<>>
    BY DEF LeagueShape
  <2>2. n \in Nat /\ DOMAIN accepted = 1..n
    BY <2>1
  <2>4. \A i \in 1..n : accepted[i] \in 0..MaxAttempt
    BY <2>1, ElementOfSeq
  <2>3. n # 0
    BY <2>1
  <2> QED
    BY <2>2, <2>3, <2>4
<1>2. Champion = accepted[n]
  BY DEF Champion, Last
<1>3. /\ past \in Seq(0..MaxAttempt) /\ Len(past) = n - 1
      /\ \A i \in 1..n - 1 : past[i] = accepted[i]
  <2>1. past = SubSeq(accepted, 1, n - 1)
    BY DEF Front
  <2>2. \A i \in 1..n - 1 : accepted[i] \in 0..MaxAttempt
    BY <1>1
  <2> QED
    BY <1>1, <2>1, <2>2, SubSeqProperties
<1> HIDE DEF n
<1>4. from \in 1..n /\ n - 1 - from + 1 <= ArchiveDepth /\ n - 1 - from + 1 \in Nat
  BY <1>1, LeagueAssumption
<1>5. Archives = SubSeq(past, from, n - 1)
  BY <1>3 DEF Archives
<1> HIDE DEF past, from
<1>6. /\ Archives \in Seq(0..MaxAttempt) /\ Len(Archives) = n - 1 - from + 1
      /\ \A i \in 1..n - 1 - from + 1 : Archives[i] = past[from + i - 1]
  <2>1. \A i \in from..n - 1 : past[i] \in 0..MaxAttempt
    BY <1>1, <1>3, <1>4
  <2>2. (IF from <= n - 1 THEN n - 1 - from + 1 ELSE 0) = n - 1 - from + 1
    BY <1>1, <1>4
  <2> QED
    BY <1>1, <1>3, <1>4, <1>5, <2>1, <2>2, SubSeqProperties
<1>7. \A i \in 1..n - 1 - from + 1 : Archives[i] # accepted[n]
  <2> SUFFICES ASSUME NEW i \in 1..n - 1 - from + 1 PROVE Archives[i] # accepted[n]
    OBVIOUS
  <2>1. from + i - 1 \in 1..n - 1 /\ from + i - 1 \in 1..n /\ n \in 1..n /\ from + i - 1 # n
    BY <1>1, <1>4
  <2>2. Archives[i] = accepted[from + i - 1]
    BY <1>3, <1>6, <2>1
  <2> QED
    BY <1>1, <2>1, <2>2 DEF AttemptsAreFresh
<1>8. Champion \notin ToSet(Archives)
  <2>1. DOMAIN Archives = 1..n - 1 - from + 1
    BY <1>6
  <2> QED
    BY <1>2, <1>7, <2>1 DEF ToSet
<1> QED
  BY <1>1, <1>2, <1>4, <1>6, <1>8 DEF AttemptsAreFresh

LEMMA LeagueInitInv == LeagueInit => LeagueInv
<1> SUFFICES ASSUME LeagueInit PROVE LeagueInv
  OBVIOUS
<1>1. PICK n \in 1..MaxAttempt + 1 :
        accepted \in [1..n -> 0..MaxAttempt]
          /\ \A i, j \in 1..n : i < j => accepted[i] < accepted[j]
  BY DEF LeagueInit, Ladders
<1>2. n \in Nat \ {0} /\ accepted \in Seq(0..MaxAttempt) /\ Len(accepted) = n
      /\ DOMAIN accepted = 1..n
  <2>1. n \in Nat \ {0}
    BY LeagueAssumption
  <2>2. accepted \in Seq(0..MaxAttempt) /\ DOMAIN accepted = 1..n
    BY <1>1, <2>1, SeqDef
  <2>3. DOMAIN accepted = 1..Len(accepted) /\ Len(accepted) \in Nat
    BY <2>2, LenProperties
  <2>4. Len(accepted) = n
    BY <2>1, <2>2, <2>3
  <2> QED
    BY <2>1, <2>2, <2>4
<1>3. Last(accepted) = accepted[n] /\ n \in 1..n /\ accepted[n] \in 0..MaxAttempt
  BY <1>1, <1>2 DEF Last
<1>4. /\ attempt \in accepted[n]..MaxAttempt /\ attempt \in 0..MaxAttempt
      /\ pending # NoAttempt => pending = attempt /\ accepted[n] < attempt
      /\ pending \in 0..MaxAttempt \cup {NoAttempt}
  BY <1>3, LeagueAssumption DEF LeagueInit, NoAttempt
<1>5. \A i \in 1..n : accepted[i] \in Int /\ accepted[i] <= accepted[n]
  <2> SUFFICES ASSUME NEW i \in 1..n PROVE accepted[i] \in Int /\ accepted[i] <= accepted[n]
    OBVIOUS
  <2>1. i = n \/ i < n
    BY <1>2
  <2>2. accepted[i] \in 0..MaxAttempt
    BY <1>1
  <2> QED
    BY <1>1, <1>3, <2>1, <2>2
<1>6. LeagueShape
  <2>1. accepted # <<>>
    BY <1>2
  <2>2. models = {} /\ nextGame \in 1..MaxGame + 1 /\ 0 <= ArchiveDepth + 1
    BY LeagueAssumption DEF LeagueInit
  <2> QED
    BY <1>2, <1>4, <2>1, <2>2, FS_EmptySet DEF LeagueShape
<1>7. AttemptsAreFresh
  <2>1. ASSUME NEW i \in 1..n, NEW j \in 1..n, accepted[i] = accepted[j] PROVE i = j
    <3>1. i < j \/ j < i \/ i = j
      BY <1>2
    <3> QED
      BY <1>1, <1>5, <2>1, <3>1
  <2>2. \A i \in 1..n : accepted[i] <= attempt
                        /\ (pending # NoAttempt => accepted[i] < attempt)
    BY <1>3, <1>4, <1>5
  <2> QED
    BY <1>2, <1>4, <2>1, <2>2 DEF AttemptsAreFresh
<1>8. OrdersAreCurrent /\ WorkIsAhead /\ GamesAreOfTheOrder
  BY DEF LeagueInit, OrdersAreCurrent, WorkIsAhead, GamesAreOfTheOrder, ArenaOrder
<1> QED
  BY <1>6, <1>7, <1>8 DEF LeagueInv

LEMMA GenerateInv == LeagueInv /\ Generate => LeagueInv'
<1> SUFFICES ASSUME LeagueInv, Generate PROVE LeagueInv'
  OBVIOUS
<1>1. /\ busy = {} /\ nextGame + GameBatch - 1 <= MaxGame /\ pending = NoAttempt
      /\ UNCHANGED <<accepted, attempt, pending, nextGame, models, job, requests>>
      /\ orders' = Append(orders, GenerateOrder) /\ busy' = {"generate"}
  BY DEF Generate, GenerateOrder
<1>2. GenerateOrder' = GenerateOrder
  BY <1>1 DEF GenerateOrder, Champion, Archives
<1>3. job = "none" /\ orders = <<>>
  BY <1>1 DEF LeagueInv, OrdersAreCurrent
<1>4. orders' = <<GenerateOrder>>
  BY <1>1, <1>3
<1>5. OrdersAreCurrent'
  BY <1>1, <1>2, <1>3, <1>4 DEF OrdersAreCurrent
<1>6. LeagueShape' /\ AttemptsAreFresh'
  BY <1>1 DEF LeagueInv, LeagueShape, AttemptsAreFresh
<1>7. WorkIsAhead'
  BY <1>1 DEF WorkIsAhead
<1>8. GamesAreOfTheOrder'
  BY <1>1, <1>3 DEF LeagueInv, GamesAreOfTheOrder
<1> QED
  BY <1>5, <1>6, <1>7, <1>8 DEF LeagueInv

LEMMA CandidateInv == LeagueInv /\ Candidate => LeagueInv'
<1> SUFFICES ASSUME LeagueInv, Candidate PROVE LeagueInv'
  OBVIOUS
<1>1. /\ pending = NoAttempt /\ attempt < MaxAttempt
      /\ attempt' = attempt + 1 /\ pending' = attempt' /\ busy' = busy \cup {"arena"}
      /\ orders' = Append(orders, ArenaCommand(Champion, attempt'))
      /\ UNCHANGED <<accepted, nextGame, models, job, requests>>
  BY DEF Candidate
<1>2. GenerateOrder' = GenerateOrder /\ ReloadOrder' = ReloadOrder /\ Champion' = Champion
  BY <1>1 DEF GenerateOrder, ReloadOrder, Champion, Archives
<1>3. orders' = Append(orders, ArenaOrder')
  BY <1>1, <1>2 DEF ArenaOrder
<1>4. attempt \in 0..MaxAttempt /\ attempt' \in 0..MaxAttempt /\ pending' # NoAttempt
  BY <1>1, LeagueAssumption DEF LeagueInv, LeagueShape, NoAttempt
<1>5. OrdersAreCurrent'
  <2> HIDE DEF ArenaOrder, GenerateOrder, ReloadOrder
  <2>1. "arena" \notin busy
    BY <1>1 DEF LeagueInv, WorkIsAhead
  <2>2. CASE job = "none" /\ orders = <<>> /\ busy = {}
    <3>1. orders' = <<ArenaOrder'>>
      BY <1>3, <2>2
    <3> QED
      BY <1>1, <2>2, <3>1 DEF OrdersAreCurrent
  <2>3. CASE job = "none" /\ orders = <<GenerateOrder>> /\ busy = {"generate"}
    <3>1. orders' = <<GenerateOrder', ArenaOrder'>>
      <4>1. orders' = Append(<<GenerateOrder>>, ArenaOrder')
        BY <1>3, <2>3
      <4> QED
        BY <1>2, <4>1, OneMore
    <3> QED
      BY <1>1, <2>3, <3>1 DEF OrdersAreCurrent
  <2>4. CASE job = "generate" /\ orders = <<>> /\ busy = {"generate"}
    <3>1. orders' = <<ArenaOrder'>>
      BY <1>3, <2>4
    <3> QED
      BY <1>1, <2>4, <3>1 DEF OrdersAreCurrent
  <2>5. CASE job = "none" /\ orders = <<ReloadOrder>> /\ busy = {"reload"}
    <3>1. orders' = <<ReloadOrder', ArenaOrder'>>
      <4>1. orders' = Append(<<ReloadOrder>>, ArenaOrder')
        BY <1>3, <2>5
      <4> QED
        BY <1>2, <4>1, OneMore
    <3> QED
      BY <1>1, <2>5, <3>1 DEF OrdersAreCurrent
  <2>6. CASE job = "reload" /\ orders = <<>> /\ busy = {"reload"}
    <3>1. orders' = <<ArenaOrder'>>
      BY <1>3, <2>6
    <3> QED
      BY <1>1, <2>6, <3>1 DEF OrdersAreCurrent
  <2> QED
    BY <1>1, <2>1, <2>2, <2>3, <2>4, <2>5, <2>6 DEF LeagueInv, OrdersAreCurrent
<1>6. LeagueShape'
  BY <1>1, <1>4 DEF LeagueInv, LeagueShape
<1>7. AttemptsAreFresh'
  <2>1. \A i \in DOMAIN accepted : accepted[i] \in Int /\ accepted[i] <= attempt
    <3>1. accepted \in Seq(0..MaxAttempt)
      BY DEF LeagueInv, LeagueShape
    <3>2. \A i \in DOMAIN accepted : accepted[i] \in 0..MaxAttempt
      <4>1. DOMAIN accepted = 1..Len(accepted)
        BY <3>1
      <4> QED
        BY <3>1, <4>1, ElementOfSeq
    <3> QED
      BY <3>2 DEF LeagueInv, AttemptsAreFresh
  <2>2. \A i \in DOMAIN accepted : accepted[i] < attempt'
    BY <1>1, <1>4, <2>1
  <2>3. \A i \in DOMAIN accepted : accepted[i] <= attempt'
    BY <1>1, <1>4, <2>1
  <2> QED
    BY <1>1, <2>2, <2>3 DEF LeagueInv, AttemptsAreFresh
<1>8. WorkIsAhead'
  BY <1>1, <1>4 DEF LeagueInv, WorkIsAhead
<1>9. GamesAreOfTheOrder'
  <2>1. job # "arena"
    BY <1>1 DEF LeagueInv, OrdersAreCurrent, WorkIsAhead
  <2> QED
    BY <1>1, <1>2, <2>1 DEF LeagueInv, GamesAreOfTheOrder
<1> QED
  BY <1>5, <1>6, <1>7, <1>8, <1>9 DEF LeagueInv

LEMMA BatchEndsInv == LeagueInv /\ BatchEnds => LeagueInv'
<1> SUFFICES ASSUME LeagueInv, BatchEnds PROVE LeagueInv'
  OBVIOUS
<1>1. /\ job = "generate" /\ job' = "none" /\ requests' = {}
      /\ busy' = busy \ {"generate"} /\ nextGame' = nextGame + GameBatch
      /\ UNCHANGED <<attempt, models, accepted, pending, orders>>
  BY DEF BatchEnds, OrderEnds
<1>2. ArenaOrder' = ArenaOrder
  BY <1>1 DEF ArenaOrder, Champion
<1>3. "generate" \in busy
  BY <1>1 DEF LeagueInv, OrdersAreCurrent
<1>4. OrdersAreCurrent'
  <2>1. CASE orders = <<>> /\ busy = {"generate"}
    BY <1>1, <2>1 DEF OrdersAreCurrent
  <2>2. CASE orders = <<ArenaOrder>> /\ busy = {"generate", "arena"}
    <3>1. orders' = <<ArenaOrder'>> /\ busy' = {"arena"}
      BY <1>1, <1>2, <2>2
    <3> QED
      BY <1>1, <3>1 DEF OrdersAreCurrent
  <2> QED
    BY <1>1, <2>1, <2>2 DEF LeagueInv, OrdersAreCurrent
<1>5. LeagueShape'
  <2>1. nextGame \in 1..MaxGame + 1 /\ nextGame + GameBatch - 1 <= MaxGame
    BY <1>3 DEF LeagueInv, LeagueShape, WorkIsAhead
  <2>2. nextGame' \in 1..MaxGame + 1
    BY <1>1, <2>1, LeagueAssumption
  <2> QED
    BY <1>1, <2>2 DEF LeagueInv, LeagueShape
<1>6. AttemptsAreFresh'
  BY <1>1 DEF LeagueInv, AttemptsAreFresh
<1>7. WorkIsAhead'
  BY <1>1 DEF LeagueInv, WorkIsAhead
<1>8. GamesAreOfTheOrder'
  BY <1>1 DEF GamesAreOfTheOrder
<1> QED
  BY <1>4, <1>5, <1>6, <1>7, <1>8 DEF LeagueInv

LEMMA ArenaEndsInv == LeagueInv /\ ArenaEnds => LeagueInv'
<1> SUFFICES ASSUME LeagueInv, ArenaEnds PROVE LeagueInv'
  OBVIOUS
<1>1. /\ job = "arena" /\ job' = "none" /\ requests' = {}
      /\ pending' = NoAttempt /\ busy' = {"reload"}
      /\ accepted' \in {accepted, Append(accepted, pending)}
      /\ orders' = Append(orders, ReloadOrder')
      /\ UNCHANGED <<attempt, models, nextGame>>
  BY DEF ArenaEnds, OrderEnds, ReloadOrder
<1>2. orders = <<>> /\ "arena" \in busy
  BY <1>1 DEF LeagueInv, OrdersAreCurrent
<1>3. orders' = <<ReloadOrder'>>
  BY <1>1, <1>2
<1>4. /\ pending = attempt /\ attempt \in 0..MaxAttempt
      /\ \A i \in DOMAIN accepted : accepted[i] < attempt
      /\ accepted \in Seq(0..MaxAttempt) /\ accepted # <<>>
  BY <1>2 DEF LeagueInv, WorkIsAhead, AttemptsAreFresh, LeagueShape
<1>5. OrdersAreCurrent'
  BY <1>1, <1>3 DEF OrdersAreCurrent
<1>6. /\ accepted' \in Seq(0..MaxAttempt) /\ accepted' # <<>>
      /\ \A i \in DOMAIN accepted' : accepted'[i] <= attempt
      /\ \A i, j \in DOMAIN accepted' : accepted'[i] = accepted'[j] => i = j
  <2>1. CASE accepted' = accepted
    BY <1>4, <2>1 DEF LeagueInv, AttemptsAreFresh
  <2>2. CASE accepted' = Append(accepted, attempt)
    <3> DEFINE n == Len(accepted)
    <3>1. n \in Nat /\ DOMAIN accepted = 1..n
      BY <1>4
    <3>2. DOMAIN accepted' = 1..n + 1 /\ accepted'[n + 1] = attempt
      BY <1>4, <2>2
    <3>3. \A i \in 1..n : accepted'[i] = accepted[i]
      BY <1>4, <2>2
    <3>4. accepted' \in Seq(0..MaxAttempt) /\ accepted' # <<>>
      BY <1>4, <2>2
    <3>5. \A i \in 1..n : accepted[i] \in 0..MaxAttempt /\ accepted[i] < attempt
      BY <1>4, <3>1, ElementOfSeq
    <3> HIDE DEF n
    <3>6. \A i \in 1..n + 1 : i \in 1..n \/ i = n + 1
      BY <3>1
    <3>7. \A i \in DOMAIN accepted' : accepted'[i] <= attempt
      BY <1>4, <3>2, <3>3, <3>5, <3>6
    <3>8. \A i, j \in DOMAIN accepted' : accepted'[i] = accepted'[j] => i = j
      <4> SUFFICES ASSUME NEW i \in 1..n + 1, NEW j \in 1..n + 1, accepted'[i] = accepted'[j]
                   PROVE  i = j
        BY <3>2
      <4>1. CASE i \in 1..n /\ j \in 1..n
        BY <3>1, <3>3, <4>1 DEF LeagueInv, AttemptsAreFresh
      <4>2. CASE i = n + 1 \/ j = n + 1
        BY <1>4, <3>1, <3>2, <3>3, <3>5, <3>6, <4>2
      <4> QED
        BY <3>6, <4>1, <4>2
    <3> QED
      BY <3>4, <3>7, <3>8
  <2> QED
    BY <1>1, <1>4, <2>1, <2>2
<1>7. LeagueShape'
  BY <1>1, <1>6 DEF LeagueInv, LeagueShape
<1>8. AttemptsAreFresh'
  BY <1>1, <1>6 DEF AttemptsAreFresh
<1>9. WorkIsAhead'
  BY <1>1 DEF WorkIsAhead
<1>10. GamesAreOfTheOrder'
  BY <1>1 DEF GamesAreOfTheOrder
<1> QED
  BY <1>5, <1>7, <1>8, <1>9, <1>10 DEF LeagueInv

LEMMA ReloadEndsInv == LeagueInv /\ ReloadEnds => LeagueInv'
<1> SUFFICES ASSUME LeagueInv, ReloadEnds PROVE LeagueInv'
  OBVIOUS
<1>1. /\ job = "reload" /\ job' = "none" /\ requests' = {} /\ busy' = busy \ {"reload"}
      /\ UNCHANGED <<attempt, models, accepted, pending, nextGame, orders>>
  BY DEF ReloadEnds, OrderEnds
<1>2. \/ orders = <<>> /\ busy = {"reload"}
      \/ orders = <<ArenaOrder>> /\ busy = {"reload", "arena"}
  BY <1>1 DEF LeagueInv, OrdersAreCurrent
<1>3. OrdersAreCurrent'
  <2>1. CASE orders = <<>> /\ busy = {"reload"}
    BY <1>1, <2>1 DEF OrdersAreCurrent
  <2>2. CASE orders = <<ArenaOrder>> /\ busy = {"reload", "arena"}
    <3>1. orders' = <<ArenaOrder'>> /\ busy' = {"arena"}
      BY <1>1, <2>2 DEF ArenaOrder, Champion
    <3> QED
      BY <1>1, <3>1 DEF OrdersAreCurrent
  <2> QED
    BY <1>2, <2>1, <2>2
<1>4. LeagueShape' /\ AttemptsAreFresh'
  BY <1>1 DEF LeagueInv, LeagueShape, AttemptsAreFresh
<1>5. WorkIsAhead' /\ GamesAreOfTheOrder'
  BY <1>1 DEF LeagueInv, WorkIsAhead, GamesAreOfTheOrder
<1> QED
  BY <1>3, <1>4, <1>5 DEF LeagueInv

\* At most the champion and its archive, or a candidate, are loaded.
LEMMA FewAreLoaded ==
  ASSUME LeagueShape, AttemptsAreFresh
  PROVE  /\ Configure(GenerateOrder) \subseteq 0..MaxAttempt
         /\ Cardinality(Configure(GenerateOrder)) <= ArchiveDepth + 1
         /\ Configure(ReloadOrder) = Configure(GenerateOrder)
         /\ pending # NoAttempt =>
              /\ Configure(ArenaOrder) = {Champion, pending}
              /\ Configure(ArenaOrder) \subseteq 0..MaxAttempt
              /\ Cardinality(Configure(ArenaOrder)) <= ArchiveDepth + 1
<1>1. /\ Champion \in 0..MaxAttempt
      /\ Archives \in Seq(0..MaxAttempt) /\ Len(Archives) <= ArchiveDepth
  BY ChampionAndArchives
<1>2. /\ IsFiniteSet(ToSet(Archives)) /\ Cardinality(ToSet(Archives)) <= Len(Archives)
      /\ ToSet(Archives) \subseteq 0..MaxAttempt /\ Cardinality(ToSet(Archives)) \in Nat
  BY <1>1, SequenceSize
<1>3. Len(Archives) \in Nat
  BY <1>1
<1>4. /\ Configure(GenerateOrder) = ToSet(Archives) \cup {Champion}
      /\ Configure(ReloadOrder) = ToSet(Archives) \cup {Champion}
  BY DEF Configure, GenerateOrder, ReloadOrder
<1>5. Cardinality(ToSet(Archives) \cup {Champion}) <= ArchiveDepth + 1
  <2>1. Cardinality(ToSet(Archives) \cup {Champion})
          = IF Champion \in ToSet(Archives) THEN Cardinality(ToSet(Archives))
            ELSE Cardinality(ToSet(Archives)) + 1
    BY <1>2, FS_AddElement
  <2> QED
    BY <1>1, <1>2, <1>3, <2>1, LeagueAssumption
<1>6. ASSUME pending # NoAttempt
      PROVE  /\ Configure(ArenaOrder) = {Champion, pending}
             /\ Configure(ArenaOrder) \subseteq 0..MaxAttempt
             /\ Cardinality(Configure(ArenaOrder)) <= ArchiveDepth + 1
  <2>1. ToSet(<<pending>>) = {pending}
    BY DEF ToSet
  <2>2. Configure(ArenaOrder) = {Champion} \cup {pending}
    BY <2>1 DEF Configure, ArenaOrder, ArenaCommand
  <2>3. IsFiniteSet({Champion}) /\ Cardinality({Champion}) = 1
    BY FS_Singleton
  <2>4. Cardinality({Champion} \cup {pending}) = IF pending \in {Champion} THEN 1 ELSE 1 + 1
    BY <2>3, FS_AddElement
  <2>5. Cardinality({Champion} \cup {pending}) <= ArchiveDepth + 1
    <3>1. ArchiveDepth \in Nat /\ ArchiveDepth >= 1
      BY LeagueAssumption
    <3>2. Cardinality({Champion} \cup {pending}) \in {1, 2}
      BY <2>4
    <3> QED
      BY <3>1, <3>2
  <2>6. pending \in 0..MaxAttempt
    BY <1>6 DEF LeagueShape
  <2> QED
    BY <1>1, <2>2, <2>5, <2>6
<1> QED
  BY <1>1, <1>2, <1>4, <1>5, <1>6

LEMMA TakeInv == LeagueInv /\ Take => LeagueInv'
<1> SUFFICES ASSUME LeagueInv, Take PROVE LeagueInv'
  OBVIOUS
<1>1. /\ job = "none" /\ orders # <<>>
      /\ job' = Head(orders).type /\ orders' = Tail(orders)
      /\ models' = Configure(Head(orders))
      /\ UNCHANGED <<accepted, attempt, pending, nextGame, busy>>
  BY DEF Take, coordinatorVars
<1>2. /\ job' = "generate" => requests' \in Leagues(Head(orders))
      /\ job' = "arena" => requests' \in {{[kind |-> "arena", game |-> 1,
                             gold |-> Head(orders).champion, red |-> Head(orders).others[1]]}}
      /\ job' = "reload" => requests' \in {{}}
  BY DEF Take
<1>3. /\ GenerateOrder' = GenerateOrder /\ ArenaOrder' = ArenaOrder
      /\ ReloadOrder' = ReloadOrder /\ Champion' = Champion
  BY <1>1 DEF GenerateOrder, ArenaOrder, ReloadOrder, Champion, Archives
<1>4. /\ GenerateOrder.type = "generate" /\ ArenaOrder.type = "arena"
      /\ ReloadOrder.type = "reload" /\ ArenaOrder.champion = Champion
      /\ ArenaOrder.others[1] = pending
  BY DEF GenerateOrder, ArenaOrder, ArenaCommand, ReloadOrder
<1>5. LeagueShape /\ AttemptsAreFresh /\ WorkIsAhead
  BY DEF LeagueInv
<1>6. AttemptsAreFresh' /\ WorkIsAhead'
  BY <1>1 DEF LeagueInv, AttemptsAreFresh, WorkIsAhead
<1>7. SUFFICES OrdersAreCurrent' /\ GamesAreOfTheOrder'
               /\ models' \subseteq 0..MaxAttempt /\ Cardinality(models') <= ArchiveDepth + 1
  BY <1>1, <1>5, <1>6 DEF LeagueInv, LeagueShape
<1> HIDE DEF GenerateOrder, ArenaOrder, ReloadOrder
<1>8. CASE orders \in {<<GenerateOrder>>, <<GenerateOrder, ArenaOrder>>}
  <2>1. Head(orders) = GenerateOrder /\ job' = "generate"
    BY <1>1, <1>4, <1>8
  <2>2. models' = Configure(GenerateOrder') /\ requests' \in Leagues(GenerateOrder')
    BY <1>1, <1>2, <1>3, <2>1
  <2>3. GamesAreOfTheOrder'
    BY <2>1, <2>2 DEF GamesAreOfTheOrder
  <2>4. OrdersAreCurrent'
    <3>1. CASE orders = <<GenerateOrder>>
      <4>1. busy = {"generate"} /\ orders' = <<>>
        BY <1>1, <1>4, <3>1, <2>1 DEF LeagueInv, OrdersAreCurrent
      <4> QED
        BY <1>1, <2>1, <4>1 DEF OrdersAreCurrent
    <3>2. CASE orders = <<GenerateOrder, ArenaOrder>>
      <4>1. busy = {"generate", "arena"} /\ orders' = <<ArenaOrder'>>
        BY <1>1, <1>3, <1>4, <3>2, <2>1 DEF LeagueInv, OrdersAreCurrent
      <4> QED
        BY <1>1, <2>1, <4>1 DEF OrdersAreCurrent
    <3> QED
      BY <1>8, <3>1, <3>2
  <2> QED
    BY <1>3, <1>5, <2>2, <2>3, <2>4, FewAreLoaded
<1>9. CASE orders = <<ArenaOrder>>
  <2>1. Head(orders) = ArenaOrder /\ job' = "arena" /\ orders' = <<>>
    BY <1>1, <1>4, <1>9
  <2>2. busy = {"arena"}
    BY <1>1, <1>4, <1>9 DEF LeagueInv, OrdersAreCurrent
  <2>3. models' = Configure(ArenaOrder')
    BY <1>1, <1>3, <2>1
  <2>4. requests' = {[kind |-> "arena", game |-> 1, gold |-> Champion', red |-> pending']}
    BY <1>1, <1>2, <1>3, <1>4, <2>1
  <2>5. GamesAreOfTheOrder'
    BY <2>1, <2>3, <2>4 DEF GamesAreOfTheOrder
  <2>6. OrdersAreCurrent'
    BY <1>1, <2>1, <2>2 DEF OrdersAreCurrent
  <2>7. pending # NoAttempt
    BY <1>5, <2>2 DEF WorkIsAhead
  <2> QED
    BY <1>3, <1>5, <2>3, <2>5, <2>6, <2>7, FewAreLoaded
<1>10. CASE orders \in {<<ReloadOrder>>, <<ReloadOrder, ArenaOrder>>}
  <2>1. Head(orders) = ReloadOrder /\ job' = "reload"
    BY <1>1, <1>4, <1>10
  <2>3. models' = Configure(ReloadOrder) /\ requests' = {}
    BY <1>1, <1>2, <2>1
  <2>4. GamesAreOfTheOrder'
    BY <2>1, <2>3 DEF GamesAreOfTheOrder
  <2>5. OrdersAreCurrent'
    <3>1. CASE orders = <<ReloadOrder>>
      <4>1. busy = {"reload"} /\ orders' = <<>>
        BY <1>1, <1>4, <3>1, <2>1 DEF LeagueInv, OrdersAreCurrent
      <4> QED
        BY <1>1, <2>1, <4>1 DEF OrdersAreCurrent
    <3>2. CASE orders = <<ReloadOrder, ArenaOrder>>
      <4>1. busy = {"reload", "arena"} /\ orders' = <<ArenaOrder'>>
        BY <1>1, <1>3, <1>4, <3>2, <2>1 DEF LeagueInv, OrdersAreCurrent
      <4> QED
        BY <1>1, <2>1, <4>1 DEF OrdersAreCurrent
    <3> QED
      BY <1>10, <3>1, <3>2
  <2> QED
    BY <1>5, <2>3, <2>4, <2>5, FewAreLoaded
<1> QED
  BY <1>1, <1>8, <1>9, <1>10 DEF LeagueInv, OrdersAreCurrent

LEMMA LeagueStepInv == LeagueInv /\ [LeagueNext]_leagueVars => LeagueInv'
<1> SUFFICES ASSUME LeagueInv, [LeagueNext]_leagueVars PROVE LeagueInv'
  OBVIOUS
<1>1. CASE UNCHANGED leagueVars
  BY <1>1 DEF leagueVars, coordinatorVars, LeagueInv, LeagueShape, AttemptsAreFresh,
     OrdersAreCurrent, WorkIsAhead, GamesAreOfTheOrder, GenerateOrder, ArenaOrder,
     ReloadOrder, Champion, Archives
<1> QED
  BY <1>1, GenerateInv, CandidateInv, TakeInv, BatchEndsInv, ArenaEndsInv, ReloadEndsInv
     DEF LeagueNext

-----------------------------------------------------------------------------
(* Shares.                                                                 *)

LEMMA Division ==
  ASSUME NEW a \in Nat, NEW b \in Nat \ {0}
  PROVE  a \div b \in Nat /\ a % b \in 0..b - 1 /\ a = b * (a \div b) + (a % b)
<1>1. a \div b \in Nat
  OBVIOUS
<1>2. a % b \in 0..b - 1
  OBVIOUS
<1>3. a = b * (a \div b) + (a % b)
  OBVIOUS
<1> QED
  BY <1>1, <1>2, <1>3

\* How many of the four kinds are in a set.
LEMMA KindsInSet ==
  ASSUME NEW P, P \subseteq Kinds
  PROVE  LET one(k) == IF k \in P THEN 1 ELSE 0
         IN  /\ IsFiniteSet(P)
             /\ Cardinality(P)
                  = one("champion") + one("archive") + one("uniform") + one("random")
<1> DEFINE one(k) == IF k \in P THEN 1 ELSE 0
           P1 == P \cap {"champion"}
           P2 == P \cap {"champion", "archive"}
           P3 == P \cap {"champion", "archive", "uniform"}
<1>1. IsFiniteSet({}) /\ Cardinality({}) = 0
  BY FS_EmptySet
<1>2. IsFiniteSet(P1) /\ Cardinality(P1) = one("champion")
  <2>1. /\ "champion" \in P => P1 = {} \cup {"champion"}
        /\ "champion" \notin P => P1 = {}
    OBVIOUS
  <2>2. IsFiniteSet({} \cup {"champion"}) /\ Cardinality({} \cup {"champion"}) = 1
    BY <1>1, FS_AddElement
  <2> QED
    BY <1>1, <2>1, <2>2
<1>3. IsFiniteSet(P2) /\ Cardinality(P2) = Cardinality(P1) + one("archive")
  <2>1. /\ "archive" \in P => P2 = P1 \cup {"archive"}
        /\ "archive" \notin P => P2 = P1
        /\ "archive" \notin P1
    OBVIOUS
  <2> HIDE DEF P1, P2
  <2>2. IsFiniteSet(P1 \cup {"archive"}) /\ Cardinality(P1 \cup {"archive"}) = Cardinality(P1) + 1
    BY <1>2, <2>1, FS_AddElement
  <2>3. Cardinality(P1) \in Nat
    BY <1>2
  <2> QED
    BY <1>2, <2>1, <2>2, <2>3
<1>4. IsFiniteSet(P3) /\ Cardinality(P3) = Cardinality(P2) + one("uniform")
  <2>1. /\ "uniform" \in P => P3 = P2 \cup {"uniform"}
        /\ "uniform" \notin P => P3 = P2
        /\ "uniform" \notin P2
    OBVIOUS
  <2> HIDE DEF P1, P2, P3
  <2>2. IsFiniteSet(P2 \cup {"uniform"}) /\ Cardinality(P2 \cup {"uniform"}) = Cardinality(P2) + 1
    BY <1>3, <2>1, FS_AddElement
  <2>3. Cardinality(P2) \in Nat
    BY <1>2, <1>3
  <2> QED
    BY <1>3, <2>1, <2>2, <2>3
<1>5. IsFiniteSet(P) /\ Cardinality(P) = Cardinality(P3) + one("random")
  <2>1. /\ "random" \in P => P = P3 \cup {"random"}
        /\ "random" \notin P => P = P3
        /\ "random" \notin P3
    BY DEF Kinds
  <2> HIDE DEF P1, P2, P3
  <2>2. IsFiniteSet(P3 \cup {"random"}) /\ Cardinality(P3 \cup {"random"}) = Cardinality(P3) + 1
    BY <1>4, <2>1, FS_AddElement
  <2>3. Cardinality(P3) \in Nat
    BY <1>2, <1>3, <1>4
  <2> QED
    BY <1>4, <2>1, <2>2, <2>3
<1> HIDE DEF P1, P2, P3
<1> QED
  BY <1>2, <1>3, <1>4, <1>5

\* The games left over by the rounding are the fractions cut off.
LEMMA WhatIsLeft ==
  /\ \A k \in Kinds : /\ Share(k) \in Nat /\ Fraction(k) \in 0..Parts - 1
                      /\ GameBatch * Weights[k] = Parts * Share(k) + Fraction(k)
  /\ Remainder \in Int
  /\ Parts * Remainder
       = Fraction("champion") + Fraction("archive") + Fraction("uniform") + Fraction("random")
<1> DEFINE w(k) == GameBatch * Weights[k]
<1>1. \A k \in Kinds : w(k) \in Nat
  BY LeagueAssumption
<1>2. \A k \in Kinds : /\ Share(k) = w(k) \div Parts /\ Fraction(k) = w(k) % Parts
  BY DEF Share, Fraction
<1>3. Parts \in Nat \ {0} /\ GameBatch \in Nat
  BY LeagueAssumption
<1>4. {"champion", "archive", "uniform", "random"} = Kinds
  BY DEF Kinds
<1>5. GameBatch * Parts = w("champion") + w("archive") + w("uniform") + w("random")
  <2>1. \A a, b, c, d, e \in Nat : a * (b + c + d + e) = a * b + a * c + a * d + a * e
    OBVIOUS
  <2>2. \A k \in Kinds : Weights[k] \in Nat
    BY LeagueAssumption
  <2>3. Parts = Weights["champion"] + Weights["archive"] + Weights["uniform"] + Weights["random"]
    BY LeagueAssumption
  <2> QED
    BY <1>3, <1>4, <2>1, <2>2, <2>3
<1> HIDE DEF w
<1>6. \A k \in Kinds : /\ Share(k) \in Nat /\ Fraction(k) \in 0..Parts - 1
                       /\ w(k) = Parts * Share(k) + Fraction(k)
  <2> SUFFICES ASSUME NEW k \in Kinds
               PROVE  /\ Share(k) \in Nat /\ Fraction(k) \in 0..Parts - 1
                      /\ w(k) = Parts * Share(k) + Fraction(k)
    OBVIOUS
  <2> DEFINE s == w(k) \div Parts
             f == w(k) % Parts
  <2>1. s \in Nat /\ f \in 0..Parts - 1 /\ w(k) = Parts * s + f
    <3>1. w(k) \in Nat
      BY <1>1
    <3> QED
      BY <1>3, <3>1, Division
  <2>2. Share(k) = s /\ Fraction(k) = f
    BY <1>2
  <2> HIDE DEF s, f
  <2> QED
    BY <2>1, <2>2
<1> DEFINE sum == Share("champion") + Share("archive") + Share("uniform") + Share("random")
<1>7. Remainder = GameBatch - sum /\ sum \in Nat
  BY <1>4, <1>6 DEF Remainder
<1>8. Parts * sum = Parts * Share("champion") + Parts * Share("archive")
                      + Parts * Share("uniform") + Parts * Share("random")
  BY <1>3, <1>4, <1>6
<1>9. Parts * Remainder = Parts * GameBatch - Parts * sum
  BY <1>3, <1>7
<1>10. Remainder \in Int
  BY <1>3, <1>7
<1> HIDE DEF sum
<1>11. Parts * Remainder
         = Fraction("champion") + Fraction("archive") + Fraction("uniform") + Fraction("random")
  <2> DEFINE ps(k) == Parts * Share(k)
  <2>1. \A k \in Kinds : ps(k) \in Nat /\ Fraction(k) \in Nat /\ w(k) = ps(k) + Fraction(k)
    BY <1>3, <1>6
  <2>2. Parts * sum = ps("champion") + ps("archive") + ps("uniform") + ps("random")
    BY <1>8
  <2>3. Parts * GameBatch = w("champion") + w("archive") + w("uniform") + w("random")
    BY <1>3, <1>5
  <2> HIDE DEF ps
  <2> QED
    BY <1>4, <1>9, <2>1, <2>2, <2>3
<1> QED
  BY <1>6, <1>10, <1>11 DEF w

\* Of the kinds with nothing cut off, none gets a game left over: there are fewer
\* such games than kinds with a fraction, and those come first.
LEMMA NothingForWhole ==
  ASSUME NEW kind \in Kinds, Fraction(kind) = 0
  PROVE  ~(Cardinality({k \in Kinds : Before(k, kind)}) < Remainder)
<1> DEFINE P       == {k \in Kinds : Fraction(k) > 0}
           one(k)  == IF k \in P THEN 1 ELSE 0
           ahead   == {k \in Kinds : Before(k, kind)}
<1>1. Parts \in Nat \ {0} /\ \A k \in Kinds : Fraction(k) \in 0..Parts - 1
  BY WhatIsLeft, LeagueAssumption
<1>2. {"champion", "archive", "uniform", "random"} = Kinds
  BY DEF Kinds
<1>3. P \subseteq ahead /\ P \subseteq Kinds /\ ahead \subseteq Kinds
  BY DEF Before
<1>4. /\ IsFiniteSet(P)
      /\ Cardinality(P) = one("champion") + one("archive") + one("uniform") + one("random")
  BY <1>3, KindsInSet
<1>5. Cardinality(P) <= Cardinality(ahead) /\ Cardinality(ahead) \in Nat
  <2>1. IsFiniteSet(ahead)
    BY <1>3, KindsInSet
  <2> HIDE DEF P, ahead
  <2> QED
    BY <1>3, <2>1, FS_Subset, FS_CardinalityType
<1>6. \A k \in Kinds : one(k) \in 0..1 /\ (one(k) = 0 => Fraction(k) = 0)
  BY <1>1
<1> HIDE DEF P, one, ahead
<1> DEFINE n == Cardinality(P)
<1>7. n \in 0..4
  BY <1>2, <1>4, <1>6
<1>8. Fraction("champion") + Fraction("archive") + Fraction("uniform") + Fraction("random")
        <= n * (Parts - 1)
  <2>1. \A k \in Kinds : /\ one(k) = 0 \/ one(k) = 1
                         /\ Fraction(k) <= IF one(k) = 1 THEN Parts - 1 ELSE 0
    BY <1>1, <1>6
  <2>2. \A k \in Kinds : Fraction(k) <= one(k) * (Parts - 1) /\ Fraction(k) \in Nat
    BY <1>1, <2>1
  <2>3. n * (Parts - 1) = one("champion") * (Parts - 1) + one("archive") * (Parts - 1)
                            + one("uniform") * (Parts - 1) + one("random") * (Parts - 1)
    <3>1. \A a, b, c, d, e \in Int : (a + b + c + d) * e = a * e + b * e + c * e + d * e
      OBVIOUS
    <3>2. Parts - 1 \in Int /\ \A k \in Kinds : one(k) \in Int
      BY <1>1, <1>6
    <3> QED
      BY <1>2, <1>4, <3>1, <3>2
  <2> DEFINE most(k) == one(k) * (Parts - 1)
  <2>4. \A k \in Kinds : Fraction(k) <= most(k) /\ Fraction(k) \in Nat /\ most(k) \in Int
    BY <1>1, <1>6, <2>2
  <2>5. n * (Parts - 1) = most("champion") + most("archive") + most("uniform") + most("random")
    BY <2>3
  <2> HIDE DEF most
  <2> QED
    BY <1>2, <2>4, <2>5
<1>9. Parts * Remainder <= n * (Parts - 1) /\ Remainder \in Int
  BY <1>8, WhatIsLeft
<1> HIDE DEF n
<1>10. n \in 0..4 => Remainder <= n
  <2> SUFFICES ASSUME n \in 0..4, Remainder >= n + 1 PROVE FALSE
    BY <1>9
  <2>1. PICK d \in Nat : Remainder = n + 1 + d
    <3>1. Remainder - n - 1 \in Nat /\ Remainder = n + 1 + (Remainder - n - 1)
      BY <1>9
    <3> QED
      BY <3>1
  <2>2. Parts * Remainder = n * Parts + Parts + Parts * d /\ Parts * d \in Nat /\ n * Parts \in Nat
    BY <1>1, <2>1
  <2>3. n * (Parts - 1) = n * Parts - n
    BY <1>1
  <2> QED
    BY <1>1, <1>9, <2>2, <2>3
<1> QED
  BY <1>5, <1>7, <1>10, <1>9 DEF n, ahead

\* The largest fractions are rounded up: a kind is within a game of its share.
LEMMA SharesAreKept ==
  ASSUME NEW kind \in Kinds
  PROVE  /\ Allocated[kind] \in Nat
         /\ Parts * Allocated[kind] - GameBatch * Weights[kind] \in -Parts + 1..Parts - 1
<1> DEFINE extra == IF Cardinality({k \in Kinds : Before(k, kind)}) < Remainder THEN 1 ELSE 0
<1>1. Allocated[kind] = Share(kind) + extra
  BY DEF Allocated
<1>2. Fraction(kind) = 0 => extra = 0
  BY NothingForWhole
<1>3. extra \in 0..1
  OBVIOUS
<1> HIDE DEF extra
<1>4. /\ Share(kind) \in Nat /\ Fraction(kind) \in 0..Parts - 1 /\ Parts \in Nat \ {0}
      /\ GameBatch * Weights[kind] = Parts * Share(kind) + Fraction(kind)
  BY WhatIsLeft, LeagueAssumption
<1>5. Parts * Allocated[kind] = Parts * Share(kind) + Parts * extra
  BY <1>1, <1>3, <1>4
<1>6. Parts * extra = IF extra = 1 THEN Parts ELSE 0
  BY <1>3, <1>4
<1>7. Parts * Allocated[kind] - GameBatch * Weights[kind]
        = (IF extra = 1 THEN Parts ELSE 0) - Fraction(kind)
  <2> DEFINE p == Parts * Share(kind)
  <2>1. p \in Int
    BY <1>4
  <2>2. /\ Parts * Allocated[kind] = p + (IF extra = 1 THEN Parts ELSE 0)
        /\ GameBatch * Weights[kind] = p + Fraction(kind)
    BY <1>4, <1>5, <1>6
  <2> HIDE DEF p
  <2> QED
    BY <1>4, <2>1, <2>2
<1>8. (IF extra = 1 THEN Parts ELSE 0) - Fraction(kind) \in -Parts + 1..Parts - 1
  BY <1>2, <1>3, <1>4
<1> QED
  BY <1>1, <1>3, <1>4, <1>7, <1>8

-----------------------------------------------------------------------------
(* Colours.                                                                *)

\* As many values as arguments, if no two arguments share one.
LEMMA ImageSize ==
  ASSUME NEW S, IsFiniteSet(S), NEW f, \A x, y \in S : f[x] = f[y] => x = y
  PROVE  LET values == {f[x] : x \in S}
         IN  IsFiniteSet(values) /\ Cardinality(values) = Cardinality(S)
<1> DEFINE values == {f[x] : x \in S}
           g      == [x \in S |-> f[x]]
<1>1. g \in [S -> values] /\ \A x, y \in S : g[x] = g[y] => x = y
  OBVIOUS
<1>2. \A v \in values : \E x \in S : g[x] = v
  OBVIOUS
<1>3. g \in Bijection(S, values)
  BY <1>1, <1>2, Fun_IsBij
<1> QED
  BY <1>3, FS_Bijection DEF ExistsBijection

\* Of the first n numbers, half are even, or one more.
LEMMA EvenNumbers ==
  ASSUME NEW n \in Nat
  PROVE  LET even == {o \in 0..n - 1 : o % 2 = 0}
             odd  == {o \in 0..n - 1 : o % 2 = 1}
         IN  /\ IsFiniteSet(even) /\ IsFiniteSet(odd)
             /\ Cardinality(even) - Cardinality(odd) \in {0, 1}
<1>0. PICK zero \in Nat : zero = 0 /\ zero % 2 = 0
  OBVIOUS
<1> DEFINE p       == n \div 2
           some(r) == {g \in zero..zero + 2 * p - 1 : g % 2 = r}
           even    == {o \in 0..n - 1 : o % 2 = 0}
           odd     == {o \in 0..n - 1 : o % 2 = 1}
<1>1. p \in Nat /\ (n = 2 * p \/ n = 2 * p + 1)
  OBVIOUS
<1>2. /\ IsFiniteSet(some(0)) /\ Cardinality(some(0)) = p
      /\ IsFiniteSet(some(1)) /\ Cardinality(some(1)) = p
  <2> HIDE DEF p
  <2>1. \A r \in 0..1 : IsFiniteSet(some(r)) /\ Cardinality(some(r)) = p
    <3> TAKE r \in 0..1
    <3>1. zero \in Nat /\ zero % 2 = 0 /\ p \in Nat
      BY <1>0, <1>1
    <3> QED
      BY <3>1, EveryOther
  <2>2. 0 \in 0..1 /\ 1 \in 0..1
    OBVIOUS
  <2> HIDE DEF some
  <2> QED
    BY <2>1, <2>2
<1> HIDE DEF p
<1>3. CASE n = 2 * p
  <2>1. even = some(0) /\ odd = some(1)
    BY <1>0, <1>1, <1>3
  <2>2. p - p \in {0, 1}
    BY <1>1
  <2> HIDE DEF some, even, odd
  <2>3. IsFiniteSet(even) /\ IsFiniteSet(odd) /\ Cardinality(even) - Cardinality(odd) \in {0, 1}
    BY <1>2, <2>1, <2>2
  <2> QED
    BY <2>3 DEF even, odd
<1>4. CASE n = 2 * p + 1
  <2>1. 0..n - 1 = (zero..zero + 2 * p - 1) \cup {2 * p}
        /\ 2 * p \notin zero..zero + 2 * p - 1
    BY <1>0, <1>1, <1>4
  <2>2. (2 * p) % 2 = 0
    BY <1>1
  <2>3. even = some(0) \cup {2 * p} /\ odd = some(1) /\ 2 * p \notin some(0)
    BY <2>1, <2>2
  <2> HIDE DEF some, even, odd
  <2>4. IsFiniteSet(even) /\ Cardinality(even) = p + 1
    BY <1>2, <2>3, FS_AddElement
  <2>5. \A a, b : a = p + 1 /\ b = p => a - b \in {0, 1}
    BY <1>1
  <2>6. IsFiniteSet(odd) /\ Cardinality(odd) = p
    BY <1>2, <2>3
  <2>7. Cardinality(even) - Cardinality(odd) \in {0, 1}
    BY ONLY <2>4, <2>5, <2>6
  <2> QED
    BY <2>4, <2>6, <2>7 DEF even, odd
<1> QED
  BY <1>1, <1>3, <1>4

\* The games of a kind are numbered by how many came before, from 0 on.
LEMMA OffsetsNumber ==
  ASSUME NEW kinds \in [1..GameBatch -> Kinds], NEW kind \in Kinds
  PROVE  LET some == {i \in 1..GameBatch : kinds[i] = kind}
         IN  /\ IsFiniteSet(some) /\ Cardinality(some) \in Nat
             /\ \A i \in some : Offset(kinds, i) \in 0..Cardinality(some) - 1
             /\ \A i, j \in some : Offset(kinds, i) = Offset(kinds, j) => i = j
             /\ \A o \in 0..Cardinality(some) - 1 : \E i \in some : Offset(kinds, i) = o
<1> DEFINE some      == {i \in 1..GameBatch : kinds[i] = kind}
           before(i) == {j \in 1..i - 1 : kinds[j] = kind}
           n         == Cardinality(some)
<1>1. GameBatch \in Nat /\ 1 \in Nat /\ 1 + GameBatch - 1 = GameBatch
  BY LeagueAssumption
<1>2. IsFiniteSet(some) /\ n \in Nat
  <2>1. IsFiniteSet(1..1 + GameBatch - 1)
    BY <1>1, IntervalSize
  <2>2. some \subseteq 1..GameBatch
    OBVIOUS
  <2> HIDE DEF some
  <2> QED
    BY <1>1, <2>1, <2>2, FS_Subset, FS_CardinalityType
<1>3. \A i \in some : Offset(kinds, i) = Cardinality(before(i))
  BY DEF Offset
<1>4. \A i \in some : before(i) \subseteq some /\ i \notin before(i)
  BY <1>1
<1>5. \A i \in some : IsFiniteSet(before(i)) /\ Cardinality(before(i)) \in Nat
  <2> HIDE DEF some, before
  <2> QED
    BY <1>2, <1>4, FS_Subset, FS_CardinalityType
<1>6. \A i \in some : Cardinality(before(i)) \in 0..n - 1
  <2> SUFFICES ASSUME NEW i \in some PROVE Cardinality(before(i)) \in 0..n - 1
    OBVIOUS
  <2>1. before(i) \cup {i} \subseteq some
    BY <1>4
  <2> HIDE DEF some, before
  <2>2. Cardinality(before(i) \cup {i}) = Cardinality(before(i)) + 1
    BY <1>4, <1>5, FS_AddElement
  <2>3. Cardinality(before(i) \cup {i}) <= n
    BY <1>2, <2>1, FS_Subset
  <2> HIDE DEF n
  <2> QED
    BY <1>2, <1>5, <2>2, <2>3
<1>7. \A i, j \in some : i < j => Cardinality(before(i)) < Cardinality(before(j))
  <2> SUFFICES ASSUME NEW i \in some, NEW j \in some, i < j
               PROVE  Cardinality(before(i)) < Cardinality(before(j))
    OBVIOUS
  <2>1. before(i) \cup {i} \subseteq before(j)
    BY <1>1
  <2> HIDE DEF some, before
  <2>2. Cardinality(before(i) \cup {i}) = Cardinality(before(i)) + 1
    BY <1>4, <1>5, FS_AddElement
  <2>3. Cardinality(before(i) \cup {i}) <= Cardinality(before(j))
    BY <1>5, <2>1, FS_Subset
  <2> QED
    BY <1>5, <2>2, <2>3
<1>8. \A i, j \in some : Cardinality(before(i)) = Cardinality(before(j)) => i = j
  <2> SUFFICES ASSUME NEW i \in some, NEW j \in some,
                      Cardinality(before(i)) = Cardinality(before(j))
               PROVE  i = j
    OBVIOUS
  <2>1. i \in Int /\ j \in Int
    BY <1>1
  <2>2. ~(i < j) /\ ~(j < i)
    <3> HIDE DEF some, before
    <3> QED
      BY <1>5, <1>7
  <2> QED
    BY <2>1, <2>2
<1>9. \A o \in 0..n - 1 : \E i \in some : Cardinality(before(i)) = o
  <2> DEFINE f == [i \in some |-> Cardinality(before(i))]
  <2> HIDE DEF some, before, n
  <2>1. f \in Injection(some, 0..n - 1)
    BY <1>6, <1>8, Fun_IsInj
  <2>2. IsFiniteSet(0..0 + n - 1) /\ Cardinality(0..0 + n - 1) = n /\ 0 + n - 1 = n - 1
    BY <1>2, IntervalSize
  <2>3. f \in Surjection(some, 0..n - 1)
    BY <2>1, <2>2, FS_Injection DEF n
  <2>4. \A o \in 0..n - 1 : \E i \in some : f[i] = o
    BY <2>3 DEF Surjection
  <2> QED
    BY <2>4
<1> HIDE DEF before
<1> QED
  BY <1>2, <1>3, <1>6, <1>8, <1>9

\* Of the games of a kind, half have an even number, or one more.
LEMMA ColoursAlternate ==
  ASSUME NEW kinds \in [1..GameBatch -> Kinds], NEW kind \in Kinds
  PROVE  LET red  == {i \in 1..GameBatch : kinds[i] = kind /\ Offset(kinds, i) % 2 = 0}
             gold == {i \in 1..GameBatch : kinds[i] = kind /\ Offset(kinds, i) % 2 # 0}
         IN  /\ IsFiniteSet(red) /\ IsFiniteSet(gold)
             /\ Cardinality(red) - Cardinality(gold) \in {0, 1}
<1> DEFINE red     == {i \in 1..GameBatch : kinds[i] = kind /\ Offset(kinds, i) % 2 = 0}
           gold    == {i \in 1..GameBatch : kinds[i] = kind /\ Offset(kinds, i) % 2 # 0}
           some    == {i \in 1..GameBatch : kinds[i] = kind}
           n       == Cardinality(some)
           even    == {o \in 0..n - 1 : o % 2 = 0}
           odd     == {o \in 0..n - 1 : o % 2 = 1}
           f       == [i \in 1..GameBatch |-> Offset(kinds, i)]
<1>1. /\ IsFiniteSet(some) /\ n \in Nat
      /\ \A i \in some : Offset(kinds, i) \in 0..n - 1
      /\ \A i, j \in some : Offset(kinds, i) = Offset(kinds, j) => i = j
      /\ \A o \in 0..n - 1 : \E i \in some : Offset(kinds, i) = o
  BY OffsetsNumber
<1>2. /\ red \subseteq some /\ gold \subseteq some
      /\ \A i \in some : i \in 1..GameBatch /\ (i \in red <=> Offset(kinds, i) % 2 = 0)
      /\ \A i \in some : i \in gold <=> Offset(kinds, i) % 2 # 0
  OBVIOUS
<1>3. \A o \in 0..n - 1 : o % 2 = 0 \/ o % 2 = 1
  BY <1>1
<1> HIDE DEF some, n, red, gold
<1>4. IsFiniteSet(red) /\ IsFiniteSet(gold)
  BY <1>1, <1>2, FS_Subset
<1>5. \A i \in some : f[i] = Offset(kinds, i)
  BY <1>2
<1> HIDE DEF f
<1>6. {f[i] : i \in red} = even
  BY <1>1, <1>2, <1>5
<1>7. {f[i] : i \in gold} = odd
  <2>1. ~(0 = 1)
    OBVIOUS
  <2>2. \A i \in gold : i \in some /\ f[i] \in 0..n - 1 /\ f[i] % 2 = 1
    <3> SUFFICES ASSUME NEW i \in gold PROVE i \in some /\ f[i] \in 0..n - 1 /\ f[i] % 2 = 1
      OBVIOUS
    <3>1. i \in some /\ Offset(kinds, i) % 2 # 0
      BY <1>2
    <3>2. Offset(kinds, i) \in 0..n - 1
      BY <1>1, <3>1
    <3>3. Offset(kinds, i) % 2 = 1
      BY <1>3, <3>1, <3>2
    <3> QED
      BY <1>5, <3>1, <3>2, <3>3
  <2>3. \A i \in gold : f[i] \in odd
    BY <2>2
  <2>4. \A o \in odd : \E i \in some : f[i] = o
    BY <1>1, <1>5
  <2>5. \A o \in odd : \E i \in gold : f[i] = o
    <3> SUFFICES ASSUME NEW o \in odd PROVE \E i \in gold : f[i] = o
      OBVIOUS
    <3>1. PICK i \in some : f[i] = o
      BY <2>4
    <3>2. o % 2 = 1 /\ o % 2 # 0
      OBVIOUS
    <3>3. i \in gold
      BY <1>2, <1>5, <3>1, <3>2
    <3> QED
      BY <3>1, <3>3
  <2> QED
    BY <2>3, <2>5
<1>8. \A i, j \in some : f[i] = f[j] => i = j
  BY <1>1, <1>5
<1>9. Cardinality(even) = Cardinality(red)
  BY <1>2, <1>4, <1>6, <1>8, ImageSize
<1>10. Cardinality(odd) = Cardinality(gold)
  BY <1>2, <1>4, <1>7, <1>8, ImageSize
<1>11. Cardinality(even) - Cardinality(odd) \in {0, 1}
  BY <1>1, EvenNumbers
<1> QED
  BY <1>4, <1>9, <1>10, <1>11 DEF red, gold

-----------------------------------------------------------------------------
(* The games of a batch.                                                   *)

\* The number of a network is below half of the range, the number of a baseline
\* player above it, and its parity says which of the two it is.
LEMMA NumbersSayWho ==
  /\ \A id \in 0..MaxAttempt : Kind(id) = "network" /\ id \in Ids
  /\ \A game \in 1..MaxGame : /\ BaselineId(game) \in Ids /\ BaselineId(game) \notin 0..MaxAttempt
                              /\ Kind(BaselineId(game)) = "uniform"
  /\ RandomId \in Ids /\ RandomId \notin 0..MaxAttempt /\ Kind(RandomId) = "random"
<1>1. /\ Half \in Nat \ {0, 1} /\ MaxAttempt \in Nat /\ MaxAttempt < Half
      /\ MaxGame \in Nat /\ 2 * MaxGame < Half
  BY LeagueAssumption
<1>2. \A id \in 0..MaxAttempt : id < Half /\ id \in Ids
  BY <1>1 DEF Ids, UniformId
<1>3. \A game \in 1..MaxGame : /\ BaselineId(game) \in Ids /\ ~(BaselineId(game) < Half)
                               /\ (UniformId - BaselineId(game)) % 2 = 0
  <2> SUFFICES ASSUME NEW game \in 1..MaxGame
               PROVE  /\ BaselineId(game) \in Ids /\ ~(BaselineId(game) < Half)
                      /\ (UniformId - BaselineId(game)) % 2 = 0
    OBVIOUS
  <2>1. BaselineId(game) = 2 * Half - 1 - 2 * game /\ UniformId = 2 * Half - 1
    BY DEF BaselineId, UniformId
  <2>2. BaselineId(game) \in 0..2 * Half - 1 /\ ~(BaselineId(game) < Half)
    BY <1>1, <2>1
  <2>3. UniformId - BaselineId(game) = 2 * game /\ (2 * game) % 2 = 0
    BY <1>1, <2>1
  <2> QED
    BY <2>1, <2>2, <2>3 DEF Ids
<1>4. RandomId \in Ids /\ ~(RandomId < Half) /\ (UniformId - RandomId) % 2 # 0
  <2>1. RandomId = 2 * Half - 2 /\ UniformId = 2 * Half - 1
    BY DEF RandomId, UniformId
  <2>2. RandomId \in 0..2 * Half - 1 /\ ~(RandomId < Half) /\ UniformId - RandomId = 1
    <3>1. (2 * Half - 1) - (2 * Half - 2) = 1 /\ ~(2 * Half - 2 < Half)
      BY <1>1
    <3> QED
      BY <1>1, <2>1, <3>1
  <2>3. 1 % 2 # 0
    OBVIOUS
  <2> QED
    BY <2>1, <2>2, <2>3 DEF Ids
<1> QED
  BY <1>2, <1>3, <1>4 DEF Kind

\* Game by game: whose turn it is to be red, and who the opponent is.
GameIsOfTheBatch(kinds, R, opponent, i) ==
  /\ R[i].kind = kinds[i] /\ R[i].game = nextGame + i - 1
  /\ Offset(kinds, i) % 2 = 0 => R[i].red = Champion /\ R[i].gold = opponent[i]
  /\ Offset(kinds, i) % 2 # 0 => R[i].red = opponent[i] /\ R[i].gold = Champion
  /\ opponent[i] \in Ids
  /\ kinds[i] = "champion" <=> opponent[i] = Champion
  /\ kinds[i] \in {"uniform", "random"} =>
       opponent[i] \notin models /\ Kind(opponent[i]) = kinds[i]
  /\ kinds[i] \notin {"uniform", "random"} =>
       opponent[i] \in models /\ Kind(opponent[i]) = "network"

BatchOf(kinds, R, opponent) ==
  /\ kinds \in Shuffles(Counts(Archives))
  /\ requests = {R[i] : i \in 1..GameBatch}
  /\ \A i \in 1..GameBatch : GameIsOfTheBatch(kinds, R, opponent, i)

LEMMA TheBatch ==
  ASSUME LeagueInv, job = "generate"
  PROVE  \E kinds, R, opponent : BatchOf(kinds, R, opponent)
<1>1. /\ LeagueShape /\ AttemptsAreFresh
      /\ models = Configure(GenerateOrder) /\ requests \in Leagues(GenerateOrder)
  BY DEF LeagueInv, GamesAreOfTheOrder
<1>2. /\ GenerateOrder.others = Archives /\ GenerateOrder.first = nextGame
      /\ GenerateOrder.champion = Champion
  BY DEF GenerateOrder
<1> DEFINE games(kinds, past) ==
             {Request(kinds, i, GenerateOrder,
                      IF kinds[i] = "archive" THEN past[i] ELSE NoAttempt) : i \in 1..GameBatch}
           pasts(kinds) == [{i \in 1..GameBatch : kinds[i] = "archive"} -> ToSet(Archives)]
<1> HIDE DEF GenerateOrder
<1>3. PICK kinds \in Shuffles(Counts(Archives)) :
        \E past \in pasts(kinds) : requests = games(kinds, past)
  <2>1. Leagues(GenerateOrder)
          = UNION {{games(kinds, past) : past \in pasts(kinds)} :
                     kinds \in Shuffles(Counts(Archives))}
    BY <1>2 DEF Leagues
  <2> HIDE DEF games, pasts
  <2> QED
    BY <1>1, <2>1
<1>4. PICK past \in [{i \in 1..GameBatch : kinds[i] = "archive"} -> ToSet(Archives)] :
        requests = {Request(kinds, i, GenerateOrder,
                            IF kinds[i] = "archive" THEN past[i] ELSE NoAttempt) :
                      i \in 1..GameBatch}
  BY <1>3
<1> DEFINE archive(i) == IF kinds[i] = "archive" THEN past[i] ELSE NoAttempt
           R          == [i \in 1..GameBatch |-> Request(kinds, i, GenerateOrder, archive(i))]
           game(i)    == nextGame + i - 1
           opponent   == [i \in 1..GameBatch |->
                            Opponent(kinds[i], game(i), Champion, archive(i))]
<1>5. requests = {R[i] : i \in 1..GameBatch}
  BY <1>4
<1>6. ASSUME NEW i \in 1..GameBatch PROVE GameIsOfTheBatch(kinds, R, opponent, i)
  <2>1. R[i] = Request(kinds, i, GenerateOrder, archive(i))
        /\ opponent[i] = Opponent(kinds[i], game(i), Champion, archive(i))
    OBVIOUS
  <2>2. kinds[i] \in Kinds
    BY DEF Shuffles
  <2>3. kinds[i] = "archive" => archive(i) \in ToSet(Archives)
    OBVIOUS
  <2> HIDE DEF archive, R, opponent, game
  <2>4. /\ Offset(kinds, i) % 2 = 0 =>
             R[i] = [kind |-> kinds[i], game |-> game(i), red |-> Champion, gold |-> opponent[i]]
        /\ Offset(kinds, i) % 2 # 0 =>
             R[i] = [kind |-> kinds[i], game |-> game(i), red |-> opponent[i], gold |-> Champion]
    BY <1>2, <2>1 DEF Request, game
  <2>5. game(i) \in 1..MaxGame
    <3>1. "generate" \in busy
      BY DEF LeagueInv, OrdersAreCurrent
    <3>2. nextGame \in 1..MaxGame + 1 /\ nextGame + GameBatch - 1 <= MaxGame
      BY <1>1, <3>1 DEF LeagueInv, LeagueShape, WorkIsAhead
    <3> QED
      BY <3>2, LeagueAssumption DEF game
  <2>6. /\ Champion \in 0..MaxAttempt /\ ToSet(Archives) \subseteq 0..MaxAttempt
        /\ Champion \notin ToSet(Archives)
    BY <1>1, ChampionAndArchives, SequenceSize
  <2>7. models = {Champion} \cup ToSet(Archives)
    BY <1>1, <1>2 DEF Configure
  <2>8. /\ kinds[i] = "champion" => opponent[i] = Champion
        /\ kinds[i] = "archive" => opponent[i] \in ToSet(Archives)
        /\ kinds[i] = "uniform" => opponent[i] = BaselineId(game(i))
        /\ kinds[i] = "random" => opponent[i] = RandomId
    BY <2>1, <2>3 DEF Opponent
  <2>9. /\ opponent[i] \in Ids
        /\ kinds[i] = "champion" <=> opponent[i] = Champion
        /\ kinds[i] \in {"uniform", "random"} =>
             opponent[i] \notin models /\ Kind(opponent[i]) = kinds[i]
        /\ kinds[i] \notin {"uniform", "random"} =>
             opponent[i] \in models /\ Kind(opponent[i]) = "network"
    <3>1. CASE kinds[i] = "champion"
      BY <2>6, <2>7, <2>8, <3>1, NumbersSayWho
    <3>2. CASE kinds[i] = "archive"
      BY <2>6, <2>7, <2>8, <3>2, NumbersSayWho
    <3>3. CASE kinds[i] = "uniform"
      BY <2>5, <2>6, <2>7, <2>8, <3>3, NumbersSayWho
    <3>4. CASE kinds[i] = "random"
      BY <2>6, <2>7, <2>8, <3>4, NumbersSayWho
    <3> QED
      BY <2>2, <3>1, <3>2, <3>3, <3>4 DEF Kinds
  <2> QED
    BY <2>4, <2>9 DEF GameIsOfTheBatch, game
<1> HIDE DEF archive, R, opponent, game
<1> QED
  BY <1>3, <1>5, <1>6 DEF BatchOf

\* The games of a batch that are of a kind.
GamesWith(kinds, kind) == {i \in 1..GameBatch : kinds[i] = kind}

\* The games of a kind are within one of its share.
LEMMA KindsInShare ==
  ASSUME NEW archives, NEW kinds \in Shuffles(Counts(archives)),
         NEW kind \in {"archive", "uniform", "random"},
         kind = "archive" => \E i \in 1..GameBatch : kinds[i] = kind
  PROVE  Parts * Cardinality(GamesWith(kinds, kind)) - GameBatch * Weights[kind]
           \in -Parts + 1..Parts - 1
<1> DEFINE some == {i \in 1..GameBatch : kinds[i] = kind}
<1>1. kinds \in [1..GameBatch -> Kinds] /\ kind \in Kinds
      /\ Cardinality(some) = Counts(archives)[kind]
  BY DEF Shuffles, Kinds
<1>2. Counts(archives)[kind] = IF archives = <<>> /\ kind = "archive" THEN 0 ELSE Allocated[kind]
  <2>1. DOMAIN Allocated = Kinds
    BY DEF Allocated
  <2> QED
    BY <1>1, <2>1 DEF Counts, Kinds
<1>3. ~(archives = <<>> /\ kind = "archive")
  <2> SUFFICES ASSUME archives = <<>>, kind = "archive" PROVE FALSE
    OBVIOUS
  <2>1. some # {}
    OBVIOUS
  <2>2. IsFiniteSet(some)
    BY <1>1, OffsetsNumber
  <2>3. Cardinality(some) = 0
    BY <1>1, <1>2
  <2> HIDE DEF some
  <2> QED
    BY <2>1, <2>2, <2>3, FS_EmptySet
<1>4. Cardinality(some) = Allocated[kind]
  BY <1>1, <1>2, <1>3
<1> HIDE DEF some
<1>5. Parts * Cardinality(some) - GameBatch * Weights[kind] \in -Parts + 1..Parts - 1
  BY <1>1, <1>4, SharesAreKept
<1> QED
  BY <1>5 DEF some, GamesWith

\* As many games of a kind as were dealt to it, and the champion is red in every
\* other one of them.
LEMMA GamesOfAKind ==
  ASSUME LeagueShape, NEW kinds, NEW R, NEW opponent, BatchOf(kinds, R, opponent),
         NEW kind \in Kinds
  PROVE  /\ Cardinality(OfKind(kind)) = Cardinality(GamesWith(kinds, kind))
         /\ OfKind(kind) # {} => \E i \in 1..GameBatch : kinds[i] = kind
         /\ kind # "champion" =>
              Cardinality({r \in OfKind(kind) : r.red = Champion})
                - Cardinality({r \in OfKind(kind) : r.gold = Champion}) \in {0, 1}
<1> DEFINE some == {i \in 1..GameBatch : kinds[i] = kind}
           red  == {i \in 1..GameBatch : kinds[i] = kind /\ Offset(kinds, i) % 2 = 0}
           gold == {i \in 1..GameBatch : kinds[i] = kind /\ Offset(kinds, i) % 2 # 0}
           reds  == {r \in OfKind(kind) : r.red = Champion}
           golds == {r \in OfKind(kind) : r.gold = Champion}
<1>1. /\ kinds \in [1..GameBatch -> Kinds]
      /\ requests = {R[i] : i \in 1..GameBatch}
      /\ \A i \in 1..GameBatch : GameIsOfTheBatch(kinds, R, opponent, i)
  BY DEF BatchOf, Shuffles
<1>2. IsFiniteSet(some)
  BY <1>1, OffsetsNumber
<1>3. IsFiniteSet(red) /\ IsFiniteSet(gold) /\ Cardinality(red) - Cardinality(gold) \in {0, 1}
  BY <1>1, ColoursAlternate
<1>4. \A i, j \in 1..GameBatch : R[i] = R[j] => i = j
  <2> SUFFICES ASSUME NEW i \in 1..GameBatch, NEW j \in 1..GameBatch, R[i] = R[j] PROVE i = j
    OBVIOUS
  <2>1. nextGame + i - 1 = nextGame + j - 1
    BY <1>1 DEF GameIsOfTheBatch
  <2>2. nextGame \in Int /\ i \in Int /\ j \in Int
    BY LeagueAssumption DEF LeagueShape
  <2> QED
    BY <2>1, <2>2
<1>5. \A i \in 1..GameBatch : R[i].kind = kinds[i]
  BY <1>1 DEF GameIsOfTheBatch
<1>6. OfKind(kind) = {R[i] : i \in some}
  BY <1>1, <1>5 DEF OfKind
<1>7. \A i, j \in some : R[i] = R[j] => i = j
  BY <1>4
<1>8. Cardinality(OfKind(kind)) = Cardinality(some)
  <2> HIDE DEF some
  <2> QED
    BY <1>2, <1>6, <1>7, ImageSize
<1>9. ASSUME kind # "champion"
      PROVE  Cardinality(reds) - Cardinality(golds) \in {0, 1}
  <2>1. \A i \in some : /\ Offset(kinds, i) % 2 = 0 <=> R[i].red = Champion
                        /\ Offset(kinds, i) % 2 # 0 <=> R[i].gold = Champion
    BY <1>1, <1>9 DEF GameIsOfTheBatch
  <2>2. reds = {R[i] : i \in red} /\ golds = {R[i] : i \in gold}
    BY <1>6, <2>1
  <2>3. /\ \A i, j \in red : R[i] = R[j] => i = j
        /\ \A i, j \in gold : R[i] = R[j] => i = j
    BY <1>4
  <2> HIDE DEF red, gold, reds, golds
  <2>4. Cardinality(reds) = Cardinality(red)
    BY <1>3, <2>2, <2>3, ImageSize
  <2>5. Cardinality(golds) = Cardinality(gold)
    BY <1>3, <2>2, <2>3, ImageSize
  <2> QED
    BY <1>3, <2>4, <2>5
<1>10. OfKind(kind) # {} => some # {}
  BY <1>6
<1> QED
  BY <1>8, <1>9, <1>10 DEF GamesWith

LEMMA LeagueInvIsEnough == LeagueInv => LeagueIsSound
<1> SUFFICES ASSUME LeagueInv PROVE LeagueIsSound
  OBVIOUS
<1>1. LeagueShape /\ AttemptsAreFresh /\ OrdersAreCurrent /\ WorkIsAhead
  BY DEF LeagueInv
<1>2. Champion \in 0..MaxAttempt
  BY <1>1, ChampionAndArchives
<1>3. /\ Len(orders) <= 2 /\ busy \subseteq {"generate", "arena", "reload"}
      /\ job \in {"none", "generate", "arena", "reload"}
  <2> DEFINE a == GenerateOrder
             b == ArenaOrder
             c == ReloadOrder
  <2>1. orders \in {<<>>, <<a>>, <<a, b>>, <<b>>, <<c>>, <<c, b>>}
    BY <1>1 DEF OrdersAreCurrent
  <2> HIDE DEF a, b, c
  <2>2. Len(orders) <= 2
    <3>1. Len(<<>>) = 0 /\ Len(<<a>>) = 1 /\ Len(<<a, b>>) = 2 /\ Len(<<b>>) = 1
          /\ Len(<<c>>) = 1 /\ Len(<<c, b>>) = 2
      OBVIOUS
    <3>2. \E n \in 0..2 : Len(orders) = n /\ n <= 2
      BY <2>1, <3>1
    <3> QED
      BY <3>2
  <2> QED
    BY <1>1, <2>2 DEF OrdersAreCurrent
<1>4. CASE job \in {"none", "reload"}
  <2>1. requests = {}
    BY <1>4 DEF LeagueInv, GamesAreOfTheOrder
  <2>2. LeagueTypeOK
    BY <1>1, <1>3, <2>1 DEF LeagueTypeOK, LeagueShape
  <2> QED
    BY <1>4, <2>1, <2>2 DEF LeagueIsSound, PlayersAreLoaded, Players, IdsSayWhoPlays,
       LeagueIsBalanced, LeagueIsCurrent
<1>5. CASE job = "arena"
  <2> DEFINE game == [kind |-> "arena", game |-> 1, gold |-> Champion, red |-> pending]
  <2>1. requests = {game} /\ models = Configure(ArenaOrder)
    BY <1>5 DEF LeagueInv, GamesAreOfTheOrder
  <2>2. game.kind = "arena" /\ game.red = pending /\ game.gold = Champion
    OBVIOUS
  <2> HIDE DEF game
  <2>3. pending # NoAttempt
    BY <1>1, <1>5 DEF OrdersAreCurrent, WorkIsAhead
  <2>4. pending \in 0..MaxAttempt /\ models = {Champion, pending}
    BY <1>1, <2>1, <2>3, FewAreLoaded DEF LeagueShape
  <2>5. \A id \in {pending, Champion} : Kind(id) = "network" /\ id \in Ids /\ id \in models
    BY <1>2, <2>4, NumbersSayWho
  <2>6. LeagueTypeOK
    BY <1>1, <1>3, <2>1, <2>2, <2>5 DEF LeagueTypeOK, LeagueShape
  <2>7. Players = {pending, Champion}
    BY <2>1, <2>2 DEF Players
  <2>8. PlayersAreLoaded /\ IdsSayWhoPlays
    BY <2>1, <2>2, <2>5, <2>7 DEF PlayersAreLoaded, IdsSayWhoPlays
  <2> QED
    BY <1>5, <2>6, <2>8 DEF LeagueIsSound, LeagueIsBalanced, LeagueIsCurrent
<1>6. CASE job = "generate"
  <2>1. PICK kinds, R, opponent : BatchOf(kinds, R, opponent)
    BY <1>6, TheBatch
  <2>2. /\ kinds \in Shuffles(Counts(Archives)) /\ kinds \in [1..GameBatch -> Kinds]
        /\ requests = {R[i] : i \in 1..GameBatch}
        /\ \A i \in 1..GameBatch : GameIsOfTheBatch(kinds, R, opponent, i)
    BY <2>1 DEF BatchOf, Shuffles
  <2>3. models \subseteq 0..MaxAttempt /\ Champion \in models /\ Champion \in Ids
        /\ Kind(Champion) = "network"
    <3>1. models = Configure(GenerateOrder) /\ GenerateOrder.champion = Champion
      BY <1>6 DEF LeagueInv, GamesAreOfTheOrder, GenerateOrder
    <3> QED
      BY <1>1, <1>2, <3>1, NumbersSayWho DEF LeagueShape, Configure
  <2>4. \A i \in 1..GameBatch :
          /\ R[i].kind = kinds[i] /\ kinds[i] \in Kinds /\ R[i].game = nextGame + i - 1
          /\ {R[i].red, R[i].gold} = {Champion, opponent[i]}
          /\ opponent[i] \in Ids
          /\ kinds[i] = "champion" <=> opponent[i] = Champion
          /\ kinds[i] \in {"uniform", "random"} =>
               opponent[i] \notin models /\ Kind(opponent[i]) = kinds[i]
          /\ kinds[i] \notin {"uniform", "random"} =>
               opponent[i] \in models /\ Kind(opponent[i]) = "network"
    <3> TAKE i \in 1..GameBatch
    <3>1. GameIsOfTheBatch(kinds, R, opponent, i) /\ kinds[i] \in Kinds
      BY <2>2
    <3>2. {R[i].red, R[i].gold} = {Champion, opponent[i]}
      BY <3>1 DEF GameIsOfTheBatch
    <3> QED
      BY <3>1, <3>2 DEF GameIsOfTheBatch
  <2>5. LeagueTypeOK
    <3>1. ASSUME NEW r \in requests PROVE {r.red, r.gold} \subseteq Ids
      <4>1. PICK i \in 1..GameBatch : r = R[i]
        BY <2>2
      <4>2. {r.red, r.gold} = {Champion, opponent[i]} /\ opponent[i] \in Ids
        BY <2>4, <4>1
      <4> QED
        BY <2>3, <4>2
    <3> QED
      BY <1>1, <1>3, <3>1 DEF LeagueTypeOK, LeagueShape
  <2>6. PlayersAreLoaded
    <3>1. ASSUME NEW i \in 1..GameBatch, NEW id \in {R[i].red, R[i].gold}, Kind(id) = "network"
          PROVE  id \in models
      BY <2>3, <2>4, <3>1
    <3>2. \A id \in Players : \E i \in 1..GameBatch : id \in {R[i].red, R[i].gold}
      BY <2>2 DEF Players
    <3> QED
      BY <3>1, <3>2 DEF PlayersAreLoaded
  <2>7. IdsSayWhoPlays
    <3>1. ASSUME NEW i \in 1..GameBatch, NEW id \in {R[i].red, R[i].gold}
          PROVE  Kind(id) = (IF R[i].kind \in {"uniform", "random"} /\ id \notin models
                             THEN R[i].kind ELSE "network")
      BY <2>3, <2>4
    <3> QED
      BY <2>2, <3>1 DEF IdsSayWhoPlays
  <2>8. {r.game : r \in requests} = nextGame..nextGame + GameBatch - 1
    <3>1. nextGame \in Nat /\ GameBatch \in Nat
      BY <1>1, LeagueAssumption DEF LeagueShape
    <3>2. {r.game : r \in requests} = {nextGame + i - 1 : i \in 1..GameBatch}
      BY <2>2, <2>4
    <3>3. \A g \in nextGame..nextGame + GameBatch - 1 :
            g - nextGame + 1 \in 1..GameBatch /\ g = nextGame + (g - nextGame + 1) - 1
      BY <3>1
    <3>4. \A i \in 1..GameBatch : nextGame + i - 1 \in nextGame..nextGame + GameBatch - 1
      BY <3>1
    <3> QED
      BY <3>2, <3>3, <3>4
  <2>9. ASSUME NEW kind \in {"uniform", "random"} \cup
                              (IF OfKind("archive") = {} THEN {} ELSE {"archive"})
        PROVE  Parts * Cardinality(OfKind(kind)) - GameBatch * Weights[kind]
                 \in -Parts + 1..Parts - 1
    <3>1. kind \in {"archive", "uniform", "random"} /\ kind \in Kinds
      BY DEF Kinds
    <3>2. kind = "archive" => OfKind(kind) # {}
      OBVIOUS
    <3>3. /\ Cardinality(OfKind(kind)) = Cardinality(GamesWith(kinds, kind))
          /\ OfKind(kind) # {} => \E i \in 1..GameBatch : kinds[i] = kind
      BY <1>1, <2>1, <3>1, GamesOfAKind
    <3>4. Parts * Cardinality(GamesWith(kinds, kind)) - GameBatch * Weights[kind]
            \in -Parts + 1..Parts - 1
      BY <2>2, <3>1, <3>2, <3>3, KindsInShare
    <3> QED
      BY <3>3, <3>4
  <2>10. ASSUME NEW kind \in Kinds \ {"champion"}
         PROVE  Cardinality({r \in OfKind(kind) : r.red = Champion})
                  - Cardinality({r \in OfKind(kind) : r.gold = Champion}) \in {0, 1}
    BY <1>1, <2>1, GamesOfAKind
  <2>11. LeagueIsBalanced
    BY <2>8, <2>9, <2>10 DEF LeagueIsBalanced
  <2>12. LeagueIsCurrent
    <3>1. \A r \in requests : Champion \in {r.red, r.gold}
      BY <2>2, <2>4
    <3>2. ASSUME NEW r \in OfKind("archive") PROVE r.red # r.gold
      <4>1. PICK i \in 1..GameBatch : r = R[i] /\ r.kind = "archive"
        BY <2>2 DEF OfKind
      <4>2. {r.red, r.gold} = {Champion, opponent[i]} /\ opponent[i] # Champion
        BY <2>4, <4>1
      <4> QED
        BY <4>2
    <3> QED
      BY <3>1, <3>2 DEF LeagueIsCurrent
  <2> QED
    BY <2>5, <2>6, <2>7, <2>11, <2>12 DEF LeagueIsSound
<1> QED
  BY <1>3, <1>4, <1>5, <1>6

\* The games of a batch are those of the league as it is, whatever candidates come
\* while one is played or the actor reloads, also in a run resumed with a candidate
\* still to be decided: the latest champion against opponents in their shares,
\* colours in turn, every player loaded, and no number taken for another's
\* (training_v2.py: run_async_training, _league_requests, _allocate_counts,
\* _ActorEvaluator).
THEOREM LeagueStaysSound == LeagueSpec => []LeagueIsSound
<1>1. LeagueInv /\ [LeagueNext]_leagueVars => LeagueInv'
  BY LeagueStepInv
<1> QED
  BY LeagueInitInv, <1>1, LeagueInvIsEnough, PTL DEF LeagueSpec
=============================================================================
