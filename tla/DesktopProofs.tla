--------------------------- MODULE DesktopProofs ----------------------------
(***************************************************************************)
(* Proofs about the pages of the desktop.  GameDesk: for any numbers of    *)
(* loads, moves, iterations and threads and any sides of the computer.     *)
(* ModelBrowser: for any directories, requests, changes and threads.       *)
(***************************************************************************)
EXTENDS GameDesk, ModelBrowser, SequenceTheorems, TLAPS

(***************************************************************************)
(* The inductive invariant.  A game is built, loaded, shown and closed,    *)
(* one after the other: what is at one of these stages is at no other.     *)
(***************************************************************************)
Building == {g \in Loads : Build(g) \in ToSet(tasks) \cup running}
Arrived  == {g \in Loads : \E i \in DOMAIN posted : posted[i].of = g}
Closing  == {g \in Loads : Close(g) \in ToSet(tasks) \cup running}

StagesAreApart ==
  /\ IsInjective(tasks)
  /\ \A g \in Loads : Build(g) \notin ToSet(tasks) \cap running
  /\ \A i, k \in DOMAIN posted : posted[i].of = posted[k].of => i = k
  /\ Building \cap (Arrived \cup Closing \cup {game}) = {}
  /\ Arrived \cap (Closing \cup {game}) = {}
  /\ game \notin Closing

\* The next load is a new one.
LoadsAreNumbered == \A g \in Building \cup Arrived \cup Closing : g <= loads

\* A game stays open until it is shown.
ArrivedIsOpen == \A i \in DOMAIN posted : posted[i].ok => posted[i].of \in open

\* What the page shows is the board of the game, or that on which the computer
\* has just moved, unless it shows an error.
BoardIsKept ==
  game # None /\ ~error =>
    /\ shown.of = game
    /\ shown.plies = engine.plies \/ (AutoTurn(shown) /\ engine.plies = shown.plies + 1)

\* TypeOK in two parts: the games, and the page that shows one.
GamesTypeOK ==
  /\ loads \in 0..MaxLoads /\ tasks \in Seq(Tasks) /\ running \subseteq Tasks
  /\ posted \in Seq([of : Loads, ok : BOOLEAN]) /\ open \subseteq Loads
  /\ game \in Loads \cup {None}
PageTypeOK ==
  /\ engine \in Engines
  /\ shown \in [of : Loads \cup {None}, plies : 0..MaxPlies, visits : 0..MaxTarget,
                target : 1..MaxTarget]
  /\ error \in BOOLEAN /\ auto \subseteq {0, 1}
  /\ blocked \in Moves \cup {"no"} /\ ended \in BOOLEAN

GamesAreKept ==
  /\ GamesTypeOK /\ StagesAreApart /\ LoadsAreNumbered /\ ArrivedIsOpen
  /\ CurrentIsLatest /\ NoGameIsLeft

IInv == GamesAreKept /\ PageTypeOK /\ BoardIsKept

-----------------------------------------------------------------------------
(* Sequences without repetition.                                           *)

LEMMA AppendToSet ==
  ASSUME NEW S, NEW s \in Seq(S), NEW x \in S
  PROVE  /\ Append(s, x) \in Seq(S) /\ Len(Append(s, x)) = Len(s) + 1
         /\ ToSet(Append(s, x)) = ToSet(s) \cup {x}
         /\ IsInjective(s) /\ x \notin ToSet(s) => IsInjective(Append(s, x))
<1>1. Append(s, x) \in Seq(S) /\ Len(Append(s, x)) = Len(s) + 1 /\ Len(s) \in Nat
  OBVIOUS
<1>2. DOMAIN s = 1..Len(s) /\ DOMAIN Append(s, x) = 1..Len(s) + 1
  BY <1>1
<1>3. /\ \A i \in 1..Len(s) : Append(s, x)[i] = s[i]
      /\ Append(s, x)[Len(s) + 1] = x
  OBVIOUS
<1>4. ToSet(Append(s, x)) = ToSet(s) \cup {x}
  <2>1. \A y \in ToSet(Append(s, x)) : y \in ToSet(s) \cup {x}
    BY <1>1, <1>2, <1>3 DEF ToSet
  <2>2. \A y \in ToSet(s) : y \in ToSet(Append(s, x))
    BY <1>1, <1>2, <1>3 DEF ToSet
  <2>3. x \in ToSet(Append(s, x))
    BY <1>1, <1>2, <1>3 DEF ToSet
  <2> QED
    BY <2>1, <2>2, <2>3
<1>5. IsInjective(s) /\ x \notin ToSet(s) => IsInjective(Append(s, x))
  <2> HAVE IsInjective(s) /\ x \notin ToSet(s)
  <2>1. \A i \in 1..Len(s) : s[i] # x
    BY <1>2 DEF ToSet
  <2> QED
    BY <1>1, <1>2, <1>3, <2>1 DEF IsInjective
<1> QED
  BY <1>1, <1>4, <1>5

LEMMA TailOfSet ==
  ASSUME NEW S, NEW s \in Seq(S), s # <<>>
  PROVE  /\ Tail(s) \in Seq(S) /\ Len(Tail(s)) = Len(s) - 1
         /\ Head(s) \in ToSet(s) /\ Head(s) \in S
         /\ ToSet(Tail(s)) \subseteq ToSet(s)
         /\ IsInjective(s) => /\ IsInjective(Tail(s))
                              /\ ToSet(Tail(s)) = ToSet(s) \ {Head(s)}
<1>1. Tail(s) \in Seq(S) /\ Len(Tail(s)) = Len(s) - 1
  OBVIOUS
<1>2. Len(s) \in Nat \ {0} /\ Head(s) = s[1]
  OBVIOUS
<1>3. DOMAIN s = 1..Len(s) /\ DOMAIN Tail(s) = 1..Len(s) - 1
  BY <1>1, <1>2
<1>4. \A i \in 1..Len(s) - 1 : Tail(s)[i] = s[i + 1]
  BY <1>1
<1>5. Head(s) \in ToSet(s) /\ Head(s) \in S
  BY <1>2, <1>3 DEF ToSet
<1>6. ToSet(Tail(s)) \subseteq ToSet(s)
  BY <1>2, <1>3, <1>4 DEF ToSet
<1>7. ASSUME IsInjective(s)
      PROVE  IsInjective(Tail(s)) /\ ToSet(Tail(s)) = ToSet(s) \ {Head(s)}
  <2>1. IsInjective(Tail(s))
    BY <1>2, <1>3, <1>4, <1>7 DEF IsInjective
  <2>2. \A i \in 1..Len(s) - 1 : s[i + 1] # s[1]
    BY <1>2, <1>3, <1>7 DEF IsInjective
  <2>3. \A x \in ToSet(s) \ {Head(s)} : x \in ToSet(Tail(s))
    <3> TAKE x \in ToSet(s) \ {Head(s)}
    <3>2. PICK i \in 1..Len(s) : x = s[i]
      BY <1>3 DEF ToSet
    <3>3. i - 1 \in 1..Len(s) - 1 /\ Tail(s)[i - 1] = x
      BY <1>2, <1>4, <3>2
    <3> QED
      BY <1>3, <3>3 DEF ToSet
  <2>4. Head(s) \notin ToSet(Tail(s))
    BY <1>2, <1>3, <1>4, <2>2 DEF ToSet
  <2> QED
    BY <1>6, <2>1, <2>3, <2>4
<1> QED
  BY <1>1, <1>5, <1>6, <1>7

LEMMA RemoveAtIndex ==
  ASSUME NEW S, NEW s \in Seq(S), NEW n \in 1..Len(s)
  PROVE  /\ RemoveAt(s, n) \in Seq(S) /\ Len(RemoveAt(s, n)) = Len(s) - 1
         /\ \A i \in 1..Len(s) - 1 :
              RemoveAt(s, n)[i] = IF i < n THEN s[i] ELSE s[i + 1]
<1> DEFINE a == SubSeq(s, 1, n - 1)
           b == SubSeq(s, n + 1, Len(s))
<1>0. Len(s) \in Nat /\ n \in Nat /\ n >= 1 /\ n <= Len(s)
  OBVIOUS
<1>1. \A i \in 1..Len(s) : s[i] \in S
  OBVIOUS
<1>2. a \in Seq(S) /\ Len(a) = n - 1 /\ \A i \in 1..n - 1 : a[i] = s[i]
  <2>1. \A i \in 1..n - 1 : s[i] \in S
    BY <1>0, <1>1
  <2> QED
    BY <1>0, <2>1, SubSeqProperties
<1>3. /\ b \in Seq(S) /\ Len(b) = Len(s) - n
      /\ \A i \in 1..Len(s) - n : b[i] = s[i + n]
  <2>1. \A i \in n + 1..Len(s) : s[i] \in S
    BY <1>0, <1>1
  <2> QED
    BY <1>0, <2>1, SubSeqProperties
<1>4. RemoveAt(s, n) = a \o b
  BY DEF RemoveAt
<1> HIDE DEF a, b
<1>5. /\ a \o b \in Seq(S) /\ Len(a \o b) = Len(a) + Len(b)
      /\ \A i \in 1..Len(a) + Len(b) :
           (a \o b)[i] = IF i <= Len(a) THEN a[i] ELSE b[i - Len(a)]
  BY <1>2, <1>3, ConcatProperties
<1>6. \A i \in 1..Len(s) - 1 : (a \o b)[i] = IF i < n THEN s[i] ELSE s[i + 1]
  <2> TAKE i \in 1..Len(s) - 1
  <2>2. i \in 1..Len(a) + Len(b)
    BY <1>0, <1>2, <1>3
  <2>3. CASE i < n
    <3>1. i <= Len(a) /\ i \in 1..n - 1
      BY <1>0, <1>2, <2>3
    <3> QED
      BY <1>2, <1>5, <2>2, <2>3, <3>1
  <2>4. CASE i >= n
    <3>1. ~(i <= Len(a)) /\ i - Len(a) = i - n + 1 /\ i - n + 1 \in 1..Len(s) - n
      BY <1>0, <1>2, <2>4
    <3>2. b[i - n + 1] = s[i - n + 1 + n] /\ i - n + 1 + n = i + 1
      BY <1>0, <1>3, <3>1
    <3> QED
      BY <1>0, <1>5, <2>2, <2>4, <3>1, <3>2
  <2>5. i < n \/ i >= n
    BY <1>0
  <2> QED
    BY <2>3, <2>4, <2>5
<1> QED
  BY <1>0, <1>2, <1>3, <1>4, <1>5, <1>6

\* The first occurrence of an element is the only one.
LEMMA RemoveFirstOfSet ==
  ASSUME NEW S, NEW s \in Seq(S), IsInjective(s), NEW e
  PROVE  /\ RemoveFirst(s, e) \in Seq(S) /\ IsInjective(RemoveFirst(s, e))
         /\ ToSet(RemoveFirst(s, e)) = ToSet(s) \ {e}
         /\ Len(RemoveFirst(s, e)) =
              IF e \in ToSet(s) THEN Len(s) - 1 ELSE Len(s)
<1>0. DOMAIN s = 1..Len(s) /\ Len(s) \in Nat
  OBVIOUS
<1>1. CASE e \notin ToSet(s)
  BY <1>0, <1>1 DEF RemoveFirst, ToSet
<1>2. CASE e \in ToSet(s)
  <2>1. PICK n \in 1..Len(s) : s[n] = e
    BY <1>0, <1>2 DEF ToSet
  <2>2. \A i \in 1..Len(s) : s[i] = e => i = n
    BY <1>0, <2>1 DEF IsInjective
  <2>3. {i \in 1..Len(s) : s[i] = e} = {n}
    BY <2>1, <2>2
  <2>4. Min({n}) = n
    BY <1>0, <2>1 DEF Min
  <2>5. SelectInSeq(s, LAMBDA v : v = e) = n
    BY <2>3, <2>4 DEF SelectInSeq
  <2> DEFINE t == RemoveAt(s, n)
  <2>7. t \in Seq(S) /\ Len(t) = Len(s) - 1
    BY RemoveAtIndex
  <2>8. \A i \in 1..Len(s) - 1 : t[i] = IF i < n THEN s[i] ELSE s[i + 1]
    BY RemoveAtIndex
  <2>13. RemoveFirst(s, e) = t
    BY <2>1, <2>5 DEF RemoveFirst
  <2> HIDE DEF t
  <2>9. DOMAIN t = 1..Len(s) - 1
    BY <2>7
  <2>10. IsInjective(t)
    <3>1. ASSUME NEW i \in 1..Len(s) - 1, NEW k \in 1..Len(s) - 1, t[i] = t[k]
          PROVE  i = k
      <4>1. CASE i < n /\ k < n
        BY <1>0, <2>8, <3>1, <4>1 DEF IsInjective
      <4>2. CASE i < n /\ k >= n
        BY <1>0, <2>8, <3>1, <4>2 DEF IsInjective
      <4>3. CASE i >= n /\ k < n
        BY <1>0, <2>8, <3>1, <4>3 DEF IsInjective
      <4>4. CASE i >= n /\ k >= n
        BY <1>0, <2>8, <3>1, <4>4 DEF IsInjective
      <4> QED
        BY <1>0, <2>1, <4>1, <4>2, <4>3, <4>4
    <3> QED
      BY <2>9, <3>1 DEF IsInjective
  <2>11. \A x \in ToSet(t) : x \in ToSet(s) \ {e}
    BY <1>0, <2>1, <2>2, <2>8, <2>9 DEF ToSet
  <2>12. \A x \in ToSet(s) \ {e} : x \in ToSet(t)
    <3> TAKE x \in ToSet(s) \ {e}
    <3>2. PICK i \in 1..Len(s) : x = s[i]
      BY <1>0 DEF ToSet
    <3>3. i # n
      BY <2>1, <3>2
    <3>4. CASE i < n
      BY <1>0, <2>1, <2>8, <2>9, <3>2, <3>4 DEF ToSet
    <3>5. CASE i > n
      <4>1. i - 1 \in 1..Len(s) - 1 /\ t[i - 1] = x
        BY <1>0, <2>1, <2>8, <3>2, <3>5
      <4> QED
        BY <2>9, <4>1 DEF ToSet
    <3> QED
      BY <3>3, <3>4, <3>5
  <2> QED
    BY <1>2, <2>7, <2>10, <2>11, <2>12, <2>13
<1> QED
  BY <1>1, <1>2

-----------------------------------------------------------------------------
(* The page.                                                               *)

LEMMA TypeParts == TypeOK <=> GamesTypeOK /\ PageTypeOK
BY DEF TypeOK, GamesTypeOK, PageTypeOK

\* A poll copies what the native game says, before the computer moves on it.
LEMMA PollLemma ==
  ASSUME PageTypeOK, NEW g \in Loads \cup {None}, NEW e \in Engines,
         NEW paused, Poll(g, e, paused),
         game' = g, UNCHANGED <<auto, ended>>, blocked' \in Moves \cup {"no"}
  PROVE  PageTypeOK' /\ BoardIsKept'
<1> USE GameDeskAssumption
<1>1. CASE error' = TRUE /\ engine' = e /\ UNCHANGED shown
  BY <1>1 DEF PageTypeOK, BoardIsKept
<1>2. CASE /\ error' = FALSE /\ engine' \in AutoMoves(e)
           /\ shown' = [of |-> g, plies |-> e.plies, visits |-> e.visits,
                        target |-> e.target]
  <2>1. /\ e.plies \in 0..MaxPlies /\ e.visits \in 0..MaxTarget
        /\ e.target \in 1..MaxTarget /\ e.failure \in Failures
    BY DEF Engines
  <2>2. shown' \in [of : Loads \cup {None}, plies : 0..MaxPlies,
                    visits : 0..MaxTarget, target : 1..MaxTarget]
    BY <1>2, <2>1
  <2>3. error' \in BOOLEAN
    BY <1>2
  <2>4. CASE Ongoing(e) /\ AutoTurn(e) /\ e.visits >= e.target
    <3>1. PICK v \in 0..(e.visits - 1) :
            engine' = [e EXCEPT !.plies = @ + 1, !.visits = v]
      BY <1>2, <2>4 DEF AutoMoves
    <3>2. v \in 0..MaxTarget /\ e.plies + 1 \in 0..MaxPlies
      BY <2>1, <2>4, <3>1 DEF Ongoing
    <3>3. engine' \in Engines
      BY <3>1, <3>2 DEF Engines
    <3>4. AutoTurn(shown)' /\ shown'.of = g
      BY <1>2, <2>4 DEF AutoTurn
    <3>5. engine'.plies = shown'.plies + 1
      <4>1. engine'.plies = e.plies + 1
        BY <3>1 DEF Engines
      <4> QED
        BY <1>2, <4>1
    <3> QED
      BY <2>2, <2>3, <3>3, <3>4, <3>5 DEF PageTypeOK, BoardIsKept
  <2>5. CASE ~(Ongoing(e) /\ AutoTurn(e) /\ e.visits >= e.target)
    <3>1. engine' = e
      BY <1>2, <2>5 DEF AutoMoves
    <3>2. shown'.of = g /\ shown'.plies = engine'.plies
      BY <1>2, <3>1
    <3> QED
      BY <2>2, <2>3, <3>1, <3>2 DEF PageTypeOK, BoardIsKept
  <2> QED
    BY <2>4, <2>5
<1> QED
  BY <1>1, <1>2 DEF Poll

\* A move of the native game, refused, made, or waiting for its root.
LEMMA PlayLemma ==
  ASSUME GamesTypeOK, PageTypeOK, BoardIsKept, NEW move \in Moves, Play(move),
         UNCHANGED <<game, auto, ended>>
  PROVE  PageTypeOK' /\ BoardIsKept'
<1> USE GameDeskAssumption
<1>0. game \in Loads \cup {None} /\ engine \in Engines
  BY DEF GamesTypeOK, PageTypeOK
<1>1. CASE /\ error' = TRUE /\ blocked' = "no" /\ UNCHANGED <<engine, shown>>
  BY <1>1 DEF PageTypeOK, BoardIsKept
<1>2. CASE blocked' = "no" /\ Poll(game, engine, error)
  BY <1>0, <1>2, PollLemma
<1>3. CASE /\ Ongoing(engine) /\ engine.visits > 0
           /\ blocked' = "no" /\ \E e \in Moved(engine) : Poll(game, e, error)
  <2>1. PICK v \in 0..(engine.visits - 1) :
          Poll(game, [engine EXCEPT !.plies = @ + 1, !.visits = v, !.failure = "no"],
               error)
    BY <1>3 DEF Moved
  <2>2. v \in 0..MaxTarget /\ engine.plies + 1 \in 0..MaxPlies
    BY <1>0, <1>3, <2>1 DEF Engines, Ongoing
  <2>3. [engine EXCEPT !.plies = @ + 1, !.visits = v, !.failure = "no"] \in Engines
    BY <1>0, <2>2 DEF Engines, Failures
  <2> QED
    BY <1>0, <1>3, <2>1, <2>3, PollLemma
<1>4. CASE blocked' = move /\ UNCHANGED <<engine, shown, error>>
  BY <1>4 DEF PageTypeOK, BoardIsKept, AutoTurn
<1> QED
  BY <1>1, <1>2, <1>3, <1>4 DEF Play

\* Slots that only concern the page leave the games alone.
LEMMA SameGames ==
  GamesAreKept /\ UNCHANGED <<loads, poolVars, game>> => GamesAreKept'
BY DEF GamesAreKept, GamesTypeOK, StagesAreApart, LoadsAreNumbered, ArrivedIsOpen,
   CurrentIsLatest, NoGameIsLeft, Building, Arrived, Closing, poolVars

LEMMA SlotLemma ==
  ASSUME IInv, NEW e \in Engines, Slot(e)
  PROVE  IInv'
<1>1. UNCHANGED <<loads, poolVars, game, auto, blocked, ended>> /\ Poll(game, e, error)
  BY DEF Slot
<1>2. game \in Loads \cup {None} /\ blocked' \in Moves \cup {"no"}
  BY <1>1 DEF IInv, GamesAreKept, GamesTypeOK, PageTypeOK
<1>3. PageTypeOK' /\ BoardIsKept'
  BY <1>1, <1>2, PollLemma DEF IInv
<1> QED
  BY <1>1, <1>3, SameGames DEF IInv

LEMMA MoveInv == IInv /\ (MakeMove \/ BestMove \/ Resume) => IInv'
<1> SUFFICES ASSUME IInv, MakeMove \/ BestMove \/ Resume PROVE IInv'
  OBVIOUS
<1>1. PICK move \in Moves : Play(move) /\ UNCHANGED <<loads, poolVars, game, auto, ended>>
  BY DEF MakeMove, BestMove, Resume, Moves, IInv, PageTypeOK
<1>2. PageTypeOK' /\ BoardIsKept'
  BY <1>1, PlayLemma DEF IInv, GamesAreKept
<1> QED
  BY <1>1, <1>2, SameGames DEF IInv

LEMMA SlotsInv == IInv /\ (AddIterations \/ Undo \/ Rematch) => IInv'
<1> SUFFICES ASSUME IInv, AddIterations \/ Undo \/ Rematch PROVE IInv'
  OBVIOUS
<1>0. engine \in Engines
  BY DEF IInv, PageTypeOK
<1>1. CASE AddIterations
  <2>1. CASE engine.target < MaxTarget
             /\ Slot([engine EXCEPT !.target = @ + 1, !.failure = "no"])
    <3>0. engine.target + 1 \in 1..MaxTarget
      BY <1>0, <2>1, GameDeskAssumption DEF Engines
    <3>1. [engine EXCEPT !.target = @ + 1, !.failure = "no"] \in Engines
      BY <1>0, <3>0 DEF Engines, Failures
    <3> QED
      BY <2>1, <3>1, SlotLemma
  <2>2. CASE Slot(engine)
    BY <1>0, <2>2, SlotLemma
  <2> QED
    BY <1>1, <2>1, <2>2 DEF AddIterations
<1>2. CASE Undo
  <2>1. CASE engine.plies > 0
             /\ Slot([engine EXCEPT !.plies = @ - 1, !.visits = 0, !.failure = "no"])
    <3>0. engine.plies - 1 \in 0..MaxPlies /\ 0 \in 0..MaxTarget
      BY <1>0, <2>1, GameDeskAssumption DEF Engines
    <3>1. [engine EXCEPT !.plies = @ - 1, !.visits = 0, !.failure = "no"] \in Engines
      BY <1>0, <3>0 DEF Engines, Failures
    <3> QED
      BY <2>1, <3>1, SlotLemma
  <2>2. CASE Slot([engine EXCEPT !.failure = IF @ = "no" THEN "no" ELSE "forgotten"])
    <3>1. [engine EXCEPT !.failure = IF @ = "no" THEN "no" ELSE "forgotten"] \in Engines
      BY <1>0 DEF Engines, Failures
    <3> QED
      BY <2>2, <3>1, SlotLemma
  <2> QED
    BY <1>2, <2>1, <2>2 DEF Undo
<1>3. CASE Rematch
  <2> DEFINE e == [engine EXCEPT !.plies = 0, !.failure = "no",
                     !.visits = IF engine.plies = 0 THEN @ ELSE 0]
  <2>1. e \in Engines
    <3>1. 0 \in 0..MaxPlies /\ 0 \in 0..MaxTarget
      BY GameDeskAssumption
    <3> QED
      BY <1>0, <3>1 DEF Engines, Failures
  <2>2. Slot(e)
    BY <1>3 DEF Rematch
  <2> QED
    BY <2>1, <2>2, SlotLemma
<1> QED
  BY <1>1, <1>2, <1>3

LEMMA TimerInv == IInv /\ (Timer \/ Retry) => IInv'
<1> SUFFICES ASSUME IInv, Timer \/ Retry PROVE IInv'
  OBVIOUS
<1>0. engine \in Engines /\ [engine EXCEPT !.failure = "no"] \in Engines
  BY DEF IInv, PageTypeOK, Engines, Failures
<1>1. UNCHANGED <<loads, poolVars, game, auto, blocked, ended>>
  BY DEF Timer, Retry
<1>2. PICK e \in Engines : Poll(game, e, FALSE)
  BY <1>0 DEF Timer, Retry
<1>3. game \in Loads \cup {None} /\ blocked' \in Moves \cup {"no"}
  BY <1>1 DEF IInv, GamesAreKept, GamesTypeOK, PageTypeOK
<1>4. PageTypeOK' /\ BoardIsKept'
  BY <1>1, <1>2, <1>3, PollLemma DEF IInv
<1> QED
  BY <1>1, <1>4, SameGames DEF IInv

LEMMA SearchInv == IInv /\ Search => IInv'
<1> SUFFICES ASSUME IInv, Search PROVE IInv'
  OBVIOUS
<1>0. engine \in Engines /\ engine.visits < engine.target
  BY DEF IInv, PageTypeOK, Search, Searching
<1>1. UNCHANGED <<loads, poolVars, pageVars, ended>>
  BY DEF Search
<1>2. engine' \in Engines /\ engine'.plies = engine.plies
  <2>1. engine.visits + 1 \in 0..MaxTarget
    BY <1>0, GameDeskAssumption DEF Engines
  <2>2. [engine EXCEPT !.visits = @ + 1] \in Engines
        /\ [engine EXCEPT !.failure = "error"] \in Engines
    BY <1>0, <2>1 DEF Engines, Failures
  <2> QED
    BY <1>0, <2>2 DEF Search, Engines
<1>3. PageTypeOK' /\ BoardIsKept'
  BY <1>1, <1>2 DEF IInv, PageTypeOK, BoardIsKept, AutoTurn, pageVars
<1>4. UNCHANGED game
  BY <1>1 DEF pageVars
<1> QED
  BY <1>1, <1>3, <1>4, SameGames DEF IInv

-----------------------------------------------------------------------------
(* Loading and closing.                                                    *)

LEMMA TasksAre ==
  /\ \A t \in Tasks : /\ t.of \in Loads
                      /\ t.kind = "build" => t = Build(t.of)
                      /\ t.kind # "build" => t.kind = "close" /\ t = Close(t.of)
  /\ \A g \in Loads : /\ Build(g) \in Tasks /\ Build(g).kind = "build" /\ Build(g).of = g
                      /\ Close(g) \in Tasks /\ Close(g).kind = "close" /\ Close(g).of = g
  /\ \A g, h \in Loads : /\ Build(g) # Close(h)
                         /\ Build(g) = Build(h) => g = h
                         /\ Close(g) = Close(h) => g = h
BY DEF Tasks, Build, Close

\* shutdown takes the load that has not begun out of the queue, and puts the
\* closing of the game in.
LEMMA AfterShutdownIs ==
  ASSUME GamesAreKept
  PROVE  /\ AfterShutdown \in Seq(Tasks) /\ IsInjective(AfterShutdown)
         /\ ToSet(AfterShutdown) =
              (ToSet(tasks) \ {Build(loads)}) \cup {Close(g) : g \in {game} \ {None}}
<1>1. tasks \in Seq(Tasks) /\ IsInjective(tasks) /\ game \in Loads \cup {None}
  BY DEF GamesAreKept, GamesTypeOK, StagesAreApart
<1> DEFINE rest == RemoveFirst(tasks, Build(loads))
<1>2. /\ rest \in Seq(Tasks) /\ IsInjective(rest)
      /\ ToSet(rest) = ToSet(tasks) \ {Build(loads)}
  BY <1>1, RemoveFirstOfSet
<1>3. AfterShutdown = IF game = None THEN rest ELSE Append(rest, Close(game))
  BY DEF AfterShutdown
<1> HIDE DEF rest
<1>4. CASE game = None
  BY <1>2, <1>3, <1>4
<1>5. CASE game # None
  <2>1. game \in Loads /\ Close(game) \in Tasks
    BY <1>1, <1>5, TasksAre
  <2>2. Close(game) \notin ToSet(rest)
    BY <1>2, <2>1 DEF GamesAreKept, StagesAreApart, Closing
  <2>3. /\ Append(rest, Close(game)) \in Seq(Tasks)
        /\ IsInjective(Append(rest, Close(game)))
        /\ ToSet(Append(rest, Close(game))) = ToSet(rest) \cup {Close(game)}
    BY <1>2, <2>1, <2>2, AppendToSet
  <2> QED
    BY <1>2, <1>3, <1>5, <2>3
<1> QED
  BY <1>4, <1>5

\* The game on the page gives way to the next load, or to none.
LEMMA ShutdownStep ==
  ASSUME GamesAreKept, NEW added,
         tasks' \in Seq(Tasks), IsInjective(tasks'),
         ToSet(tasks') = (ToSet(tasks) \ {Build(loads)})
                           \cup {Close(g) : g \in {game} \ {None}} \cup added,
         \/ added = {} /\ loads' \in {loads, loads + 1}
         \/ added = {Build(loads + 1)} /\ loads' = loads + 1,
         loads' \in 0..MaxLoads, game' = None, UNCHANGED <<running, posted, open>>
  PROVE  GamesAreKept'
<1> USE GameDeskAssumption
<1>1. loads \in Nat /\ loads <= loads' /\ game \in Loads \cup {None} /\ None \notin Loads
  BY DEF GamesAreKept, GamesTypeOK, Loads, None
<1>a. \A g \in Loads : Build(g) \in ToSet(tasks') =>
                        Build(g) \in ToSet(tasks) \/ (g = loads + 1 /\ g <= loads')
  <2> SUFFICES ASSUME NEW g \in Loads, Build(g) \in ToSet(tasks'),
                      Build(g) \notin ToSet(tasks)
               PROVE  g = loads + 1 /\ g <= loads'
    OBVIOUS
  <2>1. \A h : Build(g) # Close(h)
    BY DEF Build, Close
  <2>2. Build(g) \in added
    BY <2>1
  <2>3. Build(g) = Build(loads + 1) /\ loads' = loads + 1
    BY <2>2
  <2>4. g = loads + 1
    BY <2>3 DEF Build
  <2> QED
    BY <1>1, <2>3, <2>4
<1>b. \A g \in Loads : Close(g) \in ToSet(tasks') => Close(g) \in ToSet(tasks) \/ g = game
  BY DEF Build, Close
<1>2. \A g \in Building' : g \in Building \/ (g = loads + 1 /\ g <= loads')
  <2>1. \A g \in Building' : /\ g \in Loads
                             /\ Build(g) \in ToSet(tasks') \/ Build(g) \in running
    BY DEF Building
  <2>2. \A g \in Loads : Build(g) \in ToSet(tasks) \/ Build(g) \in running => g \in Building
    BY DEF Building
  <2> QED
    BY <1>a, <2>1, <2>2
<1>3. \A g \in Building : g # loads + 1 /\ g <= loads'
  <2>1. \A g \in Building : g \in Nat /\ g <= loads
    BY DEF GamesAreKept, LoadsAreNumbered, Loads, Building
  <2> QED
    BY <1>1, <2>1
<1>4. \A g \in Closing' : g \in Closing \/ g = game
  BY <1>b DEF Closing
<1>5. Arrived' = Arrived
  BY DEF Arrived
<1>6. \A g \in Closing \cup Arrived : g # loads + 1 /\ g <= loads'
  <2>1. \A g \in Closing \cup Arrived : g \in Nat /\ g <= loads
    BY DEF GamesAreKept, LoadsAreNumbered, Loads, Closing, Arrived
  <2> QED
    BY <1>1, <2>1
<1>7. game # None => game = loads /\ game # loads + 1 /\ game <= loads'
  BY <1>1 DEF GamesAreKept, CurrentIsLatest
<1>8. GamesTypeOK'
  BY DEF GamesAreKept, GamesTypeOK
<1>9. LoadsAreNumbered'
  <2>1. \A g \in Building' \cup Arrived' \cup Closing' : g \in Loads
    BY DEF Building, Arrived, Closing
  <2> QED
    BY <1>1, <1>2, <1>3, <1>4, <1>5, <1>6, <1>7, <2>1 DEF LoadsAreNumbered
<1>10. StagesAreApart'
  <2>1. \A g \in Loads : Build(g) \notin ToSet(tasks') \cap running'
    <3>1. \A g \in Loads : Build(g) \in running => g \in Building
      BY DEF Building
    <3>2. \A g \in Loads : Build(g) \in ToSet(tasks') => Build(g) \in ToSet(tasks) \/ g = loads + 1
      BY <1>a
    <3> QED
      BY <1>3, <3>1, <3>2 DEF GamesAreKept, StagesAreApart
  <2>2. \A i, k \in DOMAIN posted' : posted'[i].of = posted'[k].of => i = k
    BY DEF GamesAreKept, StagesAreApart
  <2>3. \A g \in Building' \cup Arrived' \cup Closing' : g \in Loads
    BY DEF Building, Arrived, Closing
  <2>4. Building' \cap (Arrived' \cup Closing' \cup {game'}) = {}
    BY <1>1, <1>2, <1>3, <1>4, <1>5, <1>6, <1>7, <2>3 DEF GamesAreKept, StagesAreApart
  <2>5. Arrived' \cap (Closing' \cup {game'}) = {} /\ game' \notin Closing'
    BY <1>1, <1>4, <1>5, <2>3 DEF GamesAreKept, StagesAreApart
  <2> QED
    BY <2>1, <2>2, <2>4, <2>5 DEF StagesAreApart
<1>11. ArrivedIsOpen' /\ CurrentIsLatest'
  BY DEF GamesAreKept, ArrivedIsOpen, CurrentIsLatest
<1>12. NoGameIsLeft'
  <2> SUFFICES ASSUME NEW g \in open
               PROVE  \/ [of |-> g, ok |-> TRUE] \in ToSet(posted)
                      \/ Close(g) \in ToSet(tasks') \cup running
    BY DEF NoGameIsLeft
  <2>2. g \in open /\ g \in Loads
    BY DEF GamesAreKept, GamesTypeOK
  <2>3. CASE game = g
    BY <1>1, <2>2, <2>3
  <2>4. CASE [of |-> g, ok |-> TRUE] \in ToSet(posted)
    BY <2>4
  <2>5. CASE Close(g) \in ToSet(tasks) \cup running
    <3>1. Close(g) # Build(loads)
      BY <2>2 DEF Close, Build
    <3> QED
      BY <2>5, <3>1
  <2> QED
    BY <2>2, <2>3, <2>4, <2>5 DEF GamesAreKept, NoGameIsLeft
<1> QED
  BY <1>8, <1>9, <1>10, <1>11, <1>12 DEF GamesAreKept

LEMMA LoadInv ==
  ASSUME IInv, NEW sides \in SUBSET {0, 1}, NEW target \in 1..MaxTarget,
         Load(sides, target)
  PROVE  IInv'
<1> USE GameDeskAssumption
<1>1. /\ loads \in Nat /\ loads' = loads + 1 /\ loads' \in 0..MaxLoads
      /\ loads + 1 \in Loads
  BY DEF IInv, GamesAreKept, GamesTypeOK, Load, Loads
<1>2. /\ AfterShutdown \in Seq(Tasks) /\ IsInjective(AfterShutdown)
      /\ ToSet(AfterShutdown) =
           (ToSet(tasks) \ {Build(loads)}) \cup {Close(g) : g \in {game} \ {None}}
  BY AfterShutdownIs DEF IInv
<1>3. Build(loads + 1) \in Tasks
  BY <1>1, TasksAre
<1>4. Build(loads + 1) \notin ToSet(AfterShutdown)
  <2>1. loads + 1 \notin Building
    BY <1>1 DEF IInv, GamesAreKept, LoadsAreNumbered
  <2>2. Build(loads + 1) \notin ToSet(tasks)
    BY <1>1, <2>1 DEF Building
  <2>3. \A g : Build(loads + 1) # Close(g)
    BY DEF Build, Close
  <2> QED
    BY <1>2, <2>2, <2>3
<1>5. tasks' = Append(AfterShutdown, Build(loads + 1))
  BY DEF Load
<1>6. /\ tasks' \in Seq(Tasks) /\ IsInjective(tasks')
      /\ ToSet(tasks') = ToSet(AfterShutdown) \cup {Build(loads + 1)}
  BY <1>2, <1>3, <1>4, <1>5, AppendToSet
<1>7. game' = None /\ UNCHANGED <<running, posted, open>>
  BY DEF Load
<1>8. GamesAreKept'
  BY <1>1, <1>2, <1>6, <1>7, ShutdownStep DEF IInv
<1>9. PageTypeOK'
  <2>1. NewGame(target) \in Engines
    BY DEF NewGame, Engines, Failures
  <2>2. error' = FALSE /\ auto' = sides /\ engine' = NewGame(target)
        /\ UNCHANGED <<shown, blocked, ended>>
    BY DEF Load
  <2>3. error' \in BOOLEAN
    BY <2>2
  <2> QED
    BY <2>1, <2>2, <2>3 DEF IInv, PageTypeOK
<1>10. BoardIsKept'
  BY <1>7 DEF BoardIsKept, None
<1> QED
  BY <1>8, <1>9, <1>10 DEF IInv

LEMMA StartInv == IInv /\ (StartGame \/ SwapSides) => IInv'
<1> SUFFICES ASSUME IInv, StartGame \/ SwapSides PROVE IInv'
  OBVIOUS
<1>1. CASE StartGame
  <2>1. PICK sides \in Computer : Load(sides, 1)
    BY <1>1 DEF StartGame
  <2>2. sides \in SUBSET {0, 1} /\ 1 \in 1..MaxTarget
    BY GameDeskAssumption
  <2> QED
    BY <2>1, <2>2, LoadInv
<1>2. CASE SwapSides
  <2>1. Load({1 - s : s \in auto}, shown.target)
    BY <1>2 DEF SwapSides
  <2>2. {1 - s : s \in auto} \in SUBSET {0, 1} /\ shown.target \in 1..MaxTarget
    BY DEF IInv, PageTypeOK
  <2> QED
    BY <2>1, <2>2, LoadInv
<1> QED
  BY <1>1, <1>2

LEMMA EndInv == IInv /\ (EndGame \/ Quit) => IInv'
<1> SUFFICES ASSUME IInv, EndGame \/ Quit PROVE IInv'
  OBVIOUS
<1> USE GameDeskAssumption
<1>1. /\ loads' \in {loads, loads + 1} /\ loads' \in 0..MaxLoads
      /\ tasks' = AfterShutdown /\ game' = None /\ UNCHANGED <<running, posted, open>>
  BY DEF IInv, GamesAreKept, GamesTypeOK, EndGame, Quit
<1>2. /\ AfterShutdown \in Seq(Tasks) /\ IsInjective(AfterShutdown)
      /\ ToSet(AfterShutdown) =
           (ToSet(tasks) \ {Build(loads)}) \cup {Close(g) : g \in {game} \ {None}}
  BY AfterShutdownIs DEF IInv
<1>3. GamesAreKept'
  <2>1. /\ tasks' \in Seq(Tasks) /\ IsInjective(tasks')
        /\ ToSet(tasks') = (ToSet(tasks) \ {Build(loads)})
                             \cup {Close(g) : g \in {game} \ {None}} \cup {}
    BY <1>1, <1>2
  <2> QED
    BY <1>1, <2>1, ShutdownStep DEF IInv
<1>4. PageTypeOK'
  <2>1. CASE EndGame
    <3>1. 0 \in 0..MaxPlies
      OBVIOUS
    <3>2. error' = FALSE /\ UNCHANGED <<engine, auto, blocked, ended>>
          /\ shown' = [shown EXCEPT !.of = None, !.plies = 0]
      BY <2>1 DEF EndGame
    <3>3. error' \in BOOLEAN
      BY <3>2
    <3> QED
      BY <3>1, <3>2, <3>3 DEF IInv, PageTypeOK
  <2>2. CASE Quit
    <3>1. ended' \in BOOLEAN
      BY <2>2 DEF Quit
    <3> QED
      BY <2>2, <3>1 DEF IInv, PageTypeOK, Quit
  <2> QED
    BY <2>1, <2>2
<1>5. BoardIsKept'
  BY <1>1 DEF BoardIsKept, None
<1> QED
  BY <1>3, <1>4, <1>5 DEF IInv

\* What the pool does is not seen on the page.
LEMMA SamePage ==
  ASSUME IInv, UNCHANGED <<pageVars, engine, ended>>
  PROVE  PageTypeOK' /\ BoardIsKept'
BY DEF IInv, PageTypeOK, BoardIsKept, AutoTurn, pageVars

LEMMA TakeTaskInv == IInv /\ TakeTask => IInv'
<1> SUFFICES ASSUME IInv, TakeTask PROVE IInv'
  OBVIOUS
<1> DEFINE t == Head(tasks)
<1>1. tasks \in Seq(Tasks) /\ tasks # <<>> /\ IsInjective(tasks) /\ tasks' = Tail(tasks)
  BY DEF IInv, GamesAreKept, GamesTypeOK, StagesAreApart, TakeTask
<1>2. /\ tasks' \in Seq(Tasks) /\ IsInjective(tasks')
      /\ ToSet(tasks') = ToSet(tasks) \ {t} /\ t \in ToSet(tasks) /\ t \in Tasks
  BY <1>1, TailOfSet
<1>3. /\ UNCHANGED <<loads, posted, open, game>>
      /\ UNCHANGED <<pageVars, engine, ended>>
  BY DEF TakeTask, pageVars
<1>4. /\ running' = running \/ running' = running \cup {t}
      /\ \A g : t = Close(g) => running' = running \cup {t}
  BY DEF TakeTask, Close
<1> HIDE DEF t
<1>5. Building' \subseteq Building /\ Closing' = Closing /\ Arrived' = Arrived
  <2>1. Building' \subseteq Building
    BY <1>2, <1>4 DEF Building
  <2>2. \A g \in Loads : Close(g) \in ToSet(tasks') \cup running'
                           <=> Close(g) \in ToSet(tasks) \cup running
    BY <1>2, <1>4
  <2> QED
    BY <1>3, <2>1, <2>2 DEF Closing, Arrived
<1>6. GamesTypeOK'
  BY <1>2, <1>3, <1>4 DEF IInv, GamesAreKept, GamesTypeOK
<1>7. StagesAreApart'
  <2>1. \A g \in Loads : Build(g) \notin ToSet(tasks') \cap running'
    BY <1>2, <1>4 DEF IInv, GamesAreKept, StagesAreApart
  <2> QED
    BY <1>2, <1>3, <1>5, <2>1 DEF IInv, GamesAreKept, StagesAreApart
<1>8. LoadsAreNumbered' /\ ArrivedIsOpen' /\ CurrentIsLatest'
  BY <1>3, <1>5 DEF IInv, GamesAreKept, LoadsAreNumbered, ArrivedIsOpen, CurrentIsLatest
<1>9. NoGameIsLeft'
  <2>1. \A g \in open : Close(g) \in ToSet(tasks) \cup running
                          => Close(g) \in ToSet(tasks') \cup running'
    BY <1>2, <1>4
  <2> QED
    BY <1>3, <2>1 DEF IInv, GamesAreKept, NoGameIsLeft
<1> QED
  BY <1>3, <1>6, <1>7, <1>8, <1>9, SamePage DEF IInv, GamesAreKept

-----------------------------------------------------------------------------
(* Results of the pool.                                                    *)

Outcomes == [of : Loads, ok : BOOLEAN]

LEMMA EndBuildInv ==
  ASSUME IInv, NEW t \in running, EndBuild(t)
  PROVE  IInv'
<1>1. PICK ok \in BOOLEAN :
        /\ posted' = Append(posted, [of |-> t.of, ok |-> ok])
        /\ open' = IF ok THEN open \cup {t.of} ELSE open
  BY DEF EndBuild
<1>2. /\ running' = running \ {t} /\ t.kind = "build"
      /\ UNCHANGED <<loads, tasks, game>> /\ UNCHANGED <<pageVars, engine, ended>>
  BY DEF EndBuild, pageVars
<1> DEFINE g == t.of
           r == [of |-> g, ok |-> ok]
<1>3. t \in Tasks /\ g \in Loads /\ t = Build(g) /\ r \in Outcomes
  BY <1>2, TasksAre DEF IInv, GamesAreKept, GamesTypeOK, Outcomes
<1>4. g \in Building /\ g \notin Arrived \cup Closing \cup {game}
      /\ Build(g) \notin ToSet(tasks)
  BY <1>3 DEF Building, IInv, GamesAreKept, StagesAreApart
<1>5. posted' = Append(posted, r) /\ r.of = g /\ (r.ok => g \in open')
  BY <1>1
<1>6. posted \in Seq(Outcomes)
  BY DEF IInv, GamesAreKept, GamesTypeOK, Outcomes
<1> HIDE DEF g, r
<1>7. /\ posted' \in Seq(Outcomes) /\ Len(posted) \in Nat
      /\ DOMAIN posted = 1..Len(posted) /\ DOMAIN posted' = 1..Len(posted) + 1
      /\ \A i \in 1..Len(posted) : posted'[i] = posted[i]
      /\ posted'[Len(posted) + 1] = r
  BY <1>3, <1>5, <1>6
<1>8. Arrived' = Arrived \cup {g}
  <2>1. \A h \in Arrived' : h \in Arrived \cup {g}
    BY <1>5, <1>7 DEF Arrived
  <2>2. \A h \in Arrived : h \in Arrived'
    BY <1>7 DEF Arrived
  <2>3. g \in Arrived'
    BY <1>3, <1>5, <1>7 DEF Arrived
  <2> QED
    BY <2>1, <2>2, <2>3
<1>9. Building' \subseteq Building \ {g} /\ Closing' = Closing
  <2>1. \A h \in Loads : Close(h) # t
    BY <1>3, TasksAre
  <2> QED
    BY <1>2, <1>3, <1>4, <2>1 DEF Building, Closing
<1>10. GamesTypeOK'
  <2>1. open' \subseteq Loads
    BY <1>1, <1>3 DEF IInv, GamesAreKept, GamesTypeOK, g
  <2> QED
    BY <1>2, <1>7, <2>1 DEF IInv, GamesAreKept, GamesTypeOK, Outcomes
<1>11. StagesAreApart'
  <2>1. \A i \in 1..Len(posted) : posted[i].of # g
    BY <1>3, <1>4, <1>7 DEF Arrived
  <2>2. \A i, k \in DOMAIN posted' : posted'[i].of = posted'[k].of => i = k
    BY <1>5, <1>7, <2>1 DEF IInv, GamesAreKept, StagesAreApart
  <2> QED
    BY <1>2, <1>4, <1>8, <1>9, <2>2 DEF IInv, GamesAreKept, StagesAreApart
<1>12. LoadsAreNumbered' /\ CurrentIsLatest'
  BY <1>1, <1>2, <1>4, <1>8, <1>9
     DEF IInv, GamesAreKept, LoadsAreNumbered, CurrentIsLatest
<1>13. ArrivedIsOpen'
  BY <1>1, <1>5, <1>7 DEF IInv, GamesAreKept, ArrivedIsOpen
<1>14. NoGameIsLeft'
  <2> SUFFICES ASSUME NEW h \in open'
               PROVE  \/ game' = h \/ [of |-> h, ok |-> TRUE] \in ToSet(posted')
                      \/ Close(h) \in ToSet(tasks') \cup running'
    BY DEF NoGameIsLeft
  <2>1. CASE h \in open
    <3>1. CASE game = h
      BY <1>2, <3>1
    <3>2. CASE [of |-> h, ok |-> TRUE] \in ToSet(posted)
      <4>1. ToSet(posted) \subseteq ToSet(posted')
        BY <1>7 DEF ToSet
      <4> QED
        BY <3>2, <4>1
    <3>3. CASE Close(h) \in ToSet(tasks) \cup running
      <4>1. Close(h) # t
        BY <1>3 DEF Build, Close
      <4> QED
        BY <1>2, <3>3, <4>1
    <3> QED
      BY <2>1, <3>1, <3>2, <3>3 DEF IInv, GamesAreKept, NoGameIsLeft
  <2>2. CASE h \notin open
    <3>1. ok = TRUE /\ h = g
      BY <1>1, <2>2 DEF g
    <3>2. r = [of |-> h, ok |-> TRUE]
      BY <3>1 DEF r
    <3>3. Len(posted) + 1 \in DOMAIN posted'
      BY <1>7
    <3>4. r \in ToSet(posted')
      BY <1>7, <3>3 DEF ToSet
    <3> QED
      BY <3>2, <3>4
  <2> QED
    BY <2>1, <2>2
<1> QED
  BY <1>2, <1>10, <1>11, <1>12, <1>13, <1>14, SamePage DEF IInv, GamesAreKept

\* The game that is closed is neither on the page nor on its way there.
LEMMA EndCloseInv ==
  ASSUME IInv, NEW t \in running, EndClose(t)
  PROVE  IInv'
<1> DEFINE g == t.of
<1>1. /\ running' = running \ {t} /\ open' = open \ {g}
      /\ UNCHANGED <<loads, tasks, posted, game>> /\ UNCHANGED <<pageVars, engine, ended>>
  BY DEF EndClose, pageVars
<1>2. t \in Tasks /\ g \in Loads /\ t = Close(g)
  BY TasksAre DEF IInv, GamesAreKept, GamesTypeOK, EndClose
<1> HIDE DEF g
<1>3. g \in Closing /\ g \notin Arrived /\ g # game
  BY <1>2 DEF Closing, IInv, GamesAreKept, StagesAreApart
<1>4. Building' = Building /\ Arrived' = Arrived /\ Closing' \subseteq Closing
  <2>1. \A h \in Loads : Build(h) # t
    BY <1>2, TasksAre
  <2> QED
    BY <1>1, <2>1 DEF Building, Arrived, Closing
<1>5. GamesTypeOK' /\ StagesAreApart' /\ LoadsAreNumbered' /\ CurrentIsLatest'
  <2>1. GamesTypeOK'
    BY <1>1 DEF IInv, GamesAreKept, GamesTypeOK
  <2>2. StagesAreApart'
    BY <1>1, <1>4 DEF IInv, GamesAreKept, StagesAreApart
  <2>3. LoadsAreNumbered' /\ CurrentIsLatest'
    BY <1>1, <1>3, <1>4 DEF IInv, GamesAreKept, LoadsAreNumbered, CurrentIsLatest
  <2> QED
    BY <2>1, <2>2, <2>3
<1>6. ArrivedIsOpen'
  <2>1. \A i \in DOMAIN posted : posted[i].of # g
    BY <1>2, <1>3 DEF Arrived
  <2> QED
    BY <1>1, <2>1 DEF IInv, GamesAreKept, ArrivedIsOpen
<1>7. NoGameIsLeft'
  <2>1. \A h \in open' : Close(h) # t
    BY <1>1, <1>2 DEF Close
  <2> QED
    BY <1>1, <2>1 DEF IInv, GamesAreKept, NoGameIsLeft
<1> QED
  BY <1>1, <1>5, <1>6, <1>7, SamePage DEF IInv, GamesAreKept

\* A result is delivered: the first one leaves, the others stay as they are.
LEMMA Delivered ==
  ASSUME IInv, posted # <<>>, posted' = Tail(posted)
  PROVE  /\ posted' \in Seq(Outcomes) /\ Head(posted) \in Outcomes
         /\ Head(posted).of \in Arrived
         /\ Head(posted).ok => Head(posted).of \in open
         /\ Arrived' = Arrived \ {Head(posted).of}
         /\ \A i, k \in DOMAIN posted' : posted'[i].of = posted'[k].of => i = k
         /\ \A i \in DOMAIN posted' : i + 1 \in DOMAIN posted /\ posted'[i] = posted[i + 1]
         /\ ToSet(posted) \subseteq ToSet(posted') \cup {Head(posted)}
<1>1. posted \in Seq(Outcomes)
  BY DEF IInv, GamesAreKept, GamesTypeOK, Outcomes
<1>2. /\ posted' \in Seq(Outcomes) /\ Head(posted) \in Outcomes
      /\ Len(posted) \in Nat \ {0} /\ Head(posted) = posted[1]
      /\ DOMAIN posted = 1..Len(posted) /\ DOMAIN posted' = 1..Len(posted) - 1
      /\ \A i \in 1..Len(posted) - 1 : posted'[i] = posted[i + 1]
  BY <1>1
<1>3. Head(posted).of \in Loads
  BY <1>2 DEF Outcomes
<1>4. \A i, k \in 1..Len(posted) : posted[i].of = posted[k].of => i = k
  BY <1>2 DEF IInv, GamesAreKept, StagesAreApart
<1>5. Head(posted).of \in Arrived /\ (Head(posted).ok => Head(posted).of \in open)
  BY <1>2, <1>3 DEF Arrived, IInv, GamesAreKept, ArrivedIsOpen
<1>6. \A g \in Arrived' : g \in Arrived /\ g # Head(posted).of
  <2> SUFFICES ASSUME NEW g \in Arrived' PROVE g \in Arrived /\ g # Head(posted).of
    OBVIOUS
  <2>1. PICK i \in 1..Len(posted) - 1 : posted'[i].of = g
    BY <1>2 DEF Arrived
  <2>2. posted[i + 1].of = g /\ i + 1 \in 1..Len(posted) /\ i + 1 # 1 /\ g \in Loads
    BY <1>2, <2>1 DEF Arrived
  <2> QED
    BY <1>2, <1>4, <2>2 DEF Arrived
<1>7. \A g \in Arrived : g # Head(posted).of => g \in Arrived'
  <2> SUFFICES ASSUME NEW g \in Arrived, g # Head(posted).of PROVE g \in Arrived'
    OBVIOUS
  <2>1. PICK i \in 1..Len(posted) : posted[i].of = g
    BY <1>2 DEF Arrived
  <2>2. i - 1 \in 1..Len(posted) - 1 /\ posted'[i - 1] = posted[i]
    BY <1>2, <2>1
  <2> QED
    BY <1>2, <2>1, <2>2 DEF Arrived
<1>8. \A i, k \in DOMAIN posted' : posted'[i].of = posted'[k].of => i = k
  <2> SUFFICES ASSUME NEW i \in 1..Len(posted) - 1, NEW k \in 1..Len(posted) - 1,
                      posted'[i].of = posted'[k].of
               PROVE  i = k
    BY <1>2
  <2>1. posted[i + 1].of = posted[k + 1].of
        /\ i + 1 \in 1..Len(posted) /\ k + 1 \in 1..Len(posted)
    BY <1>2
  <2>2. i + 1 = k + 1
    BY <1>4, <2>1
  <2> QED
    BY <2>2
<1>9. \A i \in DOMAIN posted' : i + 1 \in DOMAIN posted /\ posted'[i] = posted[i + 1]
  BY <1>2
<1>10. ToSet(posted) \subseteq ToSet(posted') \cup {Head(posted)}
  <2> SUFFICES ASSUME NEW r \in ToSet(posted), r # Head(posted) PROVE r \in ToSet(posted')
    OBVIOUS
  <2>1. PICK i \in 1..Len(posted) : posted[i] = r
    BY <1>2 DEF ToSet
  <2>2. i - 1 \in 1..Len(posted) - 1 /\ posted'[i - 1] = r
    BY <1>2, <2>1
  <2> QED
    BY <1>2, <2>2 DEF ToSet
<1> QED
  BY <1>2, <1>5, <1>6, <1>7, <1>8, <1>9, <1>10

LEMMA ApplyLoadedInv == IInv /\ ApplyLoaded => IInv'
<1> SUFFICES ASSUME IInv, ApplyLoaded PROVE IInv'
  OBVIOUS
<1> DEFINE r == Head(posted)
<1>1. /\ posted # <<>> /\ r.of = loads /\ posted' = Tail(posted)
      /\ UNCHANGED <<loads, tasks, running, open, auto, blocked, ended>>
  BY DEF ApplyLoaded
<1>2. /\ posted' \in Seq(Outcomes) /\ r \in Outcomes /\ loads \in Arrived
      /\ r.ok => loads \in open
      /\ Arrived' = Arrived \ {loads}
      /\ \A i, k \in DOMAIN posted' : posted'[i].of = posted'[k].of => i = k
      /\ \A i \in DOMAIN posted' : i + 1 \in DOMAIN posted /\ posted'[i] = posted[i + 1]
      /\ ToSet(posted) \subseteq ToSet(posted') \cup {r}
  BY <1>1, Delivered
<1>3. loads \in Loads /\ loads \notin Building /\ loads \notin Closing /\ game # loads
  BY <1>2 DEF Arrived, IInv, GamesAreKept, StagesAreApart
<1>4. game = None
  BY <1>3 DEF IInv, GamesAreKept, CurrentIsLatest
<1>5. \/ r.ok /\ game' = loads /\ Poll(loads, engine, error)
      \/ ~r.ok /\ game' = None /\ error' = TRUE /\ UNCHANGED <<engine, shown>>
  BY DEF ApplyLoaded
<1>6. PageTypeOK' /\ BoardIsKept'
  <2>1. CASE game' = loads /\ Poll(loads, engine, error)
    <3>1. engine \in Engines /\ blocked' \in Moves \cup {"no"}
      BY <1>1 DEF IInv, PageTypeOK
    <3> QED
      BY <1>1, <1>3, <2>1, <3>1, PollLemma DEF IInv
  <2>2. CASE error' = TRUE /\ UNCHANGED <<engine, shown>>
    BY <1>1, <2>2 DEF IInv, PageTypeOK, BoardIsKept
  <2> QED
    BY <1>5, <2>1, <2>2
<1> HIDE DEF r
<1>7. Building' = Building /\ Closing' = Closing
  BY <1>1 DEF Building, Closing
<1>8. GamesTypeOK'
  BY <1>1, <1>2, <1>3, <1>5 DEF IInv, GamesAreKept, GamesTypeOK, Outcomes
<1>9. StagesAreApart'
  <2>1. \A g \in Building \cup Closing \cup Arrived : g # None
    BY DEF Building, Closing, Arrived, Loads, None
  <2>2. game' \in {loads, None}
    BY <1>5
  <2>3. /\ Building \cap (Arrived \cup Closing) = {} /\ Arrived \cap Closing = {}
        /\ IsInjective(tasks) /\ \A g \in Loads : Build(g) \notin ToSet(tasks) \cap running
    BY DEF IInv, GamesAreKept, StagesAreApart
  <2> QED
    BY <1>1, <1>2, <1>3, <1>7, <2>1, <2>2, <2>3 DEF StagesAreApart
<1>10. LoadsAreNumbered' /\ ArrivedIsOpen' /\ CurrentIsLatest'
  BY <1>1, <1>2, <1>5, <1>7
     DEF IInv, GamesAreKept, LoadsAreNumbered, ArrivedIsOpen, CurrentIsLatest
<1>11. NoGameIsLeft'
  <2> SUFFICES ASSUME NEW g \in open
               PROVE  \/ game' = g \/ [of |-> g, ok |-> TRUE] \in ToSet(posted')
                      \/ Close(g) \in ToSet(tasks) \cup running
    BY <1>1 DEF NoGameIsLeft
  <2>1. g # None
    BY DEF IInv, GamesAreKept, GamesTypeOK, Loads, None
  <2>2. CASE [of |-> g, ok |-> TRUE] = r
    BY <1>1, <1>5, <2>2 DEF r
  <2>3. CASE [of |-> g, ok |-> TRUE] # r
    BY <1>2, <1>4, <2>1, <2>3 DEF IInv, GamesAreKept, NoGameIsLeft
  <2> QED
    BY <2>2, <2>3
<1> QED
  BY <1>6, <1>8, <1>9, <1>10, <1>11 DEF IInv, GamesAreKept

\* A result that was superseded: its game, if there is one, is going to be closed.
LEMMA DropLoadedInv == IInv /\ DropLoaded => IInv'
<1> SUFFICES ASSUME IInv, DropLoaded PROVE IInv'
  OBVIOUS
<1> DEFINE r == Head(posted)
           g == r.of
<1>1. /\ posted # <<>> /\ g # loads /\ posted' = Tail(posted)
      /\ tasks' = (IF r.ok THEN Append(tasks, Close(g)) ELSE tasks)
      /\ UNCHANGED <<loads, running, open, game>> /\ UNCHANGED <<pageVars, engine, ended>>
  BY DEF DropLoaded, pageVars
<1>2. /\ posted' \in Seq(Outcomes) /\ r \in Outcomes /\ g \in Arrived
      /\ Arrived' = Arrived \ {g}
      /\ \A i, k \in DOMAIN posted' : posted'[i].of = posted'[k].of => i = k
      /\ \A i \in DOMAIN posted' : i + 1 \in DOMAIN posted /\ posted'[i] = posted[i + 1]
      /\ ToSet(posted) \subseteq ToSet(posted') \cup {r}
  BY <1>1, Delivered
<1> HIDE DEF r, g
<1>3. g \in Loads /\ g \notin Building /\ g \notin Closing /\ game # g
  BY <1>2 DEF Arrived, IInv, GamesAreKept, StagesAreApart
<1>4. Close(g) \in Tasks /\ Close(g) \notin ToSet(tasks)
      /\ tasks \in Seq(Tasks) /\ IsInjective(tasks)
  BY <1>3, TasksAre DEF Closing, IInv, GamesAreKept, GamesTypeOK, StagesAreApart
<1>5. /\ tasks' \in Seq(Tasks) /\ IsInjective(tasks')
      /\ ToSet(tasks') = ToSet(tasks) \cup (IF r.ok THEN {Close(g)} ELSE {})
  BY <1>1, <1>4, AppendToSet
<1>6. Building' = Building
  <2>1. \A h \in Loads : Build(h) # Close(g)
    BY <1>3, TasksAre
  <2> QED
    BY <1>1, <1>5, <2>1 DEF Building
<1>7. Closing' \subseteq Closing \cup {g}
  <2>1. \A h \in Loads : Close(h) = Close(g) => h = g
    BY <1>3, TasksAre
  <2> QED
    BY <1>1, <1>5, <2>1 DEF Closing
<1>8. GamesTypeOK'
  BY <1>1, <1>2, <1>5 DEF IInv, GamesAreKept, GamesTypeOK, Outcomes
<1>9. StagesAreApart'
  <2>1. \A h \in Loads : Build(h) \notin ToSet(tasks') \cap running'
    <3>1. \A h \in Loads : Build(h) # Close(g)
      BY <1>3, TasksAre
    <3> QED
      BY <1>1, <1>5, <3>1 DEF IInv, GamesAreKept, StagesAreApart
  <2>2. /\ Building \cap (Arrived \cup Closing \cup {game}) = {}
        /\ Arrived \cap (Closing \cup {game}) = {} /\ game \notin Closing
    BY DEF IInv, GamesAreKept, StagesAreApart
  <2> QED
    BY <1>1, <1>2, <1>3, <1>5, <1>6, <1>7, <2>1, <2>2 DEF StagesAreApart
<1>10. LoadsAreNumbered' /\ ArrivedIsOpen' /\ CurrentIsLatest'
  BY <1>1, <1>2, <1>6, <1>7
     DEF IInv, GamesAreKept, LoadsAreNumbered, ArrivedIsOpen, CurrentIsLatest
<1>11. NoGameIsLeft'
  <2> SUFFICES ASSUME NEW h \in open
               PROVE  \/ game = h \/ [of |-> h, ok |-> TRUE] \in ToSet(posted')
                      \/ Close(h) \in ToSet(tasks') \cup running
    BY <1>1 DEF NoGameIsLeft
  <2>1. CASE [of |-> h, ok |-> TRUE] = r
    <3>1. r.ok /\ g = h
      BY <2>1 DEF g
    <3> QED
      BY <1>5, <3>1
  <2>2. CASE [of |-> h, ok |-> TRUE] # r
    BY <1>2, <1>5, <2>2 DEF IInv, GamesAreKept, NoGameIsLeft
  <2> QED
    BY <2>1, <2>2
<1> QED
  BY <1>1, <1>8, <1>9, <1>10, <1>11, SamePage DEF IInv, GamesAreKept

-----------------------------------------------------------------------------
LEMMA InitInv == Init => IInv
<1> SUFFICES ASSUME Init PROVE IInv
  OBVIOUS
<1> USE GameDeskAssumption
<1>1. /\ tasks = <<>> /\ posted = <<>> /\ running = {} /\ open = {} /\ game = None
      /\ loads = 0
  BY DEF Init
<1>2. ToSet(tasks) = {} /\ IsInjective(tasks) /\ DOMAIN posted = {}
  BY <1>1 DEF ToSet, IsInjective
<1>3. Building = {} /\ Arrived = {} /\ Closing = {}
  BY <1>1, <1>2 DEF Building, Arrived, Closing
<1>4. GamesTypeOK
  BY <1>1 DEF GamesTypeOK
<1>5. StagesAreApart /\ LoadsAreNumbered /\ ArrivedIsOpen
  BY <1>1, <1>2, <1>3 DEF StagesAreApart, LoadsAreNumbered, ArrivedIsOpen
<1>6. CurrentIsLatest /\ NoGameIsLeft /\ BoardIsKept
  BY <1>1 DEF CurrentIsLatest, NoGameIsLeft, BoardIsKept
<1>7. PageTypeOK
  <2>1. NewGame(1) \in Engines
    BY DEF NewGame, Engines, Failures
  <2>2. Blank \in [of : Loads \cup {None}, plies : 0..MaxPlies, visits : 0..MaxTarget,
                   target : 1..MaxTarget]
    BY DEF Blank
  <2>3. error \in BOOLEAN /\ ended \in BOOLEAN
    BY Zenon DEF Init
  <2> QED
    BY <2>1, <2>2, <2>3 DEF Init, PageTypeOK
<1> QED
  BY <1>4, <1>5, <1>6, <1>7 DEF IInv, GamesAreKept

LEMMA StepInv == IInv /\ [Next]_vars => IInv'
<1> SUFFICES ASSUME IInv, [Next]_vars PROVE IInv'
  OBVIOUS
<1>1. CASE UNCHANGED vars
  <2>1. UNCHANGED <<loads, poolVars, game>> /\ UNCHANGED <<pageVars, engine, ended>>
    BY <1>1 DEF vars, pageVars
  <2> QED
    BY <2>1, SameGames, SamePage DEF IInv
<1>2. CASE Player
  BY <1>2, StartInv, EndInv, MoveInv, SlotsInv, TimerInv DEF Player
<1>3. CASE Pool
  BY <1>3, TakeTaskInv, EndBuildInv, EndCloseInv DEF Pool
<1>4. CASE Timer \/ ApplyLoaded \/ DropLoaded \/ Resume \/ Search
  BY <1>4, TimerInv, ApplyLoadedInv, DropLoadedInv, MoveInv, SearchInv
<1> QED
  BY <1>1, <1>2, <1>3, <1>4 DEF Next

\* The page is true: whatever the order in which loads, results and the computer's
\* moves come, the game on the page is the last one started and open, every other
\* open game is to be closed, and as long as no error is shown the board is that of
\* the game, with all its moves whenever a player's column is taken (app.py: _poll,
\* humanTurn, makeMove).  Of a page that shows an error it claims nothing: there
\* the code takes columns on a board that an undo has made stale.
THEOREM PageStaysTrue == Spec => []PageIsTrue
<1>1. IInv => PageIsTrue
  <2> SUFFICES ASSUME IInv PROVE PageIsTrue
    OBVIOUS
  <2>1. TypeOK
    BY TypeParts DEF IInv, GamesAreKept
  <2>2. BoardIsTrue
    BY DEF IInv, BoardIsKept, BoardIsTrue, HumanTurn
  <2> QED
    BY <2>1, <2>2 DEF IInv, GamesAreKept, PageIsTrue
<1> QED
  BY <1>1, InitInv, StepInv, PTL DEF Spec

-----------------------------------------------------------------------------
(***************************************************************************)
(* The Models page.  What is asked for is waiting, being read, or on its   *)
(* way back, and carries the revision and the directory of its request.    *)
(***************************************************************************)
Asked == ToSet(queue) \cup reading \cup ToSet(arrived)

\* The list with this number, and where it stands in a queue.
IsList(r, n) == r.kind = "models" /\ r.revision = n
Places(s, n) == {i \in DOMAIN s : IsList(s[i], n)}

\* A request for another directory asks for other lists and statistics, so
\* that those with the latest numbers are of the directory that is set.
LatestIsOfTheDirectory ==
  \A r \in Asked :
    /\ r.kind = "models" =>
         r.revision <= refreshed /\ (r.revision = refreshed => r.dir = dir)
    /\ r.kind = "stats" =>
         r.revision <= inspected /\ (r.revision = inspected => r.dir = dir)

\* The list asked for last is in one place, once.
LatestIsOne ==
  /\ \A i, k \in Places(queue, refreshed) : i = k
  /\ \A r, s \in reading : IsList(r, refreshed) /\ IsList(s, refreshed) => r = s
  /\ \A i, k \in Places(arrived, refreshed) : i = k
  /\ Places(queue, refreshed) # {} =>
       \A r \in reading \cup ToSet(arrived) : ~IsList(r, refreshed)
  /\ Places(arrived, refreshed) # {} => \A r \in reading : ~IsList(r, refreshed)

\* A directory only gets newer: what is shown of it was there before what was
\* asked for last is read, and that before now.
ListIsOld ==
  /\ models # Nothing => models.version <= disk[models.dir]
  /\ \A r \in reading \cup ToSet(arrived) : IsList(r, refreshed) =>
       /\ r.version <= disk[r.dir]
       /\ models # Nothing => models.version <= r.version

RequestsAreFew == refreshed + inspected <= MaxRequests + 1

BrowserInv ==
  /\ ListIsTrue
  /\ RequestsAreFew
  /\ LatestIsOfTheDirectory
  /\ LatestIsOne
  /\ ListIsOld

\* Another message joins those with its number,
LEMMA PlacesAppend ==
  ASSUME NEW S, NEW s \in Seq(S), NEW x \in S, NEW n
  PROVE  /\ IsList(x, n) => Places(Append(s, x), n) = Places(s, n) \cup {Len(s) + 1}
         /\ ~IsList(x, n) => Places(Append(s, x), n) = Places(s, n)
<1>1. /\ DOMAIN Append(s, x) = DOMAIN s \cup {Len(s) + 1} /\ Len(s) + 1 \notin DOMAIN s
      /\ \A i \in DOMAIN s : Append(s, x)[i] = s[i]
      /\ Append(s, x)[Len(s) + 1] = x
  OBVIOUS
<1> QED
  BY <1>1 DEF Places

\* and the first one leaves them.
LEMMA PlacesTail ==
  ASSUME NEW S, NEW s \in Seq(S), s # <<>>, NEW n, \A i, k \in Places(s, n) : i = k
  PROVE  /\ \A i, k \in Places(Tail(s), n) : i = k
         /\ Places(s, n) = {} => Places(Tail(s), n) = {}
         /\ IsList(Head(s), n) => Places(s, n) # {} /\ Places(Tail(s), n) = {}
<1>1. /\ Head(s) = s[1] /\ 1 \in DOMAIN s /\ DOMAIN Tail(s) \subseteq Nat \ {0}
      /\ \A i \in DOMAIN Tail(s) : i + 1 \in DOMAIN s /\ Tail(s)[i] = s[i + 1]
  OBVIOUS
<1>2. \A i \in Places(Tail(s), n) : i \in Nat \ {0} /\ i + 1 \in Places(s, n)
  BY <1>1 DEF Places
<1>3. \A i, k \in Places(Tail(s), n) : i = k
  <2> TAKE i, k \in Places(Tail(s), n)
  <2>1. i + 1 = k + 1 /\ i \in Nat /\ k \in Nat
    BY <1>2
  <2> QED
    BY <2>1
<1>4. ASSUME IsList(Head(s), n) PROVE Places(s, n) # {} /\ Places(Tail(s), n) = {}
  <2>1. 1 \in Places(s, n)
    BY <1>1, <1>4 DEF Places
  <2>2. ASSUME NEW i \in Places(Tail(s), n) PROVE FALSE
    <3>1. i + 1 = 1 /\ i \in Nat \ {0}
      BY <1>2, <2>1
    <3> QED
      BY <3>1
  <2> QED
    BY <2>1, <2>2
<1> QED
  BY <1>2, <1>3, <1>4

\* Every message stands somewhere.
LEMMA PlacesAll ==
  ASSUME NEW s, NEW n
  PROVE  Places(s, n) = {} <=> \A r \in ToSet(s) : ~IsList(r, n)
BY DEF Places, ToSet

\* The page, without the queues.
LEMMA BrowserTypes ==
  ASSUME BrowserInv
  PROVE  /\ refreshed \in Nat /\ inspected \in Nat /\ MaxRequests \in Nat
         /\ refreshed + 1 \notin {refreshed} /\ models \in Readings
         /\ queue \in Seq(ReadingTasks) /\ arrived \in Seq(Results) /\ reading \subseteq Results
         /\ ToSet(queue) \subseteq ReadingTasks /\ ToSet(arrived) \subseteq Results
         /\ \A r \in Asked : r.kind \in {"models", "stats"} /\ r.revision \in Nat /\ r.dir \in Dirs
<1>1. queue \in Seq(ReadingTasks) /\ arrived \in Seq(Results) /\ reading \subseteq Results
  BY DEF BrowserInv, ListIsTrue, BrowserTypeOK
<1>2. ToSet(queue) \subseteq ReadingTasks /\ ToSet(arrived) \subseteq Results
  BY <1>1 DEF ToSet
<1>3. MaxRequests \in Nat /\ Revisions \subseteq Nat
  BY ModelBrowserAssumption DEF Revisions
<1>4. \A r \in Asked : r.kind \in {"models", "stats"} /\ r.revision \in Nat /\ r.dir \in Dirs
  <2>1. \A r \in ReadingTasks \cup Results :
          r.kind \in {"models", "stats"} /\ r.revision \in Revisions /\ r.dir \in Dirs
    BY DEF ReadingTasks, Results
  <2> QED
    BY <1>1, <1>2, <1>3, <2>1 DEF Asked
<1> QED
  BY <1>1, <1>2, <1>3, <1>4 DEF BrowserInv, ListIsTrue, BrowserTypeOK

\* A list is asked for, of this directory or another one.
LEMMA AskInv ==
  ASSUME BrowserInv, MayAsk, NEW d \in Dirs, dir' = d, refreshed' = refreshed + 1,
         status' = "loading",
         queue' = Append(queue, Request(d, refreshed + 1)),
         \/ d = dir /\ UNCHANGED <<inspected, models>>
         \/ inspected' = inspected + 1 /\ models' = Nothing,
         UNCHANGED <<disk, page, reading, done, arrived, slot>>
  PROVE  BrowserInv'
<1> DEFINE n == refreshed + 1
           task == Request(d, n)
<1>0. /\ refreshed \in Nat /\ inspected \in Nat /\ MaxRequests \in Nat \ {0}
      /\ refreshed + inspected < MaxRequests /\ n \in Revisions /\ inspected + 1 \in Revisions
  BY BrowserTypes, ModelBrowserAssumption DEF MayAsk, Revisions
<1>1. task \in ReadingTasks /\ IsList(task, n) /\ task.dir = d /\ task.revision = n
      /\ task.kind = "models"
  BY <1>0 DEF Request, ReadingTasks, IsList
<1>2. queue' \in Seq(ReadingTasks) /\ ToSet(queue') = ToSet(queue) \cup {task}
  BY <1>1, BrowserTypes, AppendToSet
<1>3. \A r \in Asked : ~IsList(r, n)
  BY <1>0, BrowserTypes DEF IsList, BrowserInv, LatestIsOfTheDirectory
<1>4. Places(queue, n) = {} /\ Places(arrived, n) = {}
  BY <1>3, PlacesAll DEF Asked
<1>5. Places(queue', n) = {Len(queue) + 1}
  BY <1>1, <1>4, BrowserTypes, PlacesAppend
<1> HIDE DEF task
<1>6. ListIsTrue'
  <2>1. inspected' \in Revisions
    BY <1>0 DEF BrowserInv, ListIsTrue, BrowserTypeOK
  <2>2. models' \in Readings /\ (models' # Nothing => models'.dir = d)
    BY ModelBrowserAssumption
       DEF BrowserInv, ListIsTrue, BrowserTypeOK, ListIsOfTheDirectory, Readings, Nothing
  <2>3. BrowserTypeOK'
    BY <1>0, <1>2, <2>1, <2>2 DEF BrowserInv, ListIsTrue, BrowserTypeOK
  <2> QED
    BY <2>2, <2>3 DEF ListIsTrue, ListIsOfTheDirectory, Nothing
<1>7. RequestsAreFew'
  BY <1>0 DEF RequestsAreFew
<1>8. LatestIsOfTheDirectory'
  <2> SUFFICES ASSUME NEW r \in Asked'
               PROVE /\ r.kind = "models" =>
                          r.revision <= refreshed' /\ (r.revision = refreshed' => r.dir = dir')
                     /\ r.kind = "stats" =>
                          r.revision <= inspected' /\ (r.revision = inspected' => r.dir = dir')
    BY DEF LatestIsOfTheDirectory
  <2>1. CASE r = task
    BY <1>0, <1>1, <2>1
  <2>2. CASE r \in Asked
    <3>1. r.kind \in {"models", "stats"} /\ r.revision \in Nat
      BY <2>2, BrowserTypes
    <3>2. /\ r.kind = "models" => r.revision <= refreshed
          /\ r.kind = "stats" =>
               r.revision <= inspected /\ (r.revision = inspected => r.dir = dir)
      BY <2>2 DEF BrowserInv, LatestIsOfTheDirectory
    <3> QED
      BY <1>0, <3>1, <3>2
  <2> QED
    BY <1>2, <2>1, <2>2 DEF Asked
<1>9. LatestIsOne'
  BY <1>3, <1>4, <1>5 DEF LatestIsOne, Asked
<1>10. ListIsOld'
  <2>1. \A r \in reading \cup ToSet(arrived) : ~IsList(r, n)
    BY <1>3 DEF Asked
  <2> QED
    BY <2>1 DEF BrowserInv, ListIsOld, Nothing
<1> QED
  BY <1>6, <1>7, <1>8, <1>9, <1>10 DEF BrowserInv

\* Statistics are asked for.
LEMMA GenerationStatsInv == ASSUME BrowserInv, GenerationStats PROVE BrowserInv'
<1> DEFINE task == [kind |-> "stats", revision |-> inspected + 1, dir |-> dir]
<1>0. /\ refreshed \in Nat /\ inspected \in Nat /\ MaxRequests \in Nat \ {0}
      /\ refreshed + inspected < MaxRequests /\ inspected + 1 \in Revisions /\ dir \in Dirs
  BY BrowserTypes, ModelBrowserAssumption
     DEF GenerationStats, MayAsk, Revisions, BrowserInv, ListIsTrue, BrowserTypeOK
<1>1. task \in ReadingTasks /\ ~IsList(task, refreshed) /\ task.kind = "stats"
      /\ task.revision = inspected + 1 /\ task.dir = dir
  BY <1>0 DEF ReadingTasks, IsList
<1>2. /\ queue' \in Seq(ReadingTasks) /\ ToSet(queue') = ToSet(queue) \cup {task}
      /\ Places(queue', refreshed) = Places(queue, refreshed)
  BY <1>1, BrowserTypes, AppendToSet, PlacesAppend DEF GenerationStats
<1> HIDE DEF task
<1>3. /\ inspected' = inspected + 1 /\ slot' = inspected + 1
      /\ UNCHANGED <<disk, dir, refreshed, models, status, page, reading, done, arrived>>
  BY DEF GenerationStats
<1>4. ListIsTrue' /\ RequestsAreFew'
  BY <1>0, <1>2, <1>3
     DEF BrowserInv, ListIsTrue, BrowserTypeOK, ListIsOfTheDirectory, RequestsAreFew
<1>5. LatestIsOfTheDirectory'
  <2> SUFFICES ASSUME NEW r \in Asked'
               PROVE /\ r.kind = "models" =>
                          r.revision <= refreshed' /\ (r.revision = refreshed' => r.dir = dir')
                     /\ r.kind = "stats" =>
                          r.revision <= inspected' /\ (r.revision = inspected' => r.dir = dir')
    BY DEF LatestIsOfTheDirectory
  <2>1. CASE r = task
    BY <1>0, <1>1, <1>3, <2>1
  <2>2. CASE r \in Asked
    <3>1. r.kind \in {"models", "stats"} /\ r.revision \in Nat
      BY <2>2, BrowserTypes
    <3>2. /\ r.kind = "models" =>
               r.revision <= refreshed /\ (r.revision = refreshed => r.dir = dir)
          /\ r.kind = "stats" => r.revision <= inspected
      BY <2>2 DEF BrowserInv, LatestIsOfTheDirectory
    <3> QED
      BY <1>0, <1>3, <3>1, <3>2
  <2> QED
    BY <1>2, <1>3, <2>1, <2>2 DEF Asked
<1>6. LatestIsOne' /\ ListIsOld'
  BY <1>2, <1>3 DEF BrowserInv, LatestIsOne, ListIsOld
<1> QED
  BY <1>4, <1>5, <1>6 DEF BrowserInv

\* A thread reads a directory as it is now.
LEMMA ReadInv == ASSUME BrowserInv, Read PROVE BrowserInv'
<1> DEFINE task == Head(queue)
           r == [kind |-> task.kind, revision |-> task.revision, dir |-> task.dir,
                 version |-> disk[task.dir], ok |-> task.dir \notin (Broken \cup Unreadable)]
<1>1. /\ queue # <<>> /\ queue' = Tail(queue) /\ reading' = reading \cup {r}
      /\ UNCHANGED <<disk, dir, refreshed, inspected, models, status, page, done, arrived, slot>>
  BY DEF Read, requests
<1>2. /\ task \in ToSet(queue) /\ queue' \in Seq(ReadingTasks)
      /\ ToSet(queue') \subseteq ToSet(queue) /\ task \in ReadingTasks
  BY <1>1, BrowserTypes, TailOfSet
<1>3. /\ r \in Results /\ r.kind = task.kind /\ r.revision = task.revision /\ r.dir = task.dir
      /\ r.version = disk[task.dir]
      /\ \A n : IsList(r, n) <=> IsList(task, n)
  BY <1>2 DEF ReadingTasks, Results, IsList, BrowserInv, ListIsTrue, BrowserTypeOK
<1>4. /\ \A i, k \in Places(queue', refreshed) : i = k
      /\ Places(queue, refreshed) = {} => Places(queue', refreshed) = {}
      /\ IsList(task, refreshed) => Places(queue, refreshed) # {} /\ Places(queue', refreshed) = {}
  BY <1>1, BrowserTypes, PlacesTail DEF BrowserInv, LatestIsOne
<1> HIDE DEF task, r
<1>5. ListIsTrue' /\ RequestsAreFew'
  BY <1>1, <1>2, <1>3
     DEF BrowserInv, ListIsTrue, BrowserTypeOK, ListIsOfTheDirectory, RequestsAreFew
<1>6. LatestIsOfTheDirectory'
  <2>1. Asked' \subseteq Asked \cup {r} /\ task \in Asked
    BY <1>1, <1>2 DEF Asked
  <2> QED
    BY <1>1, <1>3, <2>1 DEF BrowserInv, LatestIsOfTheDirectory
<1>7. LatestIsOne'
  <2>1. CASE IsList(task, refreshed)
    <3>1. /\ Places(queue', refreshed) = {}
          /\ \A s \in reading \cup ToSet(arrived) : ~IsList(s, refreshed)
      BY <1>4, <2>1 DEF BrowserInv, LatestIsOne
    <3>2. Places(arrived, refreshed) = {}
      BY <3>1, PlacesAll
    <3> QED
      BY <1>1, <3>1, <3>2 DEF LatestIsOne
  <2>2. CASE ~IsList(task, refreshed)
    BY <1>1, <1>3, <1>4, <2>2 DEF BrowserInv, LatestIsOne
  <2> QED
    BY <2>1, <2>2
<1>8. ListIsOld'
  <2>1. ASSUME IsList(r, refreshed)
        PROVE  r.version <= disk[r.dir] /\ (models # Nothing => models.version <= r.version)
    <3>1. r.dir = dir /\ r.version = disk[dir]
      BY <1>2, <1>3, <2>1 DEF BrowserInv, LatestIsOfTheDirectory, Asked, IsList
    <3>2. disk[dir] \in 0..MaxVersion
      BY DEF BrowserInv, ListIsTrue, BrowserTypeOK
    <3> QED
      BY <3>1, <3>2, ModelBrowserAssumption DEF BrowserInv, ListIsTrue, ListIsOfTheDirectory, ListIsOld
  <2> QED
    BY <1>1, <2>1 DEF BrowserInv, ListIsOld
<1> QED
  BY <1>5, <1>6, <1>7, <1>8 DEF BrowserInv

\* It posts what it has read, or fails to.
LEMMA PostInv == ASSUME BrowserInv, NEW r \in reading, Post(r) PROVE BrowserInv'
<1>1. /\ reading' = reading \ {r}
      /\ UNCHANGED <<disk, dir, refreshed, inspected, models, status, page, queue, slot>>
      /\ \/ UNCHANGED <<arrived, done>>
         \/ done' = done \cup {r} /\ UNCHANGED arrived
         \/ arrived' = Append(arrived, r) /\ UNCHANGED done
  BY DEF Post, requests
<1>2. r \in Results
  BY BrowserTypes
<1>3. arrived' \in Seq(Results) /\ ToSet(arrived') \subseteq ToSet(arrived) \cup {r}
  <2>1. CASE arrived' = arrived
    BY <2>1, BrowserTypes
  <2>2. CASE arrived' = Append(arrived, r)
    BY <1>2, <2>2, BrowserTypes, AppendToSet
  <2> QED
    BY <1>1, <2>1, <2>2
<1>4. ListIsTrue' /\ RequestsAreFew'
  BY <1>1, <1>2, <1>3
     DEF BrowserInv, ListIsTrue, BrowserTypeOK, ListIsOfTheDirectory, RequestsAreFew
<1>5. LatestIsOfTheDirectory'
  <2>1. Asked' \subseteq Asked
    BY <1>1, <1>3 DEF Asked
  <2> QED
    BY <1>1, <2>1 DEF BrowserInv, LatestIsOfTheDirectory
<1>6. ListIsOld'
  BY <1>1, <1>3 DEF BrowserInv, ListIsOld
<1>7. LatestIsOne'
  <2>1. \/ Places(arrived', refreshed) = Places(arrived, refreshed)
        \/ /\ IsList(r, refreshed)
           /\ Places(arrived', refreshed) = Places(arrived, refreshed) \cup {Len(arrived) + 1}
    <3>1. CASE arrived' = arrived
      BY <3>1
    <3>2. CASE arrived' = Append(arrived, r)
      BY <1>2, <3>2, BrowserTypes, PlacesAppend
    <3> QED
      BY <1>1, <3>1, <3>2
  <2>2. CASE Places(arrived', refreshed) = Places(arrived, refreshed)
    <3>1. \A s \in ToSet(arrived') \ ToSet(arrived) : s = r
      BY <1>3
    <3> QED
      BY <1>1, <1>3, <2>2 DEF BrowserInv, LatestIsOne
  <2>3. CASE /\ IsList(r, refreshed)
             /\ Places(arrived', refreshed) = Places(arrived, refreshed) \cup {Len(arrived) + 1}
    <3>1. Places(arrived, refreshed) = {} /\ Places(queue, refreshed) = {}
      BY <2>3 DEF BrowserInv, LatestIsOne
    <3>2. \A s \in reading' : ~IsList(s, refreshed)
      BY <1>1, <2>3 DEF BrowserInv, LatestIsOne
    <3> QED
      BY <1>1, <2>3, <3>1, <3>2 DEF LatestIsOne
  <2> QED
    BY <2>1, <2>2, <2>3
<1> QED
  BY <1>4, <1>5, <1>6, <1>7 DEF BrowserInv

\* What is delivered is shown if it was asked for last.
LEMMA DeliverStep ==
  ASSUME BrowserInv, Deliver
  PROVE  /\ BrowserInv'
         /\ models.dir = models'.dir => models'.version >= models.version
         /\ page' # page => page'.revision = inspected /\ page'.dir = dir
<1> DEFINE r == Head(arrived)
<1>1. /\ arrived # <<>> /\ arrived' = Tail(arrived)
      /\ UNCHANGED <<disk, dir, refreshed, inspected, queue, reading, done, slot>>
      /\ ApplyModels(r) \/ ApplyStats(r)
  BY DEF Deliver, requests, pool
<1>2. /\ r \in ToSet(arrived) /\ arrived' \in Seq(Results)
      /\ ToSet(arrived') \subseteq ToSet(arrived) /\ r \in Results
  BY <1>1, BrowserTypes, TailOfSet
<1>3. /\ \A i, k \in Places(arrived', refreshed) : i = k
      /\ Places(arrived, refreshed) = {} => Places(arrived', refreshed) = {}
      /\ IsList(r, refreshed) => Places(arrived, refreshed) # {} /\ Places(arrived', refreshed) = {}
  BY <1>1, BrowserTypes, PlacesTail DEF BrowserInv, LatestIsOne
<1> HIDE DEF r
<1>4. r \in Asked
  BY <1>2 DEF Asked
<1>5. /\ r.kind \in {"models", "stats"} /\ r.revision \in Revisions /\ r.dir \in Dirs
      /\ r.version \in 0..MaxVersion
  BY <1>2 DEF Results
<1>6. \/ UNCHANGED <<status, models>>
      \/ /\ IsList(r, refreshed) /\ UNCHANGED page
         /\ status' \in {"ready", "failed"}
         /\ models' = models \/ models' = [dir |-> r.dir, version |-> r.version]
  BY <1>1 DEF ApplyModels, ApplyStats, Install, IsList
<1>7. \/ UNCHANGED page
      \/ /\ r.kind = "stats" /\ r.revision = inspected
         /\ page' = [kind |-> "stats", revision |-> r.revision, dir |-> r.dir]
  BY <1>1 DEF ApplyModels, ApplyStats
<1>8. ASSUME IsList(r, refreshed), models' = [dir |-> r.dir, version |-> r.version]
      PROVE  /\ models' \in Readings /\ models'.dir = dir
             /\ models'.version <= disk[models'.dir]
             /\ models # Nothing => models.version <= models'.version
  <2>1. models'.dir = r.dir /\ models'.version = r.version
    BY <1>8
  <2>2. r.dir = dir
    BY <1>4, <1>8 DEF BrowserInv, LatestIsOfTheDirectory, IsList
  <2>3. r.version <= disk[r.dir] /\ (models # Nothing => models.version <= r.version)
    BY <1>2, <1>8 DEF BrowserInv, ListIsOld
  <2> QED
    BY <1>5, <1>8, <2>1, <2>2, <2>3 DEF Readings
<1>9. ListIsTrue' /\ RequestsAreFew'
  <2>1. page' \in Pages
    BY <1>5, <1>7 DEF Pages, BrowserInv, ListIsTrue, BrowserTypeOK
  <2>2. models' \in Readings /\ status' \in {"loading", "failed", "ready"}
        /\ (models' # Nothing => models'.dir = dir)
    BY <1>6, <1>8 DEF BrowserInv, ListIsTrue, BrowserTypeOK, ListIsOfTheDirectory
  <2> QED
    BY <1>1, <1>2, <2>1, <2>2
       DEF BrowserInv, ListIsTrue, BrowserTypeOK, ListIsOfTheDirectory, RequestsAreFew, Nothing
<1>10. LatestIsOfTheDirectory'
  <2>1. Asked' \subseteq Asked
    BY <1>1, <1>2 DEF Asked
  <2> QED
    BY <1>1, <2>1 DEF BrowserInv, LatestIsOfTheDirectory
<1>11. LatestIsOne'
  <2>1. Places(queue, refreshed) # {} =>
          \A s \in reading \cup ToSet(arrived') : ~IsList(s, refreshed)
    BY <1>2 DEF BrowserInv, LatestIsOne
  <2> QED
    BY <1>1, <1>3, <2>1 DEF BrowserInv, LatestIsOne
<1>12. ListIsOld'
  <2>1. CASE UNCHANGED <<status, models>> \/ models' = models
    BY <1>1, <1>2, <2>1 DEF BrowserInv, ListIsOld
  <2>2. CASE IsList(r, refreshed) /\ models' = [dir |-> r.dir, version |-> r.version]
    <3>1. Places(arrived, refreshed) # {} /\ Places(arrived', refreshed) = {}
      BY <1>3, <2>2
    <3>2. \A s \in reading \cup ToSet(arrived') : ~IsList(s, refreshed)
      BY <3>1, PlacesAll DEF BrowserInv, LatestIsOne
    <3> QED
      BY <1>1, <1>8, <2>2, <3>2 DEF ListIsOld
  <2> QED
    BY <1>6, <2>1, <2>2
<1>13. models.dir = models'.dir => models'.version >= models.version
  <2>1. models \in Readings /\ MaxVersion \in Nat
    BY ModelBrowserAssumption DEF BrowserInv, ListIsTrue, BrowserTypeOK
  <2>2. models.version \in Nat
    BY <2>1 DEF Readings
  <2>3. CASE models' = models
    BY <2>2, <2>3
  <2>4. CASE IsList(r, refreshed) /\ models' = [dir |-> r.dir, version |-> r.version]
    <3>1. models'.version \in Nat /\ models'.version = r.version
      BY <1>5, <2>1, <2>4
    <3>2. CASE models = Nothing
      BY <3>1, <3>2 DEF Nothing
    <3>3. CASE models # Nothing
      BY <1>8, <2>2, <2>4, <3>1, <3>3
    <3> QED
      BY <3>2, <3>3
  <2> QED
    BY <1>6, <2>3, <2>4
<1>14. page' # page => page'.revision = inspected /\ page'.dir = dir
  BY <1>4, <1>7 DEF BrowserInv, LatestIsOfTheDirectory
<1> QED
  BY <1>9, <1>10, <1>11, <1>12, <1>13, <1>14 DEF BrowserInv

\* A directory gets newer.
LEMMA TrainingInv == ASSUME BrowserInv, NEW d \in Dirs, Training(d) PROVE BrowserInv'
<1>1. /\ disk[d] < MaxVersion /\ disk' = [disk EXCEPT ![d] = @ + 1]
      /\ UNCHANGED <<dir, refreshed, inspected, models, status, page, queue, reading, done, arrived,
                     slot>>
  BY DEF Training, requests, pool
<1>2. /\ disk \in [Dirs -> 0..MaxVersion] /\ MaxVersion \in Nat
      /\ \A e \in Dirs : disk[e] \in Nat /\ disk'[e] >= disk[e] /\ disk'[e] \in 0..MaxVersion
      /\ disk' \in [Dirs -> 0..MaxVersion]
  BY <1>1, ModelBrowserAssumption DEF BrowserInv, ListIsTrue, BrowserTypeOK
<1>3. ListIsTrue' /\ RequestsAreFew'
  BY <1>1, <1>2 DEF BrowserInv, ListIsTrue, BrowserTypeOK, ListIsOfTheDirectory, RequestsAreFew
<1>4. LatestIsOfTheDirectory' /\ LatestIsOne'
  BY <1>1 DEF BrowserInv, LatestIsOfTheDirectory, LatestIsOne, Asked
<1>5. ListIsOld'
  <2>1. models # Nothing => models.dir \in Dirs /\ models.version \in Nat
    BY <1>2 DEF BrowserInv, ListIsTrue, BrowserTypeOK, ListIsOfTheDirectory, Readings
  <2>2. \A r \in reading \cup ToSet(arrived) : r.dir \in Dirs /\ r.version \in Nat
    BY <1>2, BrowserTypes DEF Results
  <2>3. models # Nothing => models.version <= disk'[models.dir]
    BY <1>2, <2>1 DEF BrowserInv, ListIsOld
  <2>4. \A r \in reading \cup ToSet(arrived) : IsList(r, refreshed) => r.version <= disk'[r.dir]
    BY <1>2, <2>2 DEF BrowserInv, ListIsOld
  <2> QED
    BY <1>1, <2>3, <2>4 DEF BrowserInv, ListIsOld
<1> QED
  BY <1>3, <1>4, <1>5 DEF BrowserInv

\* Whatever the slot of the statistics returns, what is asked for stays.
LEMMA ReturnStatsInv == ASSUME BrowserInv, ReturnStats PROVE BrowserInv'
<1>1. /\ slot' = 0 /\ page' = [kind |-> "loading", revision |-> slot, dir |-> dir]
      /\ done' \subseteq done
      /\ UNCHANGED <<disk, dir, refreshed, inspected, models, status, queue, reading, arrived>>
  BY DEF ReturnStats, requests
<1>2. 0 \in Revisions
  BY ModelBrowserAssumption DEF Revisions
<1>3. BrowserTypeOK'
  BY <1>1, <1>2 DEF BrowserInv, ListIsTrue, BrowserTypeOK, Pages
<1> QED
  BY <1>1, <1>3 DEF BrowserInv, ListIsTrue, ListIsOfTheDirectory, RequestsAreFew,
     LatestIsOfTheDirectory, LatestIsOne, ListIsOld, Asked

\* The first list is on its way.
LEMMA BrowserInitInv == BrowserInit => BrowserInv
<1> SUFFICES ASSUME BrowserInit PROVE BrowserInv
  OBVIOUS
<1>1. /\ disk = [d \in Dirs |-> 0] /\ dir \in Dirs /\ refreshed = 1 /\ inspected = 0
      /\ models = Nothing /\ status = "loading" /\ reading = {} /\ done = {} /\ arrived = <<>>
      /\ page = [kind |-> "none", revision |-> 0, dir |-> NoDir] /\ slot = 0
      /\ queue = <<Request(dir, 1)>>
  BY DEF BrowserInit
<1>2. 0 \in Revisions /\ 1 \in Revisions /\ 0 \in 0..MaxVersion /\ 1 + 0 <= MaxRequests + 1
  BY ModelBrowserAssumption DEF Revisions
<1> DEFINE task == Request(dir, 1)
<1>3. task \in ReadingTasks /\ task.kind = "models" /\ task.revision = 1 /\ task.dir = dir
  BY <1>1, <1>2 DEF Request, ReadingTasks
<1> HIDE DEF task
<1>4. queue = <<task>>
  BY <1>1 DEF task
<1>5. /\ queue \in Seq(ReadingTasks) /\ DOMAIN queue = {1} /\ queue[1] = task
      /\ arrived \in Seq(Results) /\ DOMAIN arrived = {}
  BY <1>1, <1>3, <1>4
<1>6. ToSet(queue) = {task} /\ ToSet(arrived) = {} /\ Asked = {task}
  BY <1>1, <1>5 DEF ToSet, Asked
<1>7. ListIsTrue /\ RequestsAreFew
  BY <1>1, <1>2, <1>5
     DEF ListIsTrue, BrowserTypeOK, ListIsOfTheDirectory, RequestsAreFew, Readings, Nothing, Pages
<1>8. LatestIsOfTheDirectory
  BY <1>1, <1>3, <1>6 DEF LatestIsOfTheDirectory
<1>9. LatestIsOne /\ ListIsOld
  BY <1>1, <1>5, <1>6 DEF LatestIsOne, ListIsOld, Places
<1> QED
  BY <1>7, <1>8, <1>9 DEF BrowserInv

\* A step keeps the invariant and takes nothing back.
LEMMA BrowserStep ==
  ASSUME BrowserInv, [BrowserNext]_browserVars
  PROVE  /\ BrowserInv'
         /\ models.dir = models'.dir => models'.version >= models.version
         /\ page' # page /\ page'.kind = "stats" => page'.revision = inspected /\ page'.dir = dir
<1>1. models.version \in Nat
  BY ModelBrowserAssumption DEF BrowserInv, ListIsTrue, BrowserTypeOK, Readings
<1>2. CASE Refresh
  <2>1. dir \in Dirs
    BY DEF BrowserInv, ListIsTrue, BrowserTypeOK
  <2> QED
    BY <1>1, <1>2, <2>1, AskInv DEF Refresh
<1>3. ASSUME NEW d \in Dirs, SetTrainingDir(d)
      PROVE  /\ BrowserInv' /\ UNCHANGED page
             /\ models.dir = models'.dir => models'.version >= models.version
  <2>1. BrowserInv'
    BY <1>3, AskInv DEF SetTrainingDir
  <2>2. models = Nothing \/ models.dir \in Dirs
    BY DEF BrowserInv, ListIsTrue, BrowserTypeOK, ListIsOfTheDirectory
  <2> QED
    BY <1>1, <1>3, <2>1, <2>2, ModelBrowserAssumption DEF SetTrainingDir, Nothing
<1>4. CASE GenerationStats
  BY <1>1, <1>4, GenerationStatsInv DEF GenerationStats
<1>5. CASE ReturnStats
  BY <1>1, <1>5, ReturnStatsInv DEF ReturnStats
<1>6. CASE Read
  BY <1>1, <1>6, ReadInv DEF Read
<1>7. CASE Deliver
  BY <1>7, DeliverStep
<1>8. ASSUME NEW d \in Dirs, Training(d)
      PROVE  BrowserInv' /\ UNCHANGED <<models, page>>
  BY <1>8, TrainingInv DEF Training
<1>9. ASSUME NEW r \in reading, Post(r)
      PROVE  BrowserInv' /\ UNCHANGED <<models, page>>
  BY <1>9, PostInv DEF Post
<1>10. CASE UNCHANGED browserVars
  BY <1>1, <1>10 DEF browserVars, requests, pool, BrowserInv, ListIsTrue, BrowserTypeOK,
     ListIsOfTheDirectory, RequestsAreFew, LatestIsOfTheDirectory, LatestIsOne, ListIsOld, Asked
<1> QED
  BY <1>1, <1>2, <1>3, <1>4, <1>5, <1>6, <1>7, <1>8, <1>9, <1>10 DEF BrowserNext

\* The inductive invariant of the Models page.
THEOREM BrowserInvariance == BrowserSpec => []BrowserInv
BY BrowserInitInv, BrowserStep, PTL DEF BrowserSpec

\* Type correctness, and the list of the set directory: a reading of another one
\* carries an older revision when it arrives (app.py, _apply_models).
THEOREM ModelsStayTrue == BrowserSpec => []ListIsTrue
<1>1. BrowserInv => ListIsTrue
  BY DEF BrowserInv
<1> QED
  BY <1>1, BrowserInvariance, PTL

\* The list of a directory never gets older, and statistics that arrive are those
\* last asked for, however two threads end their readings (app.py, _apply_models
\* and _apply_stats).
THEOREM NoPageGoesBack == BrowserSpec => NothingGoesBack
<1>1. BrowserInv /\ [BrowserNext]_browserVars =>
        [models.dir = models'.dir => models'.version >= models.version]_browserVars
  BY BrowserStep
<1>2. BrowserInv /\ [BrowserNext]_browserVars =>
        [page' # page /\ page'.kind = "stats" =>
           page'.revision = inspected /\ page'.dir = dir]_browserVars
  BY BrowserStep
<1> QED
  BY <1>1, <1>2, BrowserInvariance, PTL
     DEF BrowserSpec, NothingGoesBack, ListNeverGoesBack, StatsAreTheLatest
=============================================================================
