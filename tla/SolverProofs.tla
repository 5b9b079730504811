---------------------------- MODULE SolverProofs ----------------------------
(***************************************************************************)
(* The shared database of solutions, for any processes, requests, chunks,  *)
(* pipes, lines and number of calls: what it holds is true, a call stores  *)
(* what it found missing as one, and afterwards finds all its positions;   *)
(* and no child outlives its exchange while its process lives.  The run of *)
(* the engine checks the same on small instances.                          *)
(*                                                                         *)
(* The argument follows the lists of a call.  missing has no repetitions;  *)
(* solved always answers a first part of it, because a chunk is the next   *)
(* part of missing and is only accepted when each line of the child begins *)
(* with the line of play of its position; so the inserted rows, the first  *)
(* ones of the two lists side by side, hold each position's own solution,  *)
(* but for the empty position, which has no line of play, and as many rows *)
(* as positions are all of them.  The transaction makes its owner the only *)
(* process that stores.                                                    *)
(***************************************************************************)
EXTENDS SolverCache, FiniteSetTheorems, TLAPS

Places == {"idle", "looking", "solving", "writing", "reading", "storing", "scoring",
           "lookup failed"}

Children ==
  [state : {"none", "running", "hung", "exited", "failed"}, in : Seq(Positions),
   job : Positions \cup {0}, out : Seq(Lines), unasked : BOOLEAN]

Shapes ==
  /\ pc \in [Processes -> Places]
  /\ request \in [Processes -> Seq(Positions)] /\ todo \in [Processes -> Seq(Positions)]
  /\ missing \in [Processes -> Seq(Positions)] /\ solved \in [Processes -> Seq(Positions)]
  /\ unsent \in [Processes -> Seq(Positions)] /\ got \in [Processes -> Seq(Lines)]
  /\ child \in [Processes -> Children]

\* What may stand as the solution of a position.
Believed(x, position) == x \in Positions /\ (position # Start => x = position)

Answer(s, t) == Len(s) <= Len(t) /\ \A i \in 1..Len(s) : Believed(s[i], t[i])

Lists(p) ==
  /\ \A i, j \in 1..Len(missing[p]) : missing[p][i] = missing[p][j] => i = j
  /\ Answer(solved[p], missing[p])
  /\ pc[p] = "looking" => solved[p] = <<>>

LookedAt == {"solving", "writing", "reading", "storing", "scoring"}

Covered(p) ==
  /\ pc[p] \in LookedAt => todo[p] = <<>>
  /\ pc[p] \in LookedAt \cup {"looking"} =>
       ToSet(request[p]) \subseteq ToSet(todo[p]) \cup ToSet(missing[p]) \cup DOMAIN db
  /\ pc[p] = "scoring" => ToSet(missing[p]) \subseteq DOMAIN db
  /\ pc[p] # "lookup failed"

Rows == Cardinality(DOMAIN inserted)

Storing(p) ==
  pc[p] = "storing" =>
    /\ writer = p /\ Len(solved[p]) = Len(missing[p])
    /\ IsFiniteSet(DOMAIN inserted) /\ Rows <= Len(missing[p])
    /\ DOMAIN inserted = {missing[p][i] : i \in 1..Rows}
    /\ \A position \in DOMAIN inserted : Believed(inserted[position], position)

Childless(p) == child[p] # NoChild => pc[p] \in {"writing", "reading"}

IInv ==
  /\ Shapes /\ SolutionsAreTrue
  /\ \A p \in Processes : Lists(p) /\ Covered(p) /\ Storing(p) /\ Childless(p)

-----------------------------------------------------------------------------
(* Sequences and functions.                                                *)

LEMMA HeadAndTail ==
  ASSUME NEW S, NEW s \in Seq(S), s # <<>>
  PROVE  Head(s) \in S /\ Tail(s) \in Seq(S) /\ ToSet(s) = {Head(s)} \cup ToSet(Tail(s))
<1>1. Len(s) \in Nat /\ Len(s) > 0 /\ Head(s) = s[1] /\ Tail(s) \in Seq(S)
  OBVIOUS
<1>2. Len(Tail(s)) = Len(s) - 1 /\ \A i \in 1..(Len(s) - 1) : Tail(s)[i] = s[i + 1]
  BY <1>1
<1>3. ToSet(s) \subseteq {Head(s)} \cup ToSet(Tail(s))
  <2>1. ASSUME NEW i \in 1..Len(s), i # 1 PROVE s[i] \in ToSet(Tail(s))
    <3>1. i - 1 \in 1..(Len(s) - 1) /\ (i - 1) + 1 = i
      BY <1>1, <2>1
    <3>2. Tail(s)[i - 1] = s[i] /\ i - 1 \in DOMAIN Tail(s)
      BY <1>1, <1>2, <3>1
    <3>3. QED
      BY <3>2 DEF ToSet
  <2>2. QED
    BY <1>1, <2>1 DEF ToSet
<1>4. {Head(s)} \cup ToSet(Tail(s)) \subseteq ToSet(s)
  BY <1>1, <1>2 DEF ToSet
<1>5. QED
  BY <1>1, <1>3, <1>4

LEMMA AppendedSet ==
  ASSUME NEW S, NEW s \in Seq(S), NEW x \in S
  PROVE  Append(s, x) \in Seq(S) /\ ToSet(Append(s, x)) = ToSet(s) \cup {x}
<1>1. /\ Append(s, x) \in Seq(S) /\ Len(Append(s, x)) = Len(s) + 1 /\ Len(s) \in Nat
      /\ \A i \in 1..Len(s) : Append(s, x)[i] = s[i]
      /\ Append(s, x)[Len(s) + 1] = x
  OBVIOUS
<1>2. QED
  BY <1>1 DEF ToSet

\* A part of t that is answered, continued by answers to the next part.
LEMMA AnswerGrows ==
  ASSUME NEW s \in Seq(Positions), NEW t \in Seq(Positions), Answer(s, t),
         NEW u \in Seq(Positions), Len(s) + Len(u) <= Len(t),
         \A i \in 1..Len(u) : Believed(u[i], t[Len(s) + i])
  PROVE  s \o u \in Seq(Positions) /\ Answer(s \o u, t)
<1>1. /\ s \o u \in Seq(Positions) /\ Len(s \o u) = Len(s) + Len(u)
      /\ Len(s) \in Nat /\ Len(u) \in Nat
      /\ \A i \in 1..(Len(s) + Len(u)) :
           (s \o u)[i] = IF i <= Len(s) THEN s[i] ELSE u[i - Len(s)]
  OBVIOUS
<1>2. ASSUME NEW i \in 1..(Len(s) + Len(u)) PROVE Believed((s \o u)[i], t[i])
  <2>1. CASE i <= Len(s)
    <3>1. i \in 1..Len(s) /\ (s \o u)[i] = s[i]
      BY <1>1, <2>1
    <3> QED
      BY <3>1 DEF Answer
  <2>2. CASE i > Len(s)
    <3>1. PICK j \in 1..Len(u) : i = Len(s) + j /\ (s \o u)[i] = u[j]
      <4>1. i - Len(s) \in 1..Len(u) /\ i = Len(s) + (i - Len(s))
        BY <1>1, <2>2
      <4> QED
        BY <1>1, <2>2, <4>1
    <3> QED
      BY <3>1
  <2> QED
    BY <1>1, <2>1, <2>2
<1> QED
  BY <1>1, <1>2 DEF Answer

\* What is accepted for a position is its own solution, or scores without a line of
\* play for the empty one.
LEMMA AcceptedLine ==
  ASSUME NEW line \in Lines, NEW position \in Positions, Accepts(line, position)
  PROVE  Believed(line.of, position)
<1>1. /\ line.of \in Positions \cup {0} /\ line.of # 0
      /\ line.play # 0 => line.of \in {line.play, 0}
  BY DEF Lines, Accepts
<1>2. position # Start => line.play = position /\ position # 0
  BY SolverAssumption DEF Accepts, Play
<1> QED
  BY <1>1, <1>2 DEF Believed

LEMMA AnswerIsALine == ASSUME NEW position \in Positions PROVE AnswerTo(position) \in Lines
<1>1. Play(position) \in Positions \cup {0}
  BY DEF Play
<1>2. Play(position) # 0 => Play(position) # Start /\ position \in {Play(position), 0}
  BY DEF Play
<1> QED
  BY <1>1, <1>2 DEF AnswerTo, Lines

LEMMA PlusRows ==
  ASSUME NEW f, NEW g
  PROVE  /\ DOMAIN Plus(f, g) = DOMAIN f \cup DOMAIN g
         /\ \A x \in DOMAIN f : Plus(f, g)[x] = f[x]
         /\ \A x \in DOMAIN g \ DOMAIN f : Plus(f, g)[x] = g[x]
  BY DEF Plus

-----------------------------------------------------------------------------
\* What a step of one process leaves of the others.
Others(p) ==
  \A q \in Processes \ {p} :
    /\ pc'[q] = pc[q] /\ request'[q] = request[q] /\ todo'[q] = todo[q]
    /\ missing'[q] = missing[q] /\ solved'[q] = solved[q] /\ child'[q] = child[q]

\* A process that stores is the owner of the transaction, so that only its own
\* steps can touch what it has inserted.
LEMMA Frame ==
  ASSUME IInv, NEW p \in Processes, Shapes', Others(p), SolutionsAreTrue',
         DOMAIN db \subseteq DOMAIN db',
         UNCHANGED <<writer, inserted>> \/ writer \in {p, None},
         Lists(p)', Covered(p)', Storing(p)', Childless(p)'
  PROVE  IInv'
<1>1. ASSUME NEW q \in Processes \ {p}
      PROVE  Lists(q)' /\ Covered(q)' /\ Storing(q)' /\ Childless(q)'
  <2>1. Lists(q)' /\ Childless(q)'
    BY DEF IInv, Others, Lists, Childless
  <2>2. Covered(q)'
    BY DEF IInv, Others, Covered
  <2>3. Storing(q)'
    <3>1. CASE UNCHANGED <<writer, inserted>>
      <4>1. Rows' = Rows /\ inserted' = inserted /\ writer' = writer
        BY <3>1 DEF Rows
      <4>2. pc'[q] = pc[q] /\ missing'[q] = missing[q] /\ solved'[q] = solved[q]
        BY DEF Others
      <4>3. Storing(q)
        BY DEF IInv
      <4>4. QED
        BY <4>1, <4>2, <4>3 DEF Storing
    <3>2. CASE writer \in {p, None}
      BY <3>2, SolverAssumption DEF IInv, Others, Storing
    <3>3. QED
      BY <3>1, <3>2
  <2>4. QED
    BY <2>1, <2>2, <2>3
<1>2. QED
  BY <1>1 DEF IInv

LEMMA NoChildShape == NoChild \in Children /\ NoChild.in = <<>> /\ NoChild.out = <<>>
  BY DEF NoChild, Children

LEMMA InitInv == ASSUME CacheInit PROVE IInv
<1>1. Shapes
  <2>1. /\ pc = [p \in Processes |-> "idle"] /\ child = [p \in Processes |-> NoChild]
        /\ request = [p \in Processes |-> <<>>] /\ todo = request /\ missing = request
        /\ solved = request /\ unsent = request /\ got = request
    BY DEF CacheInit
  <2>2. <<>> \in Seq(Positions) /\ <<>> \in Seq(Lines)
    OBVIOUS
  <2>3. request \in [Processes -> Seq(Positions)] /\ got \in [Processes -> Seq(Lines)]
    BY <2>1, <2>2
  <2> QED
    BY <2>1, <2>3, NoChildShape DEF Shapes, Places
<1>2. SolutionsAreTrue
  BY DEF CacheInit, SolutionsAreTrue
<1>3. ASSUME NEW p \in Processes
      PROVE  Lists(p) /\ Covered(p) /\ Storing(p) /\ Childless(p)
  BY DEF CacheInit, Lists, Answer, Covered, LookedAt, Storing, Childless
<1>4. QED
  BY <1>1, <1>2, <1>3 DEF IInv

\* A call that ends leaves nothing of itself but the rows it has committed.
LEMMA LeaveInv ==
  ASSUME IInv, NEW p \in Processes, Leave(p), db' = db,
         UNCHANGED <<writer, inserted>> \/ writer \in {p, None}
  PROVE  IInv'
<1>1. <<>> \in Seq(Positions) /\ <<>> \in Seq(Lines)
  OBVIOUS
<1>2. /\ pc' = [pc EXCEPT ![p] = "idle"] /\ child' = [child EXCEPT ![p] = NoChild]
      /\ unsent' = [unsent EXCEPT ![p] = <<>>] /\ got' = [got EXCEPT ![p] = <<>>]
      /\ request' = [request EXCEPT ![p] = <<>>] /\ todo' = [todo EXCEPT ![p] = <<>>]
      /\ missing' = [missing EXCEPT ![p] = <<>>] /\ solved' = [solved EXCEPT ![p] = <<>>]
  BY DEF Leave, Continue, EndExchange
<1>3. Shapes'
  <2>1. pc' \in [Processes -> Places] /\ child' \in [Processes -> Children]
    BY <1>2, NoChildShape DEF IInv, Shapes, Places
  <2>2. /\ unsent' \in [Processes -> Seq(Positions)] /\ got' \in [Processes -> Seq(Lines)]
        /\ request' \in [Processes -> Seq(Positions)] /\ todo' \in [Processes -> Seq(Positions)]
    BY <1>1, <1>2 DEF IInv, Shapes
  <2>3. missing' \in [Processes -> Seq(Positions)] /\ solved' \in [Processes -> Seq(Positions)]
    BY <1>1, <1>2 DEF IInv, Shapes
  <2> QED
    BY <2>1, <2>2, <2>3 DEF Shapes
<1>4. Others(p)
  BY <1>2 DEF IInv, Shapes, Others
<1>5. pc'[p] = "idle" /\ child'[p] = NoChild /\ missing'[p] = <<>> /\ solved'[p] = <<>>
  BY <1>2 DEF IInv, Shapes
<1>6. Lists(p)' /\ Covered(p)' /\ Storing(p)'
  BY <1>5 DEF Lists, Answer, Covered, LookedAt, Storing
<1>7. Childless(p)' /\ SolutionsAreTrue'
  BY <1>5 DEF IInv, Childless, SolutionsAreTrue
<1> QED
  BY <1>3, <1>4, <1>6, <1>7, Frame

\* A step that leaves the lists and the database alone and does not enter or
\* leave a transaction: what remains is about the child.
LEMMA ExchangeStep ==
  ASSUME IInv, NEW p \in Processes, Shapes', Others(p),
         UNCHANGED <<db, writer, inserted, request, todo, missing, solved>>,
         \/ pc'[p] = pc[p]
         \/ pc[p] \in LookedAt /\ pc'[p] \in {"writing", "reading"},
         child'[p] # NoChild => pc'[p] \in {"writing", "reading"}
  PROVE  IInv'
<1>1. SolutionsAreTrue'
  BY DEF IInv, SolutionsAreTrue
<1>2. Lists(p)'
  BY DEF IInv, Lists, Answer
<1>3. Covered(p)'
  BY DEF IInv, Covered, LookedAt
<1>4. Storing(p)'
  <2>1. CASE pc'[p] = pc[p]
    BY <2>1 DEF IInv, Storing, Rows
  <2>2. CASE pc'[p] \in {"writing", "reading"}
    BY <2>2 DEF Storing
  <2>3. QED
    BY <2>1, <2>2
<1>5. QED
  BY <1>1, <1>2, <1>3, <1>4, Frame DEF Childless

-----------------------------------------------------------------------------
(* The exchange with the child.                                            *)

\* The shapes after a step of a process or its child in their exchange.
LEMMA ExchangeShapes ==
  ASSUME Shapes, NEW p \in Processes, NEW d \in Children, child' = [child EXCEPT ![p] = d],
         NEW u \in Seq(Positions), unsent' = [unsent EXCEPT ![p] = u],
         NEW g \in Seq(Lines), got' = [got EXCEPT ![p] = g],
         NEW place \in Places, pc' = [pc EXCEPT ![p] = place], UNCHANGED call
  PROVE  /\ Shapes' /\ Others(p)
         /\ child'[p] = d /\ unsent'[p] = u /\ got'[p] = g /\ pc'[p] = place
<1>1. /\ pc' \in [Processes -> Places] /\ child' \in [Processes -> Children]
      /\ unsent' \in [Processes -> Seq(Positions)] /\ got' \in [Processes -> Seq(Lines)]
  BY DEF Shapes
<1>2. Shapes'
  BY <1>1 DEF Shapes, call
<1> QED
  BY <1>2 DEF Shapes, Others, call

LEMMA ChunkEnds ==
  ASSUME IInv, NEW p \in Processes
  PROVE  \E m \in Len(solved[p])..Len(missing[p]) :
           /\ m <= Len(solved[p]) + ChunkSize
           /\ Chunk(p) = SubSeq(missing[p], Len(solved[p]) + 1, m)
<1> DEFINE n == Len(solved[p])
           k == Len(missing[p])
           m == Min({n + ChunkSize, k})
<1>1. n \in Nat /\ k \in Nat /\ n <= k
  BY DEF IInv, Shapes, Lists, Answer
<1>2. n + ChunkSize \in Int /\ n <= n + ChunkSize
  BY <1>1, SolverAssumption
<1> HIDE DEF n, k
<1>3. m \in n..k /\ m <= n + ChunkSize
  <2>1. m = IF n + ChunkSize <= k THEN n + ChunkSize ELSE k
    BY <1>1, <1>2 DEF Min
  <2>2. QED
    BY <1>1, <1>2, <2>1
<1>4. Chunk(p) = SubSeq(missing[p], n + 1, m)
  BY DEF Chunk, n, k
<1>5. QED
  BY <1>3, <1>4 DEF n, k

LEMMA ChunkIsPart ==
  ASSUME IInv, NEW p \in Processes
  PROVE  Chunk(p) \in Seq(Positions) /\ Len(Chunk(p)) \in Nat /\ Len(Chunk(p)) <= ChunkSize
<1> DEFINE n == Len(solved[p])
<1>1. PICK m \in n..Len(missing[p]) :
        m <= n + ChunkSize /\ Chunk(p) = SubSeq(missing[p], n + 1, m)
  BY ChunkEnds
<1>2. /\ missing[p] \in Seq(Positions) /\ n \in Nat /\ Len(missing[p]) \in Nat
      /\ n <= Len(missing[p]) /\ ChunkSize \in Nat
  BY SolverAssumption DEF IInv, Shapes, Lists, Answer
<1> HIDE DEF n
<1>3. \A i \in 1..(m - n) : missing[p][n + i] \in Positions
  BY <1>1, <1>2
<1>4. SubSeq(missing[p], n + 1, m) = [i \in 1..(m - n) |-> missing[p][n + i]]
  BY <1>1, <1>2
<1>5. PICK k \in Nat : k = m - n /\ k <= ChunkSize
  BY <1>1, <1>2
<1>6. [i \in 1..k |-> missing[p][n + i]] \in [1..k -> Positions]
  BY <1>3, <1>5
<1>7. \A s \in [1..k -> Positions] : s \in Seq(Positions) /\ Len(s) = k
  OBVIOUS
<1> QED
  BY <1>1, <1>4, <1>5, <1>6, <1>7

LEMMA SpawnInv == ASSUME IInv, NEW p \in Processes, SpawnSolver(p) PROVE IInv'
<1>1. CASE Leave(p)
  BY <1>1, LeaveInv DEF SpawnSolver, base
<1>2. CASE ~Leave(p)
  <2>1. /\ pc' = [pc EXCEPT ![p] = "writing"] /\ unsent' = [unsent EXCEPT ![p] = Chunk(p)]
        /\ child' = [child EXCEPT ![p].state = "running"] /\ UNCHANGED <<call, got, base>>
        /\ pc[p] = "solving"
    BY <1>2 DEF SpawnSolver, Continue
  <2> DEFINE d == [child[p] EXCEPT !.state = "running"]
  <2>2. d \in Children /\ child' = [child EXCEPT ![p] = d]
    BY <2>1 DEF IInv, Shapes, Children
  <2>3. Chunk(p) \in Seq(Positions)
    BY ChunkIsPart
  <2>4. got[p] \in Seq(Lines) /\ got' = [got EXCEPT ![p] = got[p]]
    BY <2>1 DEF IInv, Shapes
  <2> HIDE DEF d
  <2>5. Shapes' /\ Others(p) /\ pc'[p] = "writing"
    BY <2>1, <2>2, <2>3, <2>4, ExchangeShapes DEF IInv, Places
  <2> QED
    BY <2>1, <2>5, ExchangeStep DEF base, call, LookedAt
<1> QED
  BY <1>1, <1>2

LEMMA WriteInv == ASSUME IInv, NEW p \in Processes, Write(p) PROVE IInv'
<1>1. /\ pc[p] = "writing" /\ unsent[p] # <<>> /\ UNCHANGED <<base, call, got>>
      /\ unsent[p] \in Seq(Positions) /\ got[p] \in Seq(Lines) /\ child[p] \in Children
      /\ got' = [got EXCEPT ![p] = got[p]]
  BY DEF Write, IInv, Shapes
<1>2. Head(unsent[p]) \in Positions /\ Tail(unsent[p]) \in Seq(Positions)
  BY <1>1
<1>3. PICK d \in Children, u \in Seq(Positions), place \in {"writing", "reading"} :
        /\ child' = [child EXCEPT ![p] = d] /\ unsent' = [unsent EXCEPT ![p] = u]
        /\ pc' = [pc EXCEPT ![p] = place]
  <2>1. CASE /\ child' = [child EXCEPT ![p].in = Append(@, Head(unsent[p]))]
             /\ unsent' = [unsent EXCEPT ![p] = Tail(@)] /\ UNCHANGED pc
    <3> DEFINE d == [child[p] EXCEPT !.in = Append(@, Head(unsent[p]))]
    <3>1. Append(child[p].in, Head(unsent[p])) \in Seq(Positions)
      BY <1>1, <1>2 DEF Children
    <3>2. d \in Children
      BY <1>1, <3>1 DEF Children
    <3>3. /\ child' = [child EXCEPT ![p] = d] /\ unsent' = [unsent EXCEPT ![p] = Tail(unsent[p])]
          /\ pc' = [pc EXCEPT ![p] = "writing"]
      BY <1>1, <2>1 DEF IInv, Shapes
    <3> HIDE DEF d
    <3> QED
      BY <1>2, <3>2, <3>3
  <2>2. CASE pc' = [pc EXCEPT ![p] = "reading"] /\ UNCHANGED <<child, unsent>>
    <3>1. /\ child' = [child EXCEPT ![p] = child[p]] /\ unsent' = [unsent EXCEPT ![p] = unsent[p]]
      BY <2>2 DEF IInv, Shapes
    <3> QED
      BY <1>1, <2>2, <3>1
  <2> QED
    BY <2>1, <2>2 DEF Write, Continue
<1>4. Shapes' /\ Others(p) /\ pc'[p] = place
  BY <1>1, <1>3, ExchangeShapes DEF IInv, Places
<1> QED
  BY <1>1, <1>3, <1>4, ExchangeStep DEF base, call, LookedAt

LEMMA WrittenInv == ASSUME IInv, NEW p \in Processes, Written(p) PROVE IInv'
<1>1. Shapes' /\ Others(p)
  BY DEF IInv, Shapes, Places, Others, Written, Continue, base, call, pipe
<1>2. pc[p] = "writing" /\ pc'[p] = "reading"
  BY DEF IInv, Shapes, Written, Continue
<1>3. QED
  BY <1>1, <1>2, ExchangeStep DEF Written, base, call, LookedAt

LEMMA ReadInv == ASSUME IInv, NEW p \in Processes, Read(p) PROVE IInv'
<1>1. CASE Leave(p)
  BY <1>1, LeaveInv DEF Read, base
<1>2. CASE ~Leave(p)
  <2>1. /\ pc[p] = "reading" /\ child[p].out # <<>> /\ child' = [child EXCEPT ![p].out = Tail(@)]
        /\ got' = [got EXCEPT ![p] = Append(@, Head(child[p].out))]
        /\ UNCHANGED <<base, pc, call, unsent>>
    BY <1>2 DEF Read
  <2>2. /\ child[p] \in Children /\ got[p] \in Seq(Lines) /\ unsent[p] \in Seq(Positions)
        /\ child[p].out \in Seq(Lines)
    BY DEF IInv, Shapes, Children
  <2>3. Tail(child[p].out) \in Seq(Lines) /\ Append(got[p], Head(child[p].out)) \in Seq(Lines)
    BY <2>1, <2>2
  <2> DEFINE d == [child[p] EXCEPT !.out = Tail(@)]
             g == Append(got[p], Head(child[p].out))
  <2>4. d \in Children
    BY <2>2, <2>3 DEF Children
  <2>5. /\ child' = [child EXCEPT ![p] = d] /\ got' = [got EXCEPT ![p] = g]
        /\ unsent' = [unsent EXCEPT ![p] = unsent[p]] /\ pc' = [pc EXCEPT ![p] = "reading"]
    BY <2>1 DEF IInv, Shapes
  <2>6. g \in Seq(Lines)
    BY <2>3
  <2> HIDE DEF d, g
  <2>7. Shapes' /\ Others(p) /\ pc'[p] = "reading"
    BY <2>1, <2>2, <2>4, <2>5, <2>6, ExchangeShapes DEF IInv, Places
  <2> QED
    BY <2>1, <2>7, ExchangeStep DEF base, call
<1> QED
  BY <1>1, <1>2

LEMMA DeadlineInv == ASSUME IInv, NEW p \in Processes, Deadline(p) PROVE IInv'
  BY LeaveInv DEF Deadline, base

\* What a child does to its own pipes.
LEMMA ChildShape ==
  ASSUME IInv, NEW p \in Processes, Child(p)
  PROVE  \E d \in Children : child' = [child EXCEPT ![p] = d]
<1> DEFINE c == child[p]
<1>1. /\ c \in Children /\ c.in \in Seq(Positions) /\ c.out \in Seq(Lines)
      /\ c.job \in Positions \cup {0} /\ DOMAIN child = Processes
      /\ Strays[p] \subseteq Lines
  BY SolverAssumption DEF IInv, Shapes, Children
<1>2. <<>> \in Seq(Positions)
  OBVIOUS
<1>3. CASE ChildTakes(p)
  <2>1. c.in # <<>> /\ child' = [child EXCEPT ![p] = [c EXCEPT !.in = Tail(c.in), !.job = Head(c.in)]]
    BY <1>1, <1>3 DEF ChildTakes
  <2>2. Tail(c.in) \in Seq(Positions) /\ Head(c.in) \in Positions
    BY <1>1, <2>1
  <2>3. [c EXCEPT !.in = Tail(c.in), !.job = Head(c.in)] \in Children
    BY <1>1, <2>2 DEF Children
  <2> QED
    BY <2>1, <2>3
<1>4. CASE ChildAnswers(p)
  <2>1. PICK line \in {AnswerTo(c.job)} \cup Strays[p] :
          child' = [child EXCEPT ![p] = [c EXCEPT !.out = Append(c.out, line), !.job = 0]]
    BY <1>1, <1>4 DEF ChildAnswers
  <2>2. line \in Lines
    BY <1>1, <1>4, AnswerIsALine DEF ChildAnswers
  <2>3. Append(c.out, line) \in Seq(Lines)
    BY <1>1, <2>2
  <2>4. [c EXCEPT !.out = Append(c.out, line), !.job = 0] \in Children
    BY <1>1, <2>3 DEF Children
  <2> QED
    BY <2>1, <2>4
<1>5. CASE ChildChatters(p)
  <2>1. PICK line \in Strays[p] :
          child' = [child EXCEPT ![p] = [c EXCEPT !.out = Append(c.out, line), !.unasked = TRUE]]
    BY <1>1, <1>5 DEF ChildChatters
  <2>2. Append(c.out, line) \in Seq(Lines)
    BY <1>1, <2>1
  <2>3. [c EXCEPT !.out = Append(c.out, line), !.unasked = TRUE] \in Children
    BY <1>1, <2>2 DEF Children
  <2> QED
    BY <2>1, <2>3
<1>6. CASE ChildSkips(p)
  <2>1. child' = [child EXCEPT ![p] = [c EXCEPT !.job = 0]]
    BY <1>1, <1>6 DEF ChildSkips
  <2>2. [c EXCEPT !.job = 0] \in Children
    BY <1>1 DEF Children
  <2> QED
    BY <2>1, <2>2
<1>7. CASE ChildEnds(p)
  <2>1. PICK state \in {"exited", "failed"} :
          child' = [child EXCEPT ![p] = [c EXCEPT !.state = state, !.in = <<>>, !.job = 0]]
    BY <1>1, <1>7 DEF ChildEnds
  <2>2. [c EXCEPT !.state = state, !.in = <<>>, !.job = 0] \in Children
    BY <1>1, <1>2 DEF Children
  <2> QED
    BY <2>1, <2>2
<1>8. CASE ChildHangs(p)
  <2>1. child' = [child EXCEPT ![p] = [c EXCEPT !.state = "hung"]]
    BY <1>1, <1>8 DEF ChildHangs
  <2>2. [c EXCEPT !.state = "hung"] \in Children
    BY <1>1 DEF Children
  <2> QED
    BY <2>1, <2>2
<1> QED
  BY <1>3, <1>4, <1>5, <1>6, <1>7, <1>8 DEF Child

\* A child that does something is running, so that its exchange goes on.
LEMMA ChildInv == ASSUME IInv, NEW p \in Processes, Child(p) PROVE IInv'
<1>1. PICK d \in Children : child' = [child EXCEPT ![p] = d]
  BY ChildShape
<1>2. UNCHANGED <<base, pc, call, unsent, got>> /\ child[p].state = "running"
  BY DEF Child, ChildTakes, ChildAnswers, ChildSkips, ChildChatters, ChildEnds, ChildHangs
<1>3. Shapes' /\ Others(p)
  <2>1. child' \in [Processes -> Children]
    BY <1>1 DEF IInv, Shapes
  <2> QED
    BY <1>1, <1>2, <2>1 DEF IInv, Shapes, Others, call
<1>4. pc'[p] \in {"writing", "reading"}
  BY <1>2 DEF IInv, Childless, NoChild
<1> QED
  BY <1>2, <1>3, <1>4, ExchangeStep DEF base, call

\* What is accepted of the child's lines answers the next part of the missing ones.
LEMMA AnsweredInv == ASSUME IInv, NEW p \in Processes, Answered(p) PROVE IInv'
<1>1. CASE Leave(p)
  BY <1>1, LeaveInv DEF Answered, base
<1>2. CASE ~Leave(p)
  <2> DEFINE s == solved[p]
             t == missing[p]
             u == Scores(p)
  <2>1. /\ Parsed(p) /\ solved' = [solved EXCEPT ![p] = s \o u] /\ pc[p] = "reading"
        /\ Continue(p, "solving") /\ EndExchange(p)
        /\ UNCHANGED <<base, request, todo, missing>>
    BY <1>2 DEF Answered
  <2>2. /\ s \in Seq(Positions) /\ t \in Seq(Positions) /\ Answer(s, t) /\ got[p] \in Seq(Lines)
    BY DEF IInv, Shapes, Lists
  <2>3. PICK m \in Len(s)..Len(t) : Chunk(p) = SubSeq(t, Len(s) + 1, m)
    BY ChunkEnds
  <2>4. /\ Len(Chunk(p)) = m - Len(s) /\ Chunk(p) \in Seq(Positions)
        /\ \A i \in 1..(m - Len(s)) : Chunk(p)[i] = t[Len(s) + i] /\ t[Len(s) + i] \in Positions
    <3> HIDE DEF s, t
    <3>1. Len(s) \in Nat /\ Len(t) \in Nat /\ m \in Len(s)..Len(t)
      BY <2>2
    <3>2. \A i \in 1..(m - Len(s)) : t[Len(s) + i] \in Positions
      BY <2>2, <3>1
    <3>3. SubSeq(t, Len(s) + 1, m) = [i \in 1..(m - Len(s)) |-> t[Len(s) + i]]
      BY <2>2, <3>1
    <3>4. \A x : x = [i \in 1..(m - Len(s)) |-> t[Len(s) + i]]
                => /\ x \in Seq(Positions) /\ Len(x) = m - Len(s)
                   /\ \A i \in 1..(m - Len(s)) : x[i] = t[Len(s) + i]
      BY <3>1, <3>2
    <3> QED
      BY <2>3, <3>2, <3>3, <3>4
  <2>5. \A i \in 1..(m - Len(s)) : Believed(got[p][i].of, t[Len(s) + i])
    <3> TAKE i \in 1..(m - Len(s))
    <3>1. Len(got[p]) = m - Len(s) /\ Accepts(got[p][i], Chunk(p)[i])
      BY <2>1, <2>4 DEF Parsed
    <3>2. got[p][i] \in Lines
      BY <2>2, <3>1
    <3> QED
      BY <2>4, <3>1, <3>2, AcceptedLine
  <2>6. u = [i \in 1..(m - Len(s)) |-> got[p][i].of] /\ m - Len(s) \in Nat
    BY <2>1, <2>2, <2>4 DEF Scores, Parsed
  <2>7. /\ u \in Seq(Positions) /\ Len(u) = m - Len(s)
        /\ \A i \in 1..Len(u) : u[i] = got[p][i].of
    <3>1. \A i \in 1..(m - Len(s)) : got[p][i].of \in Positions
      BY <2>5 DEF Believed
    <3>2. PICK k \in Nat : k = m - Len(s)
      BY <2>6
    <3>3. u = [i \in 1..k |-> got[p][i].of]
      BY <2>6, <3>2
    <3>4. u \in [1..k -> Positions]
      BY <3>1, <3>2, <3>3
    <3> QED
      BY <3>2, <3>3, <3>4
  <2>8. Len(s) + Len(u) <= Len(t) /\ \A i \in 1..Len(u) : Believed(u[i], t[Len(s) + i])
    <3> HIDE DEF s, t, u
    <3>1. Len(s) \in Nat /\ Len(t) \in Nat /\ m \in Len(s)..Len(t)
      BY <2>2
    <3>2. Len(s) + Len(u) <= Len(t)
      BY <2>7, <3>1
    <3>3. \A i \in 1..Len(u) : Believed(u[i], t[Len(s) + i])
      BY <2>5, <2>7
    <3> QED
      BY <3>2, <3>3
  <2>9. s \o u \in Seq(Positions) /\ Answer(s \o u, t)
    <3> HIDE DEF s, t, u
    <3> QED
      BY <2>2, <2>7, <2>8, AnswerGrows
  <2>10. solved' \in [Processes -> Seq(Positions)] /\ solved'[p] = s \o u
    BY <2>1, <2>9 DEF IInv, Shapes
  <2> HIDE DEF s, t, u
  <2>11. Shapes' /\ Others(p) /\ pc'[p] = "solving" /\ child'[p] = NoChild
    <3>1. /\ pc' = [pc EXCEPT ![p] = "solving"] /\ child' = [child EXCEPT ![p] = NoChild]
          /\ unsent' = [unsent EXCEPT ![p] = <<>>] /\ got' = [got EXCEPT ![p] = <<>>]
      BY <2>1 DEF Continue, EndExchange
    <3>2. <<>> \in Seq(Positions) /\ <<>> \in Seq(Lines)
      OBVIOUS
    <3>3. pc' \in [Processes -> Places] /\ child' \in [Processes -> Children]
      BY <3>1, NoChildShape DEF IInv, Shapes, Places
    <3>4. unsent' \in [Processes -> Seq(Positions)] /\ got' \in [Processes -> Seq(Lines)]
      BY <3>1, <3>2 DEF IInv, Shapes
    <3>5. Shapes'
      BY <2>1, <2>10, <3>3, <3>4 DEF IInv, Shapes
    <3> QED
      BY <2>1, <3>1, <3>5 DEF IInv, Shapes, Others
  <2>12. Lists(p)'
    BY <2>1, <2>9, <2>10, <2>11 DEF IInv, Lists, t
  <2>13. Covered(p)'
    BY <2>1, <2>11 DEF IInv, Covered, LookedAt, base
  <2>14. SolutionsAreTrue'
    BY <2>1 DEF IInv, SolutionsAreTrue, base
  <2>15. Storing(p)' /\ Childless(p)' /\ UNCHANGED <<writer, inserted, db>>
    BY <2>1, <2>11 DEF Storing, Childless, base
  <2> QED
    BY <2>11, <2>12, <2>13, <2>14, <2>15, Frame
<1> QED
  BY <1>1, <1>2

-----------------------------------------------------------------------------
(* The lists and the database.                                             *)

LEMMA CallInv == ASSUME IInv, NEW p \in Processes, Call(p) PROVE IInv'
<1>1. PICK r \in Requests : /\ request' = [request EXCEPT ![p] = r]
                            /\ todo' = [todo EXCEPT ![p] = r]
  BY DEF Call
<1>2. r \in Seq(Positions)
  BY SolverAssumption
<1>3. Shapes' /\ Others(p)
  <2>1. /\ pc' = [pc EXCEPT ![p] = "looking"] /\ child' = child
        /\ missing' = [missing EXCEPT ![p] = <<>>] /\ solved' = [solved EXCEPT ![p] = <<>>]
        /\ unsent' = unsent /\ got' = got
    BY DEF Call, Continue, pipe
  <2>2. /\ pc' \in [Processes -> Places] /\ child' \in [Processes -> Children]
        /\ unsent' \in [Processes -> Seq(Positions)] /\ got' \in [Processes -> Seq(Lines)]
        /\ request' \in [Processes -> Seq(Positions)] /\ todo' \in [Processes -> Seq(Positions)]
    BY <1>1, <1>2, <2>1 DEF IInv, Shapes, Places
  <2>3. /\ missing' \in [Processes -> Seq(Positions)] /\ solved' \in [Processes -> Seq(Positions)]
    <3>1. <<>> \in Seq(Positions)
      OBVIOUS
    <3>2. QED
      BY <2>1, <3>1 DEF IInv, Shapes
  <2>4. Others(p)
    BY <1>1, <2>1 DEF IInv, Shapes, Others
  <2>5. QED
    BY <2>2, <2>3, <2>4 DEF Shapes
<1>4. /\ pc[p] = "idle" /\ pc'[p] = "looking" /\ request'[p] = r /\ todo'[p] = r
      /\ missing'[p] = <<>> /\ solved'[p] = <<>> /\ child'[p] = child[p]
  BY <1>1 DEF IInv, Shapes, Call, Continue, pipe
<1>5. Lists(p)' /\ Covered(p)' /\ Storing(p)'
  BY <1>4 DEF Lists, Answer, Covered, LookedAt, Storing
<1>6. Childless(p)' /\ SolutionsAreTrue'
  BY <1>4 DEF IInv, Childless, SolutionsAreTrue, Call
<1>7. QED
  BY <1>3, <1>5, <1>6, Frame DEF Call

LEMMA LookUpInv == ASSUME IInv, NEW p \in Processes, LookUp(p) PROVE IInv'
<1> DEFINE x == Head(todo[p])
<1>1. /\ todo[p] \in Seq(Positions) /\ missing[p] \in Seq(Positions) /\ todo[p] # <<>>
      /\ solved[p] = <<>> /\ pc[p] = "looking"
  BY DEF IInv, Shapes, Lists, LookUp
<1>2. /\ x \in Positions /\ Tail(todo[p]) \in Seq(Positions)
      /\ ToSet(todo[p]) = {x} \cup ToSet(Tail(todo[p]))
  BY <1>1, HeadAndTail
<1>3. /\ Append(missing[p], x) \in Seq(Positions)
      /\ ToSet(Append(missing[p], x)) = ToSet(missing[p]) \cup {x}
  BY <1>1, <1>2, AppendedSet
<1>4. /\ todo'[p] = Tail(todo[p])
      /\ missing'[p] = IF Unknown(p) THEN Append(missing[p], x) ELSE missing[p]
  BY DEF IInv, Shapes, LookUp
<1>5. Shapes' /\ Others(p)
  BY <1>2, <1>3, <1>4 DEF IInv, Shapes, Places, Others, LookUp, base, pipe
<1>6. Lists(p)'
  <2>1. \A i, j \in 1..Len(missing'[p]) : missing'[p][i] = missing'[p][j] => i = j
    <3>1. CASE ~Unknown(p)
      BY <1>4, <3>1 DEF IInv, Lists
    <3>2. CASE Unknown(p)
      <4>1. \A i \in 1..Len(missing[p]) : missing[p][i] # x
        BY <1>1, <3>2 DEF Unknown, ToSet
      <4>2. /\ Len(missing'[p]) = Len(missing[p]) + 1 /\ Len(missing[p]) \in Nat
            /\ missing'[p][Len(missing[p]) + 1] = x
            /\ \A i \in 1..Len(missing[p]) : missing'[p][i] = missing[p][i]
        BY <1>1, <1>2, <1>4, <3>2
      <4>3. \A i, j \in 1..Len(missing[p]) : missing[p][i] = missing[p][j] => i = j
        BY DEF IInv, Lists
      <4>4. QED
        <5>1. \A i \in 1..Len(missing'[p]) :
                i \in 1..Len(missing[p]) \/ i = Len(missing[p]) + 1
          BY <4>2
        <5>2. QED
          BY <4>1, <4>2, <4>3, <5>1
    <3>3. QED
      BY <3>1, <3>2
  <2>2. QED
    BY <1>1, <1>5, <2>1 DEF Lists, Answer, LookUp, Shapes
<1>7. Covered(p)'
  <2>1. ToSet(todo[p]) \cup ToSet(missing[p]) \cup DOMAIN db
          = ToSet(todo'[p]) \cup ToSet(missing'[p]) \cup DOMAIN db
    BY <1>2, <1>3, <1>4 DEF Unknown
  <2>2. QED
    BY <1>1, <2>1 DEF IInv, Covered, LookedAt, LookUp, base
<1>8. Storing(p)' /\ Childless(p)' /\ SolutionsAreTrue'
  BY <1>1 DEF IInv, Storing, Childless, SolutionsAreTrue, LookUp, base, pipe
<1>9. QED
  BY <1>5, <1>6, <1>7, <1>8, Frame DEF LookUp, base

LEMMA LookedUpInv == ASSUME IInv, NEW p \in Processes, LookedUp(p) PROVE IInv'
<1>1. Shapes' /\ Others(p) /\ pc'[p] = "solving"
  BY DEF IInv, Shapes, Places, Others, LookedUp, Continue, base, call, pipe
<1>2. Lists(p)'
  BY <1>1 DEF IInv, Lists, Answer, LookedUp, call
<1>3. Covered(p)'
  BY <1>1 DEF IInv, Covered, LookedAt, LookedUp, base, call
<1>4. Storing(p)' /\ Childless(p)' /\ SolutionsAreTrue'
  BY <1>1 DEF IInv, Storing, Childless, SolutionsAreTrue, LookedUp, base, pipe
<1>5. QED
  BY <1>1, <1>2, <1>3, <1>4, Frame DEF LookedUp, base

\* A transaction is begun when no other process has one, with all solutions.
LEMMA BeginInv == ASSUME IInv, NEW p \in Processes, Begin(p) PROVE IInv'
<1>1. pc[p] = "solving" /\ Len(solved[p]) = Len(missing[p]) /\ UNCHANGED db
  BY DEF Begin
<1>2. CASE /\ Continue(p, "scoring") /\ UNCHANGED <<writer, inserted, call, pipe>>
           /\ missing[p] = <<>>
  <2>1. Shapes' /\ Others(p) /\ pc'[p] = "scoring"
    BY <1>1, <1>2 DEF IInv, Shapes, Places, Others, Continue, call, pipe
  <2>2. Lists(p)'
    BY <1>1, <1>2, <2>1 DEF IInv, Lists, Answer, call
  <2>3. Covered(p)'
    <3>1. ToSet(missing[p]) = {}
      BY <1>2 DEF ToSet
    <3>2. /\ todo[p] = <<>>
          /\ ToSet(request[p]) \subseteq ToSet(todo[p]) \cup ToSet(missing[p]) \cup DOMAIN db
      BY <1>1 DEF IInv, Covered, LookedAt
    <3>3. QED
      BY <1>1, <1>2, <2>1, <3>1, <3>2 DEF Covered, call
  <2>4. Storing(p)' /\ Childless(p)' /\ SolutionsAreTrue'
    BY <1>1, <1>2, <2>1 DEF IInv, Storing, Childless, SolutionsAreTrue, pipe
  <2>5. QED
    BY <1>1, <1>2, <2>1, <2>2, <2>3, <2>4, Frame
<1>3. CASE /\ Continue(p, "storing") /\ writer = None /\ writer' = p /\ inserted' = <<>>
           /\ UNCHANGED <<call, pipe>>
  <2>1. Shapes' /\ Others(p) /\ pc'[p] = "storing"
    BY <1>1, <1>3 DEF IInv, Shapes, Places, Others, Continue, call, pipe
  <2>2. Lists(p)'
    BY <1>1, <1>3, <2>1 DEF IInv, Lists, Answer, call
  <2>3. Covered(p)'
    BY <1>1, <1>3, <2>1 DEF IInv, Covered, LookedAt, call
  <2>4. Storing(p)'
    <3>1. DOMAIN inserted' = {} /\ Rows' = 0 /\ IsFiniteSet(DOMAIN inserted')
      BY <1>3, FS_EmptySet DEF Rows
    <3>2. Len(missing[p]) \in Nat
      BY DEF IInv, Shapes
    <3>3. QED
      BY <1>1, <1>3, <3>1, <3>2 DEF Storing, call
  <2>5. Childless(p)' /\ SolutionsAreTrue'
    BY <1>1, <1>3 DEF IInv, Childless, SolutionsAreTrue, pipe
  <2>6. QED
    BY <1>1, <1>3, <2>1, <2>2, <2>3, <2>4, <2>5, Frame
<1>4. CASE Leave(p) /\ UNCHANGED <<writer, inserted>>
  BY <1>1, <1>4, LeaveInv
<1>5. QED
  BY <1>2, <1>3, <1>4 DEF Begin

\* The next row names the position its solution belongs to, and it is a new one.
LEMMA InsertInv == ASSUME IInv, NEW p \in Processes, Insert(p) PROVE IInv'
<1> DEFINE i == Rows + 1
           x == missing[p][i]
<1>1. /\ pc[p] = "storing" /\ Rows < Len(missing[p]) /\ inserted' = Plus(inserted, Row(p))
      /\ UNCHANGED <<db, writer, pc, call, child, unsent, got>>
  BY DEF Insert, Rows, pipe
<1>2. /\ writer = p /\ Len(solved[p]) = Len(missing[p]) /\ IsFiniteSet(DOMAIN inserted)
      /\ DOMAIN inserted = {missing[p][j] : j \in 1..Rows}
      /\ \A position \in DOMAIN inserted : Believed(inserted[position], position)
  BY <1>1 DEF IInv, Storing
<1>3. Rows \in Nat /\ Len(missing[p]) \in Nat /\ i \in 1..Len(missing[p])
  BY <1>1, <1>2, FS_CardinalityType DEF IInv, Shapes, Rows
<1>4. DOMAIN Row(p) = {x} /\ Believed(Row(p)[x], x)
  BY <1>2, <1>3 DEF Row, Rows, IInv, Lists, Answer
<1>5. x \notin DOMAIN inserted
  BY <1>1, <1>2, <1>3 DEF IInv, Lists
<1>6. /\ DOMAIN inserted' = DOMAIN inserted \cup {x}
      /\ \A position \in DOMAIN inserted' : Believed(inserted'[position], position)
  <2>1. /\ DOMAIN inserted' = DOMAIN inserted \cup DOMAIN Row(p)
        /\ \A position \in DOMAIN inserted : inserted'[position] = inserted[position]
        /\ \A position \in DOMAIN Row(p) \ DOMAIN inserted :
             inserted'[position] = Row(p)[position]
    BY <1>1 DEF Plus
  <2>2. QED
    BY <1>2, <1>4, <2>1
<1>7. IsFiniteSet(DOMAIN inserted') /\ Rows' = Rows + 1
  <2>1. \A T : IsFiniteSet(T) /\ x \notin T =>
          IsFiniteSet(T \cup {x}) /\ Cardinality(T \cup {x}) = Cardinality(T) + 1
    BY FS_AddElement
  <2> QED
    BY <1>2, <1>5, <1>6, <2>1 DEF Rows
<1>8. DOMAIN inserted' = {missing[p][j] : j \in 1..(Rows + 1)}
  BY <1>2, <1>3, <1>6
<1>9. Storing(p)'
  <2>1. missing' = missing /\ solved' = solved /\ writer' = writer
    BY <1>1 DEF call
  <2>2. Rows' <= Len(missing[p])
    BY <1>1, <1>3, <1>7
  <2>3. DOMAIN inserted' = {missing'[p][j] : j \in 1..Rows'}
    BY <1>7, <1>8, <2>1
  <2>4. QED
    BY <1>2, <1>6, <1>7, <2>1, <2>2, <2>3 DEF Storing
<1>10. Shapes' /\ Others(p)
  BY <1>1 DEF IInv, Shapes, Others, call
<1>11. Lists(p)'
  BY <1>1 DEF IInv, Lists, Answer, call
<1>12. Covered(p)'
  BY <1>1 DEF IInv, Covered, call
<1>13. Childless(p)' /\ SolutionsAreTrue'
  BY <1>1 DEF IInv, Childless, SolutionsAreTrue
<1>14. QED
  BY <1>1, <1>2, <1>9, <1>10, <1>11, <1>12, <1>13, Frame

\* As many inserted as positions were missing are all of them.
LEMMA AllInserted ==
  ASSUME IInv, NEW p \in Processes, pc[p] = "storing", Inserted(p)
  PROVE  ToSet(missing[p]) = DOMAIN inserted
<1>1. missing[p] \in Seq(Positions)
  BY DEF IInv, Shapes
<1>2. DOMAIN inserted = {missing[p][i] : i \in 1..Len(missing[p])}
  BY DEF IInv, Storing, Inserted, Rows
<1>3. QED
  BY <1>1, <1>2 DEF ToSet

LEMMA CommitInv == ASSUME IInv, NEW p \in Processes, Commit(p) PROVE IInv'
<1>1. /\ pc[p] = "storing" /\ Inserted(p) /\ db' = Plus(db, inserted)
      /\ UNCHANGED <<call, child, unsent, got>>
  BY DEF Commit, pipe
<1>2. DOMAIN db' = DOMAIN db \cup DOMAIN inserted
  BY <1>1, PlusRows
<1>3. SolutionsAreTrue'
  <2>1. /\ \A position \in DOMAIN db : db'[position] = db[position]
        /\ \A position \in DOMAIN inserted \ DOMAIN db : db'[position] = inserted[position]
    BY <1>1 DEF Plus
  <2>2. /\ \A position \in DOMAIN db : Believed(db[position], position)
        /\ \A position \in DOMAIN inserted : Believed(inserted[position], position)
    BY <1>1 DEF IInv, SolutionsAreTrue, Storing, Believed
  <2>3. \A position \in DOMAIN db' : Believed(db'[position], position)
    BY <1>2, <2>1, <2>2
  <2>4. QED
    BY <2>3 DEF SolutionsAreTrue, Believed
<1>4. ToSet(missing[p]) \subseteq DOMAIN db'
  BY <1>1, <1>2, AllInserted
<1>5. Shapes' /\ Others(p) /\ pc'[p] = "scoring"
  BY <1>1 DEF IInv, Shapes, Places, Others, Commit, Continue, call
<1>6. Lists(p)'
  BY <1>1, <1>5 DEF IInv, Lists, Answer, call
<1>7. Covered(p)'
  BY <1>1, <1>2, <1>4, <1>5 DEF IInv, Covered, LookedAt, call
<1>8. Storing(p)' /\ Childless(p)'
  BY <1>1, <1>5 DEF IInv, Storing, Childless
<1>9. writer = p
  BY <1>1 DEF IInv, Storing
<1>10. QED
  BY <1>2, <1>3, <1>5, <1>6, <1>7, <1>8, <1>9, Frame

\* The last look finds every position: those known at the first, and those stored.
LEMMA ScoreInv == ASSUME IInv, NEW p \in Processes, Score(p) PROVE IInv'
<1>1. pc[p] = "scoring" /\ UNCHANGED <<db, writer, inserted>>
  BY DEF Score, base
<1>2. ToSet(request[p]) \subseteq DOMAIN db
  <2>1. /\ todo[p] = <<>> /\ ToSet(missing[p]) \subseteq DOMAIN db
        /\ ToSet(request[p]) \subseteq ToSet(todo[p]) \cup ToSet(missing[p]) \cup DOMAIN db
    BY <1>1 DEF IInv, Covered, LookedAt
  <2>2. ToSet(todo[p]) = {}
    BY <2>1 DEF ToSet
  <2>3. QED
    BY <2>1, <2>2
<1>3. QED
  BY <1>1, <1>2, LeaveInv DEF Score

\* What a killed process had inserted goes with its transaction.
LEMMA KillInv == ASSUME IInv, NEW p \in Processes, Kill(p) PROVE IInv'
<1>1. Leave(p) /\ db' = db /\ (UNCHANGED <<writer, inserted>> \/ writer \in {p, None})
  BY DEF Kill
<1> QED
  BY <1>1, LeaveInv

LEMMA SameInv ==
  ASSUME IInv,
         UNCHANGED <<db, writer, inserted, pc, request, todo, missing, solved, unsent, got, child>>
  PROVE  IInv'
<1>1. UNCHANGED <<db, writer, inserted, pc, request, todo, missing, solved, unsent, got, child>>
  OBVIOUS
<1>2. Rows' = Rows /\ NoChild' = NoChild
  BY <1>1 DEF Rows, NoChild
<1>3. Shapes' /\ SolutionsAreTrue'
  BY <1>1 DEF IInv, Shapes, SolutionsAreTrue
<1>4. ASSUME NEW p \in Processes
      PROVE  Lists(p)' /\ Covered(p)' /\ Storing(p)' /\ Childless(p)'
  <2>1. Lists(p)'
    BY <1>1 DEF IInv, Lists, Answer
  <2>2. Covered(p)'
    BY <1>1 DEF IInv, Covered
  <2>3. Storing(p)'
    BY <1>1, <1>2 DEF IInv, Storing
  <2>4. Childless(p)'
    BY <1>1, <1>2 DEF IInv, Childless
  <2>5. QED
    BY <2>1, <2>2, <2>3, <2>4
<1>5. QED
  BY <1>3, <1>4 DEF IInv

LEMMA OrphanInv == ASSUME IInv, OrphanEnds PROVE IInv'
<1>1. UNCHANGED <<db, writer, inserted, pc, call, pipe>>
  BY DEF OrphanEnds
<1> QED
  BY <1>1, SameInv DEF call, pipe

-----------------------------------------------------------------------------
LEMMA StepInv == ASSUME IInv, CacheNext PROVE IInv'
<1>1. CASE OrphanEnds
  BY <1>1, OrphanInv
<1>2. ASSUME NEW p \in Processes, Call(p) \/ Caller(p) \/ Child(p) \/ Kill(p) PROVE IInv'
  BY <1>2, LookUpInv, LookedUpInv, SpawnInv, WriteInv, WrittenInv, ReadInv, AnsweredInv,
     DeadlineInv, BeginInv, InsertInv, CommitInv, ScoreInv, CallInv, ChildInv, KillInv
     DEF Caller
<1>3. QED
  BY <1>1, <1>2 DEF CacheNext

THEOREM Invariance == CacheSpec => []IInv
<1>1. CacheInit => IInv
  BY InitInv
<1>2. IInv /\ [CacheNext]_cacheVars => IInv'
  BY StepInv, SameInv DEF cacheVars, base, call, pipe
<1>3. QED
  BY <1>1, <1>2, PTL DEF CacheSpec

\* Only a commit changes the database, and it brings all that was missing.
THEOREM StoredAsOne == CacheSpec => StoredTogether
<1>1. ASSUME IInv, [CacheNext]_cacheVars, db' # db
      PROVE  \E p \in Processes :
               pc[p] = "storing" /\ DOMAIN db' = DOMAIN db \cup ToSet(missing[p])
  <2>1. PICK p \in Processes : Commit(p)
    BY <1>1 DEF CacheNext, cacheVars, Caller, Child, Call, LookUp, LookedUp, SpawnSolver, Write, Written,
       Read, Answered, Deadline, Begin, Insert, Score, Kill, OrphanEnds, ChildTakes,
       ChildAnswers, ChildSkips, ChildChatters, ChildEnds, ChildHangs, base
  <2>2. pc[p] = "storing" /\ ToSet(missing[p]) = DOMAIN inserted
    BY <1>1, <2>1, AllInserted DEF Commit
  <2>3. DOMAIN db' = DOMAIN db \cup DOMAIN inserted
    <3>1. db' = Plus(db, inserted)
      BY <2>1 DEF Commit
    <3>2. QED
      BY <3>1, PlusRows
  <2>4. QED
    BY <2>2, <2>3
<1>2. QED
  BY <1>1, Invariance, PTL DEF CacheSpec, StoredTogether

-----------------------------------------------------------------------------
(***************************************************************************)
(* The pipes.  While a process writes, the lines of a chunk not written,   *)
(* those in the pipes and the one the child works on are no more than a    *)
(* chunk, which the pipes and the child can hold but for one line, as long *)
(* as the child has printed nothing beside its answers.                    *)
(***************************************************************************)
Busy(p)    == IF child[p].job = 0 THEN 0 ELSE 1
Traffic(p) == Len(unsent[p]) + Len(child[p].in) + Len(child[p].out) + Busy(p)

Exchange(p) ==
  /\ Len(child[p].in) <= Capacity /\ Len(child[p].out) <= Capacity
  /\ pc[p] = "writing" /\ ~child[p].unasked => Traffic(p) <= ChunkSize

Tables ==
  /\ DOMAIN db \subseteq Positions /\ DOMAIN inserted \subseteq Positions
  /\ writer \in Processes \cup {None} /\ calls \in 0..MaxCalls /\ orphans \in Nat

PInv == IInv /\ Tables /\ \A p \in Processes : Exchange(p)

LEMMA InitPipes == CacheInit => PInv
<1> SUFFICES ASSUME CacheInit PROVE PInv
  OBVIOUS
<1>1. Tables
  BY SolverAssumption DEF CacheInit, Tables
<1>2. ASSUME NEW p \in Processes PROVE Exchange(p)
  <2>1. child[p] = NoChild /\ pc[p] = "idle"
    BY <1>2 DEF CacheInit
  <2> QED
    BY <2>1, NoChildShape, SolverAssumption DEF Exchange
<1> QED
  BY <1>1, <1>2, InitInv DEF PInv

\* A step of one process or its child leaves the other exchanges alone.
OtherPipes(p) ==
  \A q \in Processes \ {p} :
    pc'[q] = pc[q] /\ unsent'[q] = unsent[q] /\ child'[q] = child[q]

LEMMA OneExchange ==
  ASSUME PInv, IInv', NEW p \in Processes, Tables', OtherPipes(p), Exchange(p)'
  PROVE  PInv'
<1>1. ASSUME NEW q \in Processes, q # p PROVE Exchange(q)'
  <2>1. pc'[q] = pc[q] /\ unsent'[q] = unsent[q] /\ child'[q] = child[q]
    BY <1>1 DEF OtherPipes
  <2>2. Exchange(q)
    BY DEF PInv
  <2> QED
    BY <2>1, <2>2 DEF Exchange, Traffic, Busy
<1> QED
  BY <1>1 DEF PInv

\* An exchange ends, or its process goes on without writing.
LEMMA NotWriting ==
  ASSUME PInv, IInv', NEW p \in Processes, Tables', OtherPipes(p),
         pc'[p] # "writing", child'[p] \in {child[p], NoChild}
  PROVE  PInv'
<1>1. Exchange(p)'
  BY NoChildShape, SolverAssumption DEF PInv, Exchange
<1> QED
  BY <1>1, OneExchange

LEMMA LeavePipes ==
  ASSUME PInv, IInv', NEW p \in Processes, Tables', Leave(p) PROVE PInv'
<1>1. OtherPipes(p) /\ pc'[p] = "idle" /\ child'[p] = NoChild
  BY DEF Leave, Continue, EndExchange, PInv, IInv, Shapes, OtherPipes
<1> QED
  BY <1>1, NotWriting

\* The steps of a call beside its exchange.
LEMMA CallPipes ==
  ASSUME PInv, IInv', NEW p \in Processes,
         \/ Call(p) \/ LookUp(p) \/ LookedUp(p) \/ Begin(p) \/ Insert(p) \/ Commit(p)
         \/ Score(p) \/ Kill(p) \/ Answered(p) \/ Deadline(p) \/ Written(p)
  PROVE  PInv'
<1>1. Tables'
  <2>1. CASE Call(p)
    BY <2>1, SolverAssumption DEF PInv, Tables, Call
  <2>2. CASE LookUp(p) \/ LookedUp(p) \/ Score(p) \/ Answered(p) \/ Deadline(p) \/ Written(p)
    BY <2>2 DEF PInv, Tables, LookUp, LookedUp, Score, Answered, Deadline, Written, base
  <2>3. CASE Begin(p) \/ Kill(p)
    BY <2>3 DEF PInv, Tables, Begin, Kill
  <2>4. CASE Insert(p)
    <3>1. Rows < Len(missing[p]) /\ Rows \in Nat /\ missing[p] \in Seq(Positions)
      BY <2>4, FS_CardinalityType DEF Insert, Rows, PInv, IInv, Shapes, Storing
    <3>2. missing[p][Rows + 1] \in Positions
      BY <3>1
    <3>3. DOMAIN Row(p) \subseteq Positions
      BY <3>2 DEF Row, Rows
    <3> QED
      BY <2>4, <3>3, PlusRows DEF PInv, Tables, Insert
  <2>5. CASE Commit(p)
    BY <2>5, PlusRows, DOMAIN <<>> = {} DEF PInv, Tables, Commit
  <2> QED
    BY <2>1, <2>2, <2>3, <2>4, <2>5
<1>2. CASE Leave(p)
  BY <1>1, <1>2, LeavePipes
<1>3. CASE ~Leave(p)
  <2>1. OtherPipes(p) /\ pc'[p] # "writing" /\ child'[p] \in {child[p], NoChild}
    <3> USE DEF PInv, IInv, Shapes, OtherPipes
    <3>1. CASE Call(p) \/ LookedUp(p) \/ Commit(p) \/ Score(p) \/ Written(p)
      BY <1>3, <3>1 DEF Call, LookedUp, Commit, Score, Written, Continue, pipe
    <3>2. CASE LookUp(p) \/ Insert(p)
      BY <3>2 DEF LookUp, Insert, pipe
    <3>3. CASE Begin(p) \/ Kill(p) \/ Deadline(p)
      BY <1>3, <3>3 DEF Begin, Kill, Deadline, Continue, pipe
    <3>4. CASE Answered(p)
      BY <1>3, <3>4 DEF Answered, Continue, EndExchange
    <3> QED
      BY <3>1, <3>2, <3>3, <3>4
  <2> QED
    BY <1>1, <2>1, NotWriting
<1> QED
  BY <1>2, <1>3

\* An exchange begins with a chunk and empty pipes.
LEMMA SpawnPipes ==
  ASSUME PInv, IInv', NEW p \in Processes, SpawnSolver(p) PROVE PInv'
<1>1. Tables'
  BY DEF PInv, Tables, SpawnSolver, base
<1>2. CASE Leave(p)
  BY <1>1, <1>2, LeavePipes
<1>3. CASE ~Leave(p)
  <2>1. /\ pc' = [pc EXCEPT ![p] = "writing"] /\ unsent' = [unsent EXCEPT ![p] = Chunk(p)]
        /\ child' = [child EXCEPT ![p].state = "running"] /\ pc[p] = "solving"
    BY <1>3 DEF SpawnSolver, Continue
  <2>2. child[p] = NoChild
    BY <2>1 DEF PInv, IInv, Childless
  <2>3. /\ pc'[p] = "writing" /\ unsent'[p] = Chunk(p) /\ OtherPipes(p)
        /\ child'[p] = [NoChild EXCEPT !.state = "running"]
    BY <2>1, <2>2 DEF PInv, IInv, Shapes, OtherPipes
  <2>4. child'[p].in = <<>> /\ child'[p].out = <<>> /\ child'[p].job = 0
    BY <2>3 DEF NoChild
  <2>5. Len(Chunk(p)) \in Nat /\ Len(Chunk(p)) <= ChunkSize
    BY ChunkIsPart DEF PInv
  <2>6. Traffic(p)' = Len(Chunk(p)) + 0 + 0 + 0
    BY <2>3, <2>4 DEF Traffic, Busy
  <2>7. Exchange(p)'
    BY <2>4, <2>5, <2>6, SolverAssumption DEF Exchange
  <2> QED
    BY <1>1, <2>3, <2>7, OneExchange
<1> QED
  BY <1>2, <1>3

\* A line goes from the process to its child, through it, and back.
LEMMA LinePipes ==
  ASSUME PInv, IInv', NEW p \in Processes, Write(p) \/ Read(p) \/ Child(p), ~Leave(p)
  PROVE  PInv'
<1> DEFINE c == child[p]
           d == child'[p]
<1>1. Tables'
  BY DEF PInv, Tables, Write, Read, Child, ChildTakes, ChildAnswers, ChildSkips, ChildChatters,
     ChildEnds, ChildHangs, base
<1>2. /\ unsent[p] \in Seq(Positions) /\ c \in Children
      /\ c.in \in Seq(Positions) /\ c.out \in Seq(Lines)
      /\ Len(c.in) <= Capacity /\ Len(c.out) <= Capacity
      /\ pc[p] = "writing" /\ ~c.unasked => Traffic(p) <= ChunkSize
  BY DEF PInv, IInv, Shapes, Exchange, Children
<1>3. OtherPipes(p)
  <2> USE DEF PInv, IInv, Shapes, OtherPipes
  <2>1. CASE Write(p)
    BY <2>1 DEF Write, Continue
  <2>2. CASE Read(p)
    BY <2>2 DEF Read
  <2>3. CASE Child(p)
    BY <2>3 DEF Child, ChildTakes, ChildAnswers, ChildSkips, ChildChatters, ChildEnds,
       ChildHangs
  <2> QED
    BY <2>1, <2>2, <2>3
<1>4. PICK u \in Nat, i \in Nat, o \in Nat, b \in 0..1 :
        u = Len(unsent[p]) /\ i = Len(c.in) /\ o = Len(c.out) /\ b = Busy(p)
  BY <1>2 DEF Busy
<1>5. Traffic(p) = u + i + o + b
  BY <1>4 DEF Traffic
<1>6. PICK k \in Nat, n \in Nat : k = Capacity /\ n = ChunkSize
  BY SolverAssumption
<1>7. ASSUME NEW v \in Nat, NEW j \in Nat, NEW r \in Nat, NEW e \in 0..1,
             v = Len(unsent'[p]), j = Len(d.in), r = Len(d.out), e = Busy(p)',
             j <= k, r <= k,
             pc'[p] = "writing" /\ ~d.unasked =>
               pc[p] = "writing" /\ ~c.unasked /\ v + j + r + e <= u + i + o + b
      PROVE  Exchange(p)'
  <2>1. Traffic(p)' = v + j + r + e
    BY <1>7 DEF Traffic
  <2>2. pc'[p] = "writing" /\ ~d.unasked => Traffic(p)' <= ChunkSize
    <3> SUFFICES ASSUME pc'[p] = "writing", ~d.unasked PROVE Traffic(p)' <= ChunkSize
      OBVIOUS
    <3>1. v + j + r + e <= u + i + o + b /\ Traffic(p) <= ChunkSize
      BY <1>2, <1>7
    <3>2. u + i + o + b <= n
      BY <1>5, <1>6, <3>1
    <3>3. v + j + r + e <= n
      BY <3>1, <3>2
    <3> QED
      BY <1>6, <2>1, <3>3
  <2> QED
    BY <1>6, <1>7, <2>2 DEF Exchange
<1>8. i <= k /\ o <= k
  BY <1>2, <1>4, <1>6
<1>9. Exchange(p)'
  <2>1. CASE Write(p) /\ UNCHANGED <<child, unsent>> /\ pc'[p] = "reading"
    <3>1. Busy(p)' = b
      BY <1>4, <2>1 DEF Busy
    <3> QED
      BY <1>4, <1>7, <1>8, <2>1, <3>1
  <2>2. CASE Write(p) /\ ~(UNCHANGED <<child, unsent>> /\ pc'[p] = "reading")
    <3>1. /\ HasRoom(c.in) /\ d = [c EXCEPT !.in = Append(c.in, Head(unsent[p]))]
          /\ unsent[p] # <<>> /\ unsent'[p] = Tail(unsent[p]) /\ pc'[p] = pc[p]
          /\ pc[p] = "writing"
      BY <2>2 DEF Write, Continue, PInv, IInv, Shapes
    <3>2. /\ d.in = Append(c.in, Head(unsent[p])) /\ d.out = c.out /\ d.job = c.job
          /\ d.unasked = c.unasked
      BY <1>2, <3>1 DEF Children
    <3>3. u - 1 \in Nat /\ u - 1 = Len(unsent'[p]) /\ i + 1 = Len(d.in) /\ o = Len(d.out)
      BY <1>2, <1>4, <3>1, <3>2
    <3>4. Busy(p)' = b
      BY <1>4, <3>2 DEF Busy
    <3>5. i + 1 \in Nat /\ i + 1 <= k
      BY <1>4, <1>6, <3>1 DEF HasRoom
    <3>6. (u - 1) + (i + 1) + o + b <= u + i + o + b
      OBVIOUS
    <3> QED
      BY <1>7, <1>8, <3>1, <3>2, <3>3, <3>4, <3>5, <3>6
  <2>3. CASE Read(p)
    <3>1. /\ pc[p] = "reading" /\ pc'[p] = "reading" /\ unsent'[p] = unsent[p]
          /\ c.out # <<>> /\ d = [c EXCEPT !.out = Tail(c.out)]
      BY <2>3 DEF Read, PInv, IInv, Shapes
    <3>2. d.in = c.in /\ d.out = Tail(c.out) /\ d.job = c.job
      BY <1>2, <3>1 DEF Children
    <3>3. Len(d.out) = o - 1 /\ o - 1 \in Nat /\ o - 1 <= k
      BY <1>2, <1>4, <1>8, <3>1, <3>2
    <3>4. Busy(p)' = b
      BY <1>4, <3>2 DEF Busy
    <3> QED
      BY <1>4, <1>7, <1>8, <3>1, <3>2, <3>3, <3>4
  <2>4. CASE ChildTakes(p)
    <3>1. /\ d = [c EXCEPT !.in = Tail(c.in), !.job = Head(c.in)] /\ c.in # <<>> /\ c.job = 0
          /\ pc'[p] = pc[p] /\ unsent'[p] = unsent[p]
      BY <2>4 DEF ChildTakes, PInv, IInv, Shapes
    <3>2. d.in = Tail(c.in) /\ d.out = c.out /\ d.unasked = c.unasked
      BY <1>2, <3>1 DEF Children
    <3>3. Len(d.in) = i - 1 /\ i - 1 \in Nat /\ i - 1 <= k
      BY <1>2, <1>4, <1>8, <3>1, <3>2
    <3>4. PICK e \in 0..1 : e = Busy(p)'
      BY DEF Busy
    <3>5. b = 0
      BY <1>4, <3>1 DEF Busy
    <3>6. u + (i - 1) + o + e <= u + i + o + b
      BY <3>3, <3>4, <3>5
    <3> QED
      BY <1>4, <1>7, <1>8, <3>1, <3>2, <3>3, <3>4, <3>6
  <2>5. CASE ChildAnswers(p)
    <3>1. PICK line \in {AnswerTo(c.job)} \cup Strays[p] :
            d = [c EXCEPT !.out = Append(c.out, line), !.job = 0]
      BY <2>5 DEF ChildAnswers, PInv, IInv, Shapes
    <3>2. c.job # 0 /\ HasRoom(c.out) /\ pc'[p] = pc[p] /\ unsent'[p] = unsent[p]
      BY <2>5 DEF ChildAnswers
    <3>3. line \in Lines
      <4>1. c.job \in Positions /\ Strays[p] \subseteq Lines
        BY <1>2, <3>2, SolverAssumption DEF Children
      <4> QED
        BY <3>1, <4>1, AnswerIsALine
    <3>4. d.in = c.in /\ d.out = Append(c.out, line) /\ d.job = 0 /\ d.unasked = c.unasked
      BY <1>2, <3>1 DEF Children
    <3>5. Len(d.out) = o + 1 /\ o + 1 \in Nat /\ o + 1 <= k
      BY <1>2, <1>4, <1>6, <3>2, <3>3, <3>4 DEF HasRoom
    <3>6. b = 1 /\ Busy(p)' = 0 /\ 0 \in 0..1
      BY <1>4, <3>2, <3>4 DEF Busy
    <3>7. u + i + (o + 1) + 0 <= u + i + o + b
      BY <3>6
    <3>8. PICK e \in 0..1 : e = 0
      OBVIOUS
    <3> QED
      BY <1>4, <1>7, <1>8, <3>2, <3>4, <3>5, <3>6, <3>7, <3>8
  <2>6. CASE ChildSkips(p)
    <3>1. /\ d = [c EXCEPT !.job = 0] /\ pc'[p] = pc[p] /\ unsent'[p] = unsent[p]
      BY <2>6 DEF ChildSkips, PInv, IInv, Shapes
    <3>2. d.in = c.in /\ d.out = c.out /\ d.job = 0 /\ d.unasked = c.unasked
      BY <1>2, <3>1 DEF Children
    <3>3. PICK e \in 0..1 : e = 0 /\ e = Busy(p)'
      BY <3>2 DEF Busy
    <3>4. u + i + o + e <= u + i + o + b
      BY <3>3
    <3> QED
      BY <1>4, <1>7, <1>8, <3>1, <3>2, <3>3, <3>4
  <2>7. CASE ChildChatters(p)
    <3>1. PICK line \in Strays[p] : d = [c EXCEPT !.out = Append(c.out, line), !.unasked = TRUE]
      BY <2>7 DEF ChildChatters, PInv, IInv, Shapes
    <3>2. HasRoom(c.out) /\ unsent'[p] = unsent[p] /\ line \in Lines
      BY <2>7, <3>1, SolverAssumption DEF ChildChatters
    <3>3. d.in = c.in /\ d.out = Append(c.out, line) /\ d.job = c.job /\ d.unasked
      BY <1>2, <3>1 DEF Children
    <3>4. Len(d.out) = o + 1 /\ o + 1 \in Nat /\ o + 1 <= k
      BY <1>2, <1>4, <1>6, <3>2, <3>3 DEF HasRoom
    <3>5. Busy(p)' = b
      BY <1>4, <3>3 DEF Busy
    <3> QED
      BY <1>4, <1>7, <1>8, <3>2, <3>3, <3>4, <3>5
  <2>8. CASE ChildEnds(p)
    <3>1. PICK state \in {"exited", "failed"} :
            d = [c EXCEPT !.state = state, !.in = <<>>, !.job = 0]
      BY <2>8 DEF ChildEnds, PInv, IInv, Shapes
    <3>2. /\ pc'[p] = pc[p] /\ unsent'[p] = unsent[p]
          /\ d.in = <<>> /\ d.out = c.out /\ d.job = 0 /\ d.unasked = c.unasked
      BY <1>2, <2>8, <3>1 DEF ChildEnds, Children
    <3>3. PICK e \in 0..1, j \in Nat : e = 0 /\ j = 0 /\ e = Busy(p)' /\ j = Len(d.in)
      BY <3>2 DEF Busy
    <3>4. u + j + o + e <= u + i + o + b /\ j <= k
      BY <3>3
    <3> QED
      BY <1>4, <1>7, <1>8, <3>2, <3>3, <3>4
  <2>9. CASE ChildHangs(p)
    <3>1. d = [c EXCEPT !.state = "hung"] /\ pc'[p] = pc[p] /\ unsent'[p] = unsent[p]
      BY <2>9 DEF ChildHangs, PInv, IInv, Shapes
    <3>2. d.in = c.in /\ d.out = c.out /\ d.job = c.job /\ d.unasked = c.unasked
      BY <1>2, <3>1 DEF Children
    <3>3. Busy(p)' = b
      BY <1>4, <3>2 DEF Busy
    <3>4. u = Len(unsent'[p]) /\ i = Len(d.in) /\ o = Len(d.out)
      BY <1>4, <3>1, <3>2
    <3>5. pc'[p] = "writing" /\ ~d.unasked => pc[p] = "writing" /\ ~c.unasked
      BY <3>1, <3>2
    <3>6. u + i + o + b <= u + i + o + b
      OBVIOUS
    <3> QED
      BY <1>7, <1>8, <3>3, <3>4, <3>5, <3>6
  <2> QED
    BY <2>1, <2>2, <2>3, <2>4, <2>5, <2>6, <2>7, <2>8, <2>9 DEF Child
<1> QED
  BY <1>1, <1>3, <1>9, OneExchange

THEOREM PipesInvariance == CacheSpec => []PInv
<1>1. ASSUME PInv, IInv', [CacheNext]_cacheVars PROVE PInv'
  <2>1. CASE UNCHANGED cacheVars \/ OrphanEnds
    <3>1. UNCHANGED <<db, writer, inserted, calls, pc, unsent, child>> /\ orphans' \in Nat
      BY <1>1, <2>1 DEF cacheVars, base, pipe, OrphanEnds, PInv, Tables
    <3> QED
      BY <1>1, <3>1 DEF PInv, Tables, Exchange, Traffic, Busy
  <2>2. ASSUME NEW p \in Processes, Call(p) \/ Caller(p) \/ Child(p) \/ Kill(p)
        PROVE  PInv'
    <3>1. CASE Leave(p) /\ Read(p)
      <4>1. Tables'
        BY <1>1, <3>1 DEF PInv, Tables, Read, base
      <4> QED
        BY <1>1, <3>1, <4>1, LeavePipes
    <3>2. CASE Write(p) \/ Child(p)
      <4>1. ~Leave(p) \/ UNCHANGED <<db, writer, inserted, calls, orphans>>
        BY <3>2 DEF Write, Child, ChildTakes, ChildAnswers, ChildSkips, ChildChatters,
           ChildEnds, ChildHangs, base
      <4>2. Leave(p) => PInv'
        BY <1>1, <4>1, LeavePipes DEF PInv, Tables
      <4> QED
        BY <1>1, <3>2, <4>2, LinePipes
    <3> QED
      BY <1>1, <2>2, <3>1, <3>2, CallPipes, SpawnPipes, LinePipes DEF Caller
  <2> QED
    BY <1>1, <2>1, <2>2 DEF CacheNext
<1> QED
  BY <1>1, InitPipes, Invariance, PTL DEF CacheSpec

\* The cache is true: types; no solution is ever stored for another position
\* (solver.cpp, parse_solver_output and put_all), but that the empty one, whose line of
\* play is empty, is given any scores printed without one; after a call has stored what
\* was missing it finds every position again; and no child is left by an exchange,
\* whichever way it ends, while its process lives.
THEOREM CacheStaysTrue == CacheSpec => []CacheIsTrue
<1>1. PInv => CacheIsTrue
  <2> SUFFICES ASSUME PInv PROVE CacheIsTrue
    OBVIOUS
  <2>1. ASSUME NEW p \in Processes
        PROVE  /\ {todo[p], missing[p], solved[p], unsent[p]} \subseteq Seq(Positions)
               /\ Len(missing[p]) = Cardinality(ToSet(missing[p]))
               /\ Len(solved[p]) <= Len(missing[p])
    <3>1. /\ todo[p] \in Seq(Positions) /\ missing[p] \in Seq(Positions)
          /\ solved[p] \in Seq(Positions) /\ unsent[p] \in Seq(Positions)
      BY DEF PInv, IInv, Shapes
    <3>3. Len(missing[p]) = Cardinality(ToSet(missing[p]))
      <4> DEFINE n == Len(missing[p])
                 f == [i \in 1..n |-> missing[p][i]]
      <4>1. n \in Nat /\ DOMAIN missing[p] = 1..n
        BY <3>1
      <4>2. \A x \in ToSet(missing[p]) : \E i \in 1..n : f[i] = x
        BY <4>1 DEF ToSet
      <4>3. f \in [1..n -> ToSet(missing[p])]
        BY <4>1 DEF ToSet
      <4>4. \A i, j \in 1..n : f[i] = f[j] => i = j
        BY DEF PInv, IInv, Lists
      <4>5. f \in Bijection(1..n, ToSet(missing[p]))
        BY <4>2, <4>3, <4>4 DEF Bijection, Injection, Surjection, IsInjective
      <4> HIDE DEF f
      <4>6. ExistsBijection(1..n, ToSet(missing[p]))
        BY <4>5 DEF ExistsBijection
      <4> QED
        BY <4>1, <4>6, FS_CountingElements
    <3> QED
      BY <3>1, <3>3 DEF PInv, IInv, Lists, Answer
  <2>2. \A p \in Processes : Len(child[p].in) <= Capacity /\ Len(child[p].out) <= Capacity
    BY DEF PInv, Exchange
  <2>3. CacheTypeOK
    BY <2>1, <2>2 DEF PInv, Tables, CacheTypeOK
  <2> QED
    BY <2>3 DEF PInv, IInv, Covered, LookupsSucceed, Childless, NoChildLeft, CacheIsTrue
<1> QED
  BY <1>1, PipesInvariance, PTL

\* A process and its solver never wait for each other at full pipes: a chunk fits
\* into the two pipes, the child and the line about to be written (solver.cpp,
\* kSolverChunkSize and write_all, which does not read meanwhile), if the child prints
\* nothing that it was not asked for.
THEOREM PipesStayOpen == CacheSpec => []PipesNeverBlock
<1>1. PInv => PipesNeverBlock
  <2> SUFFICES ASSUME PInv, NEW p \in Processes, pc[p] = "writing", unsent[p] # <<>>,
                      ~child[p].unasked,
                      ~HasRoom(child[p].in), child[p].job # 0, ~HasRoom(child[p].out)
               PROVE  FALSE
    BY DEF PipesNeverBlock
  <2>1. /\ Len(unsent[p]) \in Nat \ {0} /\ Len(child[p].in) \in Nat
        /\ Len(child[p].out) \in Nat
    BY DEF PInv, IInv, Shapes, Children
  <2>2. Traffic(p) <= ChunkSize /\ Busy(p) = 1
    BY DEF PInv, Exchange, Busy
  <2>3. PICK u \in Nat \ {0}, i \in Nat, o \in Nat :
          u = Len(unsent[p]) /\ i = Len(child[p].in) /\ o = Len(child[p].out)
    BY <2>1
  <2>4. u + i + o + 1 <= ChunkSize
    BY <2>2, <2>3 DEF Traffic
  <2>5. /\ ChunkSize \in Nat /\ Capacity \in Nat /\ ChunkSize <= 2 * Capacity + 1
    BY SolverAssumption
  <2>6. i >= Capacity /\ o >= Capacity
    BY <2>3, <2>5 DEF HasRoom
  <2> QED
    BY <2>4, <2>5, <2>6
<1> QED
  BY <1>1, PipesInvariance, PTL
=============================================================================
