----------------------------- MODULE SolverCache -----------------------------
(***************************************************************************)
(* Scoring with the external solver (solver.cpp, CachingSolver): the       *)
(* positions that a shared database does not know are sent in chunks       *)
(* through pipes to a child process, and its answers stored in one         *)
(* transaction.  Several processes may use the database; each makes one    *)
(* call at a time (database_mutex).                                        *)
(*                                                                         *)
(* A solution is named by its position, and a line that the child prints   *)
(* by the line of play it begins with and the position whose scores        *)
(* follow, 0 for none of them.  What it prints to its stderr only words     *)
(* the exceptions and is left out; a child that is blocked there hangs.    *)
(* Time is left out: a deadline may pass at any time.                      *)
(***************************************************************************)
EXTENDS Integers, Sequences, FiniteSets, SequencesExt

CONSTANTS
  Processes,
  Requests,   \* sequences of positions: what a call may be about
  ChunkSize,  \* kSolverChunkSize: 100
  Capacity,   \* of a pipe, in lines: 64 KiB hold a chunk
  MaxLines,   \* kMaximumSubprocessOutput, in lines
  Start,      \* the empty position: its line of play has no characters
  Strays,     \* what the child of each process may print whether it was asked or not
  MaxCalls    \* bound: calls of all processes

None      == "none"
Positions == UNION {ToSet(r) : r \in Requests}

Play(position) == IF position = Start THEN 0 ELSE position

\* Scores that follow a line of play are its own: the solver computes what it says.
Lines == {line \in [play : Positions \cup {0}, of : Positions \cup {0}] :
            line.play # 0 => line.play # Start /\ line.of \in {line.play, 0}}

AnswerTo(position) == [play |-> Play(position), of |-> position]

ASSUME SolverAssumption ==
  /\ None \notin Processes /\ Requests \subseteq Seq(Positions) /\ 0 \notin Positions
  /\ ChunkSize \in Nat \ {0} /\ Capacity \in Nat \ {0} /\ MaxCalls \in Nat
  /\ ChunkSize <= 2 * Capacity + 1 /\ MaxLines \in Nat /\ Strays \in [Processes -> SUBSET Lines]

VARIABLES
  db,       \* the solutions of the database
  writer,   \* who has begun a transaction, or None
  inserted, \* the solutions it has inserted
  calls,    \* calls made
  pc,       \* where each process is in score
  request, todo, missing, solved,  \* its positions: all, to look up, missing, solved
  unsent,   \* of the chunk: not yet written
  got,      \* lines read from the child
  broken,   \* the input could not be written
  child,    \* its child and the pipes to and from it
  orphans   \* children of killed processes that have not ended

base == <<db, writer, inserted, calls, orphans>>
call == <<request, todo, missing, solved>>
pipe == <<unsent, got, broken, child>>
cacheVars == <<base, pc, call, pipe>>

\* unasked: it has printed a line beside its answers.
NoChild == [state |-> "none", in |-> <<>>, job |-> 0, out |-> <<>>, unasked |-> FALSE]

CacheInit ==
  /\ db = <<>> /\ writer = None /\ inserted = <<>> /\ calls = 0 /\ orphans = 0
  /\ pc = [p \in Processes |-> "idle"]
  /\ request = [p \in Processes |-> <<>>] /\ todo = request
  /\ missing = request /\ solved = request /\ unsent = request /\ got = request
  /\ broken = [p \in Processes |-> FALSE] /\ child = [p \in Processes |-> NoChild]

Continue(p, place) == pc' = [pc EXCEPT ![p] = place]

\* The child is reaped, killed before if need be; its pipes and lines go with it.
EndExchange(p) ==
  /\ child' = [child EXCEPT ![p] = NoChild] /\ unsent' = [unsent EXCEPT ![p] = <<>>]
  /\ got' = [got EXCEPT ![p] = <<>>] /\ broken' = [broken EXCEPT ![p] = FALSE]

\* The call returns or raises, and its lists are gone.
Leave(p) ==
  /\ Continue(p, "idle") /\ EndExchange(p)
  /\ request' = [request EXCEPT ![p] = <<>>] /\ todo' = [todo EXCEPT ![p] = <<>>]
  /\ missing' = [missing EXCEPT ![p] = <<>>] /\ solved' = [solved EXCEPT ![p] = <<>>]

-----------------------------------------------------------------------------
(* A call.                                                                 *)

Call(p) ==
  /\ pc[p] = "idle" /\ calls < MaxCalls /\ calls' = calls + 1
  /\ \E r \in Requests : /\ request' = [request EXCEPT ![p] = r]
                         /\ todo' = [todo EXCEPT ![p] = r]
  /\ missing' = [missing EXCEPT ![p] = <<>>] /\ solved' = [solved EXCEPT ![p] = <<>>]
  /\ Continue(p, "looking")
  /\ UNCHANGED <<db, writer, inserted, orphans, pipe>>

Unknown(p) == Head(todo[p]) \notin DOMAIN db \cup ToSet(missing[p])

\* Each position is looked up; one that is missing is noted once.
LookUp(p) ==
  /\ pc[p] = "looking" /\ todo[p] # <<>>
  /\ todo' = [todo EXCEPT ![p] = Tail(@)]
  /\ missing' = [missing EXCEPT ![p] = IF Unknown(p) THEN Append(@, Head(todo[p])) ELSE @]
  /\ UNCHANGED <<base, pc, request, solved, pipe>>

LookedUp(p) ==
  /\ pc[p] = "looking" /\ todo[p] = <<>> /\ Continue(p, "solving")
  /\ UNCHANGED <<base, call, pipe>>

\* Faulty variant: everything is sent at once.
EverythingLeft(p) == SubSeq(missing[p], Len(solved[p]) + 1, Len(missing[p]))

Chunk(p) ==
  SubSeq(missing[p], Len(solved[p]) + 1, Min({Len(solved[p]) + ChunkSize, Len(missing[p])}))

\* run_solver_subprocess, one chunk after the other.
SpawnSolver(p) ==
  /\ pc[p] = "solving" /\ Len(solved[p]) < Len(missing[p])
  /\ \/ /\ Continue(p, "writing") /\ unsent' = [unsent EXCEPT ![p] = Chunk(p)]
        /\ child' = [child EXCEPT ![p].state = "running"] /\ UNCHANGED <<call, got, broken>>
     \/ Leave(p)
  /\ UNCHANGED base

Alive(p) == child[p].state \in {"running", "hung"}

HasRoom(pipeline) == Len(pipeline) < Capacity

\* write_all, without reading meanwhile; a child that is gone breaks the pipe.
Write(p) ==
  /\ pc[p] = "writing" /\ unsent[p] # <<>>
  /\ \/ /\ Alive(p) /\ HasRoom(child[p].in)
        /\ child' = [child EXCEPT ![p].in = Append(@, Head(unsent[p]))]
        /\ unsent' = [unsent EXCEPT ![p] = Tail(@)] /\ UNCHANGED <<pc, broken>>
     \/ /\ ~Alive(p) /\ broken' = [broken EXCEPT ![p] = TRUE]
        /\ Continue(p, "reading") /\ UNCHANGED <<child, unsent>>
  /\ UNCHANGED <<base, call, got>>

\* The input is closed.
Written(p) ==
  /\ pc[p] = "writing" /\ unsent[p] = <<>> /\ Continue(p, "reading")
  /\ UNCHANGED <<base, call, pipe>>

\* read_process_output: as it comes, up to a limit.
Read(p) ==
  /\ pc[p] = "reading"
  /\ \/ /\ child[p].out # <<>> /\ Len(got[p]) < MaxLines
        /\ child' = [child EXCEPT ![p].out = Tail(@)]
        /\ got' = [got EXCEPT ![p] = Append(@, Head(child[p].out))]
        /\ UNCHANGED <<pc, call, unsent, broken>>
     \/ child[p].out # <<>> /\ Len(got[p]) >= MaxLines /\ Leave(p)
  /\ UNCHANGED base

\* Faulty variant: the lines are only counted.
ParsedByCount(p) == Len(got[p]) = Len(Chunk(p))

\* The line of play asked with, and scores; nothing can be asked with none.
Accepts(line, position) == line.play = Play(position) /\ line.of # 0

\* parse_solver_output: as many lines, and each is accepted for its position.
Parsed(p) ==
  /\ Len(got[p]) = Len(Chunk(p))
  /\ \A i \in 1..Len(Chunk(p)) : Accepts(got[p][i], Chunk(p)[i])

Scores(p) == [i \in 1..Len(got[p]) |-> got[p][i].of]

\* The pipe is at its end and the child has ended: wait.
Answered(p) ==
  /\ pc[p] = "reading" /\ child[p].state \in {"exited", "failed"}
  /\ child[p].out = <<>>
  /\ IF child[p].state = "exited" /\ ~broken[p] /\ Parsed(p)
     THEN /\ solved' = [solved EXCEPT ![p] = @ \o Scores(p)]
          /\ Continue(p, "solving") /\ EndExchange(p) /\ UNCHANGED <<request, todo, missing>>
     ELSE Leave(p)
  /\ UNCHANGED base

\* The deadline of the chunk.
Deadline(p) ==
  /\ pc[p] \in {"writing", "reading"} /\ Leave(p)
  /\ UNCHANGED base

\* put_all: a transaction; waiting for another process may take too long.
Begin(p) ==
  /\ pc[p] = "solving" /\ Len(solved[p]) = Len(missing[p])
  /\ CASE missing[p] = <<>> ->
            Continue(p, "scoring") /\ UNCHANGED <<writer, inserted, call, pipe>>
       [] missing[p] # <<>> /\ writer = None ->
            Continue(p, "storing") /\ writer' = p /\ inserted' = <<>> /\ UNCHANGED <<call, pipe>>
       [] OTHER -> Leave(p) /\ UNCHANGED <<writer, inserted>>
  /\ UNCHANGED <<db, calls, orphans>>

\* The next solution, and its insertion: the row of another process stays.
Row(p) == LET i == Cardinality(DOMAIN inserted) + 1
          IN [position \in {missing[p][i]} |-> solved[p][i]]
Plus(table, more) ==
  [position \in DOMAIN table \cup DOMAIN more |->
     IF position \in DOMAIN table THEN table[position] ELSE more[position]]

\* Faulty variant: without a transaction.
InsertAtOnce(p) ==
  /\ pc[p] = "storing" /\ Cardinality(DOMAIN inserted) < Len(missing[p])
  /\ inserted' = Plus(inserted, Row(p)) /\ db' = Plus(db, Row(p))
  /\ UNCHANGED <<writer, calls, orphans, pc, call, pipe>>

Insert(p) ==
  /\ pc[p] = "storing" /\ Cardinality(DOMAIN inserted) < Len(missing[p])
  /\ inserted' = Plus(inserted, Row(p))
  /\ UNCHANGED <<db, writer, calls, orphans, pc, call, pipe>>

Inserted(p) == Cardinality(DOMAIN inserted) = Len(missing[p])

Commit(p) ==
  /\ pc[p] = "storing" /\ Inserted(p) /\ db' = Plus(db, inserted)
  /\ writer' = None /\ inserted' = <<>> /\ Continue(p, "scoring")
  /\ UNCHANGED <<calls, orphans, call, pipe>>

\* The scores, from the database.
Score(p) ==
  /\ pc[p] = "scoring"
  /\ IF ToSet(request[p]) \subseteq DOMAIN db
     THEN Leave(p) ELSE Continue(p, "lookup failed") /\ UNCHANGED <<call, pipe>>
  /\ UNCHANGED base

\* The process is killed and another takes its place.  Nothing ends its child, which
\* may be at work, or hang, with pipes that nobody reads or writes.
Kill(p) ==
  /\ pc[p] # "idle" /\ Leave(p)
  /\ orphans' = IF Alive(p) THEN orphans + 1 ELSE orphans
  /\ IF writer = p THEN writer' = None /\ inserted' = <<>> ELSE UNCHANGED <<writer, inserted>>
  /\ UNCHANGED <<db, calls>>

-----------------------------------------------------------------------------
(* The child: it is meant to read a line, answer it, and end with its      *)
(* input, and may leave lines out, print others, end early or hang.        *)

ChildTakes(p) ==
  /\ child[p].state = "running" /\ child[p].job = 0 /\ child[p].in # <<>>
  /\ child' = [child EXCEPT ![p].in = Tail(@), ![p].job = Head(child[p].in)]
  /\ UNCHANGED <<base, pc, call, unsent, got, broken>>

\* The scores, or something else.
ChildAnswers(p) ==
  /\ child[p].state = "running" /\ child[p].job # 0 /\ HasRoom(child[p].out)
  /\ \E line \in {AnswerTo(child[p].job)} \cup Strays[p] :
       child' = [child EXCEPT ![p].out = Append(@, line), ![p].job = 0]
  /\ UNCHANGED <<base, pc, call, unsent, got, broken>>

ChildSkips(p) ==
  /\ child[p].state = "running" /\ child[p].job # 0
  /\ child' = [child EXCEPT ![p].job = 0]
  /\ UNCHANGED <<base, pc, call, unsent, got, broken>>

ChildChatters(p) ==
  /\ child[p].state = "running" /\ HasRoom(child[p].out)
  /\ \E line \in Strays[p] :
       child' = [child EXCEPT ![p].out = Append(@, line), ![p].unasked = TRUE]
  /\ UNCHANGED <<base, pc, call, unsent, got, broken>>

\* At the end of its input or before, with status 0, another one or by a signal.
ChildEnds(p) ==
  /\ child[p].state = "running"
  /\ \E state \in {"exited", "failed"} :
       child' = [child EXCEPT ![p].state = state, ![p].in = <<>>, ![p].job = 0]
  /\ UNCHANGED <<base, pc, call, unsent, got, broken>>

ChildHangs(p) ==
  /\ child[p].state = "running" /\ child' = [child EXCEPT ![p].state = "hung"]
  /\ UNCHANGED <<base, pc, call, unsent, got, broken>>

\* By the end of its input or a broken pipe, unless it hangs.
OrphanEnds ==
  /\ orphans > 0 /\ orphans' = orphans - 1
  /\ UNCHANGED <<db, writer, inserted, calls, pc, call, pipe>>

-----------------------------------------------------------------------------
Caller(p) ==
  \/ LookUp(p) \/ LookedUp(p) \/ SpawnSolver(p) \/ Write(p) \/ Written(p) \/ Read(p)
  \/ Answered(p) \/ Deadline(p) \/ Begin(p) \/ Insert(p) \/ Commit(p) \/ Score(p)
Child(p) ==
  \/ ChildTakes(p) \/ ChildAnswers(p) \/ ChildSkips(p) \/ ChildChatters(p)
  \/ ChildEnds(p) \/ ChildHangs(p)

CacheNext == OrphanEnds \/ \E p \in Processes : Call(p) \/ Caller(p) \/ Child(p) \/ Kill(p)

CacheSpec == CacheInit /\ [][CacheNext]_cacheVars

-----------------------------------------------------------------------------
(* Properties.                                                             *)

CacheTypeOK ==
  /\ DOMAIN db \subseteq Positions /\ DOMAIN inserted \subseteq Positions
  /\ writer \in Processes \cup {None} /\ calls \in 0..MaxCalls /\ orphans \in Nat
  /\ \A p \in Processes :
       /\ {todo[p], missing[p], solved[p], unsent[p]} \subseteq Seq(Positions)
       /\ Len(missing[p]) = Cardinality(ToSet(missing[p])) /\ Len(solved[p]) <= Len(missing[p])
       /\ Len(child[p].in) <= Capacity /\ Len(child[p].out) <= Capacity

\* The database only ever holds scores, and a position's own: whatever lines a child
\* leaves out, adds, or prints for others, none is stored with another position.  The
\* empty position is the exception: its line of play is empty, so that any scores that
\* are printed without one are taken for its own.
SolutionsAreTrue ==
  \A position \in DOMAIN db :
    db[position] \in Positions /\ (position # Start => db[position] = position)

\* What a call found missing is stored together or not at all, although it may
\* be killed while it stores and others store meanwhile.
StoredTogether ==
  [][db' # db =>
       \E p \in Processes :
         pc[p] = "storing" /\ DOMAIN db' = DOMAIN db \cup ToSet(missing[p])]_cacheVars

\* After a call has stored what was missing it finds every position again.
LookupsSucceed == \A p \in Processes : pc[p] # "lookup failed"

\* No child outlives the exchange it was started for, whatever goes wrong in it, while
\* its process lives.  That of a process that is killed becomes an orphan.
NoChildLeft ==
  \A p \in Processes : child[p] # NoChild => pc[p] \in {"writing", "reading"}

\* The cache is true whatever a child of the solver prints or leaves out: it holds
\* each position's own solution, except that scores without a line of play are taken
\* for the empty position's; a call finds all it stored; and an exchange leaves no
\* child, unless its process is killed.
CacheIsTrue == CacheTypeOK /\ SolutionsAreTrue /\ LookupsSucceed /\ NoChildLeft

\* A process and its child never wait for each other: one that writes, and does
\* not read meanwhile, is never left with full pipes both ways by a child that prints
\* no more lines than it was asked for.  (With one that does, the deadline ends it.)
PipesNeverBlock ==
  \A p \in Processes :
    pc[p] = "writing" /\ unsent[p] # <<>> /\ child[p].state = "running" /\ ~child[p].unasked =>
      HasRoom(child[p].in) \/ child[p].job = 0 \/ HasRoom(child[p].out)
=============================================================================
