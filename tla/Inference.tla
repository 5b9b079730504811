----------------------------- MODULE Inference -----------------------------
(***************************************************************************)
(* The interactive inference process (gui/inference.py): ProcessEvaluator, *)
(* called by the search thread of a game, one request at a time, and       *)
(* closed by a thread of the desktop; and _serve, the child process that   *)
(* loads the players and evaluates.  A child has a pipe of its own, so a   *)
(* child names its pipe too.  Time is left out: a request that has no      *)
(* answer yet may reach its deadline at any moment.  A message fits the    *)
(* buffer of the pipe, so that sending does not block.                     *)
(***************************************************************************)
EXTENDS Integers, Sequences

CONSTANTS
  MaxRequests,  \* bound: requests ever made
  MaxWorkers,   \* bound: child processes ever started
  SlowDeath     \* a killed child may take longer to end than join waits

Requests == 1..MaxRequests
Workers  == 1..MaxWorkers
None     == 0

VARIABLES
  app,         \* the desktop process lives
  pc,          \* where forward_numpy is
  asked,       \* requests made so far: the number of the last one
  late,        \* it was made after close had begun
  connection,  \* the pipe forward_numpy holds: that of a child
  reply,       \* how the last forward_numpy ended
  process,     \* _process and _connection: a child, or None
  spawned,     \* children started so far
  lifecycle,   \* the lock: who holds it across steps
  closed,      \* the event _closed
  closing,     \* where close is
  place, job,  \* of each child, and the request it works on
  inbox, outbox,  \* its pipe: the requests and the answers not read yet
  expired      \* history: children whose request reached its deadline

callerVars == <<pc, asked, late, connection, reply>>
ownerVars  == <<process, spawned, lifecycle>>
closeVars  == <<closed, closing>>
childVars  == <<place, job, inbox, outbox>>
vars       == <<app, callerVars, ownerVars, closeVars, childVars, expired>>

Error == [kind |-> "error", of |-> None]

Evaluation(r) == [kind |-> "evaluation", of |-> r]

Outcomes == [kind : {"error", "evaluation"}, of : Requests \cup {None}]
Places == {"unborn", "forked", "building", "serving", "computing", "leaving",
           "dying", "dead"}
\* Process.is_alive.
Alive(w) == w # None /\ place[w] \notin {"unborn", "dead"}

TypeOK ==
  /\ app \in BOOLEAN /\ late \in BOOLEAN /\ closed \in BOOLEAN
  /\ pc \in {"idle", "starting", "locked", "sending", "polling", "expired"}
  /\ asked \in 0..MaxRequests
  /\ connection \in Workers \cup {None} /\ process \in Workers \cup {None}
  /\ reply \in Outcomes /\ spawned \in 0..MaxWorkers
  /\ lifecycle \in {"free", "held"}
  /\ closing \in {"no", "closing", "done"}
  /\ place \in [Workers -> Places] /\ job \in [Workers -> Requests \cup {None}]
  /\ inbox \in [Workers -> Seq(Requests)] /\ outbox \in [Workers -> Seq(Outcomes)]
  /\ expired \subseteq Workers

Init ==
  /\ app = TRUE /\ pc = "idle" /\ asked = 0 /\ late = FALSE
  /\ connection = None /\ reply = Error
  /\ process = None /\ spawned = 0 /\ lifecycle = "free"
  /\ closed = FALSE /\ closing = "no"
  /\ place = [w \in Workers |-> "unborn"] /\ job = [w \in Workers |-> None]
  /\ inbox = [w \in Workers |-> <<>>] /\ outbox = [w \in Workers |-> <<>>]
  /\ expired = {}

-----------------------------------------------------------------------------
(* The evaluator.                                                          *)

Return(outcome) == pc' = "idle" /\ reply' = outcome

\* _stop_worker: the child is terminated and reaped, its pipe closed.
StopWorker ==
  /\ place' = IF process = None THEN place
              ELSE [place EXCEPT ![process] = "dead"]
  /\ process' = None

\* The child outlives both waits of _stop_worker: Process.close raises before
\* the child and its pipe are dropped.
StopWorkerFails ==
  /\ SlowDeath /\ process # None /\ Alive(process)
  /\ place' = [place EXCEPT ![process] = "dying"]
  /\ UNCHANGED process

Call ==
  /\ app /\ pc = "idle" /\ asked < MaxRequests
  /\ pc' = "starting" /\ asked' = asked + 1 /\ late' = closed
  /\ UNCHANGED <<app, connection, reply, ownerVars, closeVars, childVars, expired>>

\* _start under the lock: refuses once closed.
Lock ==
  /\ app /\ pc = "starting" /\ lifecycle = "free"
  /\ IF closed
     THEN Return(Error) /\ UNCHANGED lifecycle
     ELSE pc' = "locked" /\ lifecycle' = "held" /\ UNCHANGED reply
  /\ UNCHANGED <<app, asked, late, connection, process, spawned, closeVars,
                 childVars, expired>>

Reuse ==
  /\ app /\ pc = "locked" /\ process # None /\ Alive(process)
  /\ connection' = process /\ pc' = "sending" /\ lifecycle' = "free"
  /\ UNCHANGED <<app, asked, late, reply, process, spawned, closeVars,
                 childVars, expired>>

\* A child that ended is reaped and another started.
Spawn ==
  /\ app /\ pc = "locked" /\ ~Alive(process)
  /\ spawned < MaxWorkers
  /\ spawned' = spawned + 1 /\ process' = spawned + 1
  /\ place' = [place EXCEPT ![spawned + 1] = "forked"]
  /\ connection' = spawned + 1 /\ pc' = "sending" /\ lifecycle' = "free"
  /\ UNCHANGED <<app, asked, late, reply, closeVars, job, inbox, outbox, expired>>

\* The process cannot be started: its pipe is closed and the error passed on.
SpawnFails ==
  /\ app /\ pc = "locked" /\ ~Alive(process)
  /\ process' = None /\ lifecycle' = "free" /\ Return(Error)
  /\ UNCHANGED <<app, asked, late, connection, spawned, closeVars, childVars, expired>>

\* The end of the pipe that forward_numpy holds is open.
Open == connection = process

Send ==
  /\ app /\ pc = "sending"
  /\ \/ /\ Open /\ Alive(connection)
        /\ inbox' = [inbox EXCEPT ![connection] = Append(@, asked)]
        /\ pc' = "polling" /\ UNCHANGED reply
     \/ /\ ~Open \/ ~Alive(connection)
        /\ Return(Error) /\ UNCHANGED inbox
  /\ UNCHANGED <<app, asked, late, connection, ownerVars, closeVars, place, job,
                 outbox, expired>>

\* recv: an answer, or the error the child reports.
Receive ==
  /\ app /\ pc = "polling" /\ Open /\ outbox[connection] # <<>>
  /\ Return(Head(outbox[connection]))
  /\ outbox' = [outbox EXCEPT ![connection] = Tail(@)]
  /\ UNCHANGED <<app, asked, late, connection, ownerVars, closeVars, place, job,
                 inbox, expired>>

\* The pipe is closed or at its end, or the evaluator is being closed.
GiveUp ==
  /\ app /\ pc = "polling"
  /\ closed \/ ~Open \/ (~Alive(connection) /\ outbox[connection] = <<>>)
  /\ Return(Error)
  /\ UNCHANGED <<app, asked, late, connection, ownerVars, closeVars, childVars, expired>>

\* The poll found nothing and the deadline has passed.
Deadline ==
  /\ app /\ pc = "polling" /\ Open /\ outbox[connection] = <<>>
  /\ pc' = "expired" /\ expired' = expired \cup {connection}
  /\ UNCHANGED <<app, asked, late, connection, reply, ownerVars, closeVars, childVars>>

\* Faulty variant: the deadline only raises.
ExpireKeepingWorker ==
  /\ app /\ pc = "expired" /\ lifecycle = "free"
  /\ Return(Error)
  /\ UNCHANGED <<app, asked, late, connection, ownerVars, closeVars, childVars, expired>>

Expire ==
  /\ app /\ pc = "expired" /\ lifecycle = "free"
  /\ Return(Error)
  /\ StopWorker \/ StopWorkerFails
  /\ UNCHANGED <<app, asked, late, connection, spawned, lifecycle, closeVars, job,
                 inbox, outbox, expired>>

\* close, called once, when a game is closed.
BeginClose ==
  /\ app /\ closing = "no"
  /\ closed' = TRUE /\ closing' = "closing"
  /\ UNCHANGED <<app, callerVars, ownerVars, childVars, expired>>

EndClose ==
  /\ app /\ closing = "closing" /\ lifecycle = "free"
  /\ closing' = "done"
  /\ StopWorker \/ StopWorkerFails
  /\ UNCHANGED <<app, callerVars, spawned, lifecycle, closed, job, inbox, outbox, expired>>

-----------------------------------------------------------------------------
(* The child.                                                              *)

Become(w, p) == place' = [place EXCEPT ![w] = p]

\* Faulty variant: the parent's end before the arming goes unnoticed.
ArmUnchecked(w) ==
  /\ place[w] = "forked" /\ Become(w, "building")
  /\ UNCHANGED <<app, callerVars, ownerVars, closeVars, job, inbox, outbox, expired>>

\* prctl and the look at the parent: the kernel kills the child from now on
\* when its parent ends.
Arm(w) ==
  /\ place[w] = "forked"
  /\ Become(w, IF app THEN "building" ELSE "dead")
  /\ UNCHANGED <<app, callerVars, ownerVars, closeVars, job, inbox, outbox, expired>>

\* The factory: the players are loaded, or the error is reported.
Build(w) ==
  /\ place[w] = "building"
  /\ \/ Become(w, "serving") /\ UNCHANGED outbox
     \/ Become(w, "leaving") /\ outbox' = [outbox EXCEPT ![w] = Append(@, Error)]
  /\ UNCHANGED <<app, callerVars, ownerVars, closeVars, job, inbox, expired>>

Take(w) ==
  /\ place[w] = "serving" /\ inbox[w] # <<>>
  /\ job' = [job EXCEPT ![w] = Head(inbox[w])]
  /\ inbox' = [inbox EXCEPT ![w] = Tail(@)]
  /\ Become(w, "computing")
  /\ UNCHANGED <<app, callerVars, ownerVars, closeVars, outbox, expired>>

\* An evaluation, or the error it ended with; the child serves on.
Report(w) ==
  /\ place[w] = "computing"
  /\ \E outcome \in {Evaluation(job[w]), Error} :
       outbox' = [outbox EXCEPT ![w] = Append(@, outcome)]
  /\ job' = [job EXCEPT ![w] = None]
  /\ Become(w, "serving")
  /\ UNCHANGED <<app, callerVars, ownerVars, closeVars, inbox, expired>>

\* The child leaves after a failed factory, or at the end of its pipe.
Leave(w) ==
  /\ place[w] \in {"leaving", "dying"} \/ (place[w] = "serving" /\ ~app)
  /\ Become(w, "dead")
  /\ UNCHANGED <<app, callerVars, ownerVars, closeVars, job, inbox, outbox, expired>>

\* The child crashes or is killed from outside.
Crash(w) ==
  /\ Alive(w) /\ Become(w, "dead")
  /\ UNCHANGED <<app, callerVars, ownerVars, closeVars, job, inbox, outbox, expired>>

\* The desktop is killed: its armed children die with it.
KillApp ==
  /\ app /\ app' = FALSE
  /\ place' = [w \in Workers |-> IF place[w] \in {"unborn", "forked"} THEN place[w]
                                 ELSE "dead"]
  /\ UNCHANGED <<callerVars, ownerVars, closeVars, job, inbox, outbox, expired>>

-----------------------------------------------------------------------------
Forward == Lock \/ Reuse \/ Spawn \/ SpawnFails \/ Send \/ Receive \/ GiveUp
           \/ Deadline \/ Expire
Child(w) == Arm(w) \/ Build(w) \/ Take(w) \/ Report(w) \/ Leave(w) \/ Crash(w)

Next ==
  \/ Call \/ Forward \/ BeginClose \/ EndClose \/ KillApp
  \/ \E w \in Workers : Child(w)

Spec == Init /\ [][Next]_vars

\* The threads of the desktop run on, time passes for the waiting one, and a
\* started process gets as far as the first lines of _serve.  Nothing is asked
\* of the model: an evaluation may never end.
Fairness ==
  /\ WF_vars(Forward) /\ WF_vars(EndClose)
  /\ \A w \in Workers : WF_vars(Arm(w)) /\ WF_vars(Leave(w))

FairSpec == Spec /\ Fairness

-----------------------------------------------------------------------------
(* Properties.                                                             *)

\* The contract of the evaluator: each request of a game ends with its own
\* evaluation or an error, and a close ends, though the model may hang, fail or
\* crash; a late answer is never taken for another request's (_stop_worker at
\* the deadline drops it with its pipe).
Contract == INSTANCE Evaluator WITH
  Requests  <- Requests,
  NoRequest <- None,
  pending   <- IF pc = "idle" THEN None ELSE asked,
  refused   <- late,
  reply     <- reply,
  shut      <- CASE ~app -> "gone" [] app /\ closing = "no" -> "open"
                 [] app /\ closing = "closing" -> "closing" [] OTHER -> "closed"

KeepsContract == Contract!Spec

\* A living child is always the one on record, and none is left once the
\* evaluator is closed (the lock is held from the look at _closed to the start).
NoStrayWorker ==
  \A w \in Workers : app /\ Alive(w) => w = process /\ closing # "done"

\* No child outlives a killed desktop, whenever that happens during its start.
OrphansEnd == ~app ~> \A w \in Workers : ~Alive(w)

\* "Retry reloads a timed-out inference process": no request is ever sent to a
\* child that let an earlier one pass its deadline.
RetryReloads == pc = "polling" => connection \notin expired
=============================================================================
