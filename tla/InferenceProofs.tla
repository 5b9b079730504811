-------------------------- MODULE InferenceProofs --------------------------
(***************************************************************************)
(* Proofs about Inference, for any number of requests and of children that *)
(* end in time when they are killed.  Module Inference shows what happens  *)
(* when they do not.                                                       *)
(***************************************************************************)
EXTENDS Inference, TLAPS

PromptDeath == MaxRequests \in Nat /\ MaxWorkers \in Nat /\ ~SlowDeath

\* The type invariant in parts.
Flags    == app \in BOOLEAN /\ late \in BOOLEAN /\ closed \in BOOLEAN
Children == place \in [Workers -> Places] /\ job \in [Workers -> Requests \cup {None}]
Pipes    == inbox \in [Workers -> Seq(Requests)] /\ outbox \in [Workers -> Seq(Outcomes)]
Calls ==
  /\ pc \in {"idle", "starting", "locked", "sending", "polling", "expired"}
  /\ asked \in 0..MaxRequests
  /\ connection \in Workers \cup {None} /\ process \in Workers \cup {None}
  /\ reply \in Outcomes /\ spawned \in 0..MaxWorkers
  /\ lifecycle \in {"free", "held"}
  /\ closing \in {"no", "closing", "done"}
  /\ expired \subseteq Workers

LEMMA TypeParts == TypeOK <=> Flags /\ Children /\ Pipes /\ Calls
BY DEF TypeOK, Flags, Children, Pipes, Calls

LEMMA OutcomeTypes ==
  /\ Error \in Outcomes
  /\ \A r \in Requests \cup {None} : Evaluation(r) \in Outcomes
BY DEF Error, Evaluation, Outcomes

(***************************************************************************)
(* The inductive invariant.  What matters is what is left in the pipe on   *)
(* record: nothing before a request is sent, unless the child is on its    *)
(* way out, and afterwards the request or its outcome, once.               *)
(***************************************************************************)

\* A call holds the lock from the look at _closed to the start of the child, so
\* that a close does not end in between.
LockIsHeld ==
  /\ lifecycle = "held" <=> pc = "locked"
  /\ closed <=> closing # "no"
  /\ closing = "done" => pc # "locked" /\ process = None
  /\ late => closed /\ pc \in {"idle", "starting"}

\* Numbers are used in order, and only by those that have them.
Numbered ==
  /\ process <= spawned
  /\ pc # "idle" => asked > 0
  /\ pc \in {"sending", "polling", "expired"} => connection \in 1..spawned
  /\ pc \in {"sending", "polling", "expired"} => process \in {connection, None}
  /\ \A w \in Workers :
       IF w \in 1..spawned
       THEN place[w] # "unborn"
       ELSE place[w] = "unborn" /\ inbox[w] = <<>> /\ outbox[w] = <<>> /\ job[w] = None

Reaped == \A w \in Workers : app /\ Alive(w) => w = process

\* A child that takes no more requests.
Finished(w) == place[w] \in {"leaving", "dying", "dead"}

Quiet(w) ==
  IF Finished(w)
  THEN place[w] = "dead" \/ outbox[w] \in {<<>>, <<Error>>}
  ELSE inbox[w] = <<>> /\ outbox[w] = <<>> /\ job[w] = None

InFlight(w) ==
  \/ /\ Finished(w)
     /\ outbox[w] \in {<<>>, <<Error>>, <<Evaluation(asked)>>}
  \/ /\ inbox[w] = <<asked>> /\ outbox[w] = <<>> /\ job[w] = None
  \/ /\ inbox[w] = <<>> /\ outbox[w] = <<>> /\ job[w] = asked
  \/ /\ inbox[w] = <<>> /\ outbox[w] \in {<<Error>>, <<Evaluation(asked)>>}
     /\ job[w] = None

OneAtATime ==
  process # None =>
    /\ pc \in {"locked", "sending"} => Quiet(process)
    /\ pc \in {"idle", "starting"} => Quiet(process) \/ closed
    /\ pc = "polling" => InFlight(process)

\* A child that computes has a request, one that has not built its players has
\* answered nothing.
Stages ==
  \A w \in Workers :
    /\ place[w] = "computing" => job[w] # None
    /\ place[w] \in {"forked", "building"} => outbox[w] = <<>>

\* The child of an expired request is not kept.
Dropped ==
  /\ expired \subseteq 1..spawned
  /\ pc # "expired" => process \notin expired
  /\ pc = "sending" => connection \notin expired
  /\ RetryReloads

IInv ==
  TypeOK /\ LockIsHeld /\ Numbered /\ Reaped /\ Stages /\ OneAtATime /\ Dropped

-----------------------------------------------------------------------------
LEMMA CallTypes == ASSUME PromptDeath, IInv, Call PROVE TypeOK'
<1>1. Flags /\ Children /\ Pipes /\ Calls
  BY TypeParts DEF IInv
<1>2. Flags'
  BY <1>1, Zenon DEF Flags, Call, closeVars
<1>3. Children'
  BY <1>1 DEF Children, Call, childVars
<1>4. Pipes'
  BY <1>1, OutcomeTypes DEF Pipes, Call, childVars
<1>5. Calls'
  BY <1>1, OutcomeTypes DEF Calls, Call, ownerVars, closeVars, PromptDeath
<1>6. QED
  BY <1>2, <1>3, <1>4, <1>5 DEF TypeOK, Flags, Children, Pipes, Calls

LEMMA LockTypes == ASSUME PromptDeath, IInv, Lock PROVE TypeOK'
<1>1. Flags /\ Children /\ Pipes /\ Calls
  BY TypeParts DEF IInv
<1>2. Flags'
  BY <1>1, Zenon DEF Flags, Lock, closeVars
<1>3. Children'
  BY <1>1 DEF Children, Lock, childVars
<1>4. Pipes'
  BY <1>1, OutcomeTypes DEF Pipes, Lock, childVars
<1>5. Calls'
  BY <1>1, OutcomeTypes DEF Calls, Lock, closeVars, Return
<1>6. QED
  BY <1>2, <1>3, <1>4, <1>5 DEF TypeOK, Flags, Children, Pipes, Calls

LEMMA ReuseTypes == ASSUME PromptDeath, IInv, Reuse PROVE TypeOK'
<1>1. Flags /\ Children /\ Pipes /\ Calls
  BY TypeParts DEF IInv
<1>2. Flags'
  BY <1>1, Zenon DEF Flags, Reuse, closeVars
<1>3. Children'
  BY <1>1 DEF Children, Reuse, childVars
<1>4. Pipes'
  BY <1>1, OutcomeTypes DEF Pipes, Reuse, childVars
<1>5. Calls'
  BY <1>1, OutcomeTypes DEF Calls, Reuse, closeVars
<1>6. QED
  BY <1>2, <1>3, <1>4, <1>5 DEF TypeOK, Flags, Children, Pipes, Calls

LEMMA SpawnTypes == ASSUME PromptDeath, IInv, Spawn PROVE TypeOK'
<1>1. Flags /\ Children /\ Pipes /\ Calls
  BY TypeParts DEF IInv
<1>2. Flags'
  BY <1>1, Zenon DEF Flags, Spawn, closeVars
<1>3. Children'
  BY <1>1 DEF Children, Places, Spawn
<1>4. Pipes'
  BY <1>1, OutcomeTypes DEF Pipes, Spawn
<1>5. Calls'
  BY <1>1, OutcomeTypes DEF Calls, Spawn, closeVars, PromptDeath, Workers
<1>6. QED
  BY <1>2, <1>3, <1>4, <1>5 DEF TypeOK, Flags, Children, Pipes, Calls

LEMMA SpawnFailsTypes == ASSUME PromptDeath, IInv, SpawnFails PROVE TypeOK'
<1>1. Flags /\ Children /\ Pipes /\ Calls
  BY TypeParts DEF IInv
<1>2. Flags'
  BY <1>1, Zenon DEF Flags, SpawnFails, closeVars
<1>3. Children'
  BY <1>1 DEF Children, SpawnFails, childVars
<1>4. Pipes'
  BY <1>1, OutcomeTypes DEF Pipes, SpawnFails, childVars
<1>5. Calls'
  BY <1>1, OutcomeTypes DEF Calls, SpawnFails, closeVars, Return
<1>6. QED
  BY <1>2, <1>3, <1>4, <1>5 DEF TypeOK, Flags, Children, Pipes, Calls

LEMMA SendTypes == ASSUME PromptDeath, IInv, Send PROVE TypeOK'
<1>1. Flags /\ Children /\ Pipes /\ Calls
  BY TypeParts DEF IInv
<1>2. connection \in Workers /\ asked \in Requests
  BY <1>1 DEF IInv, Numbered, Send, Workers, Requests, Calls, PromptDeath
<1>3. Flags'
  BY <1>1, Zenon DEF Flags, Send, closeVars
<1>4. Children'
  BY <1>1 DEF Children, Send
<1>5. Pipes'
  <2>1. CASE UNCHANGED inbox
    BY <1>1, <2>1 DEF Pipes, Send
  <2>2. CASE inbox' = [inbox EXCEPT ![connection] = Append(@, asked)]
    BY <1>2, <1>1, <2>2 DEF Pipes, Send
  <2>3. QED
    BY <2>1, <2>2 DEF Send
<1>6. Calls'
  BY <1>2, <1>1, OutcomeTypes DEF Calls, Send, ownerVars, closeVars, Return
<1>7. QED
  BY <1>3, <1>4, <1>5, <1>6 DEF TypeOK, Flags, Children, Pipes, Calls

LEMMA ReceiveTypes == ASSUME PromptDeath, IInv, Receive PROVE TypeOK'
<1>1. Flags /\ Children /\ Pipes /\ Calls
  BY TypeParts DEF IInv
<1>2. connection \in Workers /\ asked \in Requests
  BY <1>1 DEF IInv, Numbered, Receive, Workers, Requests, Calls, PromptDeath
<1>3. Flags'
  BY <1>1, Zenon DEF Flags, Receive, closeVars
<1>4. Children'
  BY <1>1 DEF Children, Receive
<1>5. Pipes'
  BY <1>2, <1>1, OutcomeTypes DEF Pipes, Receive
<1>6. Calls'
  BY <1>2, <1>1, OutcomeTypes DEF Pipes, Calls, Receive, ownerVars, closeVars, Return
<1>7. QED
  BY <1>3, <1>4, <1>5, <1>6 DEF TypeOK, Flags, Children, Pipes, Calls

LEMMA GiveUpTypes == ASSUME PromptDeath, IInv, GiveUp PROVE TypeOK'
<1>1. Flags /\ Children /\ Pipes /\ Calls
  BY TypeParts DEF IInv
<1>2. Flags'
  BY <1>1, Zenon DEF Flags, GiveUp, closeVars
<1>3. Children'
  BY <1>1 DEF Children, GiveUp, childVars
<1>4. Pipes'
  BY <1>1, OutcomeTypes DEF Pipes, GiveUp, childVars
<1>5. Calls'
  BY <1>1, OutcomeTypes DEF Calls, GiveUp, ownerVars, closeVars, Return
<1>6. QED
  BY <1>2, <1>3, <1>4, <1>5 DEF TypeOK, Flags, Children, Pipes, Calls

LEMMA DeadlineTypes == ASSUME PromptDeath, IInv, Deadline PROVE TypeOK'
<1>1. Flags /\ Children /\ Pipes /\ Calls
  BY TypeParts DEF IInv
<1>2. connection \in Workers /\ asked \in Requests
  BY <1>1 DEF IInv, Numbered, Deadline, Workers, Requests, Calls, PromptDeath
<1>3. Flags'
  BY <1>1, Zenon DEF Flags, Deadline, closeVars
<1>4. Children'
  BY <1>1 DEF Children, Deadline, childVars
<1>5. Pipes'
  BY <1>2, <1>1, OutcomeTypes DEF Pipes, Deadline, childVars
<1>6. Calls'
  BY <1>2, <1>1, OutcomeTypes DEF Calls, Deadline, ownerVars, closeVars
<1>7. QED
  BY <1>3, <1>4, <1>5, <1>6 DEF TypeOK, Flags, Children, Pipes, Calls

LEMMA ExpireTypes == ASSUME PromptDeath, IInv, Expire PROVE TypeOK'
<1>1. Flags /\ Children /\ Pipes /\ Calls
  BY TypeParts DEF IInv
<1>2. Flags'
  BY <1>1, Zenon DEF Flags, Expire, closeVars
<1>3. Children'
  BY <1>1 DEF Children, Places, Expire, StopWorker, StopWorkerFails
<1>4. Pipes'
  BY <1>1, OutcomeTypes DEF Pipes, Expire
<1>5. Calls'
  BY <1>1, OutcomeTypes DEF Calls, Expire, closeVars, Return, StopWorker,
       StopWorkerFails
<1>6. QED
  BY <1>2, <1>3, <1>4, <1>5 DEF TypeOK, Flags, Children, Pipes, Calls

LEMMA BeginCloseTypes == ASSUME PromptDeath, IInv, BeginClose PROVE TypeOK'
<1>1. Flags /\ Children /\ Pipes /\ Calls
  BY TypeParts DEF IInv
<1>2. Flags'
  BY <1>1, Zenon DEF Flags, BeginClose, callerVars
<1>3. Children'
  BY <1>1 DEF Children, BeginClose, childVars
<1>4. Pipes'
  BY <1>1, OutcomeTypes DEF Pipes, BeginClose, childVars
<1>5. Calls'
  BY <1>1, OutcomeTypes DEF Calls, BeginClose, callerVars, ownerVars
<1>6. QED
  BY <1>2, <1>3, <1>4, <1>5 DEF TypeOK, Flags, Children, Pipes, Calls

LEMMA EndCloseTypes == ASSUME PromptDeath, IInv, EndClose PROVE TypeOK'
<1>1. Flags /\ Children /\ Pipes /\ Calls
  BY TypeParts DEF IInv
<1>2. Flags'
  BY <1>1, Zenon DEF Flags, EndClose, callerVars
<1>3. Children'
  BY <1>1 DEF Children, Places, EndClose, StopWorker, StopWorkerFails
<1>4. Pipes'
  BY <1>1, OutcomeTypes DEF Pipes, EndClose
<1>5. Calls'
  BY <1>1, OutcomeTypes DEF Calls, EndClose, callerVars, StopWorker, StopWorkerFails
<1>6. QED
  BY <1>2, <1>3, <1>4, <1>5 DEF TypeOK, Flags, Children, Pipes, Calls

LEMMA KillAppTypes == ASSUME PromptDeath, IInv, KillApp PROVE TypeOK'
<1>1. Flags /\ Children /\ Pipes /\ Calls
  BY TypeParts DEF IInv
<1>2. Flags'
  BY <1>1, Zenon DEF Flags, KillApp, callerVars, closeVars
<1>3. Children'
  BY <1>1 DEF Children, Places, KillApp
<1>4. Pipes'
  BY <1>1, OutcomeTypes DEF Pipes, KillApp
<1>5. Calls'
  BY <1>1, OutcomeTypes DEF Calls, KillApp, callerVars, ownerVars, closeVars
<1>6. QED
  BY <1>2, <1>3, <1>4, <1>5 DEF TypeOK, Flags, Children, Pipes, Calls

LEMMA ArmTypes == ASSUME PromptDeath, IInv, NEW w \in Workers, Arm(w) PROVE TypeOK'
<1>1. Flags /\ Children /\ Pipes /\ Calls
  BY TypeParts DEF IInv
<1>2. Flags'
  BY <1>1, Zenon DEF Flags, Arm, callerVars, closeVars
<1>3. Children'
  BY <1>1 DEF Children, Places, Arm, Become
<1>4. Pipes'
  BY <1>1, OutcomeTypes DEF Pipes, Arm
<1>5. Calls'
  BY <1>1, OutcomeTypes DEF Calls, Arm, callerVars, ownerVars, closeVars
<1>6. QED
  BY <1>2, <1>3, <1>4, <1>5 DEF TypeOK, Flags, Children, Pipes, Calls

LEMMA BuildTypes == ASSUME PromptDeath, IInv, NEW w \in Workers, Build(w) PROVE TypeOK'
<1>1. Flags /\ Children /\ Pipes /\ Calls
  BY TypeParts DEF IInv
<1>2. Flags'
  BY <1>1, Zenon DEF Flags, Build, callerVars, closeVars
<1>3. Children'
  BY <1>1 DEF Children, Places, Build, Become
<1>4. Pipes'
  <2>1. CASE UNCHANGED outbox
    BY <1>1, <2>1 DEF Pipes, Build
  <2>2. CASE outbox' = [outbox EXCEPT ![w] = Append(@, Error)]
    BY <1>1, <2>2, OutcomeTypes DEF Pipes, Build
  <2>3. QED
    BY <2>1, <2>2 DEF Build
<1>5. Calls'
  BY <1>1, OutcomeTypes DEF Calls, Build, callerVars, ownerVars, closeVars
<1>6. QED
  BY <1>2, <1>3, <1>4, <1>5 DEF TypeOK, Flags, Children, Pipes, Calls

LEMMA TakeTypes == ASSUME PromptDeath, IInv, NEW w \in Workers, Take(w) PROVE TypeOK'
<1>1. Flags /\ Children /\ Pipes /\ Calls
  BY TypeParts DEF IInv
<1>2. Flags'
  BY <1>1, Zenon DEF Flags, Take, callerVars, closeVars
<1>3. Children'
  BY <1>1 DEF Children, Places, Pipes, Take, Become
<1>4. Pipes'
  BY <1>1, OutcomeTypes DEF Pipes, Take
<1>5. Calls'
  BY <1>1, OutcomeTypes DEF Calls, Take, callerVars, ownerVars, closeVars
<1>6. QED
  BY <1>2, <1>3, <1>4, <1>5 DEF TypeOK, Flags, Children, Pipes, Calls

LEMMA ReportTypes == ASSUME PromptDeath, IInv, NEW w \in Workers, Report(w) PROVE TypeOK'
<1>1. Flags /\ Children /\ Pipes /\ Calls
  BY TypeParts DEF IInv
<1>2. Flags'
  BY <1>1, Zenon DEF Flags, Report, callerVars, closeVars
<1>3. Children'
  BY <1>1 DEF Children, Places, Report, Become
<1>4. Pipes'
  BY <1>1, OutcomeTypes DEF Children, Pipes, Report
<1>5. Calls'
  BY <1>1, OutcomeTypes DEF Calls, Report, callerVars, ownerVars, closeVars
<1>6. QED
  BY <1>2, <1>3, <1>4, <1>5 DEF TypeOK, Flags, Children, Pipes, Calls

LEMMA LeaveTypes == ASSUME PromptDeath, IInv, NEW w \in Workers, Leave(w) PROVE TypeOK'
<1>1. Flags /\ Children /\ Pipes /\ Calls
  BY TypeParts DEF IInv
<1>2. Flags'
  BY <1>1, Zenon DEF Flags, Leave, callerVars, closeVars
<1>3. Children'
  BY <1>1 DEF Children, Places, Leave, Become
<1>4. Pipes'
  BY <1>1, OutcomeTypes DEF Pipes, Leave
<1>5. Calls'
  BY <1>1, OutcomeTypes DEF Calls, Leave, callerVars, ownerVars, closeVars
<1>6. QED
  BY <1>2, <1>3, <1>4, <1>5 DEF TypeOK, Flags, Children, Pipes, Calls

LEMMA CrashTypes == ASSUME PromptDeath, IInv, NEW w \in Workers, Crash(w) PROVE TypeOK'
<1>1. Flags /\ Children /\ Pipes /\ Calls
  BY TypeParts DEF IInv
<1>2. Flags'
  BY <1>1, Zenon DEF Flags, Crash, callerVars, closeVars
<1>3. Children'
  BY <1>1 DEF Children, Places, Crash, Become
<1>4. Pipes'
  BY <1>1, OutcomeTypes DEF Pipes, Crash
<1>5. Calls'
  BY <1>1, OutcomeTypes DEF Calls, Crash, callerVars, ownerVars, closeVars
<1>6. QED
  BY <1>2, <1>3, <1>4, <1>5 DEF TypeOK, Flags, Children, Pipes, Calls

\* A step of a child disturbs only what that child has in hand.
LEMMA ChildLemma ==
  ASSUME NEW w \in Workers, TypeOK, OneAtATime,
         UNCHANGED <<pc, process, closed, asked>>,
         \A v \in Workers \ {w} :
           /\ place'[v] = place[v] /\ job'[v] = job[v]
           /\ inbox'[v] = inbox[v] /\ outbox'[v] = outbox[v],
         Quiet(w) => Quiet(w)', InFlight(w) => InFlight(w)'
  PROVE  OneAtATime'
BY DEF TypeOK, OneAtATime, Quiet, InFlight, Finished

\* _stop_worker leaves no child on record, and touches no other.
LEMMA StopLemma ==
  ASSUME PromptDeath, TypeOK, StopWorker \/ StopWorkerFails
  PROVE  /\ process' = None
         /\ \A w \in Workers : w # process => place'[w] = place[w]
         /\ \A w \in Workers : w = process => place'[w] = "dead"
BY DEF PromptDeath, TypeOK, Workers, None, StopWorker, StopWorkerFails

LEMMA StopNumbered ==
  ASSUME PromptDeath, TypeOK, Numbered, StopWorker \/ StopWorkerFails,
         pc' \in {pc, "idle"},
         asked' = asked, spawned' = spawned, connection' = connection,
         inbox' = inbox, outbox' = outbox, job' = job
  PROVE  Numbered'
<1>1. \A w \in Workers : w \notin 1..spawned => place'[w] = place[w]
  <2>1. \A w \in Workers : w \notin 1..spawned => w # process
    BY DEF Numbered, Workers
  <2>2. QED
    BY <2>1, StopLemma
<1>2. \A w \in Workers : place[w] # "unborn" => place'[w] # "unborn"
  BY StopLemma
<1>3. process' = None
  BY StopLemma
<1>4. QED
  BY <1>3, <1>1, <1>2 DEF TypeOK, Numbered, None

LEMMA CallInv ==
  ASSUME PromptDeath, IInv, Call PROVE IInv'
<1>1. LockIsHeld'
  BY DEF IInv, Call, ownerVars, closeVars, LockIsHeld
<1>2. Numbered'
  BY DEF IInv, Call, ownerVars, childVars, TypeOK, Numbered
<1>3. Reaped'
  BY DEF IInv, Call, ownerVars, childVars, Alive, Reaped
<1>4. Stages'
  BY DEF IInv, Call, childVars, Stages
<1>5. OneAtATime'
  BY DEF IInv, Call, ownerVars, closeVars, childVars, OneAtATime, Quiet, Finished
<1>6. Dropped'
  BY DEF IInv, Call, ownerVars, Dropped, RetryReloads
<1>7. QED
  BY CallTypes, <1>1, <1>2, <1>3, <1>4, <1>5, <1>6 DEF IInv

LEMMA LockInv ==
  ASSUME PromptDeath, IInv, Lock PROVE IInv'
<1>1. LockIsHeld'
  BY DEF IInv, Lock, closeVars, Return, LockIsHeld
<1>2. Numbered'
  BY DEF IInv, Lock, childVars, Return, Numbered
<1>3. Reaped'
  BY DEF IInv, Lock, childVars, Alive, Reaped
<1>4. Stages'
  BY DEF IInv, Lock, childVars, Stages
<1>5. OneAtATime'
  BY DEF IInv, Lock, closeVars, childVars, Return, OneAtATime, Quiet, Finished, Requests
<1>6. Dropped'
  BY DEF IInv, Lock, Return, Dropped, RetryReloads
<1>7. QED
  BY LockTypes, <1>1, <1>2, <1>3, <1>4, <1>5, <1>6 DEF IInv

LEMMA ReuseInv ==
  ASSUME PromptDeath, IInv, Reuse PROVE IInv'
<1>1. LockIsHeld'
  BY DEF IInv, Reuse, closeVars, LockIsHeld
<1>2. Numbered'
  BY DEF IInv, Reuse, childVars, Workers, TypeOK, Numbered
<1>3. Reaped'
  BY DEF IInv, Reuse, childVars, Alive, Reaped
<1>4. Stages'
  BY DEF IInv, Reuse, childVars, Stages
<1>5. OneAtATime'
  BY DEF IInv, Reuse, childVars, OneAtATime, Quiet, Finished
<1>6. Dropped'
  BY DEF IInv, Reuse, Dropped, RetryReloads
<1>7. QED
  BY ReuseTypes, <1>1, <1>2, <1>3, <1>4, <1>5, <1>6 DEF IInv

LEMMA SpawnInv ==
  ASSUME PromptDeath, IInv, Spawn PROVE IInv'
<1>1. LockIsHeld'
  BY DEF IInv, Spawn, closeVars, LockIsHeld
<1>2. Numbered'
  <2>1. spawned + 1 \in Workers
    BY DEF IInv, Spawn, TypeOK, Workers, PromptDeath
  <2>2. \A w \in Workers : w \notin 1..spawned' => w \notin 1..spawned /\ place'[w] = place[w]
    BY DEF IInv, Spawn, TypeOK
  <2>3. \A w \in Workers : w \in 1..spawned' => place'[w] # "unborn"
    BY DEF IInv, Spawn, TypeOK, Numbered
  <2>4. \A w \in Workers : w \notin 1..spawned' =>
          place'[w] = "unborn" /\ inbox'[w] = <<>> /\ outbox'[w] = <<>> /\ job'[w] = None
    BY <2>2 DEF Spawn, IInv, Numbered
  <2>5. asked' > 0
    BY DEF Spawn, IInv, Numbered
  <2>6. QED
    BY <2>1, <2>4, <2>5, <2>3 DEF Spawn, Numbered, Workers
<1>3. Reaped'
  BY DEF IInv, Spawn, Alive, Reaped
<1>4. Stages'
  <2>1. spawned + 1 \in Workers
    BY DEF IInv, Spawn, TypeOK, Workers, PromptDeath
  <2>2. outbox[spawned + 1] = <<>>
    BY <2>1 DEF IInv, TypeOK, Numbered
  <2>3. QED
    BY <2>1, <2>2 DEF IInv, Spawn, Stages
<1>5. OneAtATime'
  BY DEF PromptDeath, IInv, Spawn, Workers, TypeOK, Numbered, OneAtATime, Quiet,
       InFlight, Finished, Places, Error, Evaluation, Requests
<1>6. Dropped'
  BY DEF IInv, Spawn, TypeOK, Dropped, RetryReloads
<1>7. QED
  BY SpawnTypes, <1>1, <1>2, <1>3, <1>4, <1>5, <1>6 DEF IInv

LEMMA SpawnFailsInv ==
  ASSUME PromptDeath, IInv, SpawnFails PROVE IInv'
<1>1. LockIsHeld'
  BY DEF IInv, SpawnFails, closeVars, Return, LockIsHeld
<1>2. Numbered'
  BY DEF IInv, SpawnFails, childVars, None, Return, TypeOK, Numbered, Places
<1>3. Reaped'
  BY DEF IInv, SpawnFails, childVars, Alive, Reaped
<1>4. Stages'
  BY DEF IInv, SpawnFails, childVars, Stages
<1>5. OneAtATime'
  BY DEF SpawnFails, OneAtATime
<1>6. Dropped'
  BY DEF IInv, SpawnFails, None, Return, Dropped, RetryReloads
<1>7. QED
  BY SpawnFailsTypes, <1>1, <1>2, <1>3, <1>4, <1>5, <1>6 DEF IInv

LEMMA SendInv ==
  ASSUME PromptDeath, IInv, Send PROVE IInv'
<1>1. LockIsHeld'
  BY DEF IInv, Send, ownerVars, closeVars, Return, LockIsHeld
<1>2. Numbered'
  BY DEF IInv, Send, ownerVars, TypeOK, Numbered
<1>3. Reaped'
  BY DEF IInv, Send, ownerVars, Alive, Reaped
<1>4. Stages'
  BY DEF IInv, Send, Stages
<1>5. OneAtATime'
  <2>1. CASE Open /\ Alive(connection) /\ inbox' = [inbox EXCEPT ![connection] = Append(@, asked)]
             /\ pc' = "polling"
    <3>1. connection \in Workers /\ process = connection
      BY <2>1 DEF IInv, TypeOK, Open, Alive
    <3>2. Quiet(connection) /\ place[connection] # "dead"
      BY <2>1, <3>1 DEF Send, IInv, OneAtATime, Alive
    <3>3. /\ inbox'[connection] = Append(inbox[connection], asked)
          /\ place' = place /\ outbox' = outbox /\ job' = job /\ asked' = asked
          /\ process' = connection /\ connection' = connection
      BY <2>1, <3>1 DEF Send, IInv, TypeOK, ownerVars
    <3>4. InFlight(connection)'
      <4>1. CASE Finished(connection)
        BY <3>2, <3>3, <4>1 DEF Quiet, InFlight, Finished
      <4>2. CASE ~Finished(connection)
        <5>1. inbox[connection] = <<>>
          BY <3>2, <4>2 DEF Quiet
        <5>2. inbox'[connection] = <<asked>>
          BY <3>3, <5>1
        <5>3. QED
          BY <3>2, <3>3, <4>2, <5>2 DEF Quiet, InFlight
      <4>3. QED
        BY <4>1, <4>2
    <3>5. QED
      BY <2>1, <3>1, <3>3, <3>4 DEF OneAtATime
  <2>2. CASE (~Open \/ ~Alive(connection)) /\ pc' = "idle" /\ UNCHANGED inbox
    BY <2>2 DEF Send, IInv, OneAtATime, Quiet, Finished, ownerVars
  <2>3. QED
    BY <2>1, <2>2 DEF Send, Return
<1>6. Dropped'
  BY DEF IInv, Send, ownerVars, Dropped, RetryReloads
<1>7. QED
  BY SendTypes, <1>1, <1>2, <1>3, <1>4, <1>5, <1>6 DEF IInv

LEMMA ReceiveInv ==
  ASSUME PromptDeath, IInv, Receive PROVE IInv'
<1>1. LockIsHeld'
  BY DEF IInv, Receive, ownerVars, closeVars, Return, LockIsHeld
<1>2. Numbered'
  BY DEF IInv, Receive, ownerVars, Numbered
<1>3. Reaped'
  BY DEF IInv, Receive, ownerVars, Alive, Reaped
<1>4. Stages'
  BY DEF IInv, Receive, Stages
<1>5. OneAtATime'
  <2>1. connection \in Workers /\ process = connection
    BY DEF Receive, Open, IInv, TypeOK, Numbered, Workers, PromptDeath
  <2>2. InFlight(connection)
    BY <2>1 DEF Receive, IInv, OneAtATime, Workers, None
  <2>3. outbox'[connection] = <<>>
    <3>1. outbox[connection] = <<Error>> \/ outbox[connection] = <<Evaluation(asked)>>
      BY <2>2 DEF Receive, InFlight
    <3>2. QED
      BY <2>1, <3>1 DEF Receive, IInv, TypeOK
  <2>4. Quiet(connection)'
    BY <2>2, <2>3 DEF Receive, InFlight, Quiet, Finished
  <2>5. QED
    BY <2>1, <2>4 DEF Receive, Return, OneAtATime, ownerVars
<1>6. Dropped'
  BY DEF IInv, Receive, ownerVars, Dropped, RetryReloads
<1>7. QED
  BY ReceiveTypes, <1>1, <1>2, <1>3, <1>4, <1>5, <1>6 DEF IInv

LEMMA GiveUpInv ==
  ASSUME PromptDeath, IInv, GiveUp PROVE IInv'
<1>1. LockIsHeld'
  BY DEF IInv, GiveUp, ownerVars, closeVars, Return, LockIsHeld
<1>2. Numbered'
  BY DEF IInv, GiveUp, ownerVars, childVars, Numbered
<1>3. Reaped'
  BY DEF IInv, GiveUp, ownerVars, childVars, Alive, Reaped
<1>4. Stages'
  BY DEF IInv, GiveUp, childVars, Stages
<1>5. OneAtATime'
  <2>1. CASE closed
    BY <2>1 DEF GiveUp, closeVars, Return, OneAtATime
  <2>2. CASE ~Open
    BY <2>2 DEF IInv, GiveUp, ownerVars, OneAtATime, Numbered, Open
  <2>3. CASE Open /\ ~Alive(connection)
    <3>1. process = connection /\ connection \in Workers /\ connection \in 1..spawned
      BY <2>3 DEF GiveUp, IInv, TypeOK, Open, Workers, Numbered, PromptDeath
    <3>2. place[process] = "dead"
      BY <2>3, <3>1 DEF IInv, Numbered, None, Alive
    <3>3. QED
      BY <3>1, <3>2 DEF GiveUp, ownerVars, childVars, Return, OneAtATime, Quiet,
           Finished
  <2>4. QED
    BY <2>1, <2>2, <2>3 DEF GiveUp
<1>6. Dropped'
  BY DEF IInv, GiveUp, ownerVars, Dropped, RetryReloads
<1>7. QED
  BY GiveUpTypes, <1>1, <1>2, <1>3, <1>4, <1>5, <1>6 DEF IInv

LEMMA DeadlineInv ==
  ASSUME PromptDeath, IInv, Deadline PROVE IInv'
<1>1. LockIsHeld'
  BY DEF IInv, Deadline, ownerVars, closeVars, LockIsHeld
<1>2. Numbered'
  BY DEF IInv, Deadline, ownerVars, childVars, Numbered
<1>3. Reaped'
  BY DEF IInv, Deadline, ownerVars, childVars, Alive, Reaped
<1>4. Stages'
  BY DEF IInv, Deadline, childVars, Stages
<1>5. OneAtATime'
  BY DEF Deadline, OneAtATime
<1>6. Dropped'
  BY DEF IInv, Deadline, ownerVars, Numbered, Dropped, RetryReloads
<1>7. QED
  BY DeadlineTypes, <1>1, <1>2, <1>3, <1>4, <1>5, <1>6 DEF IInv

LEMMA ExpireInv ==
  ASSUME PromptDeath, IInv, Expire PROVE IInv'
<1>1. LockIsHeld'
  BY DEF IInv, Expire, closeVars, Return, StopWorker, StopWorkerFails, LockIsHeld
<1>2. Numbered'
  BY StopNumbered DEF IInv, Expire, Return
<1>3. Reaped'
  BY DEF IInv, Expire, Alive, StopWorker, StopWorkerFails, TypeOK, Reaped, Places
<1>4. Stages'
  BY DEF IInv, Expire, StopWorker, StopWorkerFails, TypeOK, Stages
<1>5. OneAtATime'
  BY DEF PromptDeath, Expire, StopWorker, StopWorkerFails, OneAtATime, Places, Error,
       Evaluation, Requests
<1>6. Dropped'
  BY DEF PromptDeath, IInv, Expire, None, Return, StopWorker, StopWorkerFails, Dropped,
       RetryReloads, Places
<1>7. QED
  BY ExpireTypes, <1>1, <1>2, <1>3, <1>4, <1>5, <1>6 DEF IInv

LEMMA BeginCloseInv ==
  ASSUME PromptDeath, IInv, BeginClose PROVE IInv'
<1>1. LockIsHeld'
  BY DEF IInv, BeginClose, callerVars, ownerVars, LockIsHeld
<1>2. Numbered'
  BY DEF IInv, BeginClose, callerVars, ownerVars, childVars, Numbered
<1>3. Reaped'
  BY DEF IInv, BeginClose, ownerVars, childVars, Alive, Reaped
<1>4. Stages'
  BY DEF IInv, BeginClose, childVars, Stages
<1>5. OneAtATime'
  BY DEF IInv, BeginClose, callerVars, ownerVars, childVars, OneAtATime, Quiet,
       InFlight, Finished
<1>6. Dropped'
  BY DEF IInv, BeginClose, callerVars, ownerVars, Dropped, RetryReloads
<1>7. QED
  BY BeginCloseTypes, <1>1, <1>2, <1>3, <1>4, <1>5, <1>6 DEF IInv

LEMMA EndCloseInv ==
  ASSUME PromptDeath, IInv, EndClose PROVE IInv'
<1>1. LockIsHeld'
  BY DEF PromptDeath, IInv, EndClose, callerVars, StopWorker, StopWorkerFails,
       LockIsHeld
<1>2. Numbered'
  BY StopNumbered DEF IInv, EndClose, callerVars
<1>3. Reaped'
  BY DEF IInv, EndClose, Alive, StopWorker, StopWorkerFails, TypeOK, Reaped
<1>4. Stages'
  BY DEF IInv, EndClose, StopWorker, StopWorkerFails, TypeOK, Stages
<1>5. OneAtATime'
  BY DEF PromptDeath, EndClose, StopWorker, StopWorkerFails, OneAtATime, Error,
       Evaluation, Requests
<1>6. Dropped'
  BY DEF IInv, EndClose, callerVars, None, StopWorker, StopWorkerFails, Dropped,
       RetryReloads
<1>7. QED
  BY EndCloseTypes, <1>1, <1>2, <1>3, <1>4, <1>5, <1>6 DEF IInv

LEMMA KillAppInv ==
  ASSUME PromptDeath, IInv, KillApp PROVE IInv'
<1>1. LockIsHeld'
  BY DEF IInv, KillApp, callerVars, ownerVars, closeVars, LockIsHeld
<1>2. Numbered'
  BY DEF IInv, KillApp, callerVars, ownerVars, Numbered
<1>3. Reaped'
  BY DEF KillApp, Reaped
<1>4. Stages'
  BY DEF IInv, KillApp, Stages
<1>5. OneAtATime'
  BY DEF IInv, KillApp, callerVars, ownerVars, closeVars, TypeOK, OneAtATime, Quiet,
       InFlight, Finished, Requests
<1>6. Dropped'
  BY DEF IInv, KillApp, callerVars, ownerVars, Dropped, RetryReloads
<1>7. QED
  BY KillAppTypes, <1>1, <1>2, <1>3, <1>4, <1>5, <1>6 DEF IInv

LEMMA ArmInv ==
  ASSUME PromptDeath, IInv, NEW w \in Workers, Arm(w) PROVE IInv'
<1>1. LockIsHeld'
  BY DEF IInv, Arm, callerVars, ownerVars, closeVars, LockIsHeld
<1>2. Numbered'
  BY DEF IInv, Arm, callerVars, ownerVars, Become, Numbered
<1>3. Reaped'
  BY DEF IInv, Arm, ownerVars, Alive, Become, Reaped
<1>4. Stages'
  BY DEF IInv, Arm, Become, Stages
<1>5. OneAtATime'
  BY DEF IInv, Arm, callerVars, ownerVars, closeVars, Become, OneAtATime, Quiet,
       InFlight, Finished
<1>6. Dropped'
  BY DEF IInv, Arm, callerVars, ownerVars, Dropped, RetryReloads
<1>7. QED
  BY ArmTypes, <1>1, <1>2, <1>3, <1>4, <1>5, <1>6 DEF IInv

LEMMA BuildInv ==
  ASSUME PromptDeath, IInv, NEW w \in Workers, Build(w) PROVE IInv'
<1>1. LockIsHeld'
  BY DEF IInv, Build, callerVars, ownerVars, closeVars, LockIsHeld
<1>2. Numbered'
  BY DEF IInv, Build, callerVars, ownerVars, Become, TypeOK, Numbered
<1>3. Reaped'
  BY DEF IInv, Build, ownerVars, Alive, Become, TypeOK, Reaped, Places
<1>4. Stages'
  BY DEF IInv, Build, Become, TypeOK, Stages
<1>5. OneAtATime'
  <2>1. TypeOK /\ OneAtATime /\ Stages
    BY DEF IInv
  <2>2. ASSUME Quiet(w) PROVE Quiet(w)'
    <3>1. CASE Become(w, "serving") /\ UNCHANGED outbox
      BY <2>1, <2>2, <3>1 DEF Build, Quiet, Finished
    <3>2. CASE Become(w, "leaving") /\ outbox' = [outbox EXCEPT ![w] = Append(@, Error)]
      <4>1. outbox[w] = <<>>
        BY <2>1, <2>2 DEF Quiet, Finished, Build
      <4>2. outbox'[w] = <<Error>>
        BY <2>1, <2>2, <3>2, <4>1 DEF TypeOK
      <4>3. QED
        BY <2>1, <2>2, <3>2, <4>2 DEF Quiet, Finished, TypeOK, Become
    <3>3. QED
      BY <2>1, <2>2, <3>1, <3>2 DEF Build
  <2>3. ASSUME InFlight(w) PROVE InFlight(w)'
    <3>1. CASE Become(w, "serving") /\ UNCHANGED outbox
      BY <2>1, <2>3, <3>1 DEF Build, InFlight, Finished, callerVars
    <3>2. CASE Become(w, "leaving") /\ outbox' = [outbox EXCEPT ![w] = Append(@, Error)]
      <4>1. outbox[w] = <<>>
        BY <2>1, <2>3 DEF Stages, Build
      <4>2. outbox'[w] = <<Error>> /\ place'[w] = "leaving"
        BY <2>1, <2>3, <3>2, <4>1 DEF TypeOK, Become
      <4>3. QED
        BY <2>1, <2>3, <4>2 DEF InFlight, Finished
    <3>3. QED
      BY <2>1, <2>3, <3>1, <3>2 DEF Build
  <2>4. UNCHANGED <<pc, process, closed, asked>>
    BY DEF Build, callerVars, ownerVars, closeVars
  <2>5. \A v \in Workers \ {w} :
          /\ place'[v] = place[v] /\ job'[v] = job[v]
          /\ inbox'[v] = inbox[v] /\ outbox'[v] = outbox[v]
    BY <2>1 DEF Build, Become, TypeOK
  <2>6. QED
    BY <2>1, <2>2, <2>3, <2>4, <2>5, ChildLemma
<1>6. Dropped'
  BY DEF IInv, Build, callerVars, ownerVars, Dropped, RetryReloads
<1>7. QED
  BY BuildTypes, <1>1, <1>2, <1>3, <1>4, <1>5, <1>6 DEF IInv

LEMMA TakeInv ==
  ASSUME PromptDeath, IInv, NEW w \in Workers, Take(w) PROVE IInv'
<1>1. LockIsHeld'
  BY DEF IInv, Take, callerVars, ownerVars, closeVars, LockIsHeld
<1>2. Numbered'
  BY DEF IInv, Take, callerVars, ownerVars, Become, Numbered
<1>3. Reaped'
  BY DEF IInv, Take, ownerVars, Alive, Become, Reaped
<1>4. Stages'
  <2>1. Head(inbox[w]) \in Requests
    BY DEF Take, IInv, TypeOK
  <2>2. QED
    BY <2>1 DEF Take, Become, IInv, TypeOK, Stages, Requests, None
<1>5. OneAtATime'
  <2>1. TypeOK /\ OneAtATime /\ Stages
    BY DEF IInv
  <2>2. ASSUME Quiet(w) PROVE Quiet(w)'
    BY <2>1, <2>2 DEF Take, Quiet, Finished
  <2>3. ASSUME InFlight(w) PROVE InFlight(w)'
    <3>1. inbox[w] = <<asked>> /\ outbox[w] = <<>>
      BY <2>1, <2>3 DEF InFlight, Take, Finished
    <3>2. inbox'[w] = <<>> /\ job'[w] = asked /\ outbox'[w] = <<>> /\ asked' = asked
      BY <2>1, <2>3, <3>1 DEF Take, TypeOK, callerVars
    <3>3. QED
      BY <2>1, <2>3, <3>2 DEF InFlight
  <2>4. UNCHANGED <<pc, process, closed, asked>>
    BY DEF Take, callerVars, ownerVars, closeVars
  <2>5. \A v \in Workers \ {w} :
          /\ place'[v] = place[v] /\ job'[v] = job[v]
          /\ inbox'[v] = inbox[v] /\ outbox'[v] = outbox[v]
    BY <2>1 DEF Take, Become
  <2>6. QED
    BY <2>1, <2>2, <2>3, <2>4, <2>5, ChildLemma
<1>6. Dropped'
  BY DEF IInv, Take, callerVars, ownerVars, Dropped, RetryReloads
<1>7. QED
  BY TakeTypes, <1>1, <1>2, <1>3, <1>4, <1>5, <1>6 DEF IInv

LEMMA ReportInv ==
  ASSUME PromptDeath, IInv, NEW w \in Workers, Report(w) PROVE IInv'
<1>1. LockIsHeld'
  BY DEF IInv, Report, callerVars, ownerVars, closeVars, LockIsHeld
<1>2. Numbered'
  BY DEF IInv, Report, callerVars, ownerVars, Become, Numbered
<1>3. Reaped'
  BY DEF IInv, Report, ownerVars, Alive, Become, Reaped
<1>4. Stages'
  BY DEF IInv, Report, Become, TypeOK, Stages
<1>5. OneAtATime'
  <2>1. TypeOK /\ OneAtATime /\ Stages
    BY DEF IInv
  <2>2. ASSUME Quiet(w) PROVE Quiet(w)'
    BY <2>1, <2>2 DEF Report, Quiet, Finished, Stages
  <2>3. ASSUME InFlight(w) PROVE InFlight(w)'
    <3>1. inbox[w] = <<>> /\ outbox[w] = <<>> /\ job[w] = asked
      BY <2>1, <2>3 DEF InFlight, Report, Finished, Stages
    <3>2. outbox'[w] \in {<<Error>>, <<Evaluation(asked)>>}
      BY <2>1, <2>3, <3>1 DEF Report, TypeOK
    <3>3. inbox'[w] = <<>> /\ job'[w] = None /\ asked' = asked
      BY <2>1, <2>3, <3>1 DEF Report, TypeOK, callerVars
    <3>4. QED
      BY <2>1, <2>3, <3>2, <3>3 DEF InFlight
  <2>4. UNCHANGED <<pc, process, closed, asked>>
    BY DEF Report, callerVars, ownerVars, closeVars
  <2>5. \A v \in Workers \ {w} :
          /\ place'[v] = place[v] /\ job'[v] = job[v]
          /\ inbox'[v] = inbox[v] /\ outbox'[v] = outbox[v]
    BY <2>1 DEF Report, Become
  <2>6. QED
    BY <2>1, <2>2, <2>3, <2>4, <2>5, ChildLemma
<1>6. Dropped'
  BY DEF IInv, Report, callerVars, ownerVars, Dropped, RetryReloads
<1>7. QED
  BY ReportTypes, <1>1, <1>2, <1>3, <1>4, <1>5, <1>6 DEF IInv

LEMMA LeaveInv ==
  ASSUME PromptDeath, IInv, NEW w \in Workers, Leave(w) PROVE IInv'
<1>1. LockIsHeld'
  BY DEF IInv, Leave, callerVars, ownerVars, closeVars, LockIsHeld
<1>2. Numbered'
  BY DEF IInv, Leave, callerVars, ownerVars, Become, Numbered
<1>3. Reaped'
  BY DEF IInv, Leave, ownerVars, Alive, Become, Reaped
<1>4. Stages'
  BY DEF IInv, Leave, Become, Stages
<1>5. OneAtATime'
  BY DEF IInv, Leave, callerVars, ownerVars, closeVars, Become, OneAtATime, Quiet,
       InFlight, Finished
<1>6. Dropped'
  BY DEF IInv, Leave, callerVars, ownerVars, Dropped, RetryReloads
<1>7. QED
  BY LeaveTypes, <1>1, <1>2, <1>3, <1>4, <1>5, <1>6 DEF IInv

LEMMA CrashInv ==
  ASSUME PromptDeath, IInv, NEW w \in Workers, Crash(w) PROVE IInv'
<1>1. LockIsHeld'
  BY DEF IInv, Crash, callerVars, ownerVars, closeVars, LockIsHeld
<1>2. Numbered'
  BY DEF IInv, Crash, callerVars, ownerVars, Alive, Become, Numbered
<1>3. Reaped'
  BY DEF IInv, Crash, ownerVars, Alive, Become, Reaped
<1>4. Stages'
  BY DEF IInv, Crash, Become, Stages
<1>5. OneAtATime'
  BY DEF IInv, Crash, callerVars, ownerVars, closeVars, Become, OneAtATime, Quiet,
       InFlight, Finished
<1>6. Dropped'
  BY DEF IInv, Crash, callerVars, ownerVars, Dropped, RetryReloads
<1>7. QED
  BY CrashTypes, <1>1, <1>2, <1>3, <1>4, <1>5, <1>6 DEF IInv

LEMMA InitInv == ASSUME PromptDeath, Init PROVE IInv
<1>1. TypeOK
  <2>1. Flags
    BY Zenon DEF Init, Flags
  <2>2. Children /\ Pipes
    BY DEF Init, Children, Pipes, Places
  <2>3. Calls
    BY OutcomeTypes DEF PromptDeath, Init, Calls
  <2>4. QED
    BY <2>1, <2>2, <2>3, TypeParts
<1>2. LockIsHeld /\ Numbered /\ Reaped /\ Stages /\ OneAtATime /\ Dropped
  BY DEF Init, LockIsHeld, Numbered, Reaped, Stages, OneAtATime, Dropped, RetryReloads,
       Alive, None
<1>3. QED
  BY <1>1, <1>2 DEF IInv

LEMMA StutterInv == ASSUME IInv, UNCHANGED vars PROVE IInv'
<1>1. /\ UNCHANGED <<app, pc, asked, late, connection, reply, process, spawned>>
      /\ UNCHANGED <<lifecycle, closed, closing, place, job, inbox, outbox, expired>>
  BY Zenon DEF vars, callerVars, ownerVars, closeVars, childVars
<1>2. Flags'
  BY <1>1, TypeParts, Zenon DEF Flags, IInv
<1>3. TypeOK'
  BY <1>1, <1>2 DEF TypeOK, IInv
<1>4. LockIsHeld' /\ Numbered' /\ Reaped' /\ Stages' /\ OneAtATime' /\ Dropped'
  BY <1>1 DEF IInv, LockIsHeld, Numbered, Reaped, Stages, OneAtATime, Quiet, InFlight,
       Finished, Dropped, RetryReloads, Alive
<1>5. QED
  BY <1>3, <1>4 DEF IInv

LEMMA StepInv == ASSUME PromptDeath, IInv, [Next]_vars PROVE IInv'
<1>1. CASE Forward
  BY <1>1, LockInv, ReuseInv, SpawnInv, SpawnFailsInv, SendInv, ReceiveInv,
     GiveUpInv, DeadlineInv, ExpireInv DEF Forward
<1>2. ASSUME NEW w \in Workers, Child(w) PROVE IInv'
  BY <1>2, ArmInv, BuildInv, TakeInv, ReportInv, LeaveInv, CrashInv DEF Child
<1>3. QED
  BY <1>1, <1>2, CallInv, BeginCloseInv, EndCloseInv, KillAppInv, StutterInv DEF Next

\* The inductive invariant holds in every reachable state, for any number of
\* requests and children.
THEOREM Invariance == ASSUME PromptDeath PROVE Spec => []IInv
<1>1. Init => IInv
  BY InitInv
<1>2. IInv /\ [Next]_vars => IInv'
  BY StepInv
<1>3. QED
  BY <1>1, <1>2, PTL DEF Spec

\* A living child is the one on record, so that the next start reaps it and the
\* close of the evaluator ends it (gui/inference.py, _start and close).
THEOREM NoChildIsLost == ASSUME PromptDeath PROVE Spec => []NoStrayWorker
<1>1. IInv => NoStrayWorker
  BY DEF IInv, Reaped, LockIsHeld, NoStrayWorker, Alive
<1>2. QED
  BY <1>1, Invariance, PTL

\* A timed-out child is dropped before the next request, provided that killed
\* processes end in time: what finding 4 of the README shows is the only way
\* around it.
THEOREM TimedOutChildrenAreDropped == ASSUME PromptDeath PROVE Spec => []RetryReloads
<1>1. IInv => RetryReloads
  BY DEF IInv, Dropped
<1>2. QED
  BY <1>1, Invariance, PTL

-----------------------------------------------------------------------------
(* The refinement: every step is a step of the evaluator, or none of it.   *)

LEMMA StepRefines ==
  ASSUME PromptDeath, IInv, [Next]_vars
  PROVE  [Contract!Next]_(Contract!contract)
<1> USE DEF Contract!contract
<1>1. CASE Call
  BY <1>1 DEF Call, Contract!Next, Contract!Ask, IInv, TypeOK, LockIsHeld, Requests,
       PromptDeath
<1>2. CASE UNCHANGED vars
  BY <1>2 DEF vars, callerVars
<1>3. ASSUME NEW w \in Workers, Child(w) PROVE UNCHANGED Contract!contract
  BY <1>3 DEF Child, Arm, Build, Take, Report, Leave, Crash, callerVars, closeVars
<1>4. CASE Reuse \/ Spawn \/ Deadline
  BY <1>4 DEF Reuse, Spawn, Deadline, closeVars
<1>5. CASE BeginClose
  BY <1>5 DEF BeginClose, callerVars
<1>6. CASE EndClose
  BY <1>6 DEF EndClose, callerVars
<1>7. CASE KillApp
  BY <1>7 DEF KillApp, Contract!Next, Contract!Gone, Contract!Shut, callerVars
<1>8. CASE Lock \/ SpawnFails \/ Send \/ GiveUp \/ Expire
  BY <1>8 DEF Lock, SpawnFails, Send, GiveUp, Expire, Return, Contract!Next,
       Contract!Fail, Contract!Error, Error, IInv, Numbered, None, closeVars
<1>9. CASE Receive
  <2>1. process \in Workers /\ process = connection
    BY <1>9 DEF Receive, Open, IInv, TypeOK, Numbered, Workers, PromptDeath
  <2>2. Head(outbox[connection]) \in {Error, Evaluation(asked)}
    <3>1. outbox[connection] \in {<<Error>>, <<Evaluation(asked)>>}
      BY <1>9, <2>1 DEF Receive, IInv, OneAtATime, InFlight, Workers, None
    <3>2. QED
      BY <3>1
  <2>3. app /\ app' /\ pc = "polling" /\ asked # None /\ ~late
    BY <1>9 DEF Receive, IInv, Numbered, LockIsHeld, None
  <2>4. /\ pc' = "idle" /\ reply' \in {Error, Evaluation(asked)}
        /\ UNCHANGED <<app, asked, late, closing>>
    BY <1>9, <2>2 DEF Receive, Return, closeVars
  <2>5. CASE reply' = Error
    BY <2>3, <2>4, <2>5 DEF Contract!Next, Contract!Fail, Contract!Error, Error
  <2>6. CASE reply' = Evaluation(asked)
    BY <2>3, <2>4, <2>6 DEF Contract!Next, Contract!Answer, Contract!Evaluation,
         Evaluation
  <2>7. QED
    BY <2>4, <2>5, <2>6
<1>10. QED
  BY <1>1, <1>2, <1>3, <1>4, <1>5, <1>6, <1>7, <1>8, <1>9 DEF Next, Forward

\* The child process, its pipe, its deadline and its crashes are not visible in
\* what a game gets: each request in turn ends with its own evaluation or an
\* error, and a request after the close with an error.
THEOREM Refinement ==
  ASSUME PromptDeath
  PROVE  Spec => Contract!Init /\ [][Contract!Next]_(Contract!contract)
<1>1. Init => Contract!Init
  BY DEF Init, Contract!Init, Contract!Error, Error
<1>2. IInv /\ [Next]_vars => [Contract!Next]_(Contract!contract)
  BY StepRefines
<1>3. QED
  BY <1>1, <1>2, Invariance, PTL DEF Spec
=============================================================================
