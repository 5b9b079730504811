--------------------------- MODULE JobQueueProofs ---------------------------
(***************************************************************************)
(* Proofs about JobQueue, for any jobs and any bounds.                     *)
(***************************************************************************)
EXTENDS JobQueue, TLAPS

Early == {"unborn", "forked", "booting", "ready"}

(***************************************************************************)
(* The inductive invariant.  What matters is why the manager always knows  *)
(* of descendants to wait for: a worker has them only once it runs, it     *)
(* runs only after it reported "started", and that report, the first one,  *)
(* is read before the end of the process is handled.                       *)
(***************************************************************************)

\* The manager's variables agree with each other.
Consistent ==
  /\ process = "None" <=> current = NoJob
  /\ current # NoJob => place[current] # "unborn"
  /\ sawTerminal => phase \in Outcomes
  /\ shuttingDown => queue = <<>>
  /\ process = "NotRunning" => place[current] = "dead" /\ stdout[current] = <<>>

\* A job that waits, or that was never submitted, has no worker yet.
NotBegun ==
  /\ \A i \in DOMAIN queue : queue[i] \in submitted /\ place[queue[i]] = "unborn"
  /\ \A i, k \in DOMAIN queue : queue[i] = queue[k] => i = k
  /\ \A j \in Jobs \ submitted : place[j] = "unborn"

\* A worker that has not begun its run has reported nothing and started nobody.
SilentAtFirst ==
  /\ \A j \in Jobs :
       place[j] \in Early => stdout[j] = <<>> /\ descendants[j] = "none"
  /\ current # NoJob /\ place[current] \in Early => ~sawTerminal

\* The process group of a worker that may have descendants is known, or the
\* next thing to read will tell it.
GroupIsKnown ==
  current # NoJob /\ (place[current] = "running" \/ descendants[current] # "none")
    => \/ group
       \/ ~sawTerminal /\ stdout[current] # <<>> /\ Head(stdout[current]) = "started"

IInv ==
  /\ TypeOK
  /\ Consistent
  /\ NotBegun
  /\ SilentAtFirst
  /\ GroupIsKnown
  /\ OneJobAtATime
  /\ TimerIsTheActiveJobs
  /\ QueueIsServed

-----------------------------------------------------------------------------
LEMMA InitInv == Init => IInv
<1> SUFFICES ASSUME Init PROVE IInv
  OBVIOUS
<1> USE JobQueueAssumption
<1>1. TypeOK
  <2>1. SwitchesTypeOK
    BY DEF Init, SwitchesTypeOK
  <2>2. ManagerTypeOK
    BY DEF Init, ManagerTypeOK, Phases
  <2>3. WorkerTypeOK
    BY DEF Init, WorkerTypeOK, Places, Terminal
  <2>4. QED
    BY <2>1, <2>2, <2>3 DEF TypeOK
<1>2. QED
  BY <1>1 DEF Init, IInv, Consistent, NotBegun, SilentAtFirst, GroupIsKnown,
     OneJobAtATime, TimerIsTheActiveJobs, QueueIsServed, Alive

-----------------------------------------------------------------------------
(* The queue.                                                              *)

\* What _start_next does to a queue that holds fresh jobs, and that is empty
\* after shutdown.
LEMMA StartLemma ==
  ASSUME IInv, NEW q \in Seq(Jobs), StartNext(q),
         shuttingDown => q = <<>>,
         \A i \in DOMAIN q : q[i] \in submitted' /\ place[q[i]] = "unborn",
         \A i, k \in DOMAIN q : q[i] = q[k] => i = k,
         \A j \in Jobs \ submitted' : place[j] = "unborn",
         submitted' \subseteq Jobs,
         startPosted' \in BOOLEAN,
         UNCHANGED <<timer, recent, shuttingDown, quit, asked>>,
         UNCHANGED <<cancelled, stopping, stdin, stdout, verdict>>,
         UNCHANGED <<descendants, code>>
  PROVE  IInv'
<1> USE JobQueueAssumption
<1>1. CASE CanStart(q) /\ Launch(q)
  <2> DEFINE h == Head(q)
  <2>1. /\ h \in Jobs /\ h # NoJob /\ place[h] = "unborn" /\ current = NoJob
        /\ q # <<>> /\ 1 \in DOMAIN q /\ h = q[1]
    BY <1>1 DEF CanStart
  <2>2. /\ queue' = Tail(q) /\ current' = h /\ phase' = "Starting"
        /\ process' = "Starting" /\ sawTerminal' = FALSE
        /\ stopRequested' = FALSE /\ group' = FALSE
        /\ place' = [place EXCEPT ![h] = "forked"]
    BY <1>1, Zenon DEF Launch
  <2>3. place \in [Jobs -> Places] /\ ~shuttingDown /\ timer = NoJob
    BY <1>1, <2>1 DEF IInv, TypeOK, WorkerTypeOK, CanStart, TimerIsTheActiveJobs
  <2>4. /\ queue' \in Seq(Jobs) /\ Len(queue') = Len(q) - 1
        /\ \A i \in DOMAIN queue' : i + 1 \in DOMAIN q /\ queue'[i] = q[i + 1]
                                    /\ i \in 1..(Len(q) - 1)
    BY <2>1, <2>2
  <2>5. TypeOK'
    <3>1. SwitchesTypeOK'
      BY <2>2, Zenon DEF IInv, TypeOK, SwitchesTypeOK
    <3>2. ManagerTypeOK'
      BY <2>1, <2>2, <2>4 DEF IInv, TypeOK, ManagerTypeOK, Phases
    <3>3. WorkerTypeOK'
      BY <2>1, <2>2 DEF IInv, TypeOK, WorkerTypeOK, Places
    <3>4. QED
      BY <3>1, <3>2, <3>3 DEF TypeOK
  <2>6. Consistent'
    BY <2>1, <2>2, <2>3 DEF Consistent
  <2>7. NotBegun'
    <3>1. \A i \in DOMAIN queue' : queue'[i] # h
      BY <2>1, <2>4
    <3>2. \A i \in DOMAIN queue' :
             queue'[i] \in submitted' /\ place'[queue'[i]] = "unborn"
      BY <2>1, <2>2, <2>3, <2>4, <3>1
    <3>3. \A i, k \in DOMAIN queue' : queue'[i] = queue'[k] => i = k
      BY <2>4
    <3>4. h \in submitted'
      BY <2>1
    <3>5. QED
      BY <2>2, <2>3, <3>2, <3>3, <3>4 DEF NotBegun
  <2>8. SilentAtFirst'
    BY <2>1, <2>2, <2>3 DEF IInv, SilentAtFirst, Early
  <2>9. OneJobAtATime' /\ GroupIsKnown'
    BY <2>1, <2>2, <2>3 DEF IInv, OneJobAtATime, SilentAtFirst, Early, Alive,
       GroupIsKnown
  <2>10. TimerIsTheActiveJobs' /\ QueueIsServed'
    BY <2>1, <2>2, <2>3 DEF TimerIsTheActiveJobs, QueueIsServed
  <2>11. QED
    BY <2>5, <2>6, <2>7, <2>8, <2>9, <2>10 DEF IInv
<1>2. CASE ~CanStart(q)
  <2>1. /\ queue' = q
        /\ UNCHANGED <<current, phase, process, sawTerminal, stopRequested>>
        /\ UNCHANGED <<group, place>>
    BY <1>2, Zenon DEF StartNext
  <2>2. SwitchesTypeOK'
    BY <2>1, Zenon DEF IInv, TypeOK, SwitchesTypeOK
  <2>3. ManagerTypeOK' /\ WorkerTypeOK'
    BY <2>1 DEF IInv, TypeOK, ManagerTypeOK, WorkerTypeOK
  <2>4. NotBegun'
    BY <2>1 DEF NotBegun
  <2>5. /\ Consistent' /\ SilentAtFirst' /\ GroupIsKnown' /\ OneJobAtATime'
        /\ TimerIsTheActiveJobs'
    BY <2>1 DEF IInv, Consistent, SilentAtFirst, GroupIsKnown, OneJobAtATime,
       TimerIsTheActiveJobs, Alive
  <2>6. QueueIsServed'
    BY <1>2, <2>1 DEF CanStart, QueueIsServed
  <2>7. QED
    BY <2>2, <2>3, <2>4, <2>5, <2>6 DEF IInv, TypeOK
<1>3. QED
  BY <1>1, <1>2 DEF StartNext

LEMMA SubmitInv ==
  ASSUME IInv, NEW j \in Jobs, Submit(j)
  PROVE  IInv'
<1> DEFINE q == Append(queue, j)
<1>1. /\ j \notin submitted /\ ~shuttingDown
      /\ submitted' = submitted \cup {j} /\ StartNext(q)
      /\ UNCHANGED <<timer, recent, shuttingDown, quit, asked>>
      /\ UNCHANGED <<cancelled, stopping, stdin, stdout, verdict>>
      /\ UNCHANGED <<descendants, code, startPosted>>
  BY Zenon DEF Submit, flags, output
<1>2. /\ queue \in Seq(Jobs) /\ submitted \subseteq Jobs
      /\ place \in [Jobs -> Places] /\ place[j] = "unborn"
  BY <1>1 DEF IInv, TypeOK, ManagerTypeOK, WorkerTypeOK, NotBegun
<1>3. /\ q \in Seq(Jobs)
      /\ \A i \in DOMAIN q : \/ i \in DOMAIN queue /\ q[i] = queue[i]
                             \/ i = Len(queue) + 1 /\ q[i] = j
  BY <1>2
<1>4. \A i \in DOMAIN queue : queue[i] \in submitted /\ place[queue[i]] = "unborn"
  BY DEF IInv, NotBegun
<1>5. \A i \in DOMAIN q : q[i] \in submitted' /\ place[q[i]] = "unborn"
  BY <1>1, <1>2, <1>3, <1>4
<1>6. \A i, k \in DOMAIN q : q[i] = q[k] => i = k
  <2>1. \A i, k \in DOMAIN queue : queue[i] = queue[k] => i = k
    BY DEF IInv, NotBegun
  <2>2. QED
    BY <1>1, <1>3, <1>4, <2>1
<1>7. \A k \in Jobs \ submitted' : place[k] = "unborn"
  BY <1>1 DEF IInv, NotBegun
<1>8. startPosted' \in BOOLEAN
  BY <1>1, Zenon DEF IInv, TypeOK, SwitchesTypeOK
<1>9. submitted' \subseteq Jobs
  BY <1>1, <1>2
<1>10. QED
  <2> HIDE DEF q
  <2>1. QED
    BY <1>1, <1>3, <1>5, <1>6, <1>7, <1>8, <1>9, StartLemma

LEMMA StartPostedInv ==
  ASSUME IInv, StartPosted
  PROVE  IInv'
<1>1. /\ StartNext(queue) /\ startPosted' = FALSE
      /\ UNCHANGED <<timer, recent, shuttingDown, quit, asked, submitted>>
      /\ UNCHANGED <<cancelled, stopping, stdin, stdout, verdict>>
      /\ UNCHANGED <<descendants, code>>
  BY Zenon DEF StartPosted, flags, output
<1>2. startPosted' \in BOOLEAN
  BY <1>1, Zenon
<1>3. /\ queue \in Seq(Jobs) /\ submitted' \subseteq Jobs
      /\ shuttingDown => queue = <<>>
      /\ \A i \in DOMAIN queue :
           queue[i] \in submitted' /\ place[queue[i]] = "unborn"
      /\ \A i, k \in DOMAIN queue : queue[i] = queue[k] => i = k
      /\ \A j \in Jobs \ submitted' : place[j] = "unborn"
  BY <1>1 DEF IInv, TypeOK, ManagerTypeOK, Consistent, NotBegun
<1>4. QED
  BY <1>1, <1>2, <1>3, StartLemma

-----------------------------------------------------------------------------
(* The active job's process.                                               *)

\* SIGTERM leaves a worker as it is or dead; only workers are cancelled.
LEMMA TerminateLemma ==
  ASSUME IInv, NEW j \in Jobs, Terminate(j)
  PROVE  /\ place' = place \/ place' = [place EXCEPT ![j] = "dead"]
         /\ place[j] # "unborn"
         /\ place[j] = "dead" => place' = place
         /\ cancelled' \subseteq Jobs
BY Zenon DEF Terminate, IInv, TypeOK, WorkerTypeOK

\* A worker that begun may die at any time: everything that speaks of what
\* workers are, rather than of what they wrote or started, survives it.
LEMMA DeathLemma ==
  ASSUME IInv, current # NoJob, place[current] # "unborn",
         place' = place \/ place' = [place EXCEPT ![current] = "dead"],
         UNCHANGED <<current, queue, submitted>>
  PROVE  /\ place' \in [Jobs -> Places]
         /\ NotBegun'
         /\ \A j \in Jobs : place'[j] \in Early \cup {"running"}
                              => place'[j] = place[j]
         /\ place'[current] # "unborn"
         /\ \A j \in Jobs \ {current} : place'[j] = place[j]
         /\ place[current] = "dead" => place'[current] = "dead"
<1>1. current \in Jobs /\ place \in [Jobs -> Places]
  BY DEF IInv, TypeOK, ManagerTypeOK, WorkerTypeOK
<1>2. /\ place' \in [Jobs -> Places]
      /\ \A j \in Jobs : place'[j] \in Early \cup {"running"}
                           => place'[j] = place[j]
      /\ place'[current] # "unborn"
      /\ \A j \in Jobs \ {current} : place'[j] = place[j]
      /\ place[current] = "dead" => place'[current] = "dead"
  BY <1>1 DEF Early, Places
<1>3. NotBegun'
  <2>1. \A j \in Jobs : place[j] = "unborn" => place'[j] = "unborn"
    BY <1>2
  <2>2. \A i \in DOMAIN queue : queue[i] \in Jobs
    BY DEF IInv, TypeOK, ManagerTypeOK
  <2>3. QED
    BY <2>1, <2>2 DEF IInv, NotBegun
<1>4. QED
  BY <1>2, <1>3

LEMMA CancelInv ==
  ASSUME IInv, Cancel
  PROVE  IInv'
<1> USE JobQueueAssumption
<1>1. /\ current # NoJob /\ timer' = current /\ asked' = asked \cup {current}
      /\ phase' = IF sawTerminal THEN phase ELSE "Cancelling"
      /\ Terminate(current)
      /\ UNCHANGED <<queue, current, sawTerminal, stopRequested, group>>
      /\ UNCHANGED <<process, startPosted, recent, shuttingDown, quit>>
      /\ UNCHANGED <<submitted, stopping, stdin, stdout, verdict>>
      /\ UNCHANGED <<descendants, code>>
  BY Zenon DEF Cancel, CancelProcess, output
<1>2. current \in Jobs
  BY <1>1 DEF IInv, TypeOK, ManagerTypeOK
<1>3. /\ place' = place \/ place' = [place EXCEPT ![current] = "dead"]
      /\ place[current] # "unborn"
      /\ cancelled' \subseteq Jobs
  BY <1>1, <1>2, TerminateLemma
<1>4. /\ place' \in [Jobs -> Places]
      /\ NotBegun'
      /\ \A j \in Jobs : place'[j] \in Early \cup {"running"}
                           => place'[j] = place[j]
      /\ place'[current] # "unborn"
      /\ \A j \in Jobs \ {current} : place'[j] = place[j]
      /\ place[current] = "dead" => place'[current] = "dead"
  BY <1>1, <1>3, DeathLemma
<1>5. SwitchesTypeOK'
  BY <1>1, Zenon DEF IInv, TypeOK, SwitchesTypeOK
<1>6. ManagerTypeOK' /\ WorkerTypeOK'
  BY <1>1, <1>2, <1>3, <1>4 DEF IInv, TypeOK, ManagerTypeOK, WorkerTypeOK, Phases
<1>7. Consistent'
  BY <1>1, <1>4 DEF IInv, Consistent
<1>8. SilentAtFirst'
  BY <1>1, <1>2, <1>4 DEF IInv, SilentAtFirst
<1>9. GroupIsKnown'
  BY <1>1, <1>2, <1>4 DEF IInv, GroupIsKnown
<1>10. OneJobAtATime' /\ TimerIsTheActiveJobs' /\ QueueIsServed'
  BY <1>1, <1>2, <1>4 DEF IInv, OneJobAtATime, Alive, TimerIsTheActiveJobs,
     QueueIsServed
<1>11. QED
  BY <1>4, <1>5, <1>6, <1>7, <1>8, <1>9, <1>10 DEF IInv, TypeOK

LEMMA ShutdownInv ==
  ASSUME IInv, Shutdown
  PROVE  IInv'
<1> USE JobQueueAssumption
<1>1. /\ shuttingDown' = TRUE /\ queue' = <<>>
      /\ UNCHANGED <<current, sawTerminal, stopRequested, group>>
      /\ UNCHANGED <<process, startPosted, recent, quit>>
      /\ UNCHANGED <<submitted, stopping, stdin, stdout, verdict>>
      /\ UNCHANGED <<descendants, code>>
  BY Zenon DEF Shutdown, output
<1>2. SwitchesTypeOK' /\ QueueIsServed'
  BY <1>1, Zenon DEF IInv, TypeOK, SwitchesTypeOK, QueueIsServed
<1>3. CASE current # NoJob
  <2>1. /\ timer' = current /\ asked' = asked \cup {current}
        /\ phase' = IF sawTerminal THEN phase ELSE "Cancelling"
        /\ Terminate(current)
    BY <1>3, Zenon DEF Shutdown, CancelProcess
  <2>2. current \in Jobs
    BY <1>3 DEF IInv, TypeOK, ManagerTypeOK
  <2>3. /\ place' = place \/ place' = [place EXCEPT ![current] = "dead"]
        /\ place[current] # "unborn"
        /\ cancelled' \subseteq Jobs
    BY <2>1, <2>2, TerminateLemma
  <2>4. place \in [Jobs -> Places]
    BY DEF IInv, TypeOK, WorkerTypeOK
  <2>5. /\ place' \in [Jobs -> Places]
        /\ \A j \in Jobs : place'[j] \in Early \cup {"running"}
                             => place'[j] = place[j]
        /\ place'[current] # "unborn"
        /\ \A j \in Jobs \ {current} : place'[j] = place[j]
        /\ place[current] = "dead" => place'[current] = "dead"
    BY <2>2, <2>3, <2>4 DEF Early, Places
  <2>6. ManagerTypeOK' /\ WorkerTypeOK'
    BY <1>1, <2>1, <2>2, <2>3, <2>5
       DEF IInv, TypeOK, ManagerTypeOK, WorkerTypeOK, Phases
  <2>7. NotBegun'
    BY <1>1, <2>2, <2>3, <2>5 DEF IInv, NotBegun
  <2>8. Consistent'
    BY <1>1, <2>1, <2>5 DEF IInv, Consistent
  <2>9. SilentAtFirst' /\ GroupIsKnown'
    BY <1>1, <2>2, <2>5 DEF IInv, SilentAtFirst, GroupIsKnown
  <2>10. OneJobAtATime' /\ TimerIsTheActiveJobs'
    BY <1>1, <2>1, <2>2, <2>5 DEF IInv, OneJobAtATime, Alive,
       TimerIsTheActiveJobs
  <2>11. QED
    BY <1>2, <2>6, <2>7, <2>8, <2>9, <2>10 DEF IInv, TypeOK
<1>4. CASE current = NoJob
  <2>1. UNCHANGED <<phase, place, cancelled, timer, asked>>
    BY <1>4, Zenon DEF Shutdown
  <2>2. ManagerTypeOK' /\ WorkerTypeOK'
    BY <1>1, <2>1 DEF IInv, TypeOK, ManagerTypeOK, WorkerTypeOK
  <2>3. /\ Consistent' /\ NotBegun' /\ SilentAtFirst' /\ GroupIsKnown'
        /\ OneJobAtATime' /\ TimerIsTheActiveJobs'
    BY <1>1, <2>1 DEF IInv, Consistent, NotBegun, SilentAtFirst, GroupIsKnown,
       OneJobAtATime, Alive, TimerIsTheActiveJobs
  <2>4. QED
    BY <1>2, <2>2, <2>3 DEF IInv, TypeOK
<1>5. QED
  BY <1>3, <1>4

\* Killing a group ends nobody at once.
LEMMA KillGroupLemma ==
  ASSUME IInv, NEW j \in Jobs
  PROVE  /\ KillGroup(j) \in [Jobs -> {"none", "live", "killed"}]
         /\ \A k \in Jobs :
              KillGroup(j)[k] = "none" <=> descendants[k] = "none"
<1>1. descendants \in [Jobs -> {"none", "live", "killed"}]
  BY DEF IInv, TypeOK, WorkerTypeOK
<1>2. \/ KillGroup(j) = [descendants EXCEPT ![j] = "killed"]
         /\ descendants[j] = "live"
      \/ KillGroup(j) = [descendants EXCEPT ![j] = descendants[j]]
  BY Zenon DEF KillGroup
<1>3. QED
  BY <1>1, <1>2

LEMMA KillInv ==
  ASSUME IInv, KillIfRunning
  PROVE  IInv'
<1> USE JobQueueAssumption
<1>1. /\ timer # NoJob /\ timer' = NoJob
      /\ UNCHANGED <<queue, current, phase, sawTerminal, stopRequested, group>>
      /\ UNCHANGED <<process, startPosted, recent, shuttingDown, quit>>
      /\ UNCHANGED <<submitted, asked, cancelled, stopping, stdin>>
      /\ UNCHANGED <<stdout, verdict>>
  BY Zenon DEF KillIfRunning, flags, output
<1>2. timer = current /\ current # NoJob /\ current \in Jobs
  BY <1>1 DEF IInv, TypeOK, ManagerTypeOK, TimerIsTheActiveJobs
<1>3. /\ \/ place' = place /\ descendants' = descendants /\ code' = code
         \/ /\ place' = [place EXCEPT ![current] = "dead"]
            /\ descendants' = KillGroup(current)
            /\ code' = [code EXCEPT ![current] =
                          IF place[current] = "dead" THEN @ ELSE -1]
  BY <1>2, Zenon DEF KillIfRunning
<1>4. /\ descendants' \in [Jobs -> {"none", "live", "killed"}]
      /\ \A j \in Jobs : descendants'[j] = "none" <=> descendants[j] = "none"
      /\ code' \in [Jobs -> -1..2]
  <2>1. /\ descendants \in [Jobs -> {"none", "live", "killed"}]
        /\ code \in [Jobs -> -1..2] /\ -1 \in -1..2
    BY DEF IInv, TypeOK, WorkerTypeOK
  <2>2. descendants' = descendants \/ descendants' = KillGroup(current)
    BY <1>3, Zenon
  <2>3. \/ code' = code \/ code' = [code EXCEPT ![current] = -1]
        \/ code' = [code EXCEPT ![current] = code[current]]
    BY <1>3
  <2>4. code' \in [Jobs -> -1..2]
    BY <1>2, <2>1, <2>3
  <2>5. QED
    BY <1>2, <2>1, <2>2, <2>4, KillGroupLemma, Zenon
<1>5. /\ place' \in [Jobs -> Places]
      /\ NotBegun'
      /\ \A j \in Jobs : place'[j] \in Early \cup {"running"}
                           => place'[j] = place[j]
      /\ place'[current] # "unborn"
      /\ \A j \in Jobs \ {current} : place'[j] = place[j]
      /\ place[current] = "dead" => place'[current] = "dead"
  BY <1>1, <1>2, <1>3, DeathLemma DEF IInv, Consistent
<1>6. SwitchesTypeOK'
  BY <1>1, Zenon DEF IInv, TypeOK, SwitchesTypeOK
<1>7. ManagerTypeOK' /\ WorkerTypeOK'
  BY <1>1, <1>4, <1>5 DEF IInv, TypeOK, ManagerTypeOK, WorkerTypeOK
<1>8. Consistent'
  BY <1>1, <1>2, <1>5 DEF IInv, Consistent
<1>9. SilentAtFirst' /\ GroupIsKnown'
  BY <1>1, <1>2, <1>4, <1>5 DEF IInv, SilentAtFirst, GroupIsKnown
<1>10. OneJobAtATime' /\ TimerIsTheActiveJobs' /\ QueueIsServed'
  BY <1>1, <1>2, <1>4, <1>5 DEF IInv, OneJobAtATime, Alive,
     TimerIsTheActiveJobs, QueueIsServed
<1>11. QED
  BY <1>5, <1>6, <1>7, <1>8, <1>9, <1>10 DEF IInv, TypeOK

\* Closing kills the active process.
LEMMA CloseInv ==
  ASSUME IInv, Close
  PROVE  IInv'
<1> USE JobQueueAssumption
<1>1. /\ quit' = TRUE
      /\ place' = [j \in Jobs |-> IF j = current THEN "dead" ELSE place[j]]
      /\ UNCHANGED <<queue, current, phase, sawTerminal, stopRequested, group>>
      /\ UNCHANGED <<process, timer, startPosted, recent, shuttingDown>>
      /\ UNCHANGED <<submitted, asked, cancelled, stopping, stdin>>
      /\ UNCHANGED <<stdout, verdict, descendants, code>>
  BY Zenon DEF Close, flags, output
<1>2. SwitchesTypeOK'
  BY <1>1, Zenon DEF IInv, TypeOK, SwitchesTypeOK
<1>3. CASE current # NoJob
  <2>1. current \in Jobs
    BY <1>3 DEF IInv, TypeOK, ManagerTypeOK
  <2>2. place' = [place EXCEPT ![current] = "dead"]
    BY <1>1, <2>1 DEF IInv, TypeOK, WorkerTypeOK
  <2>3. /\ place' \in [Jobs -> Places]
        /\ NotBegun'
        /\ \A j \in Jobs : place'[j] \in Early \cup {"running"}
                             => place'[j] = place[j]
        /\ place'[current] # "unborn"
        /\ \A j \in Jobs \ {current} : place'[j] = place[j]
        /\ place[current] = "dead" => place'[current] = "dead"
    BY <1>1, <1>3, <2>2, DeathLemma DEF IInv, Consistent
  <2>4. ManagerTypeOK' /\ WorkerTypeOK'
    BY <1>1, <2>3 DEF IInv, TypeOK, ManagerTypeOK, WorkerTypeOK
  <2>5. Consistent' /\ SilentAtFirst' /\ GroupIsKnown'
    BY <1>1, <2>1, <2>3 DEF IInv, Consistent, SilentAtFirst, GroupIsKnown
  <2>6. OneJobAtATime' /\ TimerIsTheActiveJobs' /\ QueueIsServed'
    BY <1>1, <2>1, <2>3 DEF IInv, OneJobAtATime, Alive, TimerIsTheActiveJobs,
       QueueIsServed
  <2>7. QED
    BY <1>2, <2>3, <2>4, <2>5, <2>6 DEF IInv, TypeOK
<1>4. CASE current = NoJob
  <2>1. place' = place
    BY <1>1, <1>4 DEF IInv, TypeOK, WorkerTypeOK
  <2>2. ManagerTypeOK' /\ WorkerTypeOK'
    BY <1>1, <2>1 DEF IInv, TypeOK, ManagerTypeOK, WorkerTypeOK
  <2>3. /\ Consistent' /\ NotBegun' /\ SilentAtFirst' /\ GroupIsKnown'
        /\ OneJobAtATime' /\ TimerIsTheActiveJobs' /\ QueueIsServed'
    BY <1>1, <2>1 DEF IInv, Consistent, NotBegun, SilentAtFirst, GroupIsKnown,
       OneJobAtATime, Alive, TimerIsTheActiveJobs, QueueIsServed
  <2>4. QED
    BY <1>2, <2>2, <2>3 DEF IInv, TypeOK
<1>5. QED
  BY <1>3, <1>4

-----------------------------------------------------------------------------
(* What the manager reads and writes.                                      *)

LEMMA HandleLemma ==
  ASSUME IInv, NEW e \in Reports, Handle(e), e # "invalid" \/ sawTerminal
  PROVE  /\ sawTerminal' \in BOOLEAN /\ group' \in BOOLEAN
         /\ phase' \in Phases /\ (sawTerminal' => phase' \in Outcomes)
         /\ group => group'
         /\ sawTerminal' => sawTerminal \/ e \in Terminal
         /\ e = "started" => sawTerminal \/ group'
<1>1. /\ sawTerminal' \in BOOLEAN /\ group' \in BOOLEAN
      /\ group => group'
      /\ sawTerminal' => sawTerminal \/ e \in Terminal
      /\ e = "started" => sawTerminal \/ group'
      /\ sawTerminal => sawTerminal'
      /\ phase' = IF sawTerminal THEN phase ELSE PhaseOf(e)
  BY Zenon DEF Handle
<1>2. phase \in Phases /\ (sawTerminal => phase \in Outcomes)
  BY DEF IInv, TypeOK, ManagerTypeOK, Consistent
<1>3. CASE sawTerminal
  BY <1>1, <1>2, <1>3 DEF Phases
<1>4. CASE ~sawTerminal
  <2>1. phase' = PhaseOf(e) /\ e # "invalid"
    BY <1>1, <1>4
  <2>2. phase' \in Phases /\ (e \in Terminal => phase' \in Outcomes)
    BY <2>1 DEF PhaseOf, Reports, Terminal, Phases, Outcomes
  <2>3. QED
    BY <1>1, <1>4, <2>2
<1>5. QED
  BY <1>3, <1>4

LEMMA ReadStdoutInv ==
  ASSUME IInv, ReadStdout
  PROVE  IInv'
<1> USE JobQueueAssumption
<1>1. /\ current # NoJob /\ process = "Running" /\ stdout[current] # <<>>
      /\ stdout' = [stdout EXCEPT ![current] = Tail(@)]
      /\ UNCHANGED <<queue, current, stopRequested, process, startPosted>>
      /\ UNCHANGED <<recent, shuttingDown, quit, submitted, stopping, stdin>>
      /\ UNCHANGED <<descendants, code, verdict>>
  BY Zenon DEF ReadStdout
<1>2. /\ current \in Jobs /\ stdout \in [Jobs -> Seq(Reports)]
      /\ NextReport \in Reports /\ stdout' \in [Jobs -> Seq(Reports)]
      /\ \A j \in Jobs \ {current} : stdout'[j] = stdout[j]
  BY <1>1 DEF IInv, TypeOK, ManagerTypeOK, WorkerTypeOK, NextReport
<1>3. PICK e \in Reports :
        /\ Handle(e) /\ (e # "invalid" \/ sawTerminal)
        /\ NextReport = "started" => e = "started"
        /\ NextReport # "started" => e # "started"
        /\ \/ UNCHANGED <<place, cancelled, timer, asked>>
           \/ ~sawTerminal /\ CancelProcess
  <2>1. CASE (NextReport # "invalid" \/ sawTerminal) /\ Handle(NextReport)
             /\ UNCHANGED <<place, cancelled, timer, asked>>
    BY <1>2, <2>1
  <2>2. CASE /\ NextReport = "invalid" /\ ~sawTerminal
             /\ Handle("failed") /\ CancelProcess
    BY <2>2 DEF Reports, Terminal
  <2>3. QED
    BY <2>1, <2>2, Zenon DEF ReadStdout
<1>4. /\ sawTerminal' \in BOOLEAN /\ group' \in BOOLEAN
      /\ phase' \in Phases /\ (sawTerminal' => phase' \in Outcomes)
      /\ group => group'
      /\ sawTerminal' => sawTerminal \/ e \in Terminal
      /\ e = "started" => sawTerminal \/ group'
  BY <1>3, HandleLemma
<1>5. /\ place' = place \/ place' = [place EXCEPT ![current] = "dead"]
      /\ place[current] # "unborn"
      /\ cancelled' \subseteq Jobs
      /\ asked' \subseteq Jobs
      /\ timer' = timer \/ timer' = current
  <2>1. CASE UNCHANGED <<place, cancelled, timer, asked>>
    BY <1>1, <2>1 DEF IInv, Consistent, TypeOK, ManagerTypeOK, WorkerTypeOK
  <2>2. CASE CancelProcess
    BY <1>2, <2>2, TerminateLemma
       DEF CancelProcess, IInv, TypeOK, ManagerTypeOK
  <2>3. QED
    BY <1>3, <2>1, <2>2
<1>6. /\ place' \in [Jobs -> Places]
      /\ NotBegun'
      /\ \A j \in Jobs : place'[j] \in Early \cup {"running"}
                           => place'[j] = place[j]
      /\ place'[current] # "unborn"
      /\ \A j \in Jobs \ {current} : place'[j] = place[j]
  BY <1>1, <1>5, DeathLemma
<1>7. SwitchesTypeOK'
  BY <1>1, <1>4, Zenon DEF IInv, TypeOK, SwitchesTypeOK
<1>8. ManagerTypeOK' /\ WorkerTypeOK'
  BY <1>1, <1>2, <1>4, <1>5, <1>6 DEF IInv, TypeOK, ManagerTypeOK, WorkerTypeOK
<1>9. Consistent'
  BY <1>1, <1>4, <1>6 DEF IInv, Consistent
<1>10. SilentAtFirst'
  <2>1. place[current] \notin Early
    BY <1>1, <1>2 DEF IInv, SilentAtFirst
  <2>2. place'[current] \notin Early
    BY <1>2, <1>6, <2>1
  <2>3. QED
    BY <1>1, <1>2, <1>6, <2>2 DEF IInv, SilentAtFirst
<1>11. GroupIsKnown'
  <2> SUFFICES ASSUME place'[current] = "running" \/ descendants[current] # "none"
               PROVE  group'
    BY <1>1 DEF GroupIsKnown
  <2>1. \/ group
        \/ ~sawTerminal /\ Head(stdout[current]) = "started"
    BY <1>1, <1>2, <1>6 DEF IInv, GroupIsKnown
  <2>2. CASE group
    BY <1>4, <2>2
  <2>3. CASE ~sawTerminal /\ Head(stdout[current]) = "started"
    BY <1>3, <1>4, <2>3 DEF NextReport
  <2>4. QED
    BY <2>1, <2>2, <2>3
<1>12. OneJobAtATime' /\ TimerIsTheActiveJobs' /\ QueueIsServed'
  BY <1>1, <1>2, <1>5, <1>6 DEF IInv, OneJobAtATime, Alive,
     TimerIsTheActiveJobs, QueueIsServed
<1>13. QED
  BY <1>6, <1>7, <1>8, <1>9, <1>10, <1>11, <1>12 DEF IInv, TypeOK

\* What the manager writes disturbs nothing that the invariant speaks of.
LEMMA WriteInv ==
  ASSUME IInv, SendRequest \/ StopAfterGeneration
  PROVE  IInv'
<1> USE JobQueueAssumption
<1>1. /\ current # NoJob
      /\ \/ process = "Starting" /\ process' = "Running"
            /\ stopRequested' = stopRequested
         \/ process' = process /\ stopRequested' = TRUE
      /\ \E line \in {"request", "stop"} :
           stdin' = [stdin EXCEPT ![current] = Append(@, line)]
      /\ UNCHANGED <<queue, current, phase, sawTerminal, group, timer>>
      /\ UNCHANGED <<startPosted, recent, shuttingDown, quit, submitted>>
      /\ UNCHANGED <<asked, place, cancelled, stopping, stdout, verdict>>
      /\ UNCHANGED <<descendants, code>>
  <2>1. CASE SendRequest
    BY <2>1, Zenon DEF SendRequest, flags, output
  <2>2. CASE StopAfterGeneration
    <3>1. current # NoJob
      BY <2>2 DEF StopAfterGeneration
    <3>2. QED
      BY <2>2, <3>1, Zenon DEF StopAfterGeneration, flags, output
  <2>3. QED
    BY <2>1, <2>2
<1>2. current \in Jobs /\ stdin' \in [Jobs -> Seq({"request", "stop"})]
  BY <1>1 DEF IInv, TypeOK, ManagerTypeOK, WorkerTypeOK
<1>3. SwitchesTypeOK'
  BY <1>1, Zenon DEF IInv, TypeOK, SwitchesTypeOK
<1>4. ManagerTypeOK' /\ WorkerTypeOK'
  BY <1>1, <1>2 DEF IInv, TypeOK, ManagerTypeOK, WorkerTypeOK
<1>5. /\ Consistent' /\ NotBegun' /\ SilentAtFirst' /\ GroupIsKnown'
      /\ OneJobAtATime' /\ TimerIsTheActiveJobs' /\ QueueIsServed'
  BY <1>1 DEF IInv, Consistent, NotBegun, SilentAtFirst, GroupIsKnown,
     OneJobAtATime, Alive, TimerIsTheActiveJobs, QueueIsServed
<1>6. QED
  BY <1>3, <1>4, <1>5 DEF IInv, TypeOK

-----------------------------------------------------------------------------
(* The end of a job.                                                       *)

\* A prefix of a sequence is one of its type, and as long as asked for.
LEMMA PrefixLemma ==
  ASSUME NEW S, NEW s \in Seq(S), NEW n \in Nat, n <= Len(s)
  PROVE  SubSeq(s, 1, n) \in Seq(S) /\ Len(SubSeq(s, 1, n)) = n
<1>1. \A i \in 1..n : s[i] \in S
  OBVIOUS
<1>2. QED
  BY <1>1

LEMMA RecordLemma ==
  ASSUME IInv, current # NoJob, NEW t \in BOOLEAN, NEW p,
         t => p \in Outcomes, Record(t, p)
  PROVE  /\ recent' \in Seq([job : Jobs, status : Outcomes])
         /\ Len(recent') <= RecentLimit
         /\ phase' \in Outcomes /\ phase' \in Phases
         /\ group' = FALSE /\ startPosted' = TRUE
         /\ current' = NoJob /\ process' = "None"
         /\ stdin' \in [Jobs -> Seq({"request", "stop"})]
         /\ cancelled' \subseteq Jobs /\ stopping' \subseteq Jobs
<1> USE JobQueueAssumption
<1> DEFINE status == Status(t, p)
           entry  == [job |-> current, status |-> status]
           all    == <<entry>> \o recent
           n      == IF Len(all) > RecentLimit THEN RecentLimit ELSE Len(all)
<1>1. /\ recent' = SubSeq(all, 1, n) /\ phase' = status
      /\ group' = FALSE /\ startPosted' = TRUE
      /\ current' = NoJob /\ process' = "None"
      /\ stdin' = [stdin EXCEPT ![current] = <<>>]
      /\ cancelled' = cancelled \ {current}
      /\ stopping' = stopping \ {current}
  BY Zenon DEF Record, Recent
<1>2. status \in Outcomes
  <2>1. status = "Failed" \/ (t /\ status = p)
    BY Zenon DEF Status
  <2>2. QED
    BY <2>1 DEF Outcomes
<1>3. current \in Jobs /\ recent \in Seq([job : Jobs, status : Outcomes])
  BY DEF IInv, TypeOK, ManagerTypeOK
<1>4. entry \in [job : Jobs, status : Outcomes]
  BY <1>2, <1>3
<1>5. all \in Seq([job : Jobs, status : Outcomes])
  <2> HIDE DEF entry
  <2>1. QED
    BY <1>3, <1>4
<1>6. n \in Nat /\ n <= Len(all) /\ n <= RecentLimit
  <2> HIDE DEF all
  <2>1. Len(all) \in Nat
    BY <1>5
  <2>2. QED
    BY <2>1
<1>7. /\ SubSeq(all, 1, n) \in Seq([job : Jobs, status : Outcomes])
      /\ Len(SubSeq(all, 1, n)) = n
  <2> HIDE DEF all, n
  <2>1. QED
    BY <1>5, <1>6, PrefixLemma
<1>8. /\ stdin' \in [Jobs -> Seq({"request", "stop"})]
      /\ cancelled' \subseteq Jobs /\ stopping' \subseteq Jobs
  <2> HIDE DEF status, entry, all, n
  <2>1. /\ stdin \in [Jobs -> Seq({"request", "stop"})]
        /\ <<>> \in Seq({"request", "stop"})
        /\ cancelled \subseteq Jobs /\ stopping \subseteq Jobs
    BY DEF IInv, TypeOK, WorkerTypeOK
  <2>2. QED
    BY <1>1, <2>1
<1>9. status \in Phases
  BY <1>2 DEF Phases
<1>10. QED
  <2> HIDE DEF status, all, n
  <2>1. QED
    BY <1>1, <1>2, <1>6, <1>7, <1>8, <1>9

\* Nobody is left when a job is recorded: a worker that started descendants
\* said so, and they were awaited.
LEMMA FinishedInv ==
  ASSUME IInv, Finished
  PROVE  IInv'
<1> USE JobQueueAssumption
<1>1. /\ current # NoJob /\ timer' = NoJob
      /\ \/ process = "Running" /\ place[current] = "dead"
            /\ stdout[current] = <<>>
         \/ process = "NotRunning"
      /\ descendants' = KillGroup(current)
      /\ UNCHANGED <<queue, sawTerminal, stopRequested, shuttingDown, quit>>
      /\ UNCHANGED <<submitted, asked, place, stdout, code, verdict>>
  BY Zenon DEF Finished
<1>2. /\ current \in Jobs /\ place[current] = "dead" /\ stdout[current] = <<>>
      /\ place \in [Jobs -> Places]
  BY <1>1 DEF IInv, TypeOK, ManagerTypeOK, WorkerTypeOK, Consistent
<1>3. /\ descendants' \in [Jobs -> {"none", "live", "killed"}]
      /\ \A j \in Jobs : descendants'[j] = "none" <=> descendants[j] = "none"
  BY <1>1, <1>2, KillGroupLemma
<1>4. CASE group /\ descendants[current] # "none"
  <2>1. /\ process' = "NotRunning"
        /\ UNCHANGED <<current, phase, group, startPosted, recent, stdin>>
        /\ UNCHANGED <<cancelled, stopping>>
    BY <1>4, Zenon DEF Finished, flags
  <2>2. SwitchesTypeOK'
    BY <1>1, <2>1, Zenon DEF IInv, TypeOK, SwitchesTypeOK
  <2>3. ManagerTypeOK' /\ WorkerTypeOK'
    BY <1>1, <1>3, <2>1 DEF IInv, TypeOK, ManagerTypeOK, WorkerTypeOK
  <2>4. Consistent' /\ NotBegun' /\ SilentAtFirst' /\ GroupIsKnown'
    BY <1>1, <1>2, <1>3, <2>1
       DEF IInv, Consistent, NotBegun, SilentAtFirst, GroupIsKnown, Early
  <2>5. OneJobAtATime' /\ TimerIsTheActiveJobs' /\ QueueIsServed'
    BY <1>1, <1>3, <2>1 DEF IInv, OneJobAtATime, Alive, TimerIsTheActiveJobs,
       QueueIsServed
  <2>6. QED
    BY <2>2, <2>3, <2>4, <2>5 DEF IInv, TypeOK
<1>5. CASE ~(group /\ descendants[current] # "none")
  <2>1. Record(sawTerminal, phase)
    BY <1>5, Zenon DEF Finished
  <2>2. /\ recent' \in Seq([job : Jobs, status : Outcomes])
        /\ Len(recent') <= RecentLimit
        /\ phase' \in Outcomes /\ phase' \in Phases
        /\ group' = FALSE /\ startPosted' = TRUE
        /\ current' = NoJob /\ process' = "None"
        /\ stdin' \in [Jobs -> Seq({"request", "stop"})]
        /\ cancelled' \subseteq Jobs /\ stopping' \subseteq Jobs
    <3>1. sawTerminal \in BOOLEAN /\ (sawTerminal => phase \in Outcomes)
      BY Zenon DEF IInv, TypeOK, SwitchesTypeOK, Consistent
    <3>2. QED
      BY <1>1, <2>1, <3>1, RecordLemma
  <2>3. descendants[current] = "none"
    BY <1>1, <1>2, <1>5 DEF IInv, GroupIsKnown
  <2>4. SwitchesTypeOK'
    BY <1>1, <2>2, Zenon DEF IInv, TypeOK, SwitchesTypeOK
  <2>5. ManagerTypeOK' /\ WorkerTypeOK'
    BY <1>1, <1>3, <2>2 DEF IInv, TypeOK, ManagerTypeOK, WorkerTypeOK
  <2>6. Consistent' /\ NotBegun' /\ SilentAtFirst' /\ GroupIsKnown'
    BY <1>1, <1>3, <2>2
       DEF IInv, Consistent, NotBegun, SilentAtFirst, GroupIsKnown
  <2>7. OneJobAtATime'
    BY <1>1, <1>2, <1>3, <2>2, <2>3 DEF IInv, OneJobAtATime, Alive
  <2>8. TimerIsTheActiveJobs' /\ QueueIsServed'
    BY <1>1, <2>2, Zenon DEF TimerIsTheActiveJobs, QueueIsServed
  <2>9. QED
    BY <2>4, <2>5, <2>6, <2>7, <2>8 DEF IInv, TypeOK
<1>6. QED
  BY <1>4, <1>5

LEMMA FailedToStartInv ==
  ASSUME IInv, FailedToStart
  PROVE  IInv'
<1> USE JobQueueAssumption
<1>1. /\ current # NoJob /\ place[current] = "forked"
      /\ place' = [place EXCEPT ![current] = "dead"]
      /\ sawTerminal' = TRUE /\ timer' = NoJob /\ Record(TRUE, "Failed")
      /\ UNCHANGED <<queue, stopRequested, shuttingDown, quit, submitted>>
      /\ UNCHANGED <<asked, stdout, verdict, descendants, code>>
  BY Zenon DEF FailedToStart
<1>2. /\ current \in Jobs /\ place \in [Jobs -> Places]
      /\ descendants[current] = "none"
  BY <1>1 DEF IInv, TypeOK, ManagerTypeOK, WorkerTypeOK, SilentAtFirst, Early
<1>3. /\ recent' \in Seq([job : Jobs, status : Outcomes])
      /\ Len(recent') <= RecentLimit
      /\ phase' \in Outcomes /\ phase' \in Phases
      /\ group' = FALSE /\ startPosted' = TRUE
      /\ current' = NoJob /\ process' = "None"
      /\ stdin' \in [Jobs -> Seq({"request", "stop"})]
      /\ cancelled' \subseteq Jobs /\ stopping' \subseteq Jobs
  <2>1. "Failed" \in Outcomes
    BY DEF Outcomes
  <2>2. QED
    BY <1>1, <2>1, RecordLemma
<1>4. /\ place' \in [Jobs -> Places] /\ place'[current] = "dead"
      /\ \A j \in Jobs \ {current} : place'[j] = place[j]
  BY <1>1, <1>2 DEF Places
<1>5. SwitchesTypeOK'
  BY <1>1, <1>3, Zenon DEF IInv, TypeOK, SwitchesTypeOK
<1>6. ManagerTypeOK' /\ WorkerTypeOK'
  BY <1>1, <1>3, <1>4 DEF IInv, TypeOK, ManagerTypeOK, WorkerTypeOK
<1>7. NotBegun'
  <2>1. \A j \in Jobs : place[j] = "unborn" => place'[j] = "unborn"
    BY <1>1, <1>4
  <2>2. \A i \in DOMAIN queue : queue[i] \in Jobs
    BY DEF IInv, TypeOK, ManagerTypeOK
  <2>3. QED
    BY <1>1, <2>1, <2>2 DEF IInv, NotBegun
<1>8. Consistent' /\ SilentAtFirst' /\ GroupIsKnown'
  BY <1>1, <1>2, <1>3, <1>4
     DEF IInv, Consistent, SilentAtFirst, GroupIsKnown, Early
<1>9. OneJobAtATime'
  BY <1>1, <1>2, <1>3, <1>4 DEF IInv, OneJobAtATime, Alive
<1>10. TimerIsTheActiveJobs' /\ QueueIsServed'
  BY <1>1, <1>3, Zenon DEF TimerIsTheActiveJobs, QueueIsServed
<1>11. QED
  BY <1>5, <1>6, <1>7, <1>8, <1>9, <1>10 DEF IInv, TypeOK

-----------------------------------------------------------------------------
(* A worker.                                                               *)

\* Only the active job's worker is alive.
LEMMA AliveIsActive ==
  ASSUME IInv, NEW j \in Jobs, Alive(j) \/ descendants[j] # "none"
  PROVE  j = current /\ current # NoJob
BY JobQueueAssumption DEF IInv, OneJobAtATime

\* A worker goes on within its own process, or dies.
LEMMA MoveInv ==
  ASSUME IInv, NEW j \in Jobs,
         Exec(j) \/ InstallHandlers(j) \/ Exit(j) \/ Crash(j)
  PROVE  IInv'
<1> USE JobQueueAssumption
<1>1. PICK p \in Places :
        /\ place' = [place EXCEPT ![j] = p] /\ p \notin {"unborn", "running"}
        /\ p \in Early => place[j] \in Early
  BY Zenon DEF Exec, InstallHandlers, Exit, Crash, Places, Early
<1>2. /\ Alive(j) /\ (code' = code \/ code' = [code EXCEPT ![j] = -1])
      /\ UNCHANGED <<queue, current, phase, sawTerminal, stopRequested, group>>
      /\ UNCHANGED <<process, timer, startPosted, recent, shuttingDown, quit>>
      /\ UNCHANGED <<submitted, asked, cancelled, stopping, stdin>>
      /\ UNCHANGED <<stdout, verdict, descendants>>
  <2>1. Alive(j)
    BY DEF Exec, InstallHandlers, Exit, Crash, Alive
  <2>2. QED
    BY <2>1, Zenon DEF Exec, InstallHandlers, Exit, Crash, managerVars, flags,
       output
<1>3. j = current /\ current # NoJob
  BY <1>2, AliveIsActive
<1>4. /\ place' \in [Jobs -> Places] /\ place'[j] = p
      /\ \A k \in Jobs \ {j} : place'[k] = place[k]
      /\ code' \in [Jobs -> -1..2]
  <2>1. place \in [Jobs -> Places] /\ code \in [Jobs -> -1..2] /\ -1 \in -1..2
    BY DEF IInv, TypeOK, WorkerTypeOK
  <2>2. code' \in [Jobs -> -1..2]
    <3>1. CASE code' = code
      BY <2>1, <3>1
    <3>2. CASE code' = [code EXCEPT ![j] = -1]
      BY <2>1, <3>2
    <3>3. QED
      BY <1>2, <3>1, <3>2
  <2>3. QED
    BY <1>1, <2>1, <2>2
<1>5. SwitchesTypeOK'
  BY <1>2, Zenon DEF IInv, TypeOK, SwitchesTypeOK
<1>6. ManagerTypeOK' /\ WorkerTypeOK'
  BY <1>2, <1>4 DEF IInv, TypeOK, ManagerTypeOK, WorkerTypeOK
<1>7. NotBegun'
  <2>1. \A k \in Jobs : place[k] = "unborn" => place'[k] = "unborn"
    BY <1>2, <1>4 DEF Alive
  <2>2. \A i \in DOMAIN queue : queue[i] \in Jobs
    BY DEF IInv, TypeOK, ManagerTypeOK
  <2>3. QED
    BY <1>2, <2>1, <2>2 DEF IInv, NotBegun
<1>8. Consistent'
  BY <1>1, <1>2, <1>3, <1>4 DEF IInv, Consistent, Alive
<1>9. SilentAtFirst' /\ GroupIsKnown'
  BY <1>1, <1>2, <1>3, <1>4 DEF IInv, SilentAtFirst, GroupIsKnown
<1>10. OneJobAtATime' /\ TimerIsTheActiveJobs' /\ QueueIsServed'
  BY <1>2, <1>3, <1>4 DEF IInv, OneJobAtATime, Alive, TimerIsTheActiveJobs,
     QueueIsServed
<1>11. QED
  BY <1>5, <1>6, <1>7, <1>8, <1>9, <1>10 DEF IInv, TypeOK

LEMMA ReportLemma ==
  ASSUME IInv, NEW j \in Jobs, NEW e \in Reports, Report(j, e)
  PROVE  /\ stdout' \in [Jobs -> Seq(Reports)]
         /\ stdout'[j] = Append(stdout[j], e)
         /\ \A k \in Jobs \ {j} : stdout'[k] = stdout[k]
         /\ verdict' \in [Jobs -> Terminal \cup {"none", "invalid"}]
<1>1. /\ stdout \in [Jobs -> Seq(Reports)]
      /\ verdict \in [Jobs -> Terminal \cup {"none", "invalid"}]
  BY DEF IInv, TypeOK, WorkerTypeOK
<1>2. stdout' = [stdout EXCEPT ![j] = Append(@, e)]
  BY DEF Report
<1>3. \/ /\ e \in Terminal \cup {"invalid"}
         /\ verdict' = [verdict EXCEPT ![j] = e]
      \/ verdict' = [verdict EXCEPT ![j] = verdict[j]]
  BY Zenon DEF Report
<1>4. verdict' \in [Jobs -> Terminal \cup {"none", "invalid"}]
  <2> DEFINE V == Terminal \cup {"none", "invalid"}
  <2>1. /\ verdict \in [Jobs -> V]
        /\ \A v \in Terminal \cup {"invalid"} : v \in V
    BY <1>1
  <2> HIDE DEF V
  <2>2. \E v \in V : verdict' = [verdict EXCEPT ![j] = v]
    BY <1>3, <2>1
  <2>3. verdict' \in [Jobs -> V]
    BY <2>1, <2>2
  <2>4. QED
    BY <2>3 DEF V
<1>5. Append(stdout[j], e) \in Seq(Reports)
  BY <1>1
<1>6. /\ stdout' \in [Jobs -> Seq(Reports)]
      /\ stdout'[j] = Append(stdout[j], e)
      /\ \A k \in Jobs \ {j} : stdout'[k] = stdout[k]
  <2> DEFINE a == Append(stdout[j], e)
             S == Seq(Reports)
  <2>1. /\ stdout \in [Jobs -> S] /\ a \in S
        /\ stdout' = [stdout EXCEPT ![j] = a]
    BY <1>1, <1>2, <1>5
  <2> HIDE DEF a, S
  <2>2. /\ stdout' \in [Jobs -> S] /\ stdout'[j] = a
        /\ \A k \in Jobs \ {j} : stdout'[k] = stdout[k]
    BY <2>1
  <2>3. QED
    BY <2>2 DEF a, S
<1>7. QED
  BY <1>4, <1>6, Zenon

\* A worker reports: that it started, before it may have descendants, or
\* something after that, or that it will not run.
LEMMA ReportInv ==
  ASSUME IInv, NEW j \in Jobs, ReadRequest(j) \/ Progress(j) \/ EndRun(j)
  PROVE  IInv'
<1> USE JobQueueAssumption
<1>1. PICK e \in Reports, p \in Places :
        /\ Report(j, e) /\ place' = [place EXCEPT ![j] = p]
        /\ \/ place[j] = "ready" /\ e = "started" /\ p = "running"
           \/ place[j] \in {"ready", "running"} /\ p = "exiting"
           \/ place[j] = "running" /\ p = "running"
  <2>1. CASE ReadRequest(j)
    BY <2>1, Zenon DEF ReadRequest, End, Reports, Terminal, Places
  <2>2. CASE EndRun(j)
    BY <2>2, Zenon DEF EndRun, End, Reports, Terminal, Places
  <2>3. CASE Progress(j)
    <3>1. place' = [place EXCEPT ![j] = place[j]]
      BY <2>3 DEF Progress, IInv, TypeOK, WorkerTypeOK
    <3>2. QED
      BY <2>3, <3>1, Zenon DEF Progress, Reports, Places
  <2>4. QED
    BY <2>1, <2>2, <2>3
<1>2. /\ UNCHANGED <<queue, current, phase, sawTerminal, stopRequested, group>>
      /\ UNCHANGED <<process, timer, startPosted, recent, shuttingDown, quit>>
      /\ UNCHANGED <<submitted, asked, cancelled, stopping, descendants>>
  BY Zenon DEF ReadRequest, Progress, EndRun, managerVars, flags
<1>3. /\ stdin' = stdin \/ (stdin[j] # <<>> /\ stdin' = [stdin EXCEPT ![j] = Tail(@)])
      /\ code' = code \/ \E n \in 0..2 : code' = [code EXCEPT ![j] = n]
  <2>1. \A t \in Terminal : CodeOf(t) \in 0..2
    BY DEF CodeOf, Terminal
  <2>2. CASE ReadRequest(j)
    BY <2>1, <2>2, Zenon DEF ReadRequest, End, Terminal
  <2>3. CASE Progress(j)
    BY <2>3, Zenon DEF Progress
  <2>4. CASE EndRun(j)
    BY <2>1, <2>4, Zenon DEF EndRun, End, Terminal
  <2>5. QED
    BY <2>2, <2>3, <2>4
<1>4. j = current /\ current # NoJob
  BY <1>1, AliveIsActive DEF Alive
<1>5. /\ place \in [Jobs -> Places] /\ stdout \in [Jobs -> Seq(Reports)]
      /\ stdin \in [Jobs -> Seq({"request", "stop"})]
      /\ code \in [Jobs -> -1..2]
  BY DEF IInv, TypeOK, WorkerTypeOK
<1>6. /\ place' \in [Jobs -> Places] /\ place'[j] = p
      /\ \A k \in Jobs \ {j} : place'[k] = place[k]
  BY <1>1, <1>5
<1>7. /\ stdin' \in [Jobs -> Seq({"request", "stop"})]
      /\ code' \in [Jobs -> -1..2]
  <2>1. stdin' \in [Jobs -> Seq({"request", "stop"})]
    <3>1. CASE stdin' = stdin
      BY <1>5, <3>1
    <3>2. CASE stdin[j] # <<>> /\ stdin' = [stdin EXCEPT ![j] = Tail(@)]
      BY <1>5, <3>2
    <3>3. QED
      BY <1>3, <3>1, <3>2
  <2>2. code' \in [Jobs -> -1..2]
    <3>1. CASE code' = code
      BY <1>5, <3>1
    <3>2. ASSUME NEW n \in 0..2, code' = [code EXCEPT ![j] = n]
          PROVE  code' \in [Jobs -> -1..2]
      <4>1. n \in -1..2
        OBVIOUS
      <4>2. QED
        BY <1>5, <3>2, <4>1
    <3>3. QED
      BY <1>3, <3>1, <3>2
  <2>3. QED
    BY <2>1, <2>2
<1>8. /\ stdout' \in [Jobs -> Seq(Reports)]
      /\ stdout'[j] = Append(stdout[j], e)
      /\ \A k \in Jobs \ {j} : stdout'[k] = stdout[k]
      /\ verdict' \in [Jobs -> Terminal \cup {"none", "invalid"}]
  BY <1>1, ReportLemma
<1>9. SwitchesTypeOK'
  BY <1>2, Zenon DEF IInv, TypeOK, SwitchesTypeOK
<1>10. ManagerTypeOK' /\ WorkerTypeOK'
  BY <1>2, <1>6, <1>7, <1>8 DEF IInv, TypeOK, ManagerTypeOK, WorkerTypeOK
<1>11. NotBegun'
  <2>1. \A k \in Jobs : place[k] = "unborn" => place'[k] = "unborn"
    BY <1>1, <1>6
  <2>2. \A i \in DOMAIN queue : queue[i] \in Jobs
    BY DEF IInv, TypeOK, ManagerTypeOK
  <2>3. QED
    BY <1>2, <2>1, <2>2 DEF IInv, NotBegun
<1>12. Consistent'
  BY <1>1, <1>2, <1>4, <1>6 DEF IInv, Consistent
<1>13. SilentAtFirst'
  BY <1>1, <1>2, <1>4, <1>6, <1>8 DEF IInv, SilentAtFirst, Early
<1>14. GroupIsKnown'
  <2>1. CASE place[j] = "ready"
    <3>1. stdout[j] = <<>> /\ descendants[j] = "none" /\ ~sawTerminal
      BY <1>4, <2>1 DEF IInv, SilentAtFirst, Early
    <3>2. stdout'[j] = <<e>>
      BY <1>8, <3>1
    <3>3. QED
      BY <1>1, <1>2, <1>4, <1>6, <2>1, <3>1, <3>2 DEF GroupIsKnown
  <2>2. CASE place[j] = "running"
    <3>1. group \/ (~sawTerminal /\ stdout[j] # <<>> /\ Head(stdout[j]) = "started")
      BY <1>4, <2>2 DEF IInv, GroupIsKnown
    <3>2. stdout[j] # <<>> => /\ stdout'[j] # <<>>
                              /\ Head(stdout'[j]) = Head(stdout[j])
      BY <1>5, <1>8
    <3>3. QED
      BY <1>2, <1>4, <3>1, <3>2 DEF GroupIsKnown
  <2>3. QED
    BY <1>1, <2>1, <2>2
<1>15. OneJobAtATime' /\ TimerIsTheActiveJobs' /\ QueueIsServed'
  BY <1>2, <1>4, <1>6 DEF IInv, OneJobAtATime, Alive, TimerIsTheActiveJobs,
     QueueIsServed
<1>16. QED
  BY <1>9, <1>10, <1>11, <1>12, <1>13, <1>14, <1>15 DEF IInv, TypeOK

LEMMA ReadCommandInv ==
  ASSUME IInv, NEW j \in Jobs, ReadCommand(j)
  PROVE  IInv'
<1>1. /\ stdin[j] # <<>> /\ stdin' = [stdin EXCEPT ![j] = Tail(@)]
      /\ stopping' = stopping \cup {j}
      /\ UNCHANGED <<queue, current, phase, sawTerminal, stopRequested, group>>
      /\ UNCHANGED <<process, timer, startPosted, recent, shuttingDown, quit>>
      /\ UNCHANGED <<submitted, asked, place, cancelled, stdout, verdict>>
      /\ UNCHANGED <<descendants, code>>
  BY Zenon DEF ReadCommand, managerVars, output
<1>2. SwitchesTypeOK'
  BY <1>1, Zenon DEF IInv, TypeOK, SwitchesTypeOK
<1>3. ManagerTypeOK' /\ WorkerTypeOK'
  BY <1>1 DEF IInv, TypeOK, ManagerTypeOK, WorkerTypeOK
<1>4. /\ Consistent' /\ NotBegun' /\ SilentAtFirst' /\ GroupIsKnown'
      /\ OneJobAtATime' /\ TimerIsTheActiveJobs' /\ QueueIsServed'
  BY <1>1 DEF IInv, Consistent, NotBegun, SilentAtFirst, GroupIsKnown,
     OneJobAtATime, Alive, TimerIsTheActiveJobs, QueueIsServed
<1>5. QED
  BY <1>2, <1>3, <1>4 DEF IInv, TypeOK

LEMMA DescendantsInv ==
  ASSUME IInv, NEW j \in Jobs, SpawnDescendants(j) \/ DescendantsExit(j)
  PROVE  IInv'
<1> USE JobQueueAssumption
<1>1. PICK d \in {"none", "live"} :
        /\ descendants' = [descendants EXCEPT ![j] = d]
        /\ d = "live" => place[j] = "running"
  BY Zenon DEF SpawnDescendants, DescendantsExit
<1>2. /\ UNCHANGED <<queue, current, phase, sawTerminal, stopRequested, group>>
      /\ UNCHANGED <<process, timer, startPosted, recent, shuttingDown, quit>>
      /\ UNCHANGED <<submitted, asked, place, cancelled, stopping, stdin>>
      /\ UNCHANGED <<stdout, verdict, code>>
  BY Zenon DEF SpawnDescendants, DescendantsExit, managerVars, flags, output
<1>3. j = current /\ current # NoJob
  BY AliveIsActive DEF SpawnDescendants, DescendantsExit, Alive
<1>4. /\ descendants' \in [Jobs -> {"none", "live", "killed"}]
      /\ descendants'[j] = d
      /\ \A k \in Jobs \ {j} : descendants'[k] = descendants[k]
  BY <1>1 DEF IInv, TypeOK, WorkerTypeOK
<1>5. SwitchesTypeOK'
  BY <1>2, Zenon DEF IInv, TypeOK, SwitchesTypeOK
<1>6. ManagerTypeOK' /\ WorkerTypeOK'
  BY <1>2, <1>4 DEF IInv, TypeOK, ManagerTypeOK, WorkerTypeOK
<1>7. Consistent' /\ NotBegun' /\ TimerIsTheActiveJobs' /\ QueueIsServed'
  BY <1>2 DEF IInv, Consistent, NotBegun, TimerIsTheActiveJobs, QueueIsServed
<1>8. SilentAtFirst' /\ GroupIsKnown'
  BY <1>1, <1>2, <1>3, <1>4 DEF IInv, SilentAtFirst, GroupIsKnown, Early
<1>9. OneJobAtATime'
  BY <1>2, <1>3, <1>4 DEF IInv, OneJobAtATime, Alive
<1>10. QED
  BY <1>5, <1>6, <1>7, <1>8, <1>9 DEF IInv, TypeOK

-----------------------------------------------------------------------------
LEMMA StepInv == IInv /\ [Next]_vars => IInv'
<1> SUFFICES ASSUME IInv, [Next]_vars PROVE IInv'
  OBVIOUS
<1>1. CASE User
  BY <1>1, SubmitInv, WriteInv, CancelInv, ShutdownInv, CloseInv DEF User
<1>2. CASE Manager
  BY <1>2, StartPostedInv, WriteInv, ReadStdoutInv, KillInv, FinishedInv,
     FailedToStartInv DEF Manager
<1>3. ASSUME NEW j \in Jobs, Worker(j) PROVE IInv'
  BY <1>3, MoveInv, ReportInv, ReadCommandInv, DescendantsInv DEF Worker
<1>4. CASE UNCHANGED vars
  <2>1. /\ UNCHANGED <<queue, current, phase, sawTerminal, stopRequested, group>>
        /\ UNCHANGED <<process, timer, startPosted, recent, shuttingDown, quit>>
        /\ UNCHANGED <<submitted, asked, place, cancelled, stopping, stdin>>
        /\ UNCHANGED <<stdout, verdict, descendants, code>>
    BY <1>4, Zenon DEF vars, managerVars, workerVars, flags, output
  <2>2. SwitchesTypeOK'
    BY <2>1, Zenon DEF IInv, TypeOK, SwitchesTypeOK
  <2>3. ManagerTypeOK' /\ WorkerTypeOK'
    BY <2>1 DEF IInv, TypeOK, ManagerTypeOK, WorkerTypeOK
  <2>4. /\ Consistent' /\ NotBegun' /\ SilentAtFirst' /\ GroupIsKnown'
        /\ OneJobAtATime' /\ TimerIsTheActiveJobs' /\ QueueIsServed'
    BY <2>1 DEF IInv, Consistent, NotBegun, SilentAtFirst, GroupIsKnown,
       OneJobAtATime, Alive, TimerIsTheActiveJobs, QueueIsServed
  <2>5. QED
    BY <2>2, <2>3, <2>4 DEF IInv, TypeOK
<1>5. QED
  BY <1>1, <1>2, <1>3, <1>4 DEF Next

\* The inductive invariant holds in every reachable state.
THEOREM Invariance == Spec => []IInv
BY InitInv, StepInv, PTL DEF Spec

\* The variables have their types, and no more results than RecentLimit are
\* kept.
THEOREM TypeCorrect == Spec => []TypeOK
<1>1. IInv => TypeOK
  BY DEF IInv
<1>2. QED
  BY <1>1, Invariance, PTL

\* The next job starts only when the last worker and its descendants are
\* gone, whatever happened to them, to the cancel timer and to the reports.
THEOREM JobsRunOneByOne == Spec => []OneJobAtATime
<1>1. IInv => OneJobAtATime
  BY DEF IInv
<1>2. QED
  BY <1>1, Invariance, PTL

\* The cancel timer of one job never runs while another is active.
THEOREM TimersStayWithTheirJob == Spec => []TimerIsTheActiveJobs
<1>1. IInv => TimerIsTheActiveJobs
  BY DEF IInv
<1>2. QED
  BY <1>1, Invariance, PTL

\* No job is left in the queue with nothing on its way to start it.
THEOREM QueueMovesOn == Spec => []QueueIsServed
<1>1. IInv => QueueIsServed
  BY DEF IInv
<1>2. QED
  BY <1>1, Invariance, PTL

-----------------------------------------------------------------------------
(***************************************************************************)
(* What is recorded is true.  The manager knows of a worker only what it   *)
(* has read.  Until it has read of an end, the first end that is still     *)
(* unread is what the worker reported first; from then on its phase says   *)
(* the same.  What was recorded cannot become false, for the worker is     *)
(* dead by then and never the active one again.                            *)
(***************************************************************************)

\* The reports that tell a worker's end: an unreadable one counts as such.
Ends == Terminal \cup {"invalid"}

\* What a worker's first report of its end makes of the job.
StatusOf(v) == CASE v = "completed" -> "Completed"
                 [] v = "cancelled" -> "Cancelled"
                 [] OTHER -> "Failed"

\* The first end among the reports out is v; if v is "none", there is none.
FirstEnd(out, v) ==
  \/ v = "none" /\ \A i \in DOMAIN out : out[i] \notin Ends
  \/ \E i \in DOMAIN out :
       out[i] = v /\ v \in Ends /\ \A k \in 1..(i - 1) : out[k] \notin Ends

\* The manager heard, or will hear first, what the worker first said.
VerdictIsHeard ==
  /\ current # NoJob /\ sawTerminal =>
       verdict[current] # "none" /\ phase = StatusOf(verdict[current])
  /\ current # NoJob /\ ~sawTerminal =>
       FirstEnd(stdout[current], verdict[current])

\* A recorded job is over.
RecentIsOver ==
  \A i \in DOMAIN recent :
    place[recent[i].job] = "dead" /\ recent[i].job # current

\* Only who was asked to stop reports that it did.
CancelledWasAsked ==
  /\ cancelled \subseteq asked
  /\ \A j \in Jobs : verdict[j] = "cancelled" => j \in asked

\* No worker reports its end before its beginning.
NoVerdictAtFirst == \A j \in Jobs : place[j] \in Early => verdict[j] = "none"

Records ==
  /\ RecordIsTrue
  /\ RecentIsOver
  /\ CancelledWasAsked
  /\ NoVerdictAtFirst
  /\ VerdictIsHeard
  /\ StopIsTheActiveJobs

\* Nothing is recorded, reported or requested in the beginning.
LEMMA InitRecords == Init => Records
BY DEF Init, Records, RecordIsTrue, RecentIsOver, CancelledWasAsked,
   NoVerdictAtFirst, VerdictIsHeard, StopIsTheActiveJobs

\* A further report: it is the first end if none was reported before.
LEMMA FirstEndAppend ==
  ASSUME NEW out \in Seq(Reports), NEW e \in Reports, NEW v, FirstEnd(out, v)
  PROVE  FirstEnd(Append(out, e), IF v = "none" /\ e \in Ends THEN e ELSE v)
<1> DEFINE long == Append(out, e)
<1>1. /\ Len(out) \in Nat /\ DOMAIN out = 1..Len(out)
      /\ DOMAIN long = 1..(Len(out) + 1)
      /\ long[Len(out) + 1] = e
      /\ \A i \in 1..Len(out) : long[i] = out[i]
  OBVIOUS
<1> HIDE DEF long
<1>2. CASE v = "none" /\ \A i \in DOMAIN out : out[i] \notin Ends
  <2>1. CASE e \in Ends
    <3>1. \A k \in 1..(Len(out) + 1 - 1) : long[k] \notin Ends
      BY <1>1, <1>2
    <3>2. Len(out) + 1 \in DOMAIN long
      BY <1>1
    <3>3. FirstEnd(long, e)
      BY <1>1, <2>1, <3>1, <3>2 DEF FirstEnd
    <3>4. QED
      BY <1>2, <2>1, <3>3 DEF long
  <2>2. CASE e \notin Ends
    <3>1. \A i \in DOMAIN long : long[i] \notin Ends
      BY <1>1, <1>2, <2>2
    <3>2. QED
      BY <1>2, <2>2, <3>1 DEF FirstEnd, long
  <2>3. QED
    BY <2>1, <2>2
<1>3. ASSUME NEW i \in DOMAIN out, out[i] = v, v \in Ends,
             \A k \in 1..(i - 1) : out[k] \notin Ends
      PROVE  FirstEnd(long, v) /\ v # "none"
  <2>1. i \in DOMAIN long /\ long[i] = v
    BY <1>1, <1>3
  <2>2. \A k \in 1..(i - 1) : long[k] \notin Ends
    BY <1>1, <1>3
  <2>3. v # "none"
    BY <1>3 DEF Ends, Terminal
  <2>4. QED
    BY <1>3, <2>1, <2>2, <2>3 DEF FirstEnd
<1>4. QED
  BY <1>2, <1>3 DEF FirstEnd, long

\* The next report to read: an end is the first, another changes nothing.
LEMMA FirstEndTail ==
  ASSUME NEW out \in Seq(Reports), out # <<>>, NEW v, FirstEnd(out, v)
  PROVE  /\ Head(out) \in Ends => v = Head(out)
         /\ Head(out) \notin Ends => FirstEnd(Tail(out), v)
<1> DEFINE rest == Tail(out)
<1>1. /\ Len(out) \in Nat /\ Len(out) >= 1 /\ DOMAIN out = 1..Len(out)
      /\ Head(out) = out[1]
      /\ DOMAIN rest = 1..(Len(out) - 1)
      /\ \A i \in 1..(Len(out) - 1) : rest[i] = out[i + 1]
  OBVIOUS
<1> HIDE DEF rest
<1>2. CASE v = "none" /\ \A i \in DOMAIN out : out[i] \notin Ends
  <2>1. Head(out) \notin Ends
    BY <1>1, <1>2
  <2>2. \A i \in DOMAIN rest : rest[i] \notin Ends
    BY <1>1, <1>2
  <2>3. QED
    BY <1>2, <2>1, <2>2 DEF FirstEnd, rest
<1>3. ASSUME NEW i \in DOMAIN out, out[i] = v, v \in Ends,
             \A k \in 1..(i - 1) : out[k] \notin Ends
      PROVE  /\ Head(out) \in Ends => v = Head(out)
             /\ Head(out) \notin Ends => FirstEnd(rest, v)
  <2>1. CASE i = 1
    BY <1>1, <1>3, <2>1
  <2>2. CASE i # 1
    <3>1. i \in Int /\ i > 1 /\ i <= Len(out)
      BY <1>1, <2>2
    <3>2. Head(out) \notin Ends
      BY <1>1, <1>3, <3>1
    <3>3. i - 1 \in DOMAIN rest /\ rest[i - 1] = v
      BY <1>1, <1>3, <3>1
    <3>4. \A k \in 1..(i - 1 - 1) : rest[k] \notin Ends
      BY <1>1, <1>3, <3>1
    <3>5. QED
      BY <1>3, <3>2, <3>3, <3>4 DEF FirstEnd
  <2>3. QED
    BY <2>1, <2>2
<1>4. QED
  BY <1>2, <1>3 DEF FirstEnd, rest

\* What was recorded stays true while it is about the dead.
LEMMA RecentLemma ==
  ASSUME IInv, Records, recent' = recent,
         \A j \in Jobs : place[j] = "dead" /\ j # current =>
           /\ verdict'[j] = verdict[j] /\ code'[j] = code[j]
           /\ j \in asked' <=> j \in asked
           /\ place'[j] = "dead" /\ j # current'
  PROVE  RecordIsTrue' /\ RecentIsOver'
<1>1. \A i \in DOMAIN recent : recent[i].job \in Jobs
  <2> DEFINE S == [job : Jobs, status : Outcomes]
  <2>1. recent \in Seq(S)
    BY DEF IInv, TypeOK, ManagerTypeOK
  <2>2. \A i \in DOMAIN recent : recent[i] \in S
    <3> HIDE DEF S
    <3>1. QED
      BY <2>1
  <2>3. QED
    BY <2>2
<1>2. RecentIsOver'
  BY <1>1 DEF Records, RecentIsOver
<1>3. RecordIsTrue'
  <2>1. \A i \in DOMAIN recent :
          LET j == recent[i].job
          IN  /\ verdict'[j] = verdict[j] /\ code'[j] = code[j]
              /\ j \in asked' <=> j \in asked
    BY <1>1 DEF Records, RecentIsOver
  <2>2. RecordIsTrue
    BY DEF Records
  <2>3. QED
    BY <2>1, <2>2 DEF RecordIsTrue
<1>4. QED
  BY <1>2, <1>3

\* A stop that was requested stays on its way, or arrives.
LEMMA StopLemma ==
  ASSUME Records, UNCHANGED <<current, stopRequested>>,
         current \notin stopping' => current \notin stopping,
         "stop" \in ToSet(stdin[current]) =>
           current \in stopping' \/ "stop" \in ToSet(stdin'[current]),
         place[current] \in {"exiting", "dead"} =>
           place'[current] \in {"exiting", "dead"}
  PROVE  StopIsTheActiveJobs'
BY DEF Records, StopIsTheActiveJobs

\* A step that neither reports nor reads nor records nor starts a job leaves
\* the records true.
LEMMA QuietLemma ==
  ASSUME IInv, Records, StopIsTheActiveJobs',
         UNCHANGED <<recent, current, sawTerminal, verdict, stdout>>,
         sawTerminal => phase' = phase,
         asked' = asked \/ asked' = asked \cup {current},
         cancelled' \subseteq asked',
         \A j \in Jobs : place[j] = "dead" => place'[j] = "dead",
         \A j \in Jobs : place'[j] \in Early => place[j] \in Early,
         \A j \in Jobs \ {current} : code'[j] = code[j]
  PROVE  Records'
<1>1. RecordIsTrue' /\ RecentIsOver'
  BY RecentLemma
<1>2. CancelledWasAsked' /\ NoVerdictAtFirst'
  BY DEF Records, CancelledWasAsked, NoVerdictAtFirst
<1>3. VerdictIsHeard'
  BY DEF Records, VerdictIsHeard
<1>4. QED
  BY <1>1, <1>2, <1>3 DEF Records

\* What the manager and a worker do to each other without a word about an
\* end: cancelling, killing, closing, writing, and a worker going on.
LEMMA QuietSteps ==
  ASSUME IInv, Records,
         \/ Cancel \/ Shutdown \/ KillIfRunning \/ Close
         \/ SendRequest \/ StopAfterGeneration
  PROVE  Records'
<1> USE JobQueueAssumption
<1>1. /\ UNCHANGED <<recent, current, sawTerminal, verdict, stdout, stopping>>
      /\ sawTerminal => phase' = phase
  BY Zenon DEF Cancel, Shutdown, KillIfRunning, Close, SendRequest,
     StopAfterGeneration, flags, output
<1>2. /\ place \in [Jobs -> Places] /\ code \in [Jobs -> -1..2]
      /\ stdin \in [Jobs -> Seq({"request", "stop"})]
      /\ current \in Jobs \cup {NoJob} /\ asked \subseteq Jobs
      /\ cancelled \subseteq asked
  BY DEF IInv, TypeOK, ManagerTypeOK, WorkerTypeOK, Records, CancelledWasAsked
<1>3. CASE Cancel \/ Shutdown
  <2>1. UNCHANGED <<code, stdin, stopRequested>>
    BY <1>3, Zenon DEF Cancel, Shutdown
  <2>2. CASE current # NoJob
    <3>1. Terminate(current) /\ asked' = asked \cup {current}
      BY <1>3, <2>2, Zenon DEF Cancel, Shutdown, CancelProcess
    <3>2. /\ place' = place \/ place' = [place EXCEPT ![current] = "dead"]
          /\ cancelled' = cancelled \/ cancelled' = cancelled \cup {current}
      BY <3>1, Zenon DEF Terminate
    <3>3. /\ cancelled' \subseteq asked'
          /\ \A j \in Jobs : place'[j] = place[j] \/ place'[j] = "dead"
      BY <1>2, <2>2, <3>1, <3>2
    <3>4. StopIsTheActiveJobs'
      BY <1>1, <1>2, <2>1, <2>2, <3>3 DEF Records, StopIsTheActiveJobs
    <3>5. QED
      BY <1>1, <2>1, <3>1, <3>3, <3>4, QuietLemma DEF Early
  <2>3. CASE current = NoJob
    <3>1. UNCHANGED <<place, cancelled, asked>>
      BY <1>3, <2>3, Zenon DEF Cancel, Shutdown
    <3>2. StopIsTheActiveJobs'
      BY <2>3, <1>1 DEF StopIsTheActiveJobs
    <3>3. QED
      BY <1>1, <1>2, <2>1, <3>1, <3>2, QuietLemma
  <2>4. QED
    BY <2>2, <2>3
<1>4. CASE KillIfRunning \/ Close
  <2>1. /\ UNCHANGED <<stdin, stopRequested, cancelled, asked>>
        /\ \/ UNCHANGED <<place, code>>
           \/ /\ timer = current /\ timer # NoJob
              /\ place' = [place EXCEPT ![timer] = "dead"]
              /\ code' = [code EXCEPT ![timer] =
                            IF place[timer] = "dead" THEN @ ELSE -1]
           \/ /\ place' = [j \in Jobs |-> IF j = current THEN "dead"
                                                         ELSE place[j]]
              /\ code' = code
    BY <1>4, Zenon DEF KillIfRunning, Close, flags
  <2>2. /\ \A j \in Jobs : place'[j] = place[j] \/ place'[j] = "dead"
        /\ \A j \in Jobs \ {current} : code'[j] = code[j]
    BY <1>2, <2>1
  <2>3. StopIsTheActiveJobs'
    BY <1>1, <1>2, <2>1, <2>2 DEF Records, StopIsTheActiveJobs
  <2>4. QED
    BY <1>1, <1>2, <2>1, <2>2, <2>3, QuietLemma DEF Early
<1>5. CASE SendRequest \/ StopAfterGeneration
  <2>1. /\ UNCHANGED <<place, code, cancelled, asked>> /\ current \in Jobs
        /\ \/ /\ stopRequested' = stopRequested
              /\ stdin' = [stdin EXCEPT ![current] = Append(@, "request")]
           \/ stdin' = [stdin EXCEPT ![current] = Append(@, "stop")]
    <3>1. CASE SendRequest
      <4>1. current \in Jobs
        BY <1>2, <3>1 DEF SendRequest
      <4>2. QED
        BY <3>1, <4>1, Zenon DEF SendRequest, flags
    <3>2. CASE StopAfterGeneration
      <4>1. current \in Jobs
        BY <3>2 DEF StopAfterGeneration
      <4>2. QED
        BY <3>2, <4>1, Zenon DEF StopAfterGeneration, flags
    <3>3. QED
      BY <1>5, <3>1, <3>2
  <2>2. ASSUME NEW line \in {"request", "stop"},
               stdin' = [stdin EXCEPT ![current] = Append(@, line)]
        PROVE  /\ line \in ToSet(stdin'[current])
               /\ "stop" \in ToSet(stdin[current])
                    => "stop" \in ToSet(stdin'[current])
    <3> DEFINE s == stdin[current]
               t == Append(s, line)
    <3>1. s \in Seq({"request", "stop"}) /\ stdin'[current] = t
      BY <1>2, <2>1, <2>2
    <3>2. /\ t[Len(s) + 1] = line /\ Len(s) + 1 \in DOMAIN t
          /\ \A i \in DOMAIN s : i \in DOMAIN t /\ t[i] = s[i]
      <4> HIDE DEF s
      <4>1. QED
        BY <3>1
    <3> HIDE DEF t
    <3>3. QED
      BY <3>1, <3>2 DEF ToSet
  <2>3. StopIsTheActiveJobs'
    BY <1>1, <2>1, <2>2 DEF Records, StopIsTheActiveJobs
  <2>4. QED
    BY <1>1, <1>2, <2>1, <2>3, QuietLemma
<1>6. QED
  BY <1>3, <1>4, <1>5

\* A worker that goes on in silence.
LEMMA SilentSteps ==
  ASSUME IInv, Records, NEW j \in Jobs,
         \/ Exec(j) \/ InstallHandlers(j) \/ Exit(j) \/ Crash(j)
         \/ ReadCommand(j) \/ SpawnDescendants(j) \/ DescendantsExit(j)
  PROVE  Records'
<1> USE JobQueueAssumption
<1>1. /\ UNCHANGED <<recent, current, sawTerminal, verdict, stdout, phase>>
      /\ UNCHANGED <<stopRequested, cancelled, asked>>
  BY Zenon DEF Exec, InstallHandlers, Exit, Crash, ReadCommand,
     SpawnDescendants, DescendantsExit, managerVars, flags, output
<1>2. /\ place \in [Jobs -> Places] /\ code \in [Jobs -> -1..2]
      /\ stdin \in [Jobs -> Seq({"request", "stop"})]
      /\ stopping \subseteq Jobs /\ cancelled \subseteq asked
  BY DEF IInv, TypeOK, WorkerTypeOK, Records, CancelledWasAsked
<1>3. CASE Exec(j) \/ InstallHandlers(j) \/ Exit(j) \/ Crash(j)
  <2>1. j = current /\ current # NoJob
    <3>1. Alive(j)
      BY <1>3 DEF Exec, InstallHandlers, Exit, Crash, Alive
    <3>2. QED
      BY <3>1, AliveIsActive
  <2>2. PICK p \in Places :
          /\ place' = [place EXCEPT ![j] = p]
          /\ p \in Early => place[j] \in Early
          /\ place[j] # "dead"
          /\ place[j] = "exiting" => p = "dead"
    BY <1>3, Zenon DEF Exec, InstallHandlers, Exit, Crash, Alive, Early, Places
  <2>3. /\ code' = code \/ code' = [code EXCEPT ![j] = -1]
        /\ UNCHANGED <<stdin, stopping>>
    BY <1>3, Zenon DEF Exec, InstallHandlers, Exit, Crash, flags
  <2>4. /\ place'[j] = p /\ \A k \in Jobs \ {j} : place'[k] = place[k]
        /\ \A k \in Jobs \ {j} : code'[k] = code[k]
    BY <1>2, <2>2, <2>3
  <2>5. StopIsTheActiveJobs'
    BY <1>1, <2>1, <2>2, <2>3, <2>4 DEF Records, StopIsTheActiveJobs
  <2>6. /\ \A k \in Jobs : place[k] = "dead" => place'[k] = "dead"
        /\ \A k \in Jobs : place'[k] \in Early => place[k] \in Early
    BY <2>2, <2>4
  <2>7. QED
    BY <1>1, <1>2, <2>1, <2>4, <2>5, <2>6, QuietLemma
<1>4. CASE ReadCommand(j)
  <2>1. /\ UNCHANGED <<place, code>> /\ stopping' = stopping \cup {j}
        /\ stdin' = [stdin EXCEPT ![j] = Tail(@)]
    BY <1>4, Zenon DEF ReadCommand
  <2>2. StopIsTheActiveJobs'
    <3>1. \A k \in Jobs \ {j} : stdin'[k] = stdin[k]
      BY <1>2, <2>1
    <3>2. current \in Jobs \cup {NoJob}
      BY DEF IInv, TypeOK, ManagerTypeOK
    <3>3. QED
      BY <1>1, <2>1, <3>1, <3>2 DEF Records, StopIsTheActiveJobs
  <2>3. QED
    BY <1>1, <1>2, <2>1, <2>2, QuietLemma
<1>5. CASE SpawnDescendants(j) \/ DescendantsExit(j)
  <2>1. UNCHANGED <<place, code, stopping, stdin>>
    BY <1>5, Zenon DEF SpawnDescendants, DescendantsExit, flags
  <2>2. StopIsTheActiveJobs'
    BY <1>1, <2>1 DEF Records, StopIsTheActiveJobs
  <2>3. QED
    BY <1>1, <1>2, <2>1, <2>2, QuietLemma
<1>6. QED
  BY <1>3, <1>4, <1>5

\* The active job starts as one of which nothing is known.
LEMMA StartRecords ==
  ASSUME IInv, Records, (\E j \in Jobs : Submit(j)) \/ StartPosted
  PROVE  Records'
<1> USE JobQueueAssumption
<1>1. /\ UNCHANGED <<recent, asked, cancelled, stopping, stdin>>
      /\ UNCHANGED <<stdout, verdict, code>>
  BY Zenon DEF Submit, StartPosted, flags, output
<1>2. PICK q \in Seq(Jobs) :
        /\ StartNext(q)
        /\ \A i \in DOMAIN q : place[q[i]] = "unborn"
  <2>1. /\ queue \in Seq(Jobs)
        /\ \A i \in DOMAIN queue : place[queue[i]] = "unborn"
    BY DEF IInv, TypeOK, ManagerTypeOK, NotBegun
  <2>2. CASE StartPosted
    BY <2>1, <2>2 DEF StartPosted
  <2>3. ASSUME NEW j \in Jobs, Submit(j)
        PROVE  \E q \in Seq(Jobs) :
                 StartNext(q) /\ \A i \in DOMAIN q : place[q[i]] = "unborn"
    <3> DEFINE q == Append(queue, j)
    <3>1. StartNext(q)
      BY <2>3 DEF Submit
    <3>2. place[j] = "unborn"
      BY <2>3 DEF Submit, IInv, NotBegun
    <3>3. q \in Seq(Jobs) /\ \A i \in DOMAIN q : place[q[i]] = "unborn"
      BY <2>1, <3>2
    <3> HIDE DEF q
    <3>4. QED
      BY <3>1, <3>3
  <2>4. QED
    BY <2>2, <2>3
<1>3. CASE CanStart(q) /\ Launch(q)
  <2> DEFINE h == Head(q)
  <2>1. h \in Jobs /\ h # NoJob /\ place[h] = "unborn" /\ current = NoJob
    BY <1>2, <1>3 DEF CanStart
  <2>2. /\ current' = h /\ sawTerminal' = FALSE /\ stopRequested' = FALSE
        /\ place' = [place EXCEPT ![h] = "forked"]
    BY <1>3, Zenon DEF Launch
  <2>3. place \in [Jobs -> Places]
    BY DEF IInv, TypeOK, WorkerTypeOK
  <2>4. stdout[h] = <<>> /\ verdict[h] = "none"
    BY <2>1 DEF IInv, SilentAtFirst, Records, NoVerdictAtFirst, Early
  <2>5. RecordIsTrue' /\ RecentIsOver'
    BY <1>1, <2>1, <2>2, <2>3, RecentLemma
  <2>6. CancelledWasAsked' /\ NoVerdictAtFirst'
    BY <1>1, <2>1, <2>2, <2>3, <2>4
       DEF Records, CancelledWasAsked, NoVerdictAtFirst
  <2>7. VerdictIsHeard'
    BY <1>1, <2>2, <2>4 DEF VerdictIsHeard, FirstEnd
  <2>8. StopIsTheActiveJobs'
    BY <2>2 DEF StopIsTheActiveJobs
  <2>9. QED
    BY <2>5, <2>6, <2>7, <2>8 DEF Records
<1>4. CASE ~CanStart(q)
  <2>1. /\ UNCHANGED <<current, phase, sawTerminal, stopRequested, place>>
    BY <1>2, <1>4, Zenon DEF StartNext
  <2>2. StopIsTheActiveJobs'
    BY <1>1, <2>1 DEF Records, StopIsTheActiveJobs
  <2>3. cancelled \subseteq asked
    BY DEF Records, CancelledWasAsked
  <2>4. QED
    BY <1>1, <2>1, <2>2, <2>3, QuietLemma
<1>5. QED
  BY <1>2, <1>3, <1>4 DEF StartNext

\* A worker that reports: if it is of an end, and the first, it is its verdict.
LEMMA ReportRecords ==
  ASSUME IInv, Records, NEW j \in Jobs,
         ReadRequest(j) \/ Progress(j) \/ EndRun(j)
  PROVE  Records'
<1> USE JobQueueAssumption
<1>1. PICK e \in Reports, p \in Places :
        /\ Report(j, e) /\ place' = [place EXCEPT ![j] = p]
        /\ place[j] \in {"ready", "running"} /\ p \in {"running", "exiting"}
        /\ e = "cancelled" => j \in cancelled
  <2>1. CASE ReadRequest(j)
    <3>1. PICK e \in {"started", "failed"}, p \in {"running", "exiting"} :
            Report(j, e) /\ place' = [place EXCEPT ![j] = p]
      BY <2>1, Zenon DEF ReadRequest, End
    <3>2. e \in Reports /\ e # "cancelled" /\ p \in Places /\ place[j] = "ready"
      BY <2>1 DEF ReadRequest, Reports, Terminal, Places
    <3>3. QED
      BY <3>1, <3>2, Zenon
  <2>2. CASE EndRun(j)
    <3>1. PICK e \in {"failed", "cancelled", "completed"} :
            End(j, e) /\ (e = "cancelled" => j \in cancelled)
      BY <2>2, Zenon DEF EndRun
    <3>2. e \in Reports /\ "exiting" \in Places /\ place[j] = "running"
      BY <2>2, <3>1 DEF EndRun, Reports, Terminal, Places
    <3>3. QED
      BY <3>1, <3>2, Zenon DEF End
  <2>3. CASE Progress(j)
    <3>1. place' = [place EXCEPT ![j] = "running"]
      BY <2>3 DEF Progress, IInv, TypeOK, WorkerTypeOK
    <3>2. QED
      BY <2>3, <3>1, Zenon DEF Progress, Reports, Places
  <2>4. QED
    BY <2>1, <2>2, <2>3
<1>2. /\ UNCHANGED <<recent, current, sawTerminal, stopRequested, phase>>
      /\ UNCHANGED <<asked, cancelled, stopping>>
  BY Zenon DEF ReadRequest, Progress, EndRun, managerVars, flags
<1>3. j = current /\ current # NoJob
  BY <1>1, AliveIsActive DEF Alive
<1>4. /\ place \in [Jobs -> Places] /\ stdout \in [Jobs -> Seq(Reports)]
      /\ stdin \in [Jobs -> Seq({"request", "stop"})]
      /\ code \in [Jobs -> -1..2]
      /\ verdict \in [Jobs -> Terminal \cup {"none", "invalid"}]
  BY DEF IInv, TypeOK, WorkerTypeOK
<1>5. place'[j] = p /\ \A k \in Jobs \ {j} : place'[k] = place[k]
  BY <1>1, <1>4
<1>6. /\ verdict'[j] = IF verdict[j] = "none" /\ e \in Ends
                       THEN e ELSE verdict[j]
      /\ \A k \in Jobs \ {j} : verdict'[k] = verdict[k]
  BY <1>1, <1>4 DEF Report, Ends
<1>7. \A k \in Jobs \ {j} : code'[k] = code[k]
  <2>1. code' = code \/ \E n : code' = [code EXCEPT ![j] = n]
    BY Zenon DEF ReadRequest, Progress, EndRun, End
  <2>2. QED
    BY <1>4, <2>1
<1>8. RecordIsTrue' /\ RecentIsOver'
  BY <1>1, <1>2, <1>3, <1>5, <1>6, <1>7, RecentLemma
<1>9. CancelledWasAsked'
  BY <1>1, <1>2, <1>6 DEF Records, CancelledWasAsked
<1>10. NoVerdictAtFirst'
  BY <1>1, <1>5, <1>6 DEF Records, NoVerdictAtFirst, Early
<1>11. VerdictIsHeard'
  <2>1. CASE sawTerminal
    BY <1>2, <1>3, <1>6, <2>1 DEF Records, VerdictIsHeard
  <2>2. CASE ~sawTerminal
    <3> DEFINE v == IF verdict[j] = "none" /\ e \in Ends THEN e ELSE verdict[j]
    <3>1. stdout[j] \in Seq(Reports) /\ FirstEnd(stdout[j], verdict[j])
      BY <1>3, <1>4, <2>2 DEF Records, VerdictIsHeard
    <3>2. FirstEnd(Append(stdout[j], e), v)
      BY <3>1, FirstEndAppend
    <3>3. stdout'[j] = Append(stdout[j], e)
      BY <1>1, ReportLemma
    <3>4. verdict'[j] = v
      BY <1>6
    <3> HIDE DEF v
    <3>5. FirstEnd(stdout'[j], verdict'[j])
      BY <3>2, <3>3, <3>4
    <3>6. QED
      BY <1>2, <1>3, <2>2, <3>5 DEF VerdictIsHeard
  <2>3. QED
    BY <2>1, <2>2
<1>12. StopIsTheActiveJobs'
  <2>1. CASE p = "exiting"
    BY <1>2, <1>3, <1>5, <2>1 DEF StopIsTheActiveJobs
  <2>2. CASE p = "running"
    <3>1. "stop" \in ToSet(stdin[j]) => "stop" \in ToSet(stdin'[j])
      <4>1. \/ stdin' = stdin
            \/ /\ stdin[j] # <<>> /\ Head(stdin[j]) = "request"
               /\ stdin' = [stdin EXCEPT ![j] = Tail(@)]
        <5>1. CASE ReadRequest(j)
          <6>1. ~End(j, "failed")
            <7>1. place'[j] # "exiting"
              BY <1>5, <2>2
            <7>2. End(j, "failed") => place'[j] = "exiting"
              BY <1>4 DEF End
            <7>3. QED
              BY <7>1, <7>2
          <6>2. QED
            BY <5>1, <6>1, Zenon DEF ReadRequest
        <5>2. CASE Progress(j) \/ EndRun(j)
          BY <5>2, Zenon DEF Progress, EndRun
        <5>3. QED
          BY <5>1, <5>2
      <4>2. CASE stdin' = stdin
        BY <4>2
      <4>3. CASE /\ stdin[j] # <<>> /\ Head(stdin[j]) = "request"
                 /\ stdin' = [stdin EXCEPT ![j] = Tail(@)]
        <5> DEFINE s == stdin[j]
                   t == Tail(s)
        <5>1. s \in Seq({"request", "stop"}) /\ stdin'[j] = t
          BY <1>4, <4>3
        <5>2. s # <<>> /\ s[1] = "request"
          BY <1>4, <4>3
        <5>3. \A i \in DOMAIN s : i = 1 \/ (i - 1 \in DOMAIN t /\ t[i - 1] = s[i])
          <6> HIDE DEF s
          <6>1. QED
            BY <5>1, <5>2
        <5> HIDE DEF s, t
        <5>4. "stop" \in ToSet(s) => "stop" \in ToSet(t)
          BY <5>2, <5>3 DEF ToSet
        <5>5. QED
          BY <5>1, <5>4 DEF s
      <4>4. QED
        BY <4>1, <4>2, <4>3
    <3>2. QED
      BY <1>1, <1>2, <1>3, <3>1 DEF Records, StopIsTheActiveJobs
  <2>3. QED
    BY <1>1, <2>1, <2>2
<1>13. QED
  BY <1>8, <1>9, <1>10, <1>11, <1>12 DEF Records

\* What the manager makes of a report: the first end decides, and what comes
\* after it changes nothing.
LEMMA ReadRecords ==
  ASSUME IInv, Records, ReadStdout
  PROVE  Records'
<1> USE JobQueueAssumption
<1> DEFINE out == stdout[current]
           v   == verdict[current]
<1>1. /\ current # NoJob /\ out # <<>>
      /\ stdout' = [stdout EXCEPT ![current] = Tail(@)]
      /\ UNCHANGED <<current, stopRequested, recent, stopping, stdin>>
      /\ UNCHANGED <<code, verdict>>
  BY Zenon DEF ReadStdout
<1>2. /\ current \in Jobs /\ stdout \in [Jobs -> Seq(Reports)]
      /\ place \in [Jobs -> Places] /\ out \in Seq(Reports)
      /\ Head(out) \in Reports /\ stdout'[current] = Tail(out)
      /\ asked \subseteq Jobs /\ cancelled \subseteq asked
  BY <1>1 DEF IInv, TypeOK, ManagerTypeOK, WorkerTypeOK, Records,
     CancelledWasAsked
<1>3. /\ asked' = asked \/ asked' = asked \cup {current}
      /\ cancelled' \subseteq asked'
      /\ \A j \in Jobs : \/ place'[j] = place[j]
                         \/ j = current /\ place'[j] = "dead"
  <2>0. /\ current \in Jobs /\ place \in [Jobs -> Places]
        /\ cancelled \subseteq asked
    BY <1>2
  <2>1. CASE UNCHANGED <<place, cancelled, timer, asked>>
    <3>1. cancelled' = cancelled /\ asked' = asked /\ place' = place
      BY <2>1, Zenon
    <3>2. QED
      BY <2>0, <3>1
  <2>2. CASE CancelProcess
    <3>1. Terminate(current) /\ asked' = asked \cup {current}
      BY <2>2 DEF CancelProcess
    <3>2. /\ place' = place \/ place' = [place EXCEPT ![current] = "dead"]
          /\ cancelled' = cancelled \/ cancelled' = cancelled \cup {current}
      BY <3>1, Zenon DEF Terminate
    <3>3. QED
      BY <2>0, <3>1, <3>2
  <2>3. QED
    BY <2>1, <2>2, Zenon DEF ReadStdout
<1>4. RecordIsTrue' /\ RecentIsOver'
  BY <1>1, <1>2, <1>3, RecentLemma
<1>5. CancelledWasAsked' /\ NoVerdictAtFirst'
  BY <1>1, <1>2, <1>3 DEF Records, CancelledWasAsked, NoVerdictAtFirst, Early
<1>6. StopIsTheActiveJobs'
  BY <1>1, <1>2, <1>3 DEF Records, StopIsTheActiveJobs
<1>7. VerdictIsHeard'
  <2>1. CASE sawTerminal
    <3>1. sawTerminal' /\ phase' = phase
      BY <2>1, Zenon DEF ReadStdout, Handle
    <3>2. QED
      BY <1>1, <2>1, <3>1 DEF Records, VerdictIsHeard
  <2>2. CASE ~sawTerminal
    <3>1. FirstEnd(out, v)
      BY <1>1, <2>2 DEF Records, VerdictIsHeard
    <3>2. /\ Head(out) \in Ends => v = Head(out)
          /\ Head(out) \notin Ends => FirstEnd(Tail(out), v)
      BY <1>1, <1>2, <3>1, FirstEndTail
    <3>3. CASE Head(out) \notin Ends
      <4>1. /\ Head(out) \in {"started", "phase"}
        BY <1>2, <3>3 DEF Ends, Reports
      <4>2. ~sawTerminal'
        <5>1. Handle(Head(out))
          BY <4>1 DEF ReadStdout, NextReport
        <5>2. QED
          BY <2>2, <3>3, <5>1, Zenon DEF Handle, Ends
      <4>3. FirstEnd(stdout'[current'], verdict'[current'])
        BY <1>1, <1>2, <3>2, <3>3
      <4>4. QED
        BY <4>2, <4>3 DEF VerdictIsHeard
    <3>4. CASE Head(out) \in Ends
      <4>1. PICK e \in Terminal :
              Handle(e) /\ StatusOf(v) = PhaseOf(e) /\ v # "none"
        <5>1. CASE Head(out) = "invalid"
          <6>1. Handle("failed")
            BY <5>1, <2>2 DEF ReadStdout, NextReport
          <6>2. StatusOf(v) = PhaseOf("failed") /\ v # "none"
            BY <3>2, <3>4, <5>1 DEF StatusOf, PhaseOf
          <6>3. "failed" \in Terminal
            BY DEF Terminal
          <6>4. QED
            BY <6>1, <6>2, <6>3
        <5>2. CASE Head(out) \in Terminal
          <6>1. Handle(Head(out))
            BY <5>2 DEF ReadStdout, NextReport, Terminal
          <6>2. StatusOf(v) = PhaseOf(Head(out)) /\ v # "none"
            BY <3>2, <3>4, <5>2 DEF StatusOf, PhaseOf, Terminal
          <6>3. QED
            BY <5>2, <6>1, <6>2
        <5>3. QED
          BY <3>4, <5>1, <5>2 DEF Ends
      <4>2. sawTerminal' /\ phase' = PhaseOf(e)
        BY <2>2, <4>1, Zenon DEF Handle
      <4>3. QED
        BY <1>1, <4>1, <4>2 DEF VerdictIsHeard
    <3>5. QED
      BY <3>3, <3>4
  <2>3. QED
    BY <2>1, <2>2
<1>8. QED
  BY <1>4, <1>5, <1>6, <1>7 DEF Records

\* What is recorded of the active job goes in front of what was recorded.
LEMMA RecentIsFront ==
  ASSUME IInv, current # NoJob, NEW t \in BOOLEAN, NEW p, Record(t, p)
  PROVE  \A i \in DOMAIN recent' :
           \/ i = 1 /\ recent'[i] = [job |-> current, status |-> Status(t, p)]
           \/ /\ i > 1 /\ i \in Nat /\ i - 1 \in DOMAIN recent
              /\ recent'[i] = recent[i - 1]
<1> DEFINE entry == [job |-> current, status |-> Status(t, p)]
           S     == [job : Jobs, status : Outcomes]
           all   == <<entry>> \o recent
           n     == IF Len(all) > RecentLimit THEN RecentLimit ELSE Len(all)
<1>1. recent' = SubSeq(all, 1, n)
  BY Zenon DEF Record, Recent
<1>2. recent \in Seq(S)
  BY DEF IInv, TypeOK, ManagerTypeOK
<1> HIDE DEF entry, S
<1>3. /\ Len(all) = Len(recent) + 1 /\ all[1] = entry
      /\ \A i \in 1..Len(all) : i > 1 =>
           i - 1 \in DOMAIN recent /\ all[i] = recent[i - 1]
  BY <1>2
<1>4. n \in Nat /\ n <= Len(all)
  <2>1. Len(all) \in Nat /\ RecentLimit \in Nat
    BY <1>2, <1>3, JobQueueAssumption
  <2> HIDE DEF all
  <2>2. QED
    BY <2>1
<1>5. /\ DOMAIN SubSeq(all, 1, n) = 1..n
      /\ \A i \in 1..n : SubSeq(all, 1, n)[i] = all[i]
  <2> HIDE DEF all, n
  <2>1. QED
    BY <1>4
<1> HIDE DEF all, n
<1>6. ASSUME NEW i \in DOMAIN recent'
      PROVE  \/ i = 1 /\ recent'[i] = entry
             \/ /\ i > 1 /\ i \in Nat /\ i - 1 \in DOMAIN recent
                /\ recent'[i] = recent[i - 1]
  <2>1. i \in 1..n /\ recent'[i] = all[i]
    BY <1>1, <1>5
  <2>2. i \in 1..Len(all)
    BY <1>2, <1>3, <1>4, <2>1
  <2>3. QED
    BY <1>3, <2>1, <2>2
<1>7. QED
  BY <1>6 DEF entry

\* A job that is over is recorded as its worker's verdict has it.
LEMMA RecordRecords ==
  ASSUME IInv, Records, current # NoJob, NEW t \in BOOLEAN, NEW p, Record(t, p),
         Status(t, p) = CASE /\ verdict[current] = "completed"
                             /\ code[current] = 0 -> "Completed"
                          [] /\ verdict[current] = "cancelled"
                             /\ current \in asked -> "Cancelled"
                          [] OTHER -> "Failed",
         place' = place \/ place' = [place EXCEPT ![current] = "dead"],
         place'[current] = "dead",
         UNCHANGED <<asked, verdict, code>>
  PROVE  Records'
<1> USE JobQueueAssumption
<1> DEFINE entry == [job |-> current, status |-> Status(t, p)]
<1>1. /\ current' = NoJob /\ cancelled' = cancelled \ {current}
  BY Zenon DEF Record
<1>2. /\ current \in Jobs /\ place \in [Jobs -> Places]
      /\ \A i \in DOMAIN recent : recent[i].job \in Jobs
  <2> DEFINE S == [job : Jobs, status : Outcomes]
  <2>1. /\ current \in Jobs /\ place \in [Jobs -> Places] /\ recent \in Seq(S)
    BY DEF IInv, TypeOK, ManagerTypeOK, WorkerTypeOK
  <2>2. \A i \in DOMAIN recent : recent[i] \in S
    <3> HIDE DEF S
    <3>1. QED
      BY <2>1
  <2>3. QED
    BY <2>1, <2>2
<1>3. \A i \in DOMAIN recent' :
        \/ i = 1 /\ recent'[i] = entry
        \/ /\ i > 1 /\ i \in Nat /\ i - 1 \in DOMAIN recent
           /\ recent'[i] = recent[i - 1]
  BY RecentIsFront
<1>4. /\ \A j \in Jobs : place[j] = "dead" => place'[j] = "dead"
      /\ \A j \in Jobs : place'[j] \in Early => place[j] \in Early
  BY <1>2 DEF Early
<1>5. \A i \in DOMAIN recent : /\ place[recent[i].job] = "dead"
                               /\ recent[i].job # current
  BY DEF Records, RecentIsOver
<1>6. entry.job = current /\ entry.status = Status(t, p)
  OBVIOUS
<1> HIDE DEF entry
<1>7. RecentIsOver'
  <2>1. \A i \in DOMAIN recent' : /\ place'[recent'[i].job] = "dead"
                                  /\ recent'[i].job # NoJob
    BY <1>2, <1>3, <1>4, <1>5, <1>6
  <2>2. QED
    BY <1>1, <2>1 DEF RecentIsOver
<1>8. RecordIsTrue'
  <2>1. \A i, k \in DOMAIN recent' :
          recent'[i].job = recent'[k].job => i = k
    <3>1. \A i, k \in DOMAIN recent : recent[i].job = recent[k].job => i = k
      BY DEF Records, RecordIsTrue
    <3>2. ASSUME NEW i \in DOMAIN recent', NEW k \in DOMAIN recent',
                 recent'[i].job = recent'[k].job
          PROVE  i = k
      <4>1. CASE i = 1
        BY <1>3, <1>5, <1>6, <3>2, <4>1
      <4>2. CASE k = 1
        BY <1>3, <1>5, <1>6, <3>2, <4>2
      <4>3. CASE i # 1 /\ k # 1
        <5>1. i - 1 = k - 1 /\ i \in Nat /\ k \in Nat
          BY <1>3, <3>1, <3>2, <4>3
        <5>2. QED
          BY <5>1
      <4>4. QED
        BY <4>1, <4>2, <4>3
    <3>3. QED
      BY <3>2
  <2>2. ASSUME NEW i \in DOMAIN recent'
        PROVE  LET j == recent'[i].job
               IN  recent'[i].status =
                     CASE verdict[j] = "completed" /\ code[j] = 0 -> "Completed"
                       [] verdict[j] = "cancelled" /\ j \in asked -> "Cancelled"
                       [] OTHER -> "Failed"
    <3>1. CASE recent'[i] = entry
      BY <1>6, <3>1
    <3>2. CASE i - 1 \in DOMAIN recent /\ recent'[i] = recent[i - 1]
      BY <3>2 DEF Records, RecordIsTrue
    <3>3. QED
      BY <1>3, <3>1, <3>2
  <2>3. QED
    BY <2>1, <2>2 DEF RecordIsTrue
<1>9. CancelledWasAsked' /\ NoVerdictAtFirst'
  BY <1>1, <1>4 DEF Records, CancelledWasAsked, NoVerdictAtFirst
<1>10. VerdictIsHeard' /\ StopIsTheActiveJobs'
  BY <1>1 DEF VerdictIsHeard, StopIsTheActiveJobs
<1>11. QED
  BY <1>7, <1>8, <1>9, <1>10 DEF Records

\* The end of a job, whether it was heard, not heard or could not come.
LEMMA EndRecords ==
  ASSUME IInv, Records, Finished \/ FailedToStart
  PROVE  Records'
<1> USE JobQueueAssumption
<1> DEFINE v == verdict[current]
<1>1. CASE Finished
  <2>1. /\ current # NoJob
        /\ \/ process = "Running" /\ place[current] = "dead"
              /\ stdout[current] = <<>>
           \/ process = "NotRunning"
        /\ UNCHANGED <<sawTerminal, stopRequested, asked, place, stdout>>
        /\ UNCHANGED <<code, verdict>>
    BY <1>1, Zenon DEF Finished
  <2>2. place[current] = "dead" /\ stdout[current] = <<>>
    BY <2>1 DEF IInv, Consistent
  <2>3. CASE group /\ descendants[current] # "none"
    <3>1. UNCHANGED <<current, phase, recent, stdin, cancelled, stopping>>
      BY <1>1, <2>3, Zenon DEF Finished, flags
    <3>2. cancelled \subseteq asked
      BY DEF Records, CancelledWasAsked
    <3>3. StopIsTheActiveJobs'
      BY <2>1, <2>2, <3>1 DEF StopIsTheActiveJobs
    <3>4. QED
      BY <2>1, <3>1, <3>2, <3>3, QuietLemma
  <2>4. CASE ~(group /\ descendants[current] # "none")
    <3>1. Record(sawTerminal, phase)
      BY <1>1, <2>4, Zenon DEF Finished
    <3>2. sawTerminal \in BOOLEAN
      BY Zenon DEF IInv, TypeOK, SwitchesTypeOK
    <3>3. v = "cancelled" => current \in asked
      BY <2>1 DEF Records, CancelledWasAsked, IInv, TypeOK, ManagerTypeOK
    <3>4. CASE sawTerminal
      <4>1. phase = StatusOf(v)
        BY <2>1, <3>4 DEF Records, VerdictIsHeard
      <4>2. Status(TRUE, phase) = CASE v = "completed" /\ code[current] = 0
                                        -> "Completed"
                                    [] v = "cancelled" /\ current \in asked
                                        -> "Cancelled"
                                    [] OTHER -> "Failed"
        BY <3>3, <4>1 DEF Status, StatusOf
      <4>3. Record(TRUE, phase)
        BY <3>1, <3>2, <3>4
      <4>4. QED
        BY <2>1, <2>2, <4>2, <4>3, RecordRecords
    <3>5. CASE ~sawTerminal
      <4>1. v = "none"
        <5>1. FirstEnd(<<>>, v)
          BY <2>1, <2>2, <3>5 DEF Records, VerdictIsHeard
        <5>2. QED
          BY <5>1 DEF FirstEnd
      <4>2. Status(FALSE, phase) = CASE v = "completed" /\ code[current] = 0
                                         -> "Completed"
                                     [] v = "cancelled" /\ current \in asked
                                         -> "Cancelled"
                                     [] OTHER -> "Failed"
        BY <4>1 DEF Status
      <4>3. Record(FALSE, phase)
        BY <3>1, <3>2, <3>5
      <4>4. QED
        BY <2>1, <2>2, <4>2, <4>3, RecordRecords
    <3>6. QED
      BY <3>4, <3>5
  <2>5. QED
    BY <2>3, <2>4
<1>2. CASE FailedToStart
  <2>1. /\ current # NoJob /\ place[current] = "forked"
        /\ place' = [place EXCEPT ![current] = "dead"]
        /\ Record(TRUE, "Failed")
        /\ UNCHANGED <<asked, verdict, code>>
    BY <1>2, Zenon DEF FailedToStart
  <2>2. current \in Jobs /\ place \in [Jobs -> Places]
    BY <2>1 DEF IInv, TypeOK, ManagerTypeOK, WorkerTypeOK
  <2>3. v = "none"
    BY <2>1, <2>2 DEF Records, NoVerdictAtFirst, Early
  <2>4. Status(TRUE, "Failed") = CASE v = "completed" /\ code[current] = 0
                                       -> "Completed"
                                   [] v = "cancelled" /\ current \in asked
                                       -> "Cancelled"
                                   [] OTHER -> "Failed"
    BY <2>3 DEF Status
  <2>5. place'[current] = "dead"
    BY <2>1, <2>2
  <2>6. QED
    BY <2>1, <2>4, <2>5, RecordRecords
<1>3. QED
  BY <1>1, <1>2

LEMMA StepRecords == IInv /\ Records /\ [Next]_vars => Records'
<1> SUFFICES ASSUME IInv, Records, [Next]_vars PROVE Records'
  OBVIOUS
<1>1. CASE User
  BY <1>1, StartRecords, QuietSteps DEF User
<1>2. CASE Manager
  BY <1>2, StartRecords, QuietSteps, ReadRecords, EndRecords DEF Manager
<1>3. ASSUME NEW j \in Jobs, Worker(j) PROVE Records'
  BY <1>3, SilentSteps, ReportRecords DEF Worker
<1>4. CASE UNCHANGED vars
  <2>1. /\ UNCHANGED <<recent, current, sawTerminal, verdict, stdout, phase>>
        /\ UNCHANGED <<stopRequested, cancelled, asked, place, code>>
        /\ UNCHANGED <<stopping, stdin>>
    BY <1>4, Zenon DEF vars, managerVars, workerVars, flags, output
  <2>2. StopIsTheActiveJobs' /\ cancelled \subseteq asked
    BY <2>1 DEF Records, StopIsTheActiveJobs, CancelledWasAsked
  <2>3. QED
    BY <2>1, <2>2, QuietLemma
<1>5. QED
  BY <1>1, <1>2, <1>3, <1>4 DEF Next

\* Whatever the manager remembers of a job is what the worker made of it,
\* however reports, deaths, cancellations and failed starts interleave; and a
\* stop shown as requested is the active job's.
THEOREM RecordsStayTrue == Spec => []RecordsAreTrue
<1>1. Spec => []Records
  BY InitRecords, StepRecords, Invariance, PTL DEF Spec
<1>2. IInv /\ Records => RecordsAreTrue
  BY DEF IInv, Records, RecordsAreTrue
<1>3. QED
  BY <1>1, <1>2, Invariance, PTL
=============================================================================
