------------------------------ MODULE JobQueue ------------------------------
(***************************************************************************)
(* The desktop's job queue (gui/jobs.py, JobManager) and the worker        *)
(* processes it runs (worker.py), one job at a time.                       *)
(*                                                                         *)
(* The manager lives on the GUI thread: an action of its is one slot, run  *)
(* to its end.  A worker is a process with a standard input, on which it   *)
(* gets its request and then control messages, a standard output, on which *)
(* it reports, and descendants in its process group.  A job has one        *)
(* process, so a job names its process too.  The manager reads reports in  *)
(* chunks of any size; reading them one at a time is the same, for nothing *)
(* happens between two reports of a chunk.                                 *)
(***************************************************************************)
EXTENDS Integers, Sequences, FiniteSets, SequencesExt

CONSTANTS
  Jobs,         \* bound: the jobs ever submitted, each once
  Training,     \* those whose kind is "training"
  NoJob,
  RecentLimit,  \* how many ended jobs are remembered
  MaxUnread     \* bound: a worker reports progress while fewer are unread

ASSUME JobQueueAssumption ==
  /\ Training \subseteq Jobs
  /\ NoJob \notin Jobs
  /\ RecentLimit \in Nat \ {0}
  /\ MaxUnread \in Nat

VARIABLES
  queue, current, phase,
  sawTerminal,    \* _saw_terminal_event
  stopRequested,  \* _stop_after_generation_requested
  group,          \* _worker_group is known
  process,        \* the state of the QProcess, or "None"
  timer,          \* the job whose process the cancel timer will kill
  startPosted,    \* a call of _start_next waits in the event loop
  recent,
  shuttingDown,   \* after shutdown; the window closes with the active job
  quit,           \* the application has ended
  place,          \* of each job's worker
  cancelled,      \* workers whose _cancelled is set
  stopping,       \* workers whose _stop_after_generation is set
  stdin, stdout,  \* of each worker: the lines and the reports not read yet
  descendants,    \* of each worker
  code,           \* exit code of each worker; -1 if a signal ended it
  submitted,      \* history: jobs accepted
  verdict,        \* history: what each worker first reported of its end
  asked           \* history: jobs whose worker was told to terminate

managerVars == <<queue, current, phase, sawTerminal, stopRequested, group,
                 process, timer, startPosted, recent, shuttingDown, quit,
                 submitted, asked>>
flags       == <<cancelled, stopping>>
output      == <<stdout, verdict>>
workerVars  == <<place, flags, stdin, output, descendants, code>>
vars        == <<managerVars, workerVars>>

Terminal == {"completed", "cancelled", "failed"}
Reports  == Terminal \cup {"started", "phase", "invalid"}
Outcomes == {"Completed", "Cancelled", "Failed"}
Phases   == Outcomes \cup {"Idle", "Starting", "Running", "Cancelling"}
Places   == {"unborn", "forked", "booting", "ready", "running", "exiting",
             "dead"}
Alive(j) == place[j] \notin {"unborn", "dead"}

SwitchesTypeOK ==
  /\ sawTerminal \in BOOLEAN /\ stopRequested \in BOOLEAN /\ group \in BOOLEAN
  /\ startPosted \in BOOLEAN /\ shuttingDown \in BOOLEAN /\ quit \in BOOLEAN

ManagerTypeOK ==
  /\ queue \in Seq(Jobs) /\ current \in Jobs \cup {NoJob} /\ phase \in Phases
  /\ process \in {"None", "Starting", "Running", "NotRunning"}
  /\ timer \in Jobs \cup {NoJob}
  /\ recent \in Seq([job : Jobs, status : Outcomes])
  /\ Len(recent) <= RecentLimit
  /\ submitted \subseteq Jobs /\ asked \subseteq Jobs

WorkerTypeOK ==
  /\ place \in [Jobs -> Places]
  /\ cancelled \subseteq Jobs /\ stopping \subseteq Jobs
  /\ stdin \in [Jobs -> Seq({"request", "stop"})]
  /\ stdout \in [Jobs -> Seq(Reports)]
  /\ verdict \in [Jobs -> Terminal \cup {"none", "invalid"}]
  /\ descendants \in [Jobs -> {"none", "live", "killed"}]
  /\ code \in [Jobs -> -1..2]

TypeOK == SwitchesTypeOK /\ ManagerTypeOK /\ WorkerTypeOK

Init ==
  /\ queue = <<>> /\ current = NoJob /\ phase = "Idle"
  /\ sawTerminal = FALSE /\ stopRequested = FALSE /\ group = FALSE
  /\ process = "None" /\ timer = NoJob /\ startPosted = FALSE
  /\ recent = <<>> /\ shuttingDown = FALSE /\ quit = FALSE
  /\ place = [j \in Jobs |-> "unborn"] /\ cancelled = {}
  /\ stopping = {}
  /\ stdin = [j \in Jobs |-> <<>>] /\ stdout = [j \in Jobs |-> <<>>]
  /\ descendants = [j \in Jobs |-> "none"] /\ code = [j \in Jobs |-> -1]
  /\ verdict = [j \in Jobs |-> "none"]
  /\ submitted = {} /\ asked = {}

-----------------------------------------------------------------------------
(* The queue.                                                              *)

\* Jobs may start from the queue q.
CanStart(q) == ~shuttingDown /\ current = NoJob /\ q # <<>>

Launch(q) ==
  /\ current' = Head(q) /\ queue' = Tail(q)
  /\ phase' = "Starting" /\ process' = "Starting"
  /\ sawTerminal' = FALSE /\ stopRequested' = FALSE /\ group' = FALSE
  /\ place' = [place EXCEPT ![Head(q)] = "forked"]

\* _start_next, on the queue q.
StartNext(q) ==
  \/ CanStart(q) /\ Launch(q)
  \/ /\ ~CanStart(q)
     /\ queue' = q
     /\ UNCHANGED <<current, phase, process, sawTerminal, stopRequested,
                    group, place>>

Submit(j) ==
  /\ j \notin submitted /\ ~shuttingDown
  /\ submitted' = submitted \cup {j}
  /\ StartNext(Append(queue, j))
  /\ UNCHANGED <<timer, startPosted, recent, shuttingDown, quit, asked,
                 flags, stdin, output, descendants, code>>

StartPosted ==
  /\ startPosted /\ startPosted' = FALSE
  /\ StartNext(queue)
  /\ UNCHANGED <<timer, recent, shuttingDown, quit, submitted, asked, flags,
                 stdin, output, descendants, code>>

-----------------------------------------------------------------------------
(* The active job's process.                                               *)

\* SIGTERM: a worker that has not installed its handler dies of it.
Terminate(j) ==
  \/ /\ place[j] \in {"forked", "booting"}
     /\ place' = [place EXCEPT ![j] = "dead"] /\ UNCHANGED cancelled
  \/ /\ place[j] \in {"ready", "running", "exiting"}
     /\ cancelled' = cancelled \cup {j} /\ UNCHANGED place
  \/ place[j] = "dead" /\ UNCHANGED <<place, cancelled>>

\* The body of cancel(), once there is a process.
CancelProcess ==
  /\ Terminate(current)
  /\ timer' = current
  /\ asked' = asked \cup {current}

PhaseOf(e) == CASE e \in {"started", "phase"} -> "Running"
                [] e = "completed" -> "Completed"
                [] e = "cancelled" -> "Cancelled"
                [] e = "failed"    -> "Failed"

\* Faulty variant: a report counts after a terminal one.
HandleAll(e) ==
  /\ sawTerminal' = (sawTerminal \/ e \in Terminal)
  /\ group' = (group \/ e = "started")
  /\ phase' = IF e = "invalid" THEN phase ELSE PhaseOf(e)

\* _handle_event of a valid report; nothing counts after a terminal one.
Handle(e) ==
  /\ sawTerminal' = (sawTerminal \/ e \in Terminal)
  /\ group' = (group \/ (~sawTerminal /\ e = "started"))
  /\ phase' = IF sawTerminal THEN phase ELSE PhaseOf(e)

NextReport == Head(stdout[current])

\* A valid report is handled; an invalid one fails the job and cancels it,
\* unless the job has reported its end.
ReadStdout ==
  /\ current # NoJob /\ process = "Running" /\ stdout[current] # <<>>
  /\ stdout' = [stdout EXCEPT ![current] = Tail(@)]
  /\ \/ /\ NextReport # "invalid" \/ sawTerminal
        /\ Handle(NextReport)
        /\ UNCHANGED <<place, cancelled, timer, asked>>
     \/ /\ NextReport = "invalid" /\ ~sawTerminal
        /\ Handle("failed")
        /\ CancelProcess
  /\ UNCHANGED <<queue, current, stopRequested, process, startPosted, recent,
                 shuttingDown, quit, submitted, stopping, stdin, descendants,
                 code, verdict>>

\* QProcess started: _send_request.
SendRequest ==
  /\ current # NoJob /\ process = "Starting" /\ place[current] # "forked"
  /\ process' = "Running"
  /\ stdin' = [stdin EXCEPT ![current] = Append(@, "request")]
  /\ UNCHANGED <<queue, current, phase, sawTerminal, stopRequested, group,
                 timer, startPosted, recent, shuttingDown, quit, submitted,
                 asked, place, flags, output, descendants, code>>

StopAfterGeneration ==
  /\ current \in Training /\ ~stopRequested
  /\ stopRequested' = TRUE
  /\ stdin' = [stdin EXCEPT ![current] = Append(@, "stop")]
  /\ UNCHANGED <<queue, current, phase, sawTerminal, group, process, timer,
                 startPosted, recent, shuttingDown, quit, submitted, asked,
                 place, flags, output, descendants, code>>

Cancel ==
  /\ current # NoJob
  /\ phase' = IF sawTerminal THEN phase ELSE "Cancelling"
  /\ CancelProcess
  /\ UNCHANGED <<queue, current, sawTerminal, stopRequested, group, process,
                 startPosted, recent, shuttingDown, quit, submitted, stopping,
                 stdin, output, descendants, code>>

\* The queue is dropped and the active job cancelled.
Shutdown ==
  /\ shuttingDown' = TRUE
  /\ queue' = <<>>
  /\ \/ /\ current # NoJob
        /\ phase' = IF sawTerminal THEN phase ELSE "Cancelling"
        /\ CancelProcess
     \/ current = NoJob /\ UNCHANGED <<phase, place, cancelled, timer, asked>>
  /\ UNCHANGED <<current, sawTerminal, stopRequested, group, process,
                 startPosted, recent, quit, submitted, stopping, stdin,
                 output, descendants, code>>

\* _kill_worker_group.
KillGroup(j) == [descendants EXCEPT
                   ![j] = IF group /\ @ = "live" THEN "killed" ELSE @]

\* Faulty variant: only the process group is killed, which may be unknown.
KillGroupOnly ==
  /\ timer # NoJob /\ timer' = NoJob
  /\ IF timer = current /\ process # "NotRunning" /\ group
     THEN /\ descendants' = KillGroup(timer)
          /\ place' = [place EXCEPT ![timer] = "dead"]
          /\ code' = [code EXCEPT ![timer] =
                        IF place[timer] = "dead" THEN @ ELSE -1]
     ELSE UNCHANGED <<descendants, place, code>>
  /\ UNCHANGED <<queue, current, phase, sawTerminal, stopRequested, group,
                 process, startPosted, recent, shuttingDown, quit, submitted,
                 asked, flags, stdin, output>>

\* _kill_if_running, on the process the timer was started for.
KillIfRunning ==
  /\ timer # NoJob /\ timer' = NoJob
  /\ IF timer = current /\ process # "NotRunning"
     THEN /\ descendants' = KillGroup(timer)
          /\ place' = [place EXCEPT ![timer] = "dead"]
          /\ code' = [code EXCEPT ![timer] =
                        IF place[timer] = "dead" THEN @ ELSE -1]
     ELSE UNCHANGED <<descendants, place, code>>
  /\ UNCHANGED <<queue, current, phase, sawTerminal, stopRequested, group,
                 process, startPosted, recent, shuttingDown, quit, submitted,
                 asked, flags, stdin, output>>

-----------------------------------------------------------------------------
(* The end of a job.                                                       *)

\* What is recorded of the active job, reported in phase p.
Status(terminal, p) ==
  IF ~terminal \/ (p = "Completed" /\ code[current] # 0) THEN "Failed" ELSE p

\* The bounded list of ended jobs with the active one in front.
Recent(status) ==
  LET all == <<[job |-> current, status |-> status]>> \o recent
  IN  SubSeq(all, 1, IF Len(all) > RecentLimit THEN RecentLimit ELSE Len(all))

\* Faulty variant: the next job is not started.
RecordOnly(terminal, p) ==
  /\ recent' = Recent(Status(terminal, p))
  /\ phase' = Status(terminal, p)
  /\ group' = FALSE
  /\ current' = NoJob /\ process' = "None"
  /\ stdin' = [stdin EXCEPT ![current] = <<>>]
  /\ cancelled' = cancelled \ {current} /\ stopping' = stopping \ {current}
  /\ UNCHANGED startPosted

\* The last part of _finished: the job is recorded, the process with its
\* pipes is gone and the queue moves on.
Record(terminal, p) ==
  /\ recent' = Recent(Status(terminal, p))
  /\ phase' = Status(terminal, p)
  /\ group' = FALSE
  /\ current' = NoJob /\ process' = "None"
  /\ stdin' = [stdin EXCEPT ![current] = <<>>]
  /\ cancelled' = cancelled \ {current} /\ stopping' = stopping \ {current}
  /\ startPosted' = TRUE

\* Faulty variant: the killed descendants are not awaited.
FinishedAtOnce ==
  /\ current # NoJob
  /\ \/ process = "Running" /\ place[current] = "dead" /\ stdout[current] = <<>>
     \/ process = "NotRunning"
  /\ timer' = NoJob
  /\ descendants' = KillGroup(current)
  /\ Record(sawTerminal, phase)
  /\ UNCHANGED <<queue, sawTerminal, stopRequested, shuttingDown, quit,
                 submitted, asked, place, stdout, code, verdict>>

\* Faulty variant: the cancel timer goes on.
FinishedWithTimer ==
  /\ current # NoJob
  /\ \/ process = "Running" /\ place[current] = "dead" /\ stdout[current] = <<>>
     \/ process = "NotRunning"
  /\ UNCHANGED timer
  /\ descendants' = KillGroup(current)
  /\ \/ /\ group /\ descendants[current] # "none"
        /\ process' = "NotRunning"
        /\ UNCHANGED <<current, phase, group, startPosted, recent, stdin,
                       flags>>
     \/ /\ ~(group /\ descendants[current] # "none")
        /\ Record(sawTerminal, phase)
  /\ UNCHANGED <<queue, sawTerminal, stopRequested, shuttingDown, quit,
                 submitted, asked, place, stdout, code, verdict>>

\* _finished.  The queue stays occupied while descendants run: the call is
\* repeated later.
Finished ==
  /\ current # NoJob
  /\ \/ process = "Running" /\ place[current] = "dead" /\ stdout[current] = <<>>
     \/ process = "NotRunning"
  /\ timer' = NoJob
  /\ descendants' = KillGroup(current)
  /\ \/ /\ group /\ descendants[current] # "none"
        /\ process' = "NotRunning"
        /\ UNCHANGED <<current, phase, group, startPosted, recent, stdin,
                       flags>>
     \/ /\ ~(group /\ descendants[current] # "none")
        /\ Record(sawTerminal, phase)
  /\ UNCHANGED <<queue, sawTerminal, stopRequested, shuttingDown, quit,
                 submitted, asked, place, stdout, code, verdict>>

\* _process_error: the process could not be started.
FailedToStart ==
  /\ current # NoJob /\ process = "Starting" /\ place[current] = "forked"
  /\ place' = [place EXCEPT ![current] = "dead"]
  /\ sawTerminal' = TRUE
  /\ timer' = NoJob
  /\ Record(TRUE, "Failed")
  /\ UNCHANGED <<queue, stopRequested, shuttingDown, quit, submitted, asked,
                 stdout, descendants, code, verdict>>

\* The window closes: at once if no job is active, else only when it is
\* already closing; a process still running is then killed.
Close ==
  /\ current = NoJob \/ shuttingDown
  /\ quit' = TRUE
  /\ place' = [j \in Jobs |-> IF j = current THEN "dead" ELSE place[j]]
  /\ UNCHANGED <<queue, current, phase, sawTerminal, stopRequested, group,
                 process, timer, startPosted, recent, shuttingDown, submitted,
                 asked, flags, stdin, output, descendants, code>>

-----------------------------------------------------------------------------
(* A worker (worker.py, main).                                             *)

Report(j, e) ==
  /\ stdout' = [stdout EXCEPT ![j] = Append(@, e)]
  /\ verdict' = [verdict EXCEPT ![j] =
                   IF @ = "none" /\ e \in Terminal \cup {"invalid"}
                   THEN e ELSE @]

Exec(j) ==
  /\ place[j] = "forked" /\ place' = [place EXCEPT ![j] = "booting"]
  /\ UNCHANGED <<managerVars, flags, stdin, output, descendants, code>>

InstallHandlers(j) ==
  /\ place[j] = "booting" /\ place' = [place EXCEPT ![j] = "ready"]
  /\ UNCHANGED <<managerVars, flags, stdin, output, descendants, code>>

\* The exit code that goes with a last report.
CodeOf(e) == CASE e = "completed" -> 0 [] e = "failed" -> 1
               [] e = "cancelled" -> 2

End(j, e) ==
  /\ Report(j, e)
  /\ place' = [place EXCEPT ![j] = "exiting"]
  /\ code' = [code EXCEPT ![j] = CodeOf(e)]

\* The first line must be the request.
ReadRequest(j) ==
  /\ place[j] = "ready" /\ stdin[j] # <<>>
  /\ stdin' = [stdin EXCEPT ![j] = Tail(@)]
  /\ \/ /\ Head(stdin[j]) = "request"
        /\ Report(j, "started")
        /\ place' = [place EXCEPT ![j] = "running"] /\ UNCHANGED code
     \/ Head(stdin[j]) # "request" /\ End(j, "failed")
  /\ UNCHANGED <<managerVars, flags, descendants>>

\* _listen_for_commands: a stop request reaches the run.
ReadCommand(j) ==
  /\ place[j] \in {"running", "exiting"} /\ stdin[j] # <<>>
  /\ Head(stdin[j]) = "stop"
  /\ stdin' = [stdin EXCEPT ![j] = Tail(@)]
  /\ stopping' = stopping \cup {j}
  /\ UNCHANGED <<managerVars, place, cancelled, output, descendants, code>>

\* The run: it reports, now and then perhaps what the manager cannot read.
Progress(j) ==
  /\ place[j] = "running" /\ Len(stdout[j]) < MaxUnread
  /\ \E e \in {"phase", "invalid"} : Report(j, e)
  /\ UNCHANGED <<managerVars, place, flags, stdin, descendants, code>>

SpawnDescendants(j) ==
  /\ place[j] = "running" /\ descendants[j] = "none"
  /\ descendants' = [descendants EXCEPT ![j] = "live"]
  /\ UNCHANGED <<managerVars, place, flags, stdin, output, code>>

\* The run returns or raises; a run that was cancelled does not complete.
EndRun(j) ==
  /\ place[j] = "running"
  /\ \E e \in {"failed", IF j \in cancelled THEN "cancelled" ELSE "completed"} :
       End(j, e)
  /\ UNCHANGED <<managerVars, flags, stdin, descendants>>

Exit(j) ==
  /\ place[j] = "exiting" /\ place' = [place EXCEPT ![j] = "dead"]
  /\ UNCHANGED <<managerVars, flags, stdin, output, descendants, code>>

\* A signal or a fault ends the process, perhaps after its last report.
Crash(j) ==
  /\ Alive(j) /\ place[j] # "forked"
  /\ place' = [place EXCEPT ![j] = "dead"]
  /\ code' = [code EXCEPT ![j] = -1]
  /\ UNCHANGED <<managerVars, flags, stdin, output, descendants>>

\* Descendants end by themselves or because they were killed.
DescendantsExit(j) ==
  /\ descendants[j] # "none"
  /\ descendants' = [descendants EXCEPT ![j] = "none"]
  /\ UNCHANGED <<managerVars, place, flags, stdin, output, code>>

-----------------------------------------------------------------------------
User    == (\E j \in Jobs : Submit(j)) \/ StopAfterGeneration \/ Cancel
           \/ Shutdown \/ Close
Manager == StartPosted \/ SendRequest \/ ReadStdout \/ KillIfRunning
           \/ Finished \/ FailedToStart
Worker(j) == Exec(j) \/ InstallHandlers(j) \/ ReadRequest(j) \/ ReadCommand(j)
             \/ Progress(j) \/ SpawnDescendants(j) \/ EndRun(j) \/ Exit(j)
             \/ Crash(j) \/ DescendantsExit(j)

Next == ~quit /\ (User \/ Manager \/ \E j \in Jobs : Worker(j))
Spec == Init /\ [][Next]_vars

\* The event loop serves every slot, and the system starts a process and
\* ends a killed one.  Nothing makes a worker or its descendants come to an
\* end by themselves.
FairSpec ==
  /\ Spec
  /\ WF_vars(~quit /\ StartPosted) /\ WF_vars(~quit /\ SendRequest)
  /\ WF_vars(~quit /\ ReadStdout) /\ WF_vars(~quit /\ KillIfRunning)
  /\ WF_vars(~quit /\ Finished)
  /\ \A j \in Jobs :
       /\ WF_vars(~quit /\ Exec(j))
       /\ WF_vars(~quit /\ descendants[j] = "killed" /\ DescendantsExit(j))

-----------------------------------------------------------------------------
(* Properties.                                                             *)

\* No process of a job runs unless the job is the active one: the next job
\* waits until the last worker and all its descendants are gone, however
\* they went (_finished, _kill_worker_group, _worker_group_running).
OneJobAtATime ==
  \A j \in Jobs \ {current} : ~Alive(j) /\ descendants[j] = "none"

\* The cancel timer, while it runs, is for the active process: no job is
\* killed by the timer of an earlier one (cancel, _finished).
TimerIsTheActiveJobs == timer # NoJob => timer = current

\* A queue that waits has something to wait for: an active job, or a call of
\* _start_next that is on its way (submit, _finished).
QueueIsServed == queue # <<>> /\ current = NoJob => startPosted

\* A job is remembered once, and as what its worker made of it: completed if
\* the first thing it reported in the end is that and it then left in good
\* order, cancelled only if it was asked to stop and reported so, and failed
\* in all other cases, silence included (_handle_event, _finished).
RecordIsTrue ==
  /\ \A i, k \in DOMAIN recent : recent[i].job = recent[k].job => i = k
  /\ \A i \in DOMAIN recent :
       LET j == recent[i].job
       IN  recent[i].status =
             CASE verdict[j] = "completed" /\ code[j] = 0 -> "Completed"
               [] verdict[j] = "cancelled" /\ j \in asked -> "Cancelled"
               [] OTHER -> "Failed"

\* A stop that shows as requested is the active job's: as long as its worker
\* may act on it, it waits in the worker's input or has been taken; the stop
\* of an earlier job never stands for it (stopAfterGeneration, _start_next).
StopIsTheActiveJobs ==
  stopRequested /\ current # NoJob /\ place[current] \notin {"exiting", "dead"}
    => current \in stopping \/ "stop" \in ToSet(stdin[current])

\* What the manager shows and keeps of its jobs is true, and it keeps no more
\* of them than it may (_finished, _handle_event, stopAfterGeneration).
RecordsAreTrue == TypeOK /\ RecordIsTrue /\ StopIsTheActiveJobs

\* A job whose cancellation was asked for comes to an end even if its worker
\* ignores SIGTERM for ever (cancel, _kill_if_running).
CancelledJobsEnd ==
  \A j \in Jobs : j \in asked ~> (current # j \/ quit)

\* Doc and code: control messages come after the request (worker.py,
\* _listen_for_commands: "after the initial job request").
ControlFollowsRequest ==
  \A j \in Jobs : stdin[j] # <<>> /\ place[j] \in {"booting", "ready"}
    => Head(stdin[j]) = "request"
=============================================================================
