# A verification project for Connect4Codex

TLA+ models of this repository, model-checked with TLC and, where noted, proved with
TLAPS. Paths below are relative to the repository; `training_v2.py` is
`src/c4a0/training_v2.py`, `interactive.cpp` is `cpp/src/interactive.cpp`, and so on.

## 1. The system

An AlphaZero-style Connect Four engine. A C++ core plays and searches games; Python
processes train the network and run the desktop application. Its parts:

| Part | State it keeps | Operations | Hard behaviours |
| --- | --- | --- | --- |
| Game rules, `position.cpp` | two 64-bit words | move, win test, legal moves, score, flip, line of play of a board | every move turns the point of view; backtracking over lines |
| MCTS game, `mcts.cpp` | line played, tree, selected leaf | receive an evaluation, move, random and best move, undo, reset | the tree is dropped, promoted and searched in turn |
| Interactive search, `interactive.cpp` | a game, target, error, revision, running flag | moves, undo, reset, retry, raise the target, snapshot, destroy | a thread evaluates outside the mutex; one condition variable for everybody |
| Self-play, `self_play.cpp` | two bounded queues, games under way, results, first error | neural loop, MCTS workers, fail, close | batching with left-over games; stop while threads sleep |
| Solver, `solver.cpp` | database of solutions, child process with its pipes | look up, solve in chunks, store, score | several processes on one database; both pipes full; kills |
| V2 training, `training_v2.py` | `run.sqlite3`, checkpoints, shards, `learner.pt`; the coordinator's schedule | register shards, judge candidates, promote, prune, back-pressure, recover | three processes, four queues, a crash between any two commits |
| Replay, `ReplayPool`, `ReplayPrefetcher` | shards in use, cache, random stream, one prefetched batch | draw, prefetch, add, remove, save, invalidate | two threads on one stream; files that are deleted |
| Arena, `_run_arena`, `arena_statistics.py` | openings, outcome counts, the gate | play a batch, pair, decide, start anew | results in any order; out of memory in the middle |
| League, `_league_requests`, `_ActorEvaluator` | accepted attempts, loaded models | allocate opponents, number players, load and drop models | a batch asked for before a promotion |
| Legacy training, `training.py` | generation directories | self-play, train, publish, resume, score | publication against a kill; a scoring job beside it |
| Minimax harness, `minimax_harness.py` | score cache, scores of a level | search, play a level, promote | a cache shared between depths; early decisions |
| GUI job manager and worker, `gui/jobs.py`, `worker.py` | job queue, active process, its terminal event | submit, cancel, stop after a generation, shut down | cancellation against completion; escalation timer |
| Inference process, `gui/inference.py` | child process, request in flight | evaluate, reload, close | deadline against a late answer; the parent's end |
| Play page, `gui/app.py` `GameController` | current game, loads, timer, what is shown | start, swap, move, undo, retry, end, quit | late loads; a GUI thread that waits for the search |
| Models page, `gui/app.py` `AppController` | list, statistics, revisions | set directory, refresh, inspect | readings that end in any order |
| Tournament, sweep, TUI, bindings, serialization, rng, nn, config, CLI, benchmarks, rest of QML | - | fixed schedules, conversions, presentation, measurement | none of their own |

How they interact: self-play and the interactive search both drive the MCTS game; the
actor process of a training run calls self-play through the bindings; the coordinator
talks to the actor and the trainer through four queues and shares the run directory
with them; the trainer's loader thread reads the shards the coordinator registers and
deletes. The desktop application runs training, evaluation and scoring in a worker
process under the job manager; it plays through the interactive search, whose evaluator
is the inference process, and reads the directories that training writes.

What makes each part correct, in one line: a position is the board that was played; the
interactive search behaves like one atomic loop on the board on display; self-play
returns every game once or the first error; a cached solution is that of its position; a
training run's directory is consistent after any crash, and its champion is the attempt
accepted last; a checkpoint resumes the stream of games it stopped at; a candidate is
judged on whole openings of its own match; a job ends exactly once; a late answer is
never taken for another's, and a page shows what was asked for last.

## 2. Modules

| Module | What it is |
| --- | --- |
| `MctsGame` | the game object every search drives; no behaviour of its own |
| `SearchedGame` | abstract: one game, one atomic evaluation at a time |
| `InteractivePlay` | `interactive.cpp` at the grain of its critical sections; extends `MctsGame` |
| `SelfPlay` | `self_play.cpp`: queues, neural thread, workers |
| `Position` | `position.cpp` against a game of stacked stones |
| `SolverCache` | `solver.cpp`: processes, children, pipes, transactions |
| `RunManifest` | what a V2 run keeps on disk: one operator per commit or file operation |
| `Learner` | the trainer process; extends `RunManifest` |
| `TrainingRun` | coordinator, actor, crash and restart; extends `Learner` |
| `PromotionLadder` | abstract: attempts as a ladder of challenges to a champion |
| `ReplayLoader` | the trainer's pool of shards and its loader thread |
| `ArenaMatch`, `ArenaOpenings` | the match that decides on a candidate, and what it starts from |
| `League` | opponents of a batch of games, and the actor's loaded models |
| `GenerationStore` | the generations of a legacy run, and the scoring job |
| `Minimax`, `MinimaxLadder` | the minimax opponent with its cache, and the ladder of opponents |
| `JobQueue` | `gui/jobs.py` with `worker.py` and the closing of the window |
| `Evaluator` | abstract: what a game is promised by its evaluator |
| `Inference` | `gui/inference.py`: the caller, the closing thread, the child |
| `GameDesk`, `ModelBrowser` | the Play and Models pages: slots, pool threads, late results |
| `InteractivePlayProofs`, `JobQueueProofs`, `InferenceProofs`, `SolverProofs`, `SelfPlayProofs`, `TrainingRunProofs`, `TrainingPartsProofs`, `DesktopProofs` | inductive invariants and refinements, proved |
| `MC*` | instances for TLC; `MCEngine`, `MCTrainingParts` and `MCDesktop` each check several modules |

Operators introduced by "Faulty variant" are not part of any specification: each is the
bug that one of the properties is there to catch, and substituting it for the operator
that follows makes that property fail.

### Interactive search

*State.* `moves`, `visits`, `leaf` are `moves_`, `root_->visit_count` and the position of
`leaf_`; a position is the sequence of columns that leads to it, so the constant
`Boards`, a prefix-closed set of lines, is the game tree. Priors, values and scores
are left out: `select_leaf` may choose any position under the root that the number of
visits could have reached (`Leaves`). The visits of a promoted child are what the
choice of move allows: a sampled move was visited, a best move was visited most.
`maxIterations`, `failed`, `revision`, `running`, `stop` are the members of `Impl`;
`bg` is the place of the background thread in its loop, `caller` that of each API
thread, `request` the call a waiting caller will finish.

*Actions* are critical sections. `Capture` reads revision and leaf and lets go of the
mutex; `BgDiscard`, `BgReceive`, `BgFail` are the three things that happen after
relocking; `BgDiscard` continues with the loop's head without releasing the mutex, as
`continue` does. A call that finds the stored error, or returns false, changes nothing
and is no step. `make_move` and `make_random_move` check the board, may wait for the root
to be expanded (`Await`), and then play on the board they find (`CallerWake`), or throw.
`UndoNothing` is `undo()` without a move to take back, kept apart because of finding 1;
`UndoAtStart` says whether callers do that. Condition variables wake spuriously.

### Self-play

*State.* A game has the moves it will still last, the visits of its root and a leaf; it is
at one of: the neural queue, `pending_games`, the MCTS queue, a worker, the results.
`place` is where each thread is. The two queues hold as many games as there are, so
`Room` and its counterpart in `NeuralHandsOver` are written as guards: a push that would
have to wait for room could not proceed here, and `GamesAreConserved` with
`SelfPlayTerminates` shows that none ever does.

*Actions.* `NeuralHead` is the loop's head with the pop, `NeuralDrain` is
`drain_available`, `NeuralHandsOver` the evaluation of the selected model's first
positions and the hand-over of the games they belong to. `WorkerHead` pops,
`WorkerContinues` iterates or moves, `WorkerFinishes` records a result,
`WorkerReports` is the callback and the closing after the last game. `Throw` is an
exception of the evaluator, of a callback, of the cancellation check or of the creation
of a thread; `fail` is then three steps: error and stop request, the closing of one queue,
the closing of the other. The stop request alone wakes nobody, since the
queues wait on plain condition variables.

### Position and solver

`Position` keeps a word as the set of its bits; every operator has the name and the
arithmetic of the code (the point of view turned after each move, the win masks
enumerated per direction, the depth-first `to_moves`). Beside it the variable `stacks`
plays the game as people do, and the properties compare the two. `ToMoves` is the one
`RECURSIVE` operator of the engine, hence not used where anything is proved.

`SolverCache` gives every process its program counter in `CachingSolver::score`: look-up
without a lock across processes, chunks one after the other, `write_all` that does not read,
`read_process_output` with its limit, `waitpid`, the parse, the transaction. A pipe
holds lines, a solution is named by its position, and a line by the line of play it begins with
and the position whose scores follow. The child answers in order, and may leave lines out, print
others (`Strays`: of other positions, without scores, without a line of play), end early or
hang; a deadline may pass at any time. The parser accepts scores without a line of play for the
empty position (`Accepts`), whose own line of play has no characters. The process may be killed
anywhere, and nothing then ends its child: `posix_spawn` leaves no death signal behind, so one
that hangs stays for ever (`orphans`). What the child prints to its stderr only words exceptions. A
transaction waits for its turn (`writer`) or gives up. The schema and the bytes of a row are left out.

### V2 training

*State.* `RunManifest` holds what survives a crash: rows, pointers, checkpoints, shards.
`Learner` adds the trainer's local state, its two queues, `learner.pt` and
`.candidate.pt`; `TrainingRun` the coordinator's schedule, the actor's queues and what
it has written. Games are counted in shards: a batch is a whole number of equal shards,
and each brings the same budget (`ShardBudget`). Training steps matter
modulo the intervals they are compared with (`StepCycle`).

*Actions.* A handler of the coordinator is one action per commit or file operation, so a
`Crash` can come between any two: a shard is `RegisterShard` then `RetireShards`
(the two commits of `register_shard`), a candidate `ReceiveCandidate` (`os.replace`) then
`RegisterCandidate` (the row), a verdict `DecideCandidate`, `DispatchDecision`,
`PruneRejected`. `EndPass` is what follows the event loop: back-pressure, the stop, the next
batch. `InitializeRoot`, `RecoverOrphan`, `RecoverCandidate`, `Launch` are start-up.
`Return` and `Abort` end an invocation through the `finally` block (`StopChildren`,
`CloseCandidate`, `CloseRow`, `Close`): the trainer has saved itself or was killed first.
`Crash` takes the children along (`PR_SET_PDEATHSIG`) and their queues. A training step
(`TrainStep`) includes the validation, the report and the candidate of the same
iteration, and may come before commands that are in the queue but not yet visible.

*Abstractions.* The arena's verdict, the validation's outcome and the comparison of
scores for the learner's incumbent are nondeterministic; since the incumbent's score is a
commit of its own that a crash can lose, an incumbent may be dropped where runs
are interrupted. `max_gens` is covered by the operator's stop, which may come with any
verdict; its early return before anything starts is left out. `self_play_progress`,
`arena_progress`, `effective_batch` and TensorBoard are left out.

### Replay, arena and league

`ReplayLoader` looks into the trainer's step: a batch is some draws, each a choice of a
shard (one position of the random stream) and a load from the cache or its file, under the
pool's lock. `future` is the prefetched batch; `Invalidated` cancels one that is queued, waits
for one that runs and raises the error of one that failed, as `ReplayPrefetcher.invalidate`
does at checkpoints, after a halved batch and in the failure handler. The coordinator adds,
retires and deletes shards on its own. The loader with `data_loader_workers = 0`, a
trainer that draws its own batches, has fewer interleavings and is left out.

`ArenaMatch` plays batches of opening pairs whose games finish in any order; the gate's
log-likelihood ratio is a real number, of which only the side of the two bounds is kept,
any side for any counts. `Count` takes the result of the lowest game, the body of the loop
over the sorted results, and `Judge` asks the gate after it. `Restart` is the actor's retry
with half the inference batch; `Begin` forgets everything. `ArenaOpenings` draws any short
games, keeps them with their mirror images, writes the file and reuses it after a crash.
`League` begins or resumes with any ladder and any pending candidate, whose arena is then the
first order. A candidate comes when it likes, also while the actor has still to reload: its arena
is queued behind. `League` has the largest-remainder allocation, the numbers that stand for baseline players at
the top of the range of model numbers (`Half` is half of that range), the colours, and the
actor's `configure` for each command of a coordinator that queues batches, arenas and reloads.
Networks and weights' floating-point sums are left out.

### Legacy training and harness

`GenerationStore`: a generation is written file by file into a temporary folder and renamed
to a folder named after the clock; a trainer starts from the greatest name. A scoring
job reads the metadata, may be killed, and replaces one metadata file at a time. The clock
may be set back once. `Minimax` is `_MinimaxEvaluator` with its cache over many positions,
compared with forced wins and losses defined by quantifiers. `MinimaxLadder` is
`evaluate_minimax_ladder` with levels that end early.

### Job queue

*State.* The manager's members keep their names (`sawTerminal` is `_saw_terminal_event`,
`group` says that `_worker_group` is known). A job has one process, so the job names the
process, its pipes (`stdin`, `stdout`), its exit code and its descendants, the processes
of its group. `place` is where the worker is: forked, in `exec`, with
its signal handlers installed (`ready`), in its run, on its way out, dead. `verdict`, `asked`
and `submitted` are history: what the worker first reported of its end, who was told to
terminate, which jobs were accepted.

*Actions.* A slot of the manager runs to its end on the GUI thread and is one action.
`ReadStdout` takes one report; a chunk of several is the same, for nothing happens
between two of them, and Qt delivers what is in the pipe before it says that the process
finished, which is why `Finished` requires it to be empty. A report `invalid` stands for one that
`_handle_event` raises on, as in `tests/c4a0_tests/release_reliability_test.py`; it fails the job and
cancels it in the same slot. Logs, progress and metrics change nothing but what is shown;
they are not reports here. `Finished` is `_finished` with its repetition while descendants live;
`StartPosted` is the posted `_start_next`. `Close` is both ways for the window to close: the
timer that waits for the active job, and a second attempt while that timer runs; the
destruction of the `QProcess` then kills the worker. In the worker, a
SIGTERM kills until the handlers are installed and sets a flag after that; a run may crash, fail,
spawn descendants (`mise`, the actor and the trainer) and take any time.

*Abstractions.* Six seconds are any time: the cancel timer may fire at any moment after it
was started, also before the worker had a chance. Cancelling again restarts it in the
code; the fairness below excludes a user who does so for ever. Two more simplifications: a
report is a whole line (the code collects the pieces of one), and process numbers are not reused.

### Inference process and pages

`Inference`: `pc` is where `forward_numpy` is, `process` both `_process` and `_connection`, a child
names its pipe; `Lock`, `Reuse`, `Spawn`, `SpawnFails` are `_start` with its lock, `Deadline` and
`Expire` the poll that found nothing and the stop that follows. `BeginClose` and `EndClose` are
`close` from another thread. The child arms its death signal, builds its players, serves;
it may crash at any time, and the desktop may be killed at any time, also before the child
is armed (`Arm` looks at its parent). A message fits the pipe's buffer, so `send` does
not block. `SlowDeath` says whether a killed child may outlast the second that
`_stop_worker` waits for it: finding 4.

`GameDesk` models `GameController` with the pool of two threads. Of the native game it keeps
what the page can tell: moves made, visits of the root, the target, the error, and
whether an error was forgotten by an undo that woke nobody (finding 1). A move
that waits for the root holds the GUI thread (`blocked`). The timer (`Timer`) copies the
snapshot and lets the computer move. `ModelBrowser` models the readings of
`AppController` with their revision numbers; a reading that ends before its callback is
attached delivers within the slot (`slot`), and the directory changes under a running
training.

Each of these pages is checked against the promise of the part below it, not against its
code: `GameDesk` assumes that an evaluation ends with a result or an error, which is what
`Evaluator` says and `Inference` is shown to implement.

## 3. Runs

Several parts of the engine, of training and of the desktop share no state with each
other. They are checked in one run each (`MCEngine`, `MCTrainingParts`, `MCDesktop`): in each
behaviour the variable `subject` picks the one that runs, the others stay as they
began, and fairness is that of the subject.

| Run | Bounds | Result |
| --- | --- | --- |
| `interactive_safety` | two columns, six boards (one branch ends early, one board has a single move), two callers, target up to 3, three revisions | pass, 265 thousand states |
| `interactive_liveness` | the same game, two callers, target up to 2, two revisions; no undo without a move | pass, 31 thousand |
| `interactive_undo` | one caller that may undo without a move | finding 1 |
| `engine` | self-play: two games between two models with sides swapped, two workers, two iterations a move, up to one move, batches of one position; a 3x4 board with three to connect; two processes at one database, pipes of one line, chunks of one, two lines read at most, one child that prints any of three lines at any time | pass, 1.4 million |
| `training_safety` | attempts 0..3, six shards, two invocations with crashes and aborts anywhere, one candidate each, two shards a batch, capacity three | pass, 1.2 million |
| `training_liveness` | one uninterrupted invocation of two candidates, validation every second step | pass, 136 thousand |
| `training_debt` | a batch larger than a shard's budget, reports every second step | finding 2 |
| `training_parts` | replay: three shards, cache of two, batches of up to two draws; arena: six games, batches of one pair and of two; openings on 3x3; league: batches of six, three candidates; any ladder of them and any pending one to resume with; two legacy generations and a scoring job; minimax of depth 3 on 3x3 with a cache of seven; a ladder of three levels | pass, 207 thousand |
| `jobs` | two jobs, one of them training, one remembered, one report of progress unread | pass, 300 thousand |
| `jobs_stop` | two training jobs | finding 3 |
| `desktop` | inference: three requests, three children; play: three loads, two moves, two iterations; models: two directories, one unreadable run, four requests | pass, 196 thousand |
| `inference_retry` | a killed child may take longer than a second to end | finding 4 |

*interactive_safety.* `TreeIsSound` is three things: the line played is one the rules
allow, whatever callers race for (with the types of the rest); the leaf lies in the tree of
the board on display; no iteration too many. `FreshEvaluation`: an evaluation that the revision
check lets through is of the leaf now selected. `RunningIsHonest`: a snapshot that
shows a running search tells the truth. `NoLostWakeup`: who sleeps has nothing to do.
`SearchedSpec`: every step is a step of the atomic search, or no step of it. Three revisions
suffice for a move, an undo and another move during one evaluation, the shortest way back to
a board with the same leaf; two callers, for one to change the board the other waits on.

*interactive_liveness.* `SearchReachesTarget`; `CallsReturn`: waiting calls and the
destructor return.

*engine.* `GamesAreConserved`: between queues, threads and batches a game is in one place,
and in none only when everything is stopping; a sleeper has no work, and a stop it has not
noticed is still being announced; "self-play stopped before every game completed" is never
how it ends. `RightEvaluation`: each search is fed its own leaf's evaluation by the
model whose turn it is. `SelfPlayTerminates`: the joins return, whatever threw. A batch of one position
with two games at two positions and two models is enough for every kind of left-over; two
workers, for the last game to finish while the other worker sleeps, reports or fails.
`RulesAreKept`: over every game on the small board, the words are the board that was
played, ends and scores are those of the rules, the line of play `to_moves` finds leads to
the board without ending before it, and flipping commutes with moves. A 3x4 board has every
direction of a win and both kinds of edge that a mask could wrap around. `CacheIsTrue`: a
stored solution is its position's, whatever the child printed, but for the empty position, for
which any scores without a line of play are believed; every look-up after a store succeeds; and an
exchange leaves no child, however it ends, while its process lives (a killed one may leave a child
that hangs, observation 8). `StoredTogether`: what a call found missing is stored as a whole.
`PipesNeverBlock`: the process and a child that prints no more than it was asked for never wait for
each other at full pipes; the long request is one that would if it were sent in one piece, so the
property shows what the chunks are for. Two processes with overlapping requests suffice to insert
the same row twice. The lines one child may print unasked are scores of another position, no
scores, and scores of another position without a line of play.

*training_safety.* `FilesExist`: what the manifest refers to is on disk, a checkpoint
named in a message is not pruned before it is loaded, and a shard's file outlives its
use. `OneAtATime`: a candidate that is saved but not registered is alone and challenges the
present champion, so recovery puts it on trial again; the coordinator's consistency error is
never raised; game numbers are used once, by the present champion. This also shows that the
branch of recovery that registers an orphan as interrupted, and the branch of the candidate
handler for a requested stop, are never taken. `StopIsDurable`: a run that stops by itself
leaves a learner saved under its champion. `LadderSpec`: the rows refine `PromotionLadder`. Two
invocations suffice for each crash to be followed by a recovery, with attempts left for a
crash in the second; six shards fill the pool, retire from it and go on; `MaxAttempt` and
`MaxShard` cut longer histories.

*training_liveness.* `InvocationReturns`: the watermarks never starve each other, two
candidates are judged and the run returns. `PauseEnds`: back-pressure is taken back.
`FreshGamesCountOnce`: what was submitted with judged candidates and what is still fresh are
different games. `MaxShard` is never reached.

*training_parts.* `ReplayIsSound`: no file is opened after its deletion, the cache holds shards
in use, a checkpoint records the stream of draws the trainer goes on with, a trainer that
ends says why. Three draws are two for the batch in use and one that was prefetched in vain.
`MatchIsFair`: every observation of the test is the two games of one opening, the
reported tally is the candidate's, and a promotion has enough games and a ratio beyond its
bound. Batches of one pair allow a verdict below the minimum; those of two, games of two
openings that finish crosswise. `WorkEnds`: neither thread of the trainer waits for ever, and
a match ends however often memory runs out. `OpeningsAreSound`: distinct unfinished
games in mirror pairs, the same in every process also after a crash. `LeagueIsSound`: whoever is
asked for a move is loaded, a number is not taken for another player's, shares and
colours are balanced, the champion is the latest. Two batches around three candidates are
enough for a reload and an arena to unload a network that a batch needs; the third candidate may
be queued behind a reload that is still to come. `StoreIsSound`: what
a reader lists is whole, scores stay, and generations follow each other while the clock is
not set back. `OpponentIsTrue`: the cache never lies between depths, and the opponent plays a
forced win within its depth. `LadderIsTrue`: a level ended early is decided.

*jobs.* `OneJobAtATime`: nothing of a job runs once the next is active, descendants
included. `TimerIsTheActiveJobs`: the kill of one job never hits another. `QueueIsServed`: a
waiting job has something to wait for. `RecordsAreTrue`: the list of recent jobs has each job
once, completed only if that was the worker's first word on its end and it then exited with 0,
cancelled only if it was told to stop and said so; what the interface shows as a requested
stop is on its way to the worker that shows it. `CancelledJobsEnd`: cancelling ends a job even
if its worker ignores it, has not announced its group, or has left descendants. Two jobs are
one that ends and one that waits, and the second drops the first from the list; one unread
report of progress is enough to come before or after each of the others.

*desktop.* `KeepsContract`: `Inference` implements `Evaluator`, its liveness included: each request
ends with its own evaluation or an error, each close ends, though the model may hang.
`ChildrenEnd`: a living child is the one on record until the close, and none outlives a killed
desktop. Three requests are one that expires, one that is answered late and one after the
close. `PageIsTrue`: the game on the page is the one started last, and open; every other open game
is on its way to the page or to its end; and unless the page shows an error, it is at most one move
of the computer behind, and a column is taken only on the board of that game with all its moves.
A page that shows an error is set aside, for there the code breaks this (observation 2). `ListIsTrue`: a list was read in the directory that is set.
`NothingGoesBack`: a list gets no older, arriving statistics are those asked for last.
`PagesAnswer`: a move that waits for the search is released, a computer player moves,
"Loading models…" gives way, and a replaced game is closed, its inference process with it. Three loads are one that is replaced while it is built, one while
it is closed, and one that stays; four requests, two of each kind around a change of directory.
Directories whose permissions fail in the error handler, too, are excluded (observation 4).

Deadlock checking is off: each of these systems stops (a destroyed game, a finished
batch, a run nobody starts again); what must not stop is stated as liveness.

*Fairness.* Weak fairness of every thread or process that can proceed: the schedulers of the
operating system, the coordinator's poll every 20 ms, an evaluator that returns or throws
(the inference process has a deadline), a notified thread that gets its mutex, a pool thread
that takes its task, an event loop that delivers what was posted and fires its timers.
Nothing makes callers call, evaluators throw, or anybody start a run. In the job queue, the
system starts a process and ends a killed one; no worker is assumed to react to anything. In the
inference process nothing is asked of the model, only that time passes, and that a started
child gets as far as the first lines of `_serve`.

### Refinements

| Detailed | Abstract | Shown by |
| --- | --- | --- |
| `InteractivePlay` | `SearchedGame`: one atomic evaluation at a time | `SearchedSpec`, proved |
| `TrainingRun` | `PromotionLadder`: attempts challenge the champion one by one | `LadderSpec`, proved |
| `Inference` | `Evaluator`: each request ends with its own outcome | `KeepsContract` with liveness; safety proved |

### Findings

1. `undo()` at the start of the game clears `background_error` and bumps the revision, but
   signals only when a move was taken back (`interactive.cpp:281-290`). After a failed
   evaluation the search then sleeps below its target and the error is forgotten
   (`interactive_undo`). All other properties of the liveness run hold without that call.
2. The coordinator's copy of the sample budget is refreshed on every
   `min(validation_interval_steps, 10)`-th step only (`training_v2.py:1215`). If the debt above
   which self-play pauses is worth fewer steps than that, the trainer stops for want of
   a batch without having reported, and `paused_for_debt` is never reconsidered on new data
   (`training_debt`). The defaults are far from it; small shards with large batches
   are not rejected by the configuration.
3. `stopAfterGeneration()` needs a process, not a worker that has its request
   (`gui/jobs.py:239-247`). Asked for before `QProcess` reports that it started, the stop is
   the first line the worker reads; it takes it for the request and fails the job
   (`jobs_stop`). Control messages were to come "after the initial job request"
   (`worker.py:78`). The window is the time the system needs to start a process.
4. `_stop_worker` kills the child, waits a second and calls `Process.close()`, which raises
   `ValueError` while the child is not reaped (`gui/inference.py:100-109`), say because it hangs
   in a device driver. `_process` and `_connection` then stay, and the retry sends its request to
   the process that timed out, where "Retry reloads a timed-out inference process"
   (`docs/development.md:195`) was promised (`inference_retry`). With children that end when
   they are killed this cannot happen: `TimedOutChildrenAreDropped` proves it.

Met while modelling, each seen in the code and either excluded by a bound or set aside in
a property, as said there:

1. The dialog of `Main.qml` offers to "close after it has stopped", but a second attempt to
   close the window, while that timer runs, is not refused (`Main.qml:245`): the
   application ends and the worker is killed, not awaited.
2. After an evaluation error, Undo and New clear the native error and the native game goes on,
   while `_error` stays on the page and `_poll` returns at once (`gui/app.py:659`): the board is no
   longer renewed. Neither `humanTurn` (`gui/app.py:485`) nor `makeMove` (`gui/app.py:562`)
   nor `PlayPage.qml` looks at the error, so the player goes on to click on a stale board. An error,
   an undo and a column or two put a stone on a board that was never shown, though the status
   says "Game paused after an evaluation error". `BoardIsTrue` without its `~error` is violated by
   this sequence; with it, it says what holds, also that Retry brings the true board back.
3. With finding 1, `bestMove` after an undo at the start waits in the GUI thread for a root
   that nobody expands: it looks at the copied iterations only (`gui/app.py:572`).
   `GuiIsResponsive` sets this case aside.
4. If the directory of models cannot be read at all, `is_v2_run` raises again in the handler
   of the first error (`gui/app.py:274`), inside the future's callback; "Loading models…" stays.
5. Statistics that are ready before `generationStats` attaches its callback are delivered at
   once and then overwritten by "Loading model statistics…" (`gui/app.py:313-316`).
6. The error of a prefetched batch is raised once more by the handler's own
   `prefetcher.close()` (`training_v2.py:1276`), so the coordinator never gets the event that
   names it; it reports a dead trainer instead. `FailureIsReported` sets this case aside.
7. Legacy generations are folders named after naive local time (`training.py:145`). When the
   clock is set back and training restarts, it goes on from an older generation and
   numbers repeat (`training.py:363`). `GenerationsAreSequential` holds while it is not.
8. The deadline and the destructor of a solver's exchange end its child (`solver.cpp:283`), but a
   host killed by a signal runs neither, and the child has no death signal (`solver.cpp:640`),
   unlike those of training and inference. One that hangs stays. `NoChildLeft` speaks of hosts that live.
9. Scores without a line of play are taken for the empty position's (`solver.cpp:545`), whatever
   position they were computed for. `SolutionsAreTrue` excepts that one position.

## 4. Proofs

`InteractivePlayProofs` holds for every game tree, every set of callers, every limit and
either value of `UndoAtStart`, from `BoardsAssumption` (a prefix-closed set of lines over
finitely many columns) and `InteractiveAssumption` (what the numbers are).

The inductive invariant `IInv` is the checked invariants and `Lifetime`: the captured
revision is not a future one (else a bump could make a stale capture look fresh), the
destructor runs while no call is under way, and only it stops the thread.
`FreshEvaluation` is inductive because every call that moves the leaf bumps the revision,
and the thread itself is then in its evaluation; `NoLostWakeup` and `RunningIsHonest` need
each other in `BgWake`. One lemma per action, with the steps common to all calls
(`NotifyLemma`, `SignalLemma`, `PromoteLemma`, `ReturnLemma`) stated once.

| Theorem | States |
| --- | --- |
| `Invariance` | `Spec => []IInv` |
| `TreeStaysSound`, `StaleEvaluationsAreDropped`, `NoLostWakeups`, `RunningFlagIsHonest` | the checked invariants of the same content |
| `Refinement` | `Spec => SearchedSpec`: the threads implement the atomic search |

`JobQueueProofs` holds for every set of jobs and every bound, from `JobQueueAssumption`. What
makes `OneJobAtATime` inductive is `GroupIsKnown`: when the worker is gone and its output
read, the manager knows the process group of every worker that may have descendants, because
the report that announces it comes before the run that starts them, and nothing terminal can
be read before it. It rests on `SilentAtFirst` (no report before the run) and `Consistent` (which
also keeps the output of a finished process empty). `NotBegun` gives each new job a worker
without a past; it needs that a job waits in the queue once and was submitted. One lemma per
action; `TerminateLemma`, `DeathLemma`, `HandleLemma`, `PrefixLemma`, `RecordLemma` and
`ReportLemma` state the parts that several actions share.

| Theorem | States |
| --- | --- |
| `Invariance` | `Spec => []IInv` |
| `TypeCorrect`, `JobsRunOneByOne`, `TimersStayWithTheirJob`, `QueueMovesOn` | type correctness, and the checked invariants of the same content |
| `RecordsStayTrue` | `RecordsAreTrue` |

`RecordsAreTrue` compares what the manager wrote down of a job with what the worker did, which
the manager only knows from a pipe. A second invariant, `Records`, stands on top of `IInv`.
`VerdictIsHeard`: until the manager has read of an end, the first end among the unread reports is
the worker's verdict (`FirstEnd`; `FirstEndAppend` and `FirstEndTail` say what a write and a read do
to it), afterwards its phase says the same. So when a process is finished and its output
read, a silent worker is one that never reported an end. `RecentIsOver`: a recorded job's worker is
dead and never the active one again, so neither its verdict nor its exit code can change any
more. `CancelledWasAsked` follows a cancellation from the signal to the report. `QuietLemma`
covers at once the steps that neither report, read, record nor start.

`InferenceProofs` holds for any number of requests and children, under `PromptDeath`: the
bounds are natural numbers and a killed child ends within the wait. The
invariant has to say what may be left in a pipe. `Quiet`: before a request is sent, the pipe
on record is empty, unless its child is on its way out. `InFlight`: while an answer is
awaited, the request or its outcome is there, once. `LockIsHeld` makes the look at `_closed` and the
start of a child one step towards `close`; `Numbered` keeps a new child's pipe fresh; `Reaped`
says that a living child is on record, `Dropped` that an expired one is not. The refinement needs
`InFlight` to know whose answer is received, and `LockIsHeld` that a request made after the
close gets no answer at all.

| Theorem | States |
| --- | --- |
| `Invariance` | `Spec => []IInv` |
| `NoChildIsLost`, `TimedOutChildrenAreDropped` | `NoStrayWorker`, part of the checked `ChildrenEnd`; `RetryReloads` |
| `Refinement` | `Spec` implies the initial condition and the steps of `Evaluator` |

`SolverProofs` holds for any processes, requests, chunk size, capacity and number of calls,
under `SolverAssumption`: `None` is no process, requests are sequences of positions, none of which
is the line 0, and a chunk fits into the two pipes of a child and one line more. The code
leaves far more room: a pipe of 64 KiB alone holds the hundred lines of a chunk. Children may
print any lines of `Strays`, a constant. The invariant follows the lists of a call: `missing` has
no repetitions, `solved` answers its first part (a chunk is the next part, and the lines read
are accepted only if there are as many and each has the line of play of its position), and
the rows inserted are the first ones of both lists side by side. That the number of rows is the
length of `missing` then means that nothing is missing any more, since the rows are different. A
process that stores is the `writer`, so that the steps of others leave its transaction alone.

A second invariant, `PInv`, follows the lines of a chunk on their way: `Traffic` counts those not yet
written, those in both pipes and the one the child works on. Writing a line and answering
one leave it as it is, taking a line in, leaving one out and the failure of the child at most lower it, so while the
child prints nothing unasked it never exceeds the chunk it began with. If both pipes were full, the child busy and another
line to be written, there would be more lines than a chunk may have.

| Theorem | States |
| --- | --- |
| `Invariance` | `CacheSpec => []IInv` |
| `PipesInvariance` | `CacheSpec => []PInv` |
| `CacheStaysTrue`, `StoredAsOne`, `PipesStayOpen` | `CacheIsTrue`, `StoredTogether`, `PipesNeverBlock` |

`SelfPlayProofs` holds for any finite numbers of games and workers, any positions, models and
bounds, from `SelfPlayAssumption`: the threads have different names, and the numbers are numbers.

- Sleep: `IInv`. A thread falls asleep only on an empty, open queue without a stop, every
  push and every closing wakes the sleepers of its queue, and who requests a stop goes on to
  announce it. `StepAside` states once what a step that announces nothing owes to the sleepers.
- Games: `Sound`. The five places where a game can be hold none twice and share none (`Once`),
  and without a stop they hold all (`Everywhere`). A queue that is closed without a stop was closed
  after the last game (`Counted`): only so is a worker that finds the neural queue closed, and drops
  its game, known to do so over a stop, and only so does the end of the neural thread mean that
  all results are in, which a repetition-free list of that length then contains (`FullLength`).
  `Right` says of a job that it fits its game; it stays so because the one worker that changes a
  game holds it alone.
- Batches: a batch splits `pending` into what was evaluated and what was not, keeping the order.
  `Among` picks out by rank; `RankCounts` shows the ranks of a set of places to be a bijection, and
  `AmongPicks` that the part has the games it should, each once.

| Theorem | States |
| --- | --- |
| `NobodySleepsThrough` | `NoLostWakeup` of `SelfPlay`, the safety side of `SelfPlayTerminates` |
| `NothingIsLost` | `GamesAreConserved`: types, no game lost or doubled, no lost wakeup, all results or an error |
| `SearchesGetTheirOwn` | `RightEvaluation` |

`TrainingRunProofs` holds for any number of attempts, shards and runs and
any sizes, from the assumptions of the modules (what the numbers are, and what each bound is at
least). The invariant has seven parts.

- `ChildrenSleep`, `ChildrenRun`: the processes, their queues and the schedule end with
  the coordinator, wherever it is killed; what is left is the manifest and the files.
- `Rows`: attempts are numbered without a gap, the latest alone may be on trial, every row that
  is accepted or on trial has its checkpoint. The counter of promotions is the number of accepted
  rows but for the first, which takes a lemma on cardinalities when one is added.
- `Checkpoints`: a checkpoint without a row (`Orphans`, a crash between file and row) has the
  next number, is alone, challenges the present champion and is found again by the next start.
- `Trial`: a candidate is offered, on trial, judged, its verdict told and answered, one stage at
  a time (`OneStage`, `OneMessage`), and the trainer waits all the while; that is why the
  verdict's checkpoints survive the pruning, and why a trainer that has heard the last verdict
  learns under the champion. `StopFollowsVerdict` adds what `StopIsDurable` needs of `learner.pt`.
- `Duties`: only an arena is ever queued behind another command, a batch starts at the next
  number and is reported in order (`BatchInOrder`), and no generation is asked for while somebody
  still has to follow a promotion (`lifecycle`).
- `Files`: active shards are on disk. A file is unlinked only when the trainer answered that it
  forgot the shard, and by `RemovalIsLast` nothing behind that message names the shard again:
  this is what keeps `PoolIsReadable`.

Each action has a lemma, with one step per part it can disturb. `TrialFrame`, `TrialBesides`, `MessageTaken` and
the lemmas on `Queued`, `Head`, `Tail` and `Append` state what several handlers share. The
refinement maps a registration to a challenge and a verdict to its outcome; every other step,
crashes and recoveries included, leaves the ladder as it is.

`FreshInv` rests on `IInv` and speaks of runs without interruptions. `GamesAddUp` counts the
shard that has its row and is not yet announced among those on their way (`Arriving`).
`SubmissionsAreFresh`: the trainer still has the games a candidate is offered, tried or judged
with, so the subtraction of the verdict is never cut off at zero. `SavedGamesAddUp` says the
same of learner.pt, from which the next invocation counts, and `EndsAreClean` that there is nothing
to recover then: the two recovery actions are never taken.

| Theorem | States |
| --- | --- |
| `Invariance` | `Spec => []IInv` |
| `FilesStay`, `OneThingAtATime`, `StopLosesNothing` | `FilesExist`, `OneAtATime` (with type correctness), `StopIsDurable` |
| `RowsAreALadder` | `Spec => LadderSpec` |
| `FreshGamesStayApart` | `FreshGamesCountOnce` |

`TrainingPartsProofs` holds, of `ReplayLoader`, for any shards, any limit of the cache and any lengths of batch and run,
from `ReplayLoaderAssumption` (shards are numbered from 1, the limits are numbers). A shard is
announced, in the window, or removed, one at a time, and all the while its file is there
(`FilesAreKept`); that the trainer only ever removes what it has rests on the queue, where no
command stands twice and a removal stands behind the addition (`CommandsAreInOrder`). `LockIsHeld`
ties the lock to the place where its holder draws, so that a shard about to be loaded cannot
leave the window. `NothingIsAhead`: after a checkpoint no batch is drawn or prefetched until the
next one is asked for, hence no draw is made. `CacheIsSet` is what lets one removal clear a shard
from the cache; `AppendToSet`, `TailOfSet` and `RemoveFirstOfSet` say what the three
operations do to a sequence without repetition.

Of `ArenaMatch` it holds for any numbers of games, any batches and any ratio, from
`ArenaMatchAssumption` (the numbers of games are even, as the gate demands, and the batches are not
empty). The games of the openings begun are played once or being played (`GamesArePlayedOnce`), and
those played wait in `results` exactly while their number is beyond the gate's count
(`ResultsArePlayed`). So the least of them is the next game (`NextGame`), and when half an opening is
counted, what the gate holds is the score of the other game of the same opening (`HalvesMeet`): this
is what the sorting is for. Then one more count of `CountInv` is one more opening in the set that
`PairsAreCounted` sizes. `AllAreCounted` says that with no result waiting every game played is counted.

Of `MinimaxLadder` it holds for any depth, any even number of games to a level and any batch, from
`MinimaxLadderAssumption` (what the configuration checks). `LevelAddsUp` relates the counts to what
was seen: as many games with either colour, which needs that a batch begins with an even game
(`EveryOther`) and fits into the level (`PairsFit`); `BatchIsCounted` splits the results of a batch
by colour. `RungsAreClimbed`: the levels below are won, those above not begun, and the one at hand
goes on while it is neither won nor over; the highest opponent defeated follows from it.

Of `League` it holds for any weights, any size of batch and any depth of the archive, from
`LeagueAssumption` (the weights add up to `Parts`, and the numbers of candidates and of games stay
far below the range of a model number: twice the last game below its half, where the code has
2^63). Two parts carry it:

- `OrdersAreCurrent` lists what may lie before the actor: a batch or a reload, each perhaps with an
  arena behind it, or an arena alone, all with the champion and the archive of now. A verdict waits
  for the batch before it, no batch is queued before the reload after it, and the arena that may
  be asks for the champion of that verdict, so no order is ever of a league that is past, and
  what `configure` loaded for an order is what its games ask for (`GamesAreOfTheOrder`).
  `AttemptsAreFresh` keeps the champion out of its own archive.
- What a batch is made of: `WhatIsLeft` says that the games left over by rounding down are the
  fractions cut off, `NothingForWhole` that therefore none goes to a kind without a fraction, and
  `SharesAreKept` that each kind is within one game of its share. `OffsetsNumber` numbers the
  games of a kind without gaps, so that half of them, or one more, have an even number
  (`EvenNumbers`) and the champion red (`ColoursAlternate`). `NumbersSayWho`: the parity of
  a number above the half says which baseline player it is.

| Theorem | States |
| --- | --- |
| `ReplayStaysSound` | `ReplayIsSound` |
| `MatchStaysFair` | `MatchIsFair` |
| `LadderStaysTrue` | `LadderIsTrue` |
| `LeagueStaysSound` | `LeagueIsSound` |

`DesktopProofs` holds, of `GameDesk`, for any numbers of loads, moves and iterations, any size of the pool and any
sides, from `GameDeskAssumption` (the bounds are numbers, a game may be searched once at least).

- A game is being built, has arrived, is on the page, or is being closed, one after the other
  (`StagesAreApart`): the pool and the event loop never hold two results, two closings, or a result
  and a closing of one game. No game has a number beyond the last load (`LoadsAreNumbered`), so
  that the next one is new.
- `ArrivedIsOpen`: a game built stays open until it is delivered. This is what makes the game that
  the page then shows an open one, however late its result comes; `NoGameIsLeft` is the reverse:
  what is open and not shown will be closed.
- `BoardIsKept`: the page shows the board of its game, or the one on which the computer has just
  moved, as long as it shows no error. That second case is not a defect only because a column is
  refused while it is the computer's turn on the board shown. Under an error the invariant says
  nothing, and nothing of the kind holds (observation 2); it is restored by the poll that ends the
  error.

`PollLemma` says what the copy of the snapshot leaves of `BoardIsKept`, whichever native game it is
given; `PlayLemma` and `SlotLemma` carry it to the slots. `ShutdownStep` is the common part of a new
load, the end of a game and the end of the application.

Of `ModelBrowser` it holds for any directories, requests, changes and threads, from
`ModelBrowserAssumption` (at least the first list is asked for; no directory is the empty name).
Neither number alone would do: `LatestIsOfTheDirectory` needs every change of the directory to be a
new request for lists and statistics, and `ListIsOld`, that the list asked for last is in one place
once (`LatestIsOne`), as two readings with its number could arrive in either order.

| Theorem | States |
| --- | --- |
| `PageStaysTrue` | `PageIsTrue` |
| `BrowserInvariance` | `BrowserSpec => []BrowserInv` |
| `ModelsStayTrue`, `NoPageGoesBack` | `ListIsTrue`, `NothingGoesBack` |

Only model-checked:

- All liveness: it rests on fairness, which this prover does not treat.
- `RulesAreKept` and `OpponentIsTrue`: `Position` and `Minimax` are recursive operators.

## 5. Not modelled

Left out, with the reason:

- Networks and losses, the arithmetic of the arena's likelihood ratio: floating point.
- Serialization and random numbers: pure functions over bytes and words, compared with recorded
  values by the fixture tests. Bindings: conversions, and the release of the interpreter lock.
- Configuration, command line, benchmarks, TUI, the rest of the QML: validation, measurement,
  presentation.
- Tournament and sweep: they play fixed lists of games one after the other and keep no state
  that anything else changes. `TrainingBatchSampler`: a shuffle without a second thread.
- Two legacy trainers in one directory: nothing in the code coordinates them, and nothing
  promises it. The loader with `data_loader_workers = 0`: no second thread.
- The tree statistics of the MCTS game (scores, priors, noise): any leaf that the visits
  allow stands for what they choose.
