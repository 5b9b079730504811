---------------------------- MODULE ModelBrowser ----------------------------
(***************************************************************************)
(* The models of the desktop (gui/app.py, AppController, and the Models    *)
(* page): the list of a training directory and the statistics of one model *)
(* are read by a pool of two threads while the player asks for others, and *)
(* the directory itself changes under a running training.                  *)
(*                                                                         *)
(* A reading is kept as the directory it read and the version it found.  A *)
(* slot of the GUI thread is one action, but for generationStats: a        *)
(* reading that ends before its callback is attached delivers its result   *)
(* in the middle of that slot.                                             *)
(***************************************************************************)
EXTENDS Integers, Sequences, FiniteSets

CONSTANTS
  Dirs, NoDir,
  Broken,       \* directories whose reading raises: a damaged run
  Unreadable,   \* directories where is_v2_run itself raises: no permission
  MaxRequests,  \* bound: readings asked for
  MaxVersion,   \* bound: changes of a directory
  Readers       \* threads of the pool (2)

ASSUME ModelBrowserAssumption ==
  /\ NoDir \notin Dirs
  /\ MaxRequests \in Nat \ {0} /\ MaxVersion \in Nat

VARIABLES
  disk,      \* the version of each directory
  dir,       \* _training_dir
  refreshed, \* _refresh_revision
  inspected, \* _stats_revision
  models,    \* _generations: the reading they come from
  status,    \* _model_error: "Loading models…", an error, or empty
  page,      \* what the page shows as statistics
  queue, reading,  \* the pool
  done,      \* readings that ended before their callback was attached
  arrived,   \* signals on their way to the GUI thread
  slot       \* the request generationStats has submitted, in the slot, or 0

requests    == <<refreshed, inspected>>
pool        == <<queue, reading, done>>
browserVars == <<disk, dir, requests, models, status, page, pool, arrived, slot>>

Revisions    == 0..(2 * MaxRequests)
Readings     == [dir : Dirs \cup {NoDir}, version : 0..MaxVersion]
Nothing      == [dir |-> NoDir, version |-> 0]
ReadingTasks == [kind : {"models", "stats"}, revision : Revisions, dir : Dirs]
Results      == [kind : {"models", "stats"}, revision : Revisions, dir : Dirs,
                 version : 0..MaxVersion, ok : BOOLEAN]
Pages        == [kind : {"none", "loading", "stats"}, revision : Revisions,
                 dir : Dirs \cup {NoDir}]

BrowserTypeOK ==
  /\ disk \in [Dirs -> 0..MaxVersion] /\ dir \in Dirs
  /\ refreshed \in Revisions /\ inspected \in Revisions /\ slot \in Revisions
  /\ models \in Readings /\ status \in {"loading", "failed", "ready"}
  /\ page \in Pages
  /\ queue \in Seq(ReadingTasks) /\ reading \subseteq Results
  /\ done \subseteq Results /\ arrived \in Seq(Results)

\* refreshGenerations of directory d, from the constructor, too.
Request(d, r) == [kind |-> "models", revision |-> r, dir |-> d]

BrowserInit ==
  /\ disk = [d \in Dirs |-> 0] /\ dir \in Dirs
  /\ refreshed = 1 /\ inspected = 0 /\ models = Nothing /\ status = "loading"
  /\ page = [kind |-> "none", revision |-> 0, dir |-> NoDir]
  /\ queue = <<Request(dir, 1)>> /\ reading = {} /\ done = {} /\ arrived = <<>>
  /\ slot = 0

OutsideSlot == slot = 0
MayAsk == OutsideSlot /\ refreshed + inspected < MaxRequests

-----------------------------------------------------------------------------
(* Requests.                                                               *)

Refresh ==
  /\ MayAsk
  /\ refreshed' = refreshed + 1 /\ status' = "loading"
  /\ queue' = Append(queue, Request(dir, refreshed + 1))
  /\ UNCHANGED <<disk, dir, inspected, models, page, reading, done, arrived, slot>>

SetTrainingDir(d) ==
  /\ MayAsk /\ d # dir /\ dir' = d
  /\ inspected' = inspected + 1 /\ models' = Nothing
  /\ refreshed' = refreshed + 1 /\ status' = "loading"
  /\ queue' = Append(queue, Request(d, refreshed + 1))
  /\ UNCHANGED <<disk, page, reading, done, arrived, slot>>

\* A model of the list is selected: its statistics are submitted.
GenerationStats ==
  /\ MayAsk /\ models # Nothing
  /\ inspected' = inspected + 1 /\ slot' = inspected + 1
  /\ queue' = Append(queue, [kind |-> "stats", revision |-> inspected + 1, dir |-> dir])
  /\ UNCHANGED <<disk, dir, refreshed, models, status, page, reading, done, arrived>>

\* The callback is attached, and is run at once if the reading has ended: its
\* signal is delivered before the slot returns "Loading model statistics…".
ReturnStats ==
  /\ slot # 0 /\ slot' = 0
  /\ page' = [kind |-> "loading", revision |-> slot, dir |-> dir]
  /\ done' = {r \in done : r.revision # slot}
  /\ UNCHANGED <<disk, dir, requests, models, status, queue, reading, arrived>>

-----------------------------------------------------------------------------
(* The pool.                                                               *)

\* A reading of the list that fails reports its error, unless the handler
\* fails the same way; one of statistics always reports something.
Ends(d) == d \notin Unreadable

\* A thread takes a task and reads the directory.
Read ==
  /\ queue # <<>> /\ Cardinality(reading) < Readers
  /\ queue' = Tail(queue)
  /\ LET task == Head(queue)
         d    == task.dir
     IN reading' = reading \cup
          {[kind |-> task.kind, revision |-> task.revision, dir |-> d,
            version |-> disk[d], ok |-> d \notin (Broken \cup Unreadable)]}
  /\ UNCHANGED <<disk, dir, requests, models, status, page, done, arrived, slot>>

\* The thread ends with the result r: the callback posts it.
Post(r) ==
  /\ r \in reading /\ reading' = reading \ {r}
  /\ CASE r.kind = "models" /\ ~Ends(r.dir) -> UNCHANGED <<arrived, done>>
       [] r.kind = "stats" /\ r.revision = slot ->
            done' = done \cup {r} /\ UNCHANGED arrived
       [] OTHER -> arrived' = Append(arrived, r) /\ UNCHANGED done
  /\ UNCHANGED <<disk, dir, requests, models, status, page, queue, slot>>

-----------------------------------------------------------------------------
(* Results.                                                                *)

Install(r) ==
  /\ status' = IF r.ok THEN "ready" ELSE "failed"
  /\ models' = IF r.ok THEN [dir |-> r.dir, version |-> r.version] ELSE models

\* Faulty variant: every list that arrives is shown.
ApplyAnyModels(r) == r.kind = "models" /\ Install(r) /\ UNCHANGED page

ApplyModels(r) ==
  /\ r.kind = "models"
  /\ IF r.revision = refreshed THEN Install(r) ELSE UNCHANGED <<status, models>>
  /\ UNCHANGED page

ApplyStats(r) ==
  /\ r.kind = "stats"
  /\ page' = IF r.revision = inspected
             THEN [kind |-> "stats", revision |-> r.revision, dir |-> r.dir]
             ELSE page
  /\ UNCHANGED <<status, models>>

Deliver ==
  /\ OutsideSlot /\ arrived # <<>> /\ arrived' = Tail(arrived)
  /\ ApplyModels(Head(arrived)) \/ ApplyStats(Head(arrived))
  /\ UNCHANGED <<disk, dir, requests, pool, slot>>

\* A training in directory d adds a model, or an attempt changes.
Training(d) ==
  /\ disk[d] < MaxVersion /\ disk' = [disk EXCEPT ![d] = @ + 1]
  /\ UNCHANGED <<dir, requests, models, status, page, pool, arrived, slot>>

BrowserNext ==
  \/ Refresh \/ GenerationStats \/ ReturnStats \/ Read \/ Deliver
  \/ \E d \in Dirs : SetTrainingDir(d) \/ Training(d)
  \/ \E r \in reading : Post(r)

BrowserSpec == BrowserInit /\ [][BrowserNext]_browserVars

\* The pool's threads and the event loop run; a player need not ask.
BrowserFairness ==
  /\ WF_browserVars(ReturnStats) /\ WF_browserVars(Read) /\ WF_browserVars(Deliver)
  /\ WF_browserVars(\E r \in reading : Post(r))

BrowserFairSpec == BrowserSpec /\ BrowserFairness

-----------------------------------------------------------------------------
(* Properties.                                                             *)

\* The list shown was read in the directory that is set, whichever readings of
\* other directories still run when it is set (_apply_models compares revisions,
\* setTrainingDir clears the list).
ListIsOfTheDirectory == models # Nothing => models.dir = dir

\* Type correctness, and the list of the set directory.
ListIsTrue == BrowserTypeOK /\ ListIsOfTheDirectory

\* The list of a directory never goes back to an older state of it, although
\* two readings may run at once and end in any order.
ListNeverGoesBack ==
  [][models.dir = models'.dir => models'.version >= models.version]_browserVars

\* Statistics that arrive on the page are those last asked for, of the
\* directory that is set.
StatsAreTheLatest ==
  [][page' # page /\ page'.kind = "stats" =>
       page'.revision = inspected /\ page'.dir = dir]_browserVars

\* Readings that end in any order never take a page back: the list of a
\* directory gets no older, and statistics are those last asked for.
NothingGoesBack == ListNeverGoesBack /\ StatsAreTheLatest

\* "Cannot read models in …": "Loading models…" gives way to a list or to that
\* error.
LoadingEnds == (status = "loading") ~> (status # "loading")
=============================================================================
