----------------------------- MODULE MCDesktop -----------------------------
(***************************************************************************)
(* The processes and pages of the desktop that share no state, checked in  *)
(* one run: in each behaviour one of them, the subject, runs and the other *)
(* two stay as they began.  Fairness is that of the subject alone.         *)
(***************************************************************************)
EXTENDS GameDesk, ModelBrowser

VARIABLES
  subject,  \* "inference", "desk" or "browser"
  app, pc, asked, late, connection, reply, process, spawned, lifecycle, closed,
  closing, place, job, inbox, outbox, expired

\* Three requests: one that expires, one that is answered late, one after close.
Inference == INSTANCE Inference WITH
  MaxRequests <- 3, MaxWorkers <- 3, SlowDeath <- FALSE

inferenceVars ==
  <<app, pc, asked, late, connection, reply, process, spawned, lifecycle, closed,
    closing, place, job, inbox, outbox, expired>>
\* Of the Play page: two humans, a human against the computer, the computer alone.
deskVars == vars
desktopVars == <<subject, inferenceVars, deskVars, browserVars>>

DesktopInit ==
  /\ subject \in {"inference", "desk", "browser"}
  /\ Inference!Init /\ Init /\ BrowserInit
  /\ subject # "browser" => dir = "good"

DesktopNext ==
  \/ /\ subject = "inference" /\ Inference!Next
     /\ UNCHANGED <<subject, deskVars, browserVars>>
  \/ /\ subject = "desk" /\ Next
     /\ UNCHANGED <<subject, inferenceVars, browserVars>>
  \/ /\ subject = "browser" /\ BrowserNext
     /\ UNCHANGED <<subject, inferenceVars, deskVars>>

DesktopFairness ==
  /\ WF_inferenceVars(subject = "inference" /\ Inference!Forward)
  /\ WF_inferenceVars(subject = "inference" /\ Inference!EndClose)
  /\ \A w \in 1..3 :
       /\ WF_inferenceVars(subject = "inference" /\ Inference!Arm(w))
       /\ WF_inferenceVars(subject = "inference" /\ Inference!Leave(w))
  /\ WF_deskVars(subject = "desk" /\ (ApplyLoaded \/ DropLoaded))
  /\ WF_deskVars(subject = "desk" /\ Timer)
  /\ WF_deskVars(subject = "desk" /\ Resume)
  /\ WF_deskVars(subject = "desk" /\ TakeTask)
  /\ \A t \in Tasks :
       WF_deskVars(subject = "desk" /\ (EndBuild(t) \/ EndClose(t)))
  /\ WF_deskVars(subject = "desk" /\ Search)
  /\ WF_browserVars(subject = "browser" /\ ReturnStats)
  /\ WF_browserVars(subject = "browser" /\ Read)
  /\ WF_browserVars(subject = "browser" /\ Deliver)
  /\ WF_browserVars(subject = "browser" /\ \E r \in reading : Post(r))

DesktopSpec == DesktopInit /\ [][DesktopNext]_desktopVars /\ DesktopFairness

-----------------------------------------------------------------------------
(* Properties, beside PageIsTrue of GameDesk, and ListIsTrue and           *)
(* NothingGoesBack of ModelBrowser.                                        *)

\* The inference process keeps the contract of an evaluator (Evaluator): each
\* request ends with its own evaluation or an error, each close ends.
KeepsContract == Inference!KeepsContract

\* No inference process is ever left: a living one is the one on record until
\* the evaluator is closed, and none outlives a killed desktop, whenever that
\* happens during its start (prctl and the look at the parent in _serve).
ChildrenEnd == [](Inference!TypeOK /\ Inference!NoStrayWorker) /\ Inference!OrphansEnd

\* Nobody is left waiting: the GUI thread in a move and the reader of a list get
\* an answer or an error, a computer player moves, and every game that was
\* replaced is closed, its inference process with it.
PagesAnswer ==
  /\ GuiIsResponsive /\ ComputerMoves /\ SupersededGamesEnd
  /\ subject = "browser" => LoadingEnds
=============================================================================
