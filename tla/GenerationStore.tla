--------------------------- MODULE GenerationStore ---------------------------
(***************************************************************************)
(* The generations of a legacy run (training.py, TrainingGen and           *)
(* training_loop; worker.py, run_score): a trainer adds a generation at a  *)
(* time to a directory, each in a folder named after the clock; a scoring  *)
(* job, which may run beside it, reads their games and adds the solver's   *)
(* scores to their metadata.  Either may be killed between two steps, and  *)
(* started again: a trainer then goes on from the latest folder.           *)
(***************************************************************************)
EXTENDS Integers, Sequences, FiniteSets, SequencesExt

CONSTANTS
  MaxClock,     \* bound: the time
  MaxGens,      \* max_gens of an invocation
  MaxScorings   \* bound: scoring jobs

VARIABLES
  clock,
  disk,      \* the folders, by name: the files of each
  staging,   \* the files in the trainer's temporary folder
  trainer,   \* where the trainer is
  latest,    \* the generation it goes on from
  made,      \* the one it is saving
  scoring,   \* the scoring job: the metadata to go through, newest first
  scorings,  \* scoring jobs started
  stepped    \* history: the local clock was set back

trainerVars == <<staging, trainer, latest, made>>
scorerVars  == <<scoring, scorings>>
clockVars   == <<clock, stepped>>
vars        == <<clockVars, disk, trainerVars, scorerVars>>

Times    == 0..MaxClock
None     == -1
Kinds    == {"metadata", "games", "model"}
Metadata == [name : Times, n : 0..MaxClock, parent : Times \cup {None}, scored : BOOLEAN]
Nothing  == [name |-> None, n |-> 0, parent |-> None, scored |-> FALSE]

\* A file of metadata holds it; games and models are only there.
Folder(metadata) == [metadata |-> metadata, kinds |-> Kinds]

\* _generation_timestamps: the folders with a metadata file.
Published == {t \in DOMAIN disk : "metadata" \in disk[t].kinds}

\* load_latest: the greatest name.
Newest == CHOOSE t \in Published : \A other \in Published : t >= other

Init ==
  /\ clock = 0 /\ disk = <<>> /\ staging = {} /\ trainer = "off"
  /\ latest = Nothing /\ made = Nothing /\ scoring = <<>> /\ scorings = 0
  /\ stepped = FALSE

-----------------------------------------------------------------------------
(* The trainer.                                                            *)

\* load_latest_with_default
Start ==
  /\ trainer = "off" /\ clock < MaxClock /\ staging' = {} /\ clock' = clock + 1
  /\ IF Published = {}
     THEN /\ made' = [name |-> clock, n |-> 0, parent |-> None, scored |-> FALSE]
          /\ trainer' = "saving" /\ UNCHANGED latest
     ELSE /\ latest' = disk[Newest].metadata
          /\ trainer' = "training" /\ UNCHANGED made
  /\ UNCHANGED <<stepped, disk, scorerVars>>

\* train_single_gen: the parent's model is read, games are played, perhaps
\* scored, and the model trained; the new generation is named after the clock.
Train ==
  /\ trainer = "training" /\ clock < MaxClock
  /\ latest.name \in DOMAIN disk /\ "model" \in disk[latest.name].kinds
  /\ \E scored \in BOOLEAN :
       made' = [name |-> clock, n |-> latest.n + 1, parent |-> latest.name, scored |-> scored]
  /\ trainer' = "saving" /\ clock' = clock + 1
  /\ UNCHANGED <<stepped, disk, staging, latest, scorerVars>>

\* Cancelled, or failed, before anything is saved.
Cancel ==
  /\ trainer = "training" /\ trainer' = "off"
  /\ UNCHANGED <<clockVars, disk, staging, latest, made, scorerVars>>

\* save_all: the files are written one by one to a hidden folder.
Write ==
  /\ trainer = "saving" /\ made.name \notin DOMAIN disk
  /\ \E kind \in Kinds \ staging :
       /\ kind = (CASE staging = {} -> "metadata" [] staging = {"metadata"} -> "games"
                    [] OTHER -> "model")
       /\ staging' = staging \cup {kind}
  /\ UNCHANGED <<clockVars, disk, trainer, latest, made, scorerVars>>

\* The folder gets its name, and the loop goes on from this generation unless it
\* was the last one or a stop was asked for.
Publish ==
  /\ trainer = "saving" /\ staging = Kinds /\ staging' = {}
  /\ disk' = (made.name :> Folder(made)) @@ disk
  /\ latest' = made
  /\ trainer' \in IF made.n = 0 THEN {"training"}
                 ELSE IF made.n < MaxGens THEN {"training", "off"} ELSE {"off"}
  /\ UNCHANGED <<clockVars, made, scorerVars>>

\* There is a folder of that name, or a file cannot be written: the error ends
\* the training, and the hidden folder is removed.
SaveFails ==
  /\ trainer = "saving" /\ trainer' = "off" /\ staging' = {}
  /\ UNCHANGED <<clockVars, disk, latest, made, scorerVars>>

\* The trainer is killed; a hidden folder stays and is never looked at.
Kill ==
  /\ trainer # "off" /\ trainer' = "off"
  /\ UNCHANGED <<clockVars, disk, staging, latest, made, scorerVars>>

-----------------------------------------------------------------------------
(* Scoring.                                                                *)

\* run_score: the metadata of all generations is read, those without a score
\* are selected, or all.
Select ==
  /\ scoring = <<>> /\ scorings < MaxScorings /\ Published # {}
  /\ scorings' = scorings + 1
  /\ \E rescore \in BOOLEAN :
       scoring' = SelectSeq([i \in 1..Cardinality(Published) |->
                                disk[SetToSortSeq(Published, >)[i]].metadata],
                            LAMBDA g : rescore \/ ~g.scored)
  /\ UNCHANGED <<clockVars, disk, trainerVars>>

\* Faulty variant: the file is emptied, then written.
SaveMetadataInPlace(g) ==
  \E kinds \in {Kinds, Kinds \ {"metadata"}} :
    disk' = [disk EXCEPT ![g.name] = [metadata |-> g, kinds |-> kinds]]

\* save_metadata: a file beside it replaces it.
SaveMetadata(g) == disk' = [disk EXCEPT ![g.name].metadata = g]

\* The games of a generation are scored and its metadata saved; the root has none.
Score ==
  /\ scoring # <<>> /\ scoring' = Tail(scoring)
  /\ Head(scoring).name \in DOMAIN disk /\ "games" \in disk[Head(scoring).name].kinds
  /\ IF Head(scoring).n = 0 THEN UNCHANGED disk
     ELSE SaveMetadata([Head(scoring) EXCEPT !.scored = TRUE])
  /\ UNCHANGED <<clockVars, scorings, trainerVars>>

\* It is cancelled or killed, or the solver fails.
AbortScoring ==
  /\ scoring # <<>> /\ scoring' = <<>>
  /\ UNCHANGED <<clockVars, disk, scorings, trainerVars>>

\* The end of summer time, for one: the folders are named after the local time.
\* Bound: the clock is set back once.
StepBack ==
  /\ ~stepped /\ \E earlier \in 0..clock - 1 : clock' = earlier
  /\ stepped' = TRUE
  /\ UNCHANGED <<disk, trainerVars, scorerVars>>

-----------------------------------------------------------------------------
Trainer == Start \/ Train \/ Cancel \/ Write \/ Publish \/ SaveFails \/ Kill

Next == Trainer \/ Select \/ Score \/ AbortScoring \/ StepBack

Spec == Init /\ [][Next]_vars

-----------------------------------------------------------------------------
(* Properties.                                                             *)

TypeOK ==
  /\ clock \in Times /\ stepped \in BOOLEAN /\ DOMAIN disk \subseteq Times /\ staging \subseteq Kinds
  /\ \A t \in DOMAIN disk : disk[t].metadata \in Metadata /\ disk[t].metadata.name = t
  /\ trainer \in {"off", "training", "saving"}
  /\ latest \in Metadata \cup {Nothing} /\ made \in Metadata \cup {Nothing}
  /\ ToSet(scoring) \subseteq Metadata /\ scorings \in 0..MaxScorings

\* "The directory becomes visible to readers only after every artifact exists":
\* what a reader lists has its games and model, whenever the trainer is killed.
PublishedIsWhole == \A t \in Published : disk[t].kinds = Kinds

\* A generation and its score stay, whenever a scoring job is killed and
\* whatever it read before others wrote.
ScoresStay ==
  [][\A t \in Published : /\ t \in Published'
                          /\ disk[t].metadata.scored => disk'[t].metadata.scored]_vars

\* "Sequentially trains generation after generation": a new generation is the
\* child of the last one published, and no number is given twice, over all the
\* invocations, as long as the clock was not set back.
GenerationsAreSequential ==
  [][~stepped => \A t \in Published' \ Published :
       LET new == disk'[t].metadata
       IN  /\ \A old \in Published : disk[old].metadata.n < new.n
           /\ new.parent # None => disk[new.parent].metadata.n = new.n - 1]_vars
=============================================================================
