--------------------------- MODULE MCTrainingRun ---------------------------
EXTENDS TrainingRun
=============================================================================
