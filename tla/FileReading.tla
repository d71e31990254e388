----------------------------- MODULE FileReading -----------------------------
(***************************************************************************)
(* What the runner believes of the files it reads: the progress files of   *)
(* runs (ProgressRules) and the texts of recipes (RecipeText). A case is   *)
(* one file with what is known when it is read.                            *)
(***************************************************************************)
EXTENDS Cases

CONSTANTS MaxSafeName, MaxStepName, MaxAge, MaxDrift, PidBits, \* as in ProgressRules
          MaxDepth, MaxWarnings                                 \* as in RecipeText

Rules == INSTANCE ProgressRules
Doc   == INSTANCE RecipeText

\* validate_progress_file and read_progress_file believe the progress files of runs and no
\* others; and decode_recipe_document reads a recipe alike as YAML and as JSON.
FilesAreReadAsMeant ==
  /\ case.of = "progress" =>
       Rules!BelievedFilesMayBeTrue(case.file, case.p, case.before, case.now, case.alive, case.groups)
  /\ case.of = "recipe text" => Doc!ReadsAlikeAsJson(case.text)
=============================================================================
