---------------------------- MODULE MCRecipeRun ----------------------------
(* Small instances of RecipeRun: which steps a recipe may contain and which  *)
(* configurations the runner may have, one pair of sets for each question.   *)
EXTENDS RecipeRunContract

Bash == [kind |-> "bash", group |-> NoGroup, nonfatal |-> FALSE, cond |-> FALSE,
         json |-> "no", out |-> NoKey, excluded |-> FALSE, resumed |-> FALSE]
Agent == [Bash EXCEPT !.kind = "agent"]

Plain == [dryRun |-> FALSE, auditDir |-> FALSE, requireAudit |-> FALSE,
          preHook |-> FALSE, postHook |-> FALSE, errHook |-> FALSE,
          checkpoints |-> FALSE, strictAgents |-> FALSE, codex |-> FALSE,
          outer |-> FALSE, carried |-> 0]

SomeKey   == CHOOSE k \in Keys : TRUE
SomeGroup == CHOOSE g \in Groups : TRUE

\* Serial recipes: both kinds of step, every JSON policy, fatal and nonfatal,
\* an output variable, a condition, and the two ways to be skipped.
SerialSteps ==
  {[Bash EXCEPT !.kind = k, !.json = j, !.nonfatal = n, !.out = SomeKey,
                !.cond = TRUE] :
     k \in {"bash", "agent"}, j \in {"no", "optional", "required"}, n \in BOOLEAN}
  \cup {[Bash EXCEPT !.excluded = TRUE], [Bash EXCEPT !.resumed = TRUE]}

SerialOptions ==
  {[Plain EXCEPT !.auditDir = a, !.requireAudit = a, !.checkpoints = TRUE,
                 !.preHook = h, !.postHook = h, !.errHook = h,
                 !.strictAgents = h, !.codex = h, !.carried = c, !.dryRun = d] :
     a \in BOOLEAN, h \in BOOLEAN, c \in {0, 1}, d \in BOOLEAN}

\* Groups of up to three steps, adjacent to serial steps or to another group.  The
\* serial step stores its output before its hook, the latch and its audit entry settle
\* it, and its own failure would not end the run.
Grouped(s) == [s EXCEPT !.group = SomeGroup]

GroupSteps ==
  {Grouped([Bash EXCEPT !.out = SomeKey, !.nonfatal = TRUE, !.cond = TRUE]),
   Grouped([Bash EXCEPT !.excluded = TRUE]),
   Grouped([Agent EXCEPT !.out = SomeKey]),
   [Bash EXCEPT !.out = SomeKey, !.nonfatal = TRUE]}

GroupOptions ==
  {[Plain EXCEPT !.preHook = h, !.postHook = h, !.errHook = h,
                 !.auditDir = TRUE, !.requireAudit = h, !.checkpoints = TRUE] :
     h \in BOOLEAN}

\* The run is itself a step of an enclosing group whose workers may publish at
\* any time; its own recipe may hold two adjacent groups, to see that a unit
\* ends where the name changes.
NestedSteps ==
  {Bash, [Agent EXCEPT !.json = "optional"],
   Grouped([Agent EXCEPT !.json = "required", !.nonfatal = TRUE])}
  \cup {[Bash EXCEPT !.group = g] : g \in Groups}

NestedOptions ==
  {[Plain EXCEPT !.preHook = h, !.postHook = h, !.errHook = h, !.codex = h,
                 !.outer = TRUE] :
     h \in BOOLEAN}

=============================================================================
