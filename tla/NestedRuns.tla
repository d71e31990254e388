------------------------------ MODULE NestedRuns ------------------------------
(***************************************************************************)
(* Recipes that run recipes, and runs that are resumed: the serial path of *)
(* RecipeRunner::run_steps with execute_sub_recipe (src/runner/mod.rs) and *)
(* RecipeCheckpoint (src/models.rs).  A stack of frames, one per nested    *)
(* run, shares the depth cell, the step counter, the terminal latch and    *)
(* resume_completed.  The process may crash between any two steps, also in *)
(* the middle of writing a checkpoint; the next one may resume from the    *)
(* newest checkpoint of the root recipe.                                   *)
(*                                                                         *)
(* Hooks, groups, tags, audit and the step calls themselves are the        *)
(* subject of RecipeRun; here a step has one of the outcomes those can     *)
(* come to.  An output is identified with the path of the step that wrote it: the ids   *)
(* of the calls that led to it, then its own.                              *)
(***************************************************************************)
EXTENDS Integers, Sequences, SequencesExt

CONSTANTS
  Recipes,    \* name -> sequence of steps
  Root,       \* the recipe that is executed
  MaxDepth,   \* recursion.max_depth
  MaxTotal,   \* recursion.max_total_steps
  MaxRuns     \* bound: processes started

\* A step calls a recipe, or calls = "" and it is a leaf.
StepType == [id : STRING, calls : DOMAIN Recipes \cup {""}, nonfatal : BOOLEAN, recovery : BOOLEAN]

ASSUME RecipesAssumption ==
  /\ Root \in DOMAIN Recipes
  /\ \A n \in DOMAIN Recipes : Recipes[n] \in Seq(StepType)
  /\ MaxDepth \in Nat /\ MaxTotal \in Nat /\ MaxRuns \in Nat

VARIABLES
  runs,       \* processes started
  phase,      \* "crashed" (or not started), "running", "done"
  stack,      \* the nested runs, the root's first
  depth, total, terminal,
  resume,     \* resume_completed
  save,       \* completed_steps of the checkpoint about to be written
  disk,       \* the newest checkpoint file of the root recipe
  success,    \* of the RecipeResult
  done,       \* history: paths that ran and settled without failing, in any process
  unmet,      \* history: paths whose condition was not met, in any process
  skips,      \* history: paths skipped because they were resumed
  failedCalls \* history: paths of calls whose nested run failed, this process

vars == <<runs, phase, stack, depth, total, terminal, resume, save, disk,
          success, done, unmet, skips, failedCalls>>

None   == [ids |-> {}, state |-> "none"]
Top    == stack[Len(stack)]
Here   == Recipes[Top.recipe]
Cur    == Here[Top.pos]
PathOf(s) == [i \in 1..Len(s) |-> Recipes[s[i].recipe][s[i].pos].id]
Path   == PathOf(stack)
Frame(name, ctx) ==
  [recipe |-> name, pos |-> 1, results |-> <<>>, ctx |-> ctx, ok |-> TRUE]
Running == phase = "running" /\ save = None
AtStep  == Running /\ Top.ok /\ Top.pos <= Len(Here)

Init ==
  /\ runs = 0 /\ phase = "crashed" /\ stack = <<>>
  /\ depth = 0 /\ total = 0 /\ terminal = FALSE
  /\ resume = {} /\ save = None /\ disk = None /\ success = FALSE
  /\ done = {} /\ unmet = {} /\ skips = {} /\ failedCalls = {}

\* The mistakes a run must notice stand before the decisions they concern.

BudgetSpent       == total >= MaxTotal

\* RecipeCheckpoint::load refuses a file that was not written to its end.
Loadable == disk.state = "whole"

\* The results a checkpoint takes over, and the step just settled.
CompletedAll(results) == {i \in DOMAIN results : TRUE}
Completed(results)    == {i \in DOMAIN results : results[i] = "completed"}

\* Only a nested run that succeeded hands its context back.
MergedAlways(ok, mine, theirs) == mine \cup theirs
Merged(ok, mine, theirs)       == IF ok THEN mine \cup theirs ELSE mine

DepthExhausted      == depth >= MaxDepth

\* What is left of a step: its status settles the frame on top of s.  The latch
\* or a missing audit entry turns every status into a failure; a step that did not
\* fail is checkpointed, in the file of the recipe the frame runs, together with the
\* earlier ones that completed.  It need not have run: its condition may not be met.
SettleIn(s, path, r, ctx, closed) ==
  LET f      == s[Len(s)]
      step   == Recipes[f.recipe][f.pos]
      status == IF closed THEN "failed" ELSE r
      ids    == {Recipes[f.recipe][i].id : i \in Completed(f.results)} \cup {step.id}
  IN
  /\ stack' = [s EXCEPT ![Len(s)] =
       [f EXCEPT !.results = Append(@, status), !.pos = @ + 1, !.ctx = ctx,
                 !.ok = ~closed /\ (status = "failed" => step.nonfatal)]]
  /\ total' = total + 1
  /\ done' = IF status \in {"completed", "degraded"} THEN done \cup {path} ELSE done
  /\ unmet' = IF status = "skipped" THEN unmet \cup {path} ELSE unmet
  /\ save' = IF status # "failed" /\ f.recipe = Root
             THEN [ids |-> ids, state |-> "torn"] ELSE None

\* A hook or call of the step may close the latch; its audit entry may be required and
\* not be written.
Settle(s, path, r, ctx) ==
  \E closes, unlogged \in BOOLEAN :
    /\ terminal' = (terminal \/ closes)
    /\ SettleIn(s, path, r, ctx, terminal' \/ unlogged)

-----------------------------------------------------------------------------

\* execute: a new process; its checks before the first step may end it.
Execute ==
  /\ phase = "crashed" /\ runs < MaxRuns
  /\ runs' = runs + 1
  /\ \E from \in {{}, IF Loadable THEN disk.ids ELSE {}} : resume' = from
  /\ depth' = 0 /\ total' = 0 /\ terminal' = FALSE /\ failedCalls' = {}
  /\ success' = FALSE
  /\ \/ phase' = "running" /\ stack' = <<Frame(Root, {})>>
     \/ phase' = "done" /\ stack' = <<>>
  /\ UNCHANGED <<save, disk, done, unmet, skips>>

Limit ==
  /\ AtStep /\ BudgetSpent
  /\ stack' = [stack EXCEPT ![Len(stack)].ok = FALSE]
  /\ UNCHANGED <<runs, phase, depth, total, terminal, resume, save, disk, success,
                 done, unmet, skips, failedCalls>>

SkipResumed ==
  /\ AtStep /\ ~BudgetSpent /\ Cur.id \in resume
  /\ skips' = skips \cup {Path}
  /\ stack' = [stack EXCEPT ![Len(stack)].results = Append(@, "skipped"),
                            ![Len(stack)].pos = @ + 1]
  /\ UNCHANGED <<runs, phase, depth, total, terminal, resume, save, disk, success,
                 done, unmet, failedCalls>>

Leaf ==
  /\ AtStep /\ ~BudgetSpent /\ Cur.id \notin resume /\ Cur.calls = ""
  /\ \E r \in {"completed", "degraded", "skipped", "failed"} :
       Settle(stack, Path, r,
              IF r \in {"completed", "degraded"} THEN Top.ctx \cup {Path} ELSE Top.ctx)
  /\ UNCHANGED <<runs, phase, depth, resume, disk, success, skips, failedCalls>>

\* The condition of the step is not met, or the call cannot be made: too deep, an
\* unusable name, a missing or broken file.
NoCall ==
  /\ AtStep /\ ~BudgetSpent /\ Cur.id \notin resume /\ Cur.calls # ""
  /\ \E r \in {"skipped", "failed"} : Settle(stack, Path, r, Top.ctx)
  /\ UNCHANGED <<runs, phase, depth, resume, disk, success, skips, failedCalls>>

Call ==
  /\ AtStep /\ ~BudgetSpent /\ Cur.id \notin resume /\ Cur.calls # ""
  /\ ~DepthExhausted
  /\ depth' = depth + 1
  /\ stack' = Append(stack, Frame(Cur.calls, Top.ctx))
  /\ UNCHANGED <<runs, phase, total, terminal, resume, save, disk, success, done, unmet,
                 skips, failedCalls>>

RunEnded == Running /\ (~Top.ok \/ Top.pos > Len(Here))
SucceedsUnlatched == ~terminal
Succeeds == Top.ok /\ ~terminal

\* A nested run returns to the step that called it.  A failed one may be recovered
\* by an agent call, unless the latch is closed before or by that call.  The step may
\* still fail when its context was merged: its text is not the JSON that it is to be.
Return ==
  /\ RunEnded /\ Len(stack) > 1
  /\ depth' = depth - 1
  /\ LET below == Front(stack)
         f     == below[Len(below)]
         step  == Recipes[f.recipe][f.pos]
         path  == PathOf(below)
         tries == ~Succeeds /\ step.recovery /\ ~terminal
     IN
     /\ failedCalls' = IF Succeeds THEN failedCalls ELSE failedCalls \cup {path}
     /\ \E r \in IF Succeeds \/ tries THEN {"completed", "degraded", "failed"}
                                     ELSE {"failed"} :
          Settle(below, path, r, Merged(Succeeds, f.ctx, Top.ctx))
  /\ UNCHANGED <<runs, phase, resume, disk, success, skips>>

Finish ==
  /\ RunEnded /\ Len(stack) = 1
  /\ success' = Succeeds /\ phase' = "done"
  /\ UNCHANGED <<runs, stack, depth, total, terminal, resume, save, disk, done, unmet,
                 skips, failedCalls>>

\* RecipeCheckpoint::save writes the file in place: it is truncated, then filled.
Truncate ==
  /\ phase = "running" /\ save # None /\ disk # save
  /\ disk' = save
  /\ UNCHANGED <<runs, phase, stack, depth, total, terminal, resume, save, success,
                 done, unmet, skips, failedCalls>>

Fill ==
  /\ phase = "running" /\ save # None /\ disk = save
  /\ disk' = [save EXCEPT !.state = "whole"] /\ save' = None
  /\ UNCHANGED <<runs, phase, stack, depth, total, terminal, resume, success, done, unmet,
                 skips, failedCalls>>

\* A failed save is a warning, at any point of it.
SaveFails ==
  /\ phase = "running" /\ save # None
  /\ save' = None
  /\ UNCHANGED <<runs, phase, stack, depth, total, terminal, resume, disk, success,
                 done, unmet, skips, failedCalls>>

Crash ==
  /\ phase = "running" /\ runs < MaxRuns
  /\ phase' = "crashed" /\ stack' = <<>> /\ save' = None
  /\ UNCHANGED <<runs, depth, total, terminal, resume, disk, success, done, unmet, skips,
                 failedCalls>>

Terminated == phase = "done" /\ UNCHANGED vars

Program ==
  \/ Execute \/ Limit \/ SkipResumed \/ Leaf \/ NoCall \/ Call \/ Return
  \/ Finish \/ Truncate \/ Fill \/ SaveFails

Next == Program \/ Crash \/ Terminated

Spec == Init /\ [][Next]_vars

-----------------------------------------------------------------------------

Statuses == {"completed", "degraded", "skipped", "failed"}
TypeOK ==
  /\ runs \in 0..MaxRuns /\ phase \in {"crashed", "running", "done"}
  /\ \A i \in DOMAIN stack :
       /\ stack[i].recipe \in DOMAIN Recipes /\ stack[i].ok \in BOOLEAN
       /\ stack[i].pos \in 1..(Len(Recipes[stack[i].recipe]) + 1)
       /\ Len(stack[i].results) = stack[i].pos - 1
       /\ \A k \in DOMAIN stack[i].results : stack[i].results[k] \in Statuses
  /\ terminal \in BOOLEAN /\ success \in BOOLEAN
  /\ save.state \in {"none", "torn"} /\ disk.state \in {"none", "torn", "whole"}

\* However nested runs end, depth is what the stack says, no run is nested deeper
\* than the limit, and the counter all runs share passes its limit at most once per
\* call that was open when the limit was reached.
NestingIsBounded ==
  phase = "running" =>
    /\ depth = Len(stack) - 1 /\ depth <= MaxDepth
    /\ total <= MaxTotal + (MaxDepth - depth)

\* A nested run that failed leaves nothing in the context of the runs that called
\* it, also when an agent recovered the step.
FailedRunsLeaveNoTrace ==
  \A i \in DOMAIN stack : \A p \in stack[i].ctx :
    \A q \in failedCalls : ~IsStrictPrefix(q, p)

\* Nested runs stay within the limits and what fails in them stays inside them.
NestedRunsAreContained == NestingIsBounded /\ FailedRunsLeaveNoTrace

\* A step is skipped as already completed only if it ran and settled without failing in
\* an earlier process, wherever that process crashed and whatever it had written; or if
\* its condition was not met there, for the checkpoint names that step as completed too.
Cleared == done \cup unmet
SkippedWasDone == skips \subseteq Cleared

\* When a run, resumed or not, succeeds, each step of the root recipe ran and settled
\* without failing in this or an earlier process, or was not to run there by its
\* condition, unless the step is nonfatal.
SuccessCoversAll ==
  phase = "done" /\ success =>
    \A i \in DOMAIN Recipes[Root] :
      <<Recipes[Root][i].id>> \in Cleared \/ Recipes[Root][i].nonfatal

=============================================================================
