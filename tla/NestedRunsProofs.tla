--------------------------- MODULE NestedRunsProofs ---------------------------
(* Theorems about recipes. About NestedRuns: recipes that call recipes to any   *)
(* depth, for every set of recipes, every limit and any number of crashes and   *)
(* resumed runs. About the pure functions that find what a run is made of, for  *)
(* every disk, environment and library: Discovery (recipes, the manifest, the   *)
(* cache, agents), Locations (the directories two commands search), Recipes     *)
(* (what a recipe with a parent becomes), CommandLine (what a command line runs *)
(* and with what) and Coercions (when the values of a condition are equal).     *)
EXTENDS NestedRuns, Lookups, Coercions, SequenceTheorems, FiniteSetTheorems, WellFoundedInduction, TLAPS

\* The ids of a recipe differ, as the parser demands of every recipe it reads.
IdsDiffer ==
  \A n \in DOMAIN Recipes : \A i, j \in 1..Len(Recipes[n]) :
    Recipes[n][i].id = Recipes[n][j].id => i = j

\* No recipe calls the root, so that the checkpoint file is the root's alone.
RootNotCalled ==
  \A n \in DOMAIN Recipes : \A i \in 1..Len(Recipes[n]) : Recipes[n][i].calls # Root

\* The ids of the root are used by no other recipe.
RootIds    == {Recipes[Root][i].id : i \in 1..Len(Recipes[Root])}
RootIdsOwn ==
  \A n \in DOMAIN Recipes \ {Root} : \A i \in 1..Len(Recipes[n]) :
    Recipes[n][i].id \notin RootIds

-----------------------------------------------------------------------------
(* Type correctness and the shape of the stack: the root's run is at the     *)
(* bottom, and each run but the top one is at the step that called the next.  *)

FrameType == [recipe : DOMAIN Recipes, pos : Nat, results : Seq(Statuses),
              ctx : SUBSET Seq(STRING), ok : BOOLEAN]
StepsOf(f)  == Recipes[f.recipe]
FrameOK(f) == f.pos \in 1..(Len(StepsOf(f)) + 1) /\ Len(f.results) = f.pos - 1

StackOK(s) ==
  /\ s \in Seq(FrameType)
  /\ \A i \in 1..Len(s) : FrameOK(s[i])
  /\ s # <<>> => s[1].recipe = Root
  /\ \A i \in 1..(Len(s) - 1) :
       /\ s[i].pos <= Len(StepsOf(s[i]))
       /\ s[i + 1].recipe = StepsOf(s[i])[s[i].pos].calls

Checkpoint == [ids : SUBSET STRING, state : {"none", "torn", "whole"}]

ShapeInv ==
  /\ runs \in 0..MaxRuns /\ phase \in {"crashed", "running", "done"}
  /\ StackOK(stack) /\ (phase = "running" => stack # <<>>)
  /\ depth \in Int /\ total \in Nat
  /\ terminal \in BOOLEAN /\ success \in BOOLEAN
  /\ resume \in SUBSET STRING
  /\ save \in Checkpoint /\ save.state # "whole" /\ disk \in Checkpoint
  /\ done \in SUBSET Seq(STRING) /\ unmet \in SUBSET Seq(STRING) /\ skips \in SUBSET Seq(STRING)
  /\ failedCalls \in SUBSET Seq(STRING)

\* The types of what a run on the stack holds.
LEMMA FrameTop ==
  ASSUME NEW s, StackOK(s), NEW n \in 1..Len(s)
  PROVE  /\ s[n] \in FrameType /\ s[n].recipe \in DOMAIN Recipes
         /\ s[n].pos \in Nat /\ 1 <= s[n].pos /\ s[n].pos <= Len(StepsOf(s[n])) + 1
         /\ StepsOf(s[n]) \in Seq(StepType) /\ Len(StepsOf(s[n])) \in Nat
         /\ s[n].results \in Seq(Statuses) /\ Len(s[n].results) = s[n].pos - 1
         /\ s[n].ctx \in SUBSET Seq(STRING) /\ s[n].ok \in BOOLEAN
<1>1. s[n] \in FrameType /\ FrameOK(s[n])
  BY DEF StackOK
<1>2. s[n].recipe \in DOMAIN Recipes /\ StepsOf(s[n]) \in Seq(StepType)
  BY <1>1, RecipesAssumption DEF FrameType, StepsOf
<1>3. Len(StepsOf(s[n])) \in Nat
  BY <1>2
<1> HIDE DEF StepsOf
<1> QED
  BY <1>1, <1>2, <1>3 DEF FrameType, FrameOK

\* The step a frame is at.
LEMMA StepAt ==
  ASSUME NEW s, StackOK(s), NEW n \in 1..Len(s), NEW k \in 1..Len(StepsOf(s[n]))
  PROVE  /\ StepsOf(s[n])[k] \in StepType /\ StepsOf(s[n])[k].id \in STRING
         /\ StepsOf(s[n])[k].nonfatal \in BOOLEAN
         /\ StepsOf(s[n])[k].calls \in DOMAIN Recipes \cup {""}
<1>1. StepsOf(s[n]) \in Seq(StepType)
  BY FrameTop
<1>2. StepsOf(s[n])[k] \in StepType
  BY <1>1
<1> HIDE DEF StepsOf
<1> QED
  BY <1>2 DEF StepType

\* The path names the step each run on the stack is at.
LEMMA PathFacts ==
  ASSUME NEW s, StackOK(s), s # <<>>, s[Len(s)].pos <= Len(StepsOf(s[Len(s)]))
  PROVE  /\ PathOf(s) \in Seq(STRING) /\ Len(PathOf(s)) = Len(s)
         /\ \A i \in 1..Len(s) : PathOf(s)[i] = StepsOf(s[i])[s[i].pos].id
<1>1. Len(s) \in Nat /\ Len(s) >= 1
  BY DEF StackOK
<1>2. ASSUME NEW i \in 1..Len(s)
      PROVE  s[i].pos \in 1..Len(StepsOf(s[i])) /\ StepsOf(s[i])[s[i].pos].id \in STRING
  <2>1. s[i].pos \in Nat /\ 1 <= s[i].pos /\ Len(StepsOf(s[i])) \in Nat
    BY FrameTop
  <2>2. s[i].pos <= Len(StepsOf(s[i]))
    BY <1>1, <2>1 DEF StackOK
  <2>3. s[i].pos \in 1..Len(StepsOf(s[i]))
    BY <2>1, <2>2
  <2> QED
    BY <2>3, StepAt
<1>3. PathOf(s) = [i \in 1..Len(s) |-> StepsOf(s[i])[s[i].pos].id]
  BY DEF PathOf, StepsOf
<1> HIDE DEF StepsOf, PathOf
<1> QED
  BY <1>1, <1>2, <1>3

\* The stack without its top is one that is at the step which called the top.
LEMMA BelowFacts ==
  ASSUME NEW s, StackOK(s), Len(s) > 1
  PROVE  /\ StackOK(Front(s)) /\ Front(s) # <<>> /\ Len(Front(s)) = Len(s) - 1
         /\ \A i \in 1..(Len(s) - 1) : Front(s)[i] = s[i]
         /\ Front(s)[Len(Front(s))].pos <= Len(StepsOf(Front(s)[Len(Front(s))]))
<1>1. s \in Seq(FrameType) /\ Len(s) \in Nat
  BY DEF StackOK
<1>2. /\ Front(s) \in Seq(FrameType) /\ Len(Front(s)) = Len(s) - 1
      /\ \A i \in 1..(Len(s) - 1) : Front(s)[i] = s[i]
  BY <1>1 DEF Front
<1>3. Front(s) # <<>>
  BY <1>1, <1>2
<1> DEFINE t == Front(s)
<1> HIDE DEF t
<1>4. \A i \in 1..Len(t) : t[i] = s[i] /\ FrameOK(t[i])
  BY <1>1, <1>2 DEF StackOK, t
<1>5. \A i \in 1..Len(t) : t[i].pos <= Len(StepsOf(t[i]))
  BY <1>1, <1>2 DEF StackOK, t
<1>6. ASSUME NEW i \in 1..(Len(t) - 1) PROVE t[i + 1].recipe = StepsOf(t[i])[t[i].pos].calls
  <2>1. i + 1 \in 1..Len(t) /\ i \in 1..(Len(s) - 1) /\ i \in 1..Len(t)
    BY <1>1, <1>2 DEF t
  <2>2. t[i] = s[i] /\ t[i + 1] = s[i + 1]
    BY <1>4, <2>1
  <2>3. s[i + 1].recipe = StepsOf(s[i])[s[i].pos].calls
    BY <2>1 DEF StackOK
  <2> QED
    BY <2>2, <2>3
<1>7. t[1].recipe = Root
  BY <1>1, <1>2 DEF StackOK, t
<1>8. Len(t) \in 1..Len(t)
  BY <1>1, <1>2 DEF t
<1> QED
  BY <1>2, <1>3, <1>4, <1>5, <1>6, <1>7, <1>8 DEF StackOK, t

\* A run that leaves a step with a result is still a run.
LEMMA FrameMoves ==
  ASSUME NEW f \in FrameType, FrameOK(f), f.pos <= Len(StepsOf(f)), Len(StepsOf(f)) \in Nat,
         NEW g \in FrameType, g.recipe = f.recipe, g.pos = f.pos + 1,
         Len(g.results) = Len(f.results) + 1
  PROVE  FrameOK(g)
<1>1. StepsOf(g) = StepsOf(f) /\ f.pos \in Nat
  BY DEF StepsOf, FrameType
<1> HIDE DEF StepsOf
<1> QED
  BY <1>1 DEF FrameOK

\* The frame on top moves on to its next step.
Moved(s, t, status, ctx, ok) ==
  /\ StackOK(t) /\ Len(t) = Len(s)
  /\ \A i \in 1..(Len(s) - 1) : t[i] = s[i]
  /\ t[Len(s)].recipe = s[Len(s)].recipe /\ t[Len(s)].pos = s[Len(s)].pos + 1
  /\ t[Len(s)].results = Append(s[Len(s)].results, status)
  /\ t[Len(s)].ctx = ctx /\ t[Len(s)].ok = ok

\* When the run on top leaves its step, the stack keeps its shape and nothing else on it changes.
LEMMA MoveTop ==
  ASSUME NEW s, StackOK(s), s # <<>>, s[Len(s)].pos <= Len(StepsOf(s[Len(s)])),
         NEW status \in Statuses, NEW ctx \in SUBSET Seq(STRING), NEW ok \in BOOLEAN,
         NEW g, g \in FrameType, g.recipe = s[Len(s)].recipe, g.pos = s[Len(s)].pos + 1,
         g.results = Append(s[Len(s)].results, status), g.ctx = ctx, g.ok = ok
  PROVE  Moved(s, [s EXCEPT ![Len(s)] = g], status, ctx, ok)
<1> DEFINE n == Len(s)
           t == [s EXCEPT ![n] = g]
<1>1. s \in Seq(FrameType) /\ n \in Nat /\ n \in 1..n
  BY DEF StackOK
<1>2. /\ t \in Seq(FrameType) /\ Len(t) = n /\ t[n] = g
      /\ \A i \in 1..n : i # n => t[i] = s[i]
  BY <1>1
<1>3. s[n].pos \in Nat /\ Len(StepsOf(s[n])) \in Nat /\ Len(s[n].results) = s[n].pos - 1
      /\ s[n].results \in Seq(Statuses) /\ s[n] \in FrameType
  BY <1>1, FrameTop
<1> HIDE DEF t
<1>4. FrameOK(s[n])
  BY <1>1 DEF StackOK
<1> HIDE DEF n
<1>5. FrameOK(g)
  <2>1. Len(g.results) = Len(s[n].results) + 1
    BY <1>3 DEF n
  <2> QED
    BY <1>3, <1>4, <2>1, FrameMoves DEF n
<1>6. \A i \in 1..Len(t) : FrameOK(t[i])
  BY <1>1, <1>2, <1>5 DEF StackOK, n
<1>7. t[1].recipe = Root /\ t # <<>>
  BY <1>1, <1>2 DEF StackOK, n
<1>8. ASSUME NEW i \in 1..(n - 1)
      PROVE  /\ t[i].pos <= Len(StepsOf(t[i]))
             /\ t[i + 1].recipe = StepsOf(t[i])[t[i].pos].calls
  <2>1. t[i] = s[i] /\ t[i + 1].recipe = s[i + 1].recipe
    BY <1>1, <1>2 DEF n
  <2> QED
    BY <1>1, <2>1 DEF StackOK, n
<1>9. StackOK(t)
  BY <1>2, <1>6, <1>7, <1>8 DEF StackOK
<1> QED
  BY <1>1, <1>2, <1>9 DEF Moved, t, n

\* What settling a step does to the frame on top of s, to the steps that settled and
\* to the checkpoint about to be written.
Saved(f) ==
  [ids |-> {StepsOf(f)[i].id : i \in Completed(f.results)} \cup {StepsOf(f)[f.pos].id},
   state |-> "torn"]

SettlesTop(s, path) ==
  LET f == s[Len(s)]
  IN  \E status \in Statuses, ctx \in SUBSET Seq(STRING), ok \in BOOLEAN :
        /\ Moved(s, stack', status, ctx, ok)
        /\ ok /\ status = "failed" => StepsOf(f)[f.pos].nonfatal
        /\ done' \in {done, done \cup {path}} /\ unmet' \in {unmet, unmet \cup {path}}
        /\ Cleared' = IF status = "failed" THEN Cleared ELSE Cleared \cup {path}
        /\ \/ save' = None
           \/ status # "failed" /\ f.recipe = Root /\ save' = Saved(f)

\* A step that is settled counts, and the run on top moves on.
LEMMA SettlesIn ==
  ASSUME NEW s, StackOK(s), s # <<>>, s[Len(s)].pos <= Len(StepsOf(s[Len(s)])),
         NEW path, NEW r \in Statuses, NEW ctx \in SUBSET Seq(STRING),
         NEW closed \in BOOLEAN, SettleIn(s, path, r, ctx, closed)
  PROVE  /\ SettlesTop(s, path) /\ total' = total + 1
         /\ \E status \in Statuses, ok \in BOOLEAN : Moved(s, stack', status, ctx, ok)
<1> DEFINE n == Len(s)
           f == s[n]
           step == StepsOf(f)[f.pos]
           status == IF closed THEN "failed" ELSE r
           ok == ~closed /\ (status = "failed" => step.nonfatal)
           g == [f EXCEPT !.results = Append(@, status), !.pos = @ + 1, !.ctx = ctx, !.ok = ok]
<1>1. n \in Nat /\ n \in 1..n
  BY DEF StackOK
<1>2. /\ f \in FrameType /\ f.pos \in Nat /\ f.results \in Seq(Statuses)
      /\ f.pos \in 1..Len(StepsOf(f))
  BY <1>1, FrameTop
<1>3. status \in Statuses
  BY DEF Statuses
<1>4. ok \in BOOLEAN
  BY <1>1, <1>2, StepAt
<1>5. Append(f.results, status) \in Seq(Statuses) /\ f.pos + 1 \in Nat
  BY <1>2, <1>3
<1>6. /\ stack' = [s EXCEPT ![n] = g] /\ total' = total + 1
      /\ done' = IF status \in {"completed", "degraded"} THEN done \cup {path} ELSE done
      /\ unmet' = IF status = "skipped" THEN unmet \cup {path} ELSE unmet
      /\ \/ save' = None
         \/ status # "failed" /\ f.recipe = Root /\ save' = Saved(f)
  BY DEF SettleIn, Saved, StepsOf
<1>10. Cleared' = IF status = "failed" THEN Cleared ELSE Cleared \cup {path}
  <2>1. status = "failed" \/ status = "skipped" \/ status \in {"completed", "degraded"}
    BY <1>3 DEF Statuses
  <2> QED
    BY <1>6, <2>1 DEF Cleared
<1>7. ok /\ status = "failed" => step.nonfatal
  OBVIOUS
<1> HIDE DEF status, ok
<1>8. /\ g \in FrameType /\ g.recipe = f.recipe /\ g.pos = f.pos + 1
      /\ g.results = Append(f.results, status) /\ g.ctx = ctx /\ g.ok = ok
  BY <1>2, <1>4, <1>5 DEF FrameType
<1> HIDE DEF g
<1>9. Moved(s, stack', status, ctx, ok)
  BY <1>3, <1>4, <1>6, <1>8, MoveTop
<1>11. /\ done' \in {done, done \cup {path}}
       /\ unmet' \in {unmet, unmet \cup {path}}
  BY <1>6
<1> QED
  BY <1>3, <1>4, <1>6, <1>7, <1>9, <1>10, <1>11 DEF SettlesTop

\* Whatever closes the latch meanwhile, and whether or not the audit log took the entry.
LEMMA Settles ==
  ASSUME NEW s, StackOK(s), s # <<>>, s[Len(s)].pos <= Len(StepsOf(s[Len(s)])),
         NEW path, NEW r \in Statuses, NEW ctx \in SUBSET Seq(STRING),
         terminal \in BOOLEAN, Settle(s, path, r, ctx)
  PROVE  /\ SettlesTop(s, path) /\ total' = total + 1 /\ terminal' \in BOOLEAN
         /\ \E status \in Statuses, ok \in BOOLEAN : Moved(s, stack', status, ctx, ok)
<1>1. PICK closes \in BOOLEAN, unlogged \in BOOLEAN :
        terminal' = (terminal \/ closes) /\ SettleIn(s, path, r, ctx, terminal' \/ unlogged)
  BY DEF Settle
<1>2. PICK closed \in BOOLEAN : closed = (terminal' \/ unlogged)
  BY <1>1
<1>3. SettleIn(s, path, r, ctx, closed)
  BY <1>1, <1>2
<1> QED
  BY <1>1, <1>3, SettlesIn

\* What is there when a run is about to start a step.
LEMMA AtStepFacts ==
  ASSUME ShapeInv, AtStep
  PROVE  /\ stack # <<>> /\ StackOK(stack) /\ Len(stack) \in Nat /\ Len(stack) \in 1..Len(stack)
         /\ Top.pos <= Len(StepsOf(Top)) /\ Top.ctx \in SUBSET Seq(STRING)
         /\ Path \in Seq(STRING) /\ Cur = StepsOf(Top)[Top.pos] /\ Cur \in StepType
<1>1. stack # <<>> /\ StackOK(stack) /\ Len(stack) \in Nat /\ Len(stack) \in 1..Len(stack)
      /\ Top.pos <= Len(StepsOf(Top)) /\ Cur = StepsOf(Top)[Top.pos]
  BY DEF ShapeInv, AtStep, Running, StackOK, Here, Cur, StepsOf
<1>2. Top \in FrameType /\ Top.pos \in 1..Len(StepsOf(Top)) /\ Top.ctx \in SUBSET Seq(STRING)
  BY <1>1, FrameTop DEF Top
<1>3. Path \in Seq(STRING)
  BY <1>1, PathFacts DEF Path, Top
<1>4. Cur \in StepType
  BY <1>1, <1>2, StepAt DEF Top
<1> QED
  BY <1>1, <1>2, <1>3, <1>4

\* What is saved is a checkpoint, torn until it is written out.
LEMMA SavedType ==
  ASSUME NEW s, StackOK(s), s # <<>>, s[Len(s)].pos <= Len(StepsOf(s[Len(s)]))
  PROVE  Saved(s[Len(s)]) \in Checkpoint /\ Saved(s[Len(s)]).state = "torn"
<1> DEFINE f == s[Len(s)]
<1>1. Len(s) \in 1..Len(s)
  BY DEF StackOK
<1>2. f.pos \in 1..Len(StepsOf(f)) /\ Len(f.results) = f.pos - 1 /\ f.results \in Seq(Statuses)
  BY <1>1, FrameTop
<1>3. \A k \in 1..Len(StepsOf(f)) : StepsOf(f)[k].id \in STRING
  BY <1>1, StepAt
<1>4. \A k \in Completed(f.results) : k \in 1..Len(StepsOf(f))
  BY <1>2 DEF Completed
<1> HIDE DEF f
<1> QED
  BY <1>2, <1>3, <1>4 DEF Saved, Checkpoint, f

\* No checkpoint names no id.
LEMMA NoneFacts == None \in Checkpoint /\ None.state = "none" /\ None.ids = {}
BY DEF None, Checkpoint

\* The first process starts with no stack.
LEMMA ShapeInit == Init => ShapeInv
<1> SUFFICES ASSUME Init PROVE ShapeInv
  OBVIOUS
<1>1. StackOK(stack)
  BY DEF Init, StackOK
<1>2. runs \in 0..MaxRuns /\ total \in Nat /\ depth \in Int
  BY RecipesAssumption DEF Init
<1> QED
  BY <1>1, <1>2, NoneFacts DEF Init, ShapeInv

\* The frame on top stops where it is, moves past a resumed step, or calls a recipe.
LEMMA LimitStack ==
  ASSUME ShapeInv, Limit
  PROVE  /\ StackOK(stack') /\ Len(stack') = Len(stack) /\ stack # <<>>
         /\ \A i \in 1..Len(stack) :
              /\ stack'[i].recipe = stack[i].recipe /\ stack'[i].pos = stack[i].pos
              /\ stack'[i].ctx = stack[i].ctx /\ stack'[i].results = stack[i].results
              /\ stack'[i].ok => stack[i].ok
         /\ \A i \in 1..(Len(stack) - 1) : stack'[i] = stack[i]
<1> DEFINE n == Len(stack)
           g == [stack[n] EXCEPT !.ok = FALSE]
<1>1. stack \in Seq(FrameType) /\ n \in Nat /\ n \in 1..n /\ stack[n] \in FrameType /\ AtStep
      /\ stack # <<>> /\ StackOK(stack)
  BY AtStepFacts, FrameTop DEF Limit, StackOK
<1>2. stack' = [stack EXCEPT ![n] = g]
  BY DEF Limit
<1>3. /\ g \in FrameType /\ g.recipe = stack[n].recipe /\ g.pos = stack[n].pos
      /\ g.ctx = stack[n].ctx /\ g.results = stack[n].results /\ g.ok = FALSE
  BY <1>1 DEF FrameType
<1> HIDE DEF g
<1>4. /\ stack' \in Seq(FrameType) /\ Len(stack') = n /\ stack'[n] = g
      /\ \A i \in 1..n : i # n => stack'[i] = stack[i]
  BY <1>1, <1>2, <1>3
<1>5. \A i \in 1..n :
        /\ stack'[i].recipe = stack[i].recipe /\ stack'[i].pos = stack[i].pos
        /\ stack'[i].ctx = stack[i].ctx /\ stack'[i].results = stack[i].results
        /\ stack'[i].ok => stack[i].ok
  BY <1>3, <1>4
<1> HIDE DEF n
<1>6. \A i \in 1..n : StepsOf(stack'[i]) = StepsOf(stack[i])
  BY <1>5 DEF StepsOf
<1>7. \A i \in 1..n : FrameOK(stack'[i])
  BY <1>1, <1>5, <1>6 DEF FrameOK, StackOK, n
<1>8. stack' # <<>> /\ stack'[1].recipe = Root
  BY <1>1, <1>4, <1>5 DEF StackOK, n
<1>9. ASSUME NEW i \in 1..(n - 1)
      PROVE  /\ stack'[i].pos <= Len(StepsOf(stack'[i]))
             /\ stack'[i + 1].recipe = StepsOf(stack'[i])[stack'[i].pos].calls
  <2>1. i \in 1..n /\ i + 1 \in 1..n
    BY <1>1
  <2> QED
    BY <1>1, <1>5, <1>6, <2>1 DEF StackOK, n
<1>10. StackOK(stack')
  BY <1>4, <1>7, <1>8, <1>9 DEF StackOK
<1>11. \A i \in 1..(n - 1) : i \in 1..n /\ i # n
  BY <1>1
<1> QED
  BY <1>1, <1>4, <1>5, <1>10, <1>11 DEF n

\* A step skipped on resume moves the top on.
LEMMA SkipStack ==
  ASSUME ShapeInv, SkipResumed
  PROVE  Moved(stack, stack', "skipped", Top.ctx, Top.ok)
<1> DEFINE n == Len(stack)
           f == stack[n]
           g == [f EXCEPT !.results = Append(@, "skipped"), !.pos = @ + 1]
<1>1. n \in 1..n /\ stack # <<>> /\ StackOK(stack) /\ f.pos <= Len(StepsOf(f)) /\ Top = f
      /\ n \in Nat /\ stack \in Seq(FrameType)
  BY AtStepFacts DEF SkipResumed, Top, StackOK
<1>2. f \in FrameType /\ f.pos \in Nat /\ f.results \in Seq(Statuses)
      /\ f.ctx \in SUBSET Seq(STRING) /\ f.ok \in BOOLEAN
  BY <1>1, FrameTop
<1>3. stack' = [stack EXCEPT ![n] = g]
  BY <1>1, <1>2 DEF SkipResumed, FrameType
<1>4. "skipped" \in Statuses /\ Append(f.results, "skipped") \in Seq(Statuses) /\ f.pos + 1 \in Nat
  BY <1>2 DEF Statuses
<1>5. /\ g \in FrameType /\ g.recipe = f.recipe /\ g.pos = f.pos + 1
      /\ g.results = Append(f.results, "skipped") /\ g.ctx = f.ctx /\ g.ok = f.ok
  BY <1>2, <1>4 DEF FrameType
<1> HIDE DEF g
<1> QED
  BY <1>1, <1>2, <1>3, <1>4, <1>5, MoveTop

\* A run starts at its first step with what its caller handed over.
LEMMA NewFrame ==
  ASSUME NEW name \in DOMAIN Recipes, NEW ctx \in SUBSET Seq(STRING)
  PROVE  /\ Frame(name, ctx) \in FrameType /\ FrameOK(Frame(name, ctx))
         /\ Frame(name, ctx).recipe = name /\ Frame(name, ctx).pos = 1
         /\ Frame(name, ctx).ctx = ctx /\ Frame(name, ctx).ok = TRUE
<1> DEFINE g == Frame(name, ctx)
<1>1. /\ g.recipe = name /\ g.pos = 1 /\ g.results = <<>> /\ g.ctx = ctx /\ g.ok = TRUE
      /\ g \in FrameType
  <2>1. <<>> \in Seq(Statuses)
    OBVIOUS
  <2>2. g = [recipe |-> name, pos |-> 1, results |-> <<>>, ctx |-> ctx, ok |-> TRUE]
    BY DEF Frame
  <2> HIDE DEF g
  <2> QED
    BY <2>1, <2>2 DEF FrameType
<1>2. FrameOK(g)
  <2>1. StepsOf(g) \in Seq(StepType)
    BY <1>1, RecipesAssumption DEF StepsOf
  <2>2. Len(StepsOf(g)) \in Nat
    BY <2>1
  <2> QED
    BY <1>1, <2>2 DEF FrameOK
<1> QED
  BY <1>1, <1>2

\* A stack t that is s with a new run on it, which the step s is at calls.
LEMMA PushTop ==
  ASSUME NEW s, StackOK(s), s # <<>>, s[Len(s)].pos <= Len(StepsOf(s[Len(s)])),
         NEW g \in FrameType, FrameOK(g),
         g.recipe = StepsOf(s[Len(s)])[s[Len(s)].pos].calls,
         NEW t \in Seq(FrameType), Len(t) = Len(s) + 1, t[Len(s) + 1] = g,
         \A i \in 1..Len(s) : t[i] = s[i]
  PROVE  StackOK(t) /\ t # <<>>
<1> DEFINE n == Len(s)
<1>1. s \in Seq(FrameType) /\ n \in Nat /\ n \in 1..n
  BY DEF StackOK
<1> HIDE DEF n
<1>4. t # <<>>
  BY <1>1 DEF n
<1>5. \A i \in 1..Len(t) : FrameOK(t[i])
  BY <1>1 DEF StackOK, n
<1>6. t[1].recipe = Root
  BY <1>1 DEF StackOK, n
<1>7. ASSUME NEW i \in 1..n
      PROVE  /\ t[i].pos <= Len(StepsOf(t[i]))
             /\ t[i + 1].recipe = StepsOf(t[i])[t[i].pos].calls
  <2>1. CASE i = n
    BY <1>1, <2>1 DEF n
  <2>2. CASE i # n
    <3>1. i \in 1..(n - 1) /\ i + 1 \in 1..n
      BY <1>1, <2>2
    <3> QED
      BY <1>1, <3>1 DEF StackOK, n
  <2> QED
    BY <2>1, <2>2
<1>8. 1..(Len(t) - 1) = 1..n
  BY <1>1 DEF n
<1> QED
  BY <1>4, <1>5, <1>6, <1>7, <1>8 DEF StackOK

\* A call puts a run on the stack and leaves those below alone.
LEMMA CallStack ==
  ASSUME ShapeInv, Call
  PROVE  /\ StackOK(stack') /\ Len(stack') = Len(stack) + 1 /\ stack # <<>> /\ stack' # <<>>
         /\ \A i \in 1..Len(stack) : stack'[i] = stack[i]
         /\ stack'[Len(stack) + 1].recipe = Cur.calls /\ stack'[Len(stack) + 1].pos = 1
         /\ stack'[Len(stack) + 1].ctx = Top.ctx
<1>1. /\ stack # <<>> /\ StackOK(stack) /\ Top = stack[Len(stack)] /\ Cur \in StepType
      /\ Cur.calls # "" /\ Cur = StepsOf(Top)[Top.pos] /\ Top.pos <= Len(StepsOf(Top))
      /\ Top.ctx \in SUBSET Seq(STRING) /\ stack \in Seq(FrameType)
  BY AtStepFacts DEF Call, Top, StackOK
<1>2. Cur.calls \in DOMAIN Recipes
  BY <1>1 DEF StepType
<1> DEFINE g == Frame(Cur.calls, Top.ctx)
<1>3. PICK t : t = stack' /\ t = Append(stack, g)
  BY DEF Call
<1>4. /\ g \in FrameType /\ FrameOK(g) /\ g.recipe = Cur.calls /\ g.pos = 1
      /\ g.ctx = Top.ctx
  BY <1>1, <1>2, NewFrame
<1> HIDE DEF g
<1>5. /\ t \in Seq(FrameType) /\ Len(t) = Len(stack) + 1 /\ t[Len(stack) + 1] = g
      /\ \A i \in 1..Len(stack) : t[i] = stack[i]
  <2>1. t = Append(stack, g)
    BY <1>3
  <2>2. stack \in Seq(FrameType) /\ g \in FrameType
    BY <1>1, <1>4
  <2> QED
    BY <2>1, <2>2
<1>6. g.recipe = StepsOf(stack[Len(stack)])[stack[Len(stack)].pos].calls
  BY <1>1, <1>4
<1>7. StackOK(t) /\ t # <<>>
  BY <1>1, <1>4, <1>5, <1>6, PushTop
<1> QED
  BY <1>1, <1>3, <1>4, <1>5, <1>7

\* A step that is settled where it stands, or by the run it called.
LEMMA LeafSettles ==
  ASSUME ShapeInv, Leaf
  PROVE  /\ SettlesTop(stack, Path) /\ total' = total + 1
         /\ terminal' \in BOOLEAN
         /\ \E status \in Statuses, ctx \in {Top.ctx, Top.ctx \cup {Path}}, ok \in BOOLEAN :
              Moved(stack, stack', status, ctx, ok)
<1>1. stack # <<>> /\ StackOK(stack) /\ Top.pos <= Len(StepsOf(Top)) /\ Top = stack[Len(stack)]
      /\ Top.ctx \in SUBSET Seq(STRING) /\ Path \in Seq(STRING)
  BY AtStepFacts DEF Leaf, Top
<1>2. PICK r \in {"completed", "degraded", "skipped", "failed"} :
        Settle(stack, Path, r,
               IF r \in {"completed", "degraded"} THEN Top.ctx \cup {Path} ELSE Top.ctx)
  BY DEF Leaf
<1>3. r \in Statuses /\ terminal \in BOOLEAN
  BY <1>2 DEF Statuses, ShapeInv
<1> DEFINE ctx == IF r \in {"completed", "degraded"} THEN Top.ctx \cup {Path} ELSE Top.ctx
<1>4. ctx \in {Top.ctx, Top.ctx \cup {Path}} /\ ctx \in SUBSET Seq(STRING)
  BY <1>1
<1>5. Settle(stack, Path, r, ctx)
  BY <1>2
<1> HIDE DEF ctx
<1>6. SettlesTop(stack, Path) /\ total' = total + 1 /\ terminal' \in BOOLEAN
      /\ \E status \in Statuses, ok \in BOOLEAN : Moved(stack, stack', status, ctx, ok)
  BY <1>1, <1>3, <1>4, <1>5, Settles
<1> QED
  BY <1>4, <1>6

\* A call that is skipped or refused settles its step.
LEMMA NoCallSettles ==
  ASSUME ShapeInv, NoCall
  PROVE  /\ SettlesTop(stack, Path) /\ total' = total + 1 /\ terminal' \in BOOLEAN
         /\ \E status \in Statuses, ok \in BOOLEAN :
              Moved(stack, stack', status, Top.ctx, ok)
<1>1. stack # <<>> /\ StackOK(stack) /\ Top.pos <= Len(StepsOf(Top)) /\ Top = stack[Len(stack)]
      /\ Top.ctx \in SUBSET Seq(STRING)
  BY AtStepFacts DEF NoCall, Top
<1>2. PICK r \in {"skipped", "failed"} : Settle(stack, Path, r, Top.ctx)
  BY DEF NoCall
<1>3. r \in Statuses /\ terminal \in BOOLEAN
  BY DEF Statuses, ShapeInv
<1> QED
  BY <1>1, <1>2, <1>3, Settles

\* The context a run hands back, and the call that failed.
LEMMA ReturnSettles ==
  ASSUME ShapeInv, Return
  PROVE  LET below == Front(stack)
             mine  == below[Len(below)].ctx
         IN  /\ StackOK(below) /\ below # <<>> /\ Len(below) = Len(stack) - 1
             /\ \A i \in 1..Len(below) : below[i] = stack[i]
             /\ below[Len(below)].pos <= Len(StepsOf(below[Len(below)]))
             /\ SettlesTop(below, PathOf(below)) /\ total' = total + 1
             /\ terminal' \in BOOLEAN
             /\ \E status \in Statuses, ctx \in {mine, mine \cup Top.ctx}, ok \in BOOLEAN :
                  /\ Moved(below, stack', status, ctx, ok)
                  /\ \/ ctx = mine /\ failedCalls' = failedCalls \cup {PathOf(below)}
                     \/ ctx = mine \cup Top.ctx /\ failedCalls' = failedCalls
<1> DEFINE below == Front(stack)
           f     == below[Len(below)]
           step  == Recipes[f.recipe][f.pos]
           path  == PathOf(below)
           tries == ~Succeeds /\ step.recovery /\ ~terminal
<1>0. StackOK(stack) /\ Len(stack) > 1 /\ Len(stack) \in Nat
  BY DEF Return, ShapeInv, StackOK
<1>1. /\ StackOK(below) /\ below # <<>> /\ Len(below) = Len(stack) - 1
      /\ \A i \in 1..(Len(stack) - 1) : below[i] = stack[i]
      /\ f.pos <= Len(StepsOf(f))
  BY <1>0, BelowFacts
<1>2. Top.ctx \in SUBSET Seq(STRING) /\ f.ctx \in SUBSET Seq(STRING) /\ terminal \in BOOLEAN
  <2>1. Len(stack) \in 1..Len(stack) /\ Len(below) \in 1..Len(below)
    BY <1>0, <1>1
  <2> QED
    BY <1>0, <1>1, <2>1, FrameTop DEF Top, ShapeInv
<1>3. failedCalls' = IF Succeeds THEN failedCalls ELSE failedCalls \cup {path}
  BY DEF Return
<1>4. PICK r \in IF Succeeds \/ tries THEN {"completed", "degraded", "failed"}
                                     ELSE {"failed"} :
        Settle(below, path, r, Merged(Succeeds, f.ctx, Top.ctx))
  BY DEF Return
<1> DEFINE ctx == Merged(Succeeds, f.ctx, Top.ctx)
<1>5. r \in Statuses
  BY <1>4 DEF Statuses
<1>6. ctx \in {f.ctx, f.ctx \cup Top.ctx} /\ ctx \in SUBSET Seq(STRING)
      /\ \/ ctx = f.ctx /\ failedCalls' = failedCalls \cup {path}
         \/ ctx = f.ctx \cup Top.ctx /\ failedCalls' = failedCalls
  BY <1>2, <1>3 DEF Merged
<1>7. Settle(below, path, r, ctx)
  BY <1>4
<1> HIDE DEF below, path, ctx
<1>8. SettlesTop(below, path) /\ total' = total + 1 /\ terminal' \in BOOLEAN
      /\ \E status \in Statuses, ok \in BOOLEAN : Moved(below, stack', status, ctx, ok)
  BY <1>1, <1>2, <1>5, <1>6, <1>7, Settles
<1> QED
  BY <1>1, <1>6, <1>8 DEF below, path

\* Settling a step keeps the shape.
LEMMA SettledShape ==
  ASSUME ShapeInv, NEW s, NEW path, SettlesTop(s, path), total' = total + 1,
         StackOK(s), s # <<>>, s[Len(s)].pos <= Len(StepsOf(s[Len(s)])),
         path \in Seq(STRING)
  PROVE  /\ StackOK(stack') /\ stack' # <<>> /\ total' \in Nat
         /\ done' \in SUBSET Seq(STRING) /\ unmet' \in SUBSET Seq(STRING)
         /\ save' \in Checkpoint /\ save'.state # "whole"
<1>1. PICK status \in Statuses, ctx \in SUBSET Seq(STRING), ok \in BOOLEAN :
        /\ Moved(s, stack', status, ctx, ok)
        /\ done' \in {done, done \cup {path}} /\ unmet' \in {unmet, unmet \cup {path}}
        /\ save' = None \/ save' = Saved(s[Len(s)])
  BY DEF SettlesTop
<1>2. StackOK(stack') /\ stack' # <<>>
  <2>1. PICK t : t = stack' /\ Moved(s, t, status, ctx, ok)
    BY <1>1
  <2>2. StackOK(t) /\ Len(t) = Len(s)
    BY <2>1 DEF Moved
  <2>3. s \in Seq(FrameType) /\ s # <<>>
    BY DEF StackOK
  <2>4. Len(s) # 0
    BY <2>3
  <2>5. t # <<>>
    <3>1. Len(t) # 0
      BY <2>2, <2>4
    <3> QED
      BY <3>1
  <2> QED
    BY <2>1, <2>2, <2>5
<1>3. done' \in SUBSET Seq(STRING) /\ unmet' \in SUBSET Seq(STRING) /\ total' \in Nat
  BY <1>1 DEF ShapeInv
<1>4. save' \in Checkpoint /\ save'.state # "whole"
  BY <1>1, SavedType, NoneFacts
<1> QED
  BY <1>2, <1>3, <1>4

\* Every step keeps the shape.
LEMMA ShapeStep == ShapeInv /\ [Next]_vars => ShapeInv'
<1> SUFFICES ASSUME ShapeInv, [Next]_vars PROVE ShapeInv'
  OBVIOUS
<1>0. runs \in 0..MaxRuns /\ depth \in Int /\ total \in Nat /\ MaxRuns \in Nat
  BY RecipesAssumption DEF ShapeInv
<1>1. CASE Execute
  <2>1. runs' \in 0..MaxRuns /\ depth' \in Int /\ total' \in Nat /\ resume' \in SUBSET STRING
    BY <1>0, <1>1 DEF Execute, ShapeInv, Checkpoint
  <2>2. StackOK(stack') /\ (phase' = "running" => stack' # <<>>)
    <3>1. CASE stack' = <<>> /\ phase' = "done"
      BY <3>1 DEF StackOK
    <3>2. CASE stack' = <<Frame(Root, {})>>
      <4> DEFINE g == Frame(Root, {})
      <4>1. g \in FrameType /\ FrameOK(g) /\ g.recipe = Root
        BY NewFrame, RecipesAssumption
      <4>2. PICK t : t = stack' /\ t = <<g>>
        BY <3>2
      <4> HIDE DEF g
      <4>3. t \in Seq(FrameType) /\ Len(t) = 1 /\ t[1] = g /\ t # <<>>
        <5>1. t = <<g>> /\ g \in FrameType
          BY <4>1, <4>2
        <5> QED
          BY <5>1
      <4>4. StackOK(t) /\ t # <<>>
        BY <4>1, <4>3 DEF StackOK
      <4> QED
        BY <4>2, <4>4
    <3> QED
      BY <1>1, <3>1, <3>2 DEF Execute
  <2> QED
    BY <1>1, <2>1, <2>2 DEF Execute, ShapeInv
<1>2. CASE Limit
  <2>1. StackOK(stack') /\ Len(stack') = Len(stack) /\ stack # <<>> /\ stack \in Seq(FrameType)
    BY <1>2, LimitStack DEF ShapeInv, StackOK
  <2>2. Len(stack') >= 1
    BY <2>1
  <2>3. stack' # <<>>
    BY <2>2
  <2> QED
    BY <1>2, <2>1, <2>3 DEF Limit, ShapeInv
<1>3. CASE SkipResumed
  <2>1. /\ Moved(stack, stack', "skipped", Top.ctx, Top.ok) /\ StackOK(stack)
        /\ stack # <<>> /\ Path \in Seq(STRING)
    BY <1>3, SkipStack, AtStepFacts DEF SkipResumed
  <2>2. StackOK(stack') /\ Len(stack') = Len(stack) /\ Len(stack) >= 1
    BY <2>1 DEF Moved, StackOK
  <2>3. stack' # <<>>
    BY <2>2
  <2> QED
    BY <1>3, <2>1, <2>2, <2>3 DEF SkipResumed, ShapeInv
<1>4. CASE Leaf
  <2>1. /\ SettlesTop(stack, Path) /\ total' = total + 1 /\ terminal' \in BOOLEAN
        /\ StackOK(stack) /\ stack # <<>> /\ Path \in Seq(STRING)
        /\ stack[Len(stack)].pos <= Len(StepsOf(stack[Len(stack)]))
    BY <1>4, LeafSettles, AtStepFacts DEF Leaf, Top
  <2>2. /\ StackOK(stack') /\ stack' # <<>> /\ total' \in Nat
        /\ done' \in SUBSET Seq(STRING) /\ unmet' \in SUBSET Seq(STRING)
        /\ save' \in Checkpoint /\ save'.state # "whole"
    BY <2>1, SettledShape
  <2> QED
    BY <1>4, <2>1, <2>2 DEF Leaf, ShapeInv
<1>5. CASE NoCall
  <2>1. /\ SettlesTop(stack, Path) /\ total' = total + 1 /\ terminal' \in BOOLEAN
        /\ StackOK(stack) /\ stack # <<>> /\ Path \in Seq(STRING)
        /\ stack[Len(stack)].pos <= Len(StepsOf(stack[Len(stack)]))
    BY <1>5, NoCallSettles, AtStepFacts DEF NoCall, Top
  <2>2. /\ StackOK(stack') /\ stack' # <<>> /\ total' \in Nat
        /\ done' \in SUBSET Seq(STRING) /\ unmet' \in SUBSET Seq(STRING)
        /\ save' \in Checkpoint /\ save'.state # "whole"
    BY <2>1, SettledShape
  <2> QED
    BY <1>5, <2>1, <2>2 DEF NoCall, ShapeInv
<1>6. CASE Call
  <2>1. StackOK(stack') /\ stack' # <<>>
    BY <1>6, CallStack
  <2>2. depth' \in Int
    <3>1. depth' = depth + 1
      BY <1>6 DEF Call
    <3> QED
      BY <1>0, <3>1
  <2> QED
    BY <1>6, <2>1, <2>2 DEF Call, ShapeInv
<1>7. CASE Return
  <2> DEFINE below == Front(stack)
  <2>1. /\ StackOK(below) /\ below # <<>> /\ terminal' \in BOOLEAN
        /\ below[Len(below)].pos <= Len(StepsOf(below[Len(below)]))
        /\ SettlesTop(below, PathOf(below)) /\ total' = total + 1
        /\ failedCalls' = failedCalls \/ failedCalls' = failedCalls \cup {PathOf(below)}
    BY <1>7, ReturnSettles
  <2>2. PathOf(below) \in Seq(STRING)
    BY <2>1, PathFacts
  <2> HIDE DEF below
  <2>3. /\ StackOK(stack') /\ stack' # <<>> /\ total' \in Nat
        /\ done' \in SUBSET Seq(STRING) /\ unmet' \in SUBSET Seq(STRING)
        /\ save' \in Checkpoint /\ save'.state # "whole"
    BY <2>1, <2>2, SettledShape
  <2>4. failedCalls' \in SUBSET Seq(STRING) /\ depth' \in Int
    BY <1>0, <1>7, <2>1, <2>2 DEF ShapeInv, Return
  <2> QED
    BY <1>7, <2>1, <2>3, <2>4 DEF Return, ShapeInv
<1>8. CASE Finish
  <2>1. success' \in BOOLEAN
    BY <1>8, FrameTop DEF Finish, Succeeds, Top, ShapeInv, StackOK
  <2> QED
    BY <1>8, <2>1 DEF Finish, ShapeInv
<1>9. CASE Truncate
  BY <1>9 DEF Truncate, ShapeInv
<1>10. CASE Fill
  <2>1. disk' \in Checkpoint /\ save' = None
    BY <1>10 DEF Fill, ShapeInv, Checkpoint
  <2> QED
    BY <1>10, <2>1, NoneFacts DEF Fill, ShapeInv
<1>11. CASE SaveFails
  BY <1>11, NoneFacts DEF SaveFails, ShapeInv
<1>12. CASE Crash
  <2>1. StackOK(stack')
    BY <1>12 DEF Crash, StackOK
  <2> QED
    BY <1>12, <2>1, NoneFacts DEF Crash, ShapeInv
<1>13. CASE UNCHANGED vars
  BY <1>13 DEF vars, ShapeInv
<1> QED
  BY <1>1, <1>2, <1>3, <1>4, <1>5, <1>6, <1>7, <1>8, <1>9, <1>10, <1>11, <1>12, <1>13
     DEF Next, Program, Terminated

\* So the stack always has it.
LEMMA ShapeHolds == Spec => []ShapeInv
<1> QED
  BY ShapeInit, ShapeStep, PTL DEF Spec

\* Each run has a recipe and a place in it, and a result for every step before it.
THEOREM NestedRunsTyped == Spec => []TypeOK
<1>1. ShapeInv => TypeOK
  <2> SUFFICES ASSUME ShapeInv PROVE TypeOK
    OBVIOUS
  <2>1. \A i \in DOMAIN stack :
          /\ stack[i].recipe \in DOMAIN Recipes /\ stack[i].ok \in BOOLEAN
          /\ stack[i].pos \in 1..(Len(Recipes[stack[i].recipe]) + 1)
          /\ Len(stack[i].results) = stack[i].pos - 1
          /\ stack[i].results \in Seq(Statuses)
    <3>0. StackOK(stack)
      BY DEF ShapeInv
    <3>1. StackOK(stack) /\ DOMAIN stack = 1..Len(stack)
      BY <3>0 DEF StackOK
    <3> SUFFICES ASSUME NEW i \in 1..Len(stack)
                 PROVE  /\ stack[i].recipe \in DOMAIN Recipes /\ stack[i].ok \in BOOLEAN
                        /\ stack[i].pos \in 1..(Len(Recipes[stack[i].recipe]) + 1)
                        /\ Len(stack[i].results) = stack[i].pos - 1
                        /\ stack[i].results \in Seq(Statuses)
      BY <3>1
    <3>2. FrameOK(stack[i])
      BY <3>1 DEF StackOK
    <3> QED
      BY <3>1, <3>2, FrameTop DEF FrameOK, StepsOf
  <2>2. \A i \in DOMAIN stack : \A k \in DOMAIN stack[i].results : stack[i].results[k] \in Statuses
    BY <2>1
  <2>3. save.state \in {"none", "torn"} /\ disk.state \in {"none", "torn", "whole"}
    BY DEF ShapeInv, Checkpoint
  <2> QED
    BY <2>1, <2>2, <2>3 DEF ShapeInv, TypeOK
<1> QED
  BY <1>1, ShapeHolds, PTL

-----------------------------------------------------------------------------
(* The limits.                                                               *)

\* Every step keeps depth and count within their limits.
LEMMA BoundedStep == ShapeInv /\ NestingIsBounded /\ [Next]_vars => NestingIsBounded'
<1> SUFFICES ASSUME ShapeInv, NestingIsBounded, [Next]_vars, phase' = "running"
             PROVE  /\ depth' = Len(stack') - 1 /\ depth' <= MaxDepth
                    /\ total' <= MaxTotal + (MaxDepth - depth')
  BY DEF NestingIsBounded
<1>0. /\ depth \in Int /\ total \in Nat /\ MaxDepth \in Nat /\ MaxTotal \in Nat
      /\ stack \in Seq(FrameType) /\ Len(stack) \in Nat
  BY RecipesAssumption DEF ShapeInv, StackOK
<1>1. CASE Execute
  <2>1. stack' = <<Frame(Root, {})>> /\ depth' = 0 /\ total' = 0
    BY <1>1 DEF Execute
  <2>2. Len(stack') = 1
    BY <2>1
  <2> QED
    BY <1>0, <2>1, <2>2
<1>2. ASSUME phase = "running", depth' = depth, total' = total, Len(stack') = Len(stack)
      PROVE  /\ depth' = Len(stack') - 1 /\ depth' <= MaxDepth
             /\ total' <= MaxTotal + (MaxDepth - depth')
  BY <1>0, <1>2 DEF NestingIsBounded
<1>3. CASE Limit \/ SkipResumed
  <2>1. Len(stack') = Len(stack)
    BY <1>3, LimitStack, SkipStack DEF Moved
  <2> QED
    BY <1>2, <1>3, <2>1 DEF Limit, SkipResumed, AtStep, Running
<1>4. CASE Leaf \/ NoCall
  <2>1. Len(stack') = Len(stack) /\ total' = total + 1
    BY <1>4, LeafSettles, NoCallSettles DEF Moved
  <2>2. phase = "running" /\ total < MaxTotal /\ depth' = depth
    <3>1. phase = "running" /\ ~BudgetSpent /\ depth' = depth
      BY <1>4 DEF Leaf, NoCall, AtStep, Running
    <3> QED
      BY <1>0, <3>1 DEF BudgetSpent
  <2>3. PICK d, t, n : d = depth' /\ t = total' /\ n = Len(stack')
    OBVIOUS
  <2>4. d = depth /\ t = total + 1 /\ n = Len(stack)
    BY <2>1, <2>2, <2>3
  <2>5. depth = Len(stack) - 1 /\ depth <= MaxDepth
    BY <2>2 DEF NestingIsBounded
  <2>6. d = n - 1 /\ d <= MaxDepth /\ t <= MaxTotal + (MaxDepth - d)
    BY <1>0, <2>2, <2>4, <2>5
  <2> QED
    BY <2>3, <2>6
<1>5. CASE Call
  <2>1. Len(stack') = Len(stack) + 1 /\ total' = total /\ depth' = depth + 1
    BY <1>5, CallStack DEF Call
  <2>2. phase = "running" /\ total < MaxTotal /\ depth < MaxDepth
    <3>1. phase = "running" /\ ~BudgetSpent /\ ~DepthExhausted
      BY <1>5 DEF Call, AtStep, Running
    <3> QED
      BY <1>0, <3>1 DEF BudgetSpent, DepthExhausted
  <2>3. PICK d, t, n : d = depth' /\ t = total' /\ n = Len(stack')
    OBVIOUS
  <2>4. d = depth + 1 /\ t = total /\ n = Len(stack) + 1
    BY <2>1, <2>3
  <2>5. depth = Len(stack) - 1
    BY <2>2 DEF NestingIsBounded
  <2>6. d = n - 1 /\ d <= MaxDepth /\ t <= MaxTotal + (MaxDepth - d)
    BY <1>0, <2>2, <2>4, <2>5
  <2> QED
    BY <2>3, <2>6
<1>6. CASE Return
  <2>1. Len(stack') = Len(stack) - 1 /\ total' = total + 1 /\ depth' = depth - 1
    BY <1>6, ReturnSettles DEF Return, Moved
  <2>2. phase = "running"
    BY <1>6 DEF Return, RunEnded, Running
  <2>3. PICK d, t, n : d = depth' /\ t = total' /\ n = Len(stack')
    OBVIOUS
  <2>4. d = depth - 1 /\ t = total + 1 /\ n = Len(stack) - 1
    BY <2>1, <2>3
  <2>5. depth = Len(stack) - 1 /\ depth <= MaxDepth /\ total <= MaxTotal + (MaxDepth - depth)
    BY <2>2 DEF NestingIsBounded
  <2>6. d = n - 1 /\ d <= MaxDepth /\ t <= MaxTotal + (MaxDepth - d)
    BY <1>0, <2>4, <2>5
  <2> QED
    BY <2>3, <2>6
<1>7. CASE Finish \/ Crash
  BY <1>7 DEF Finish, Crash
<1>8. CASE Truncate \/ Fill \/ SaveFails
  BY <1>2, <1>8 DEF Truncate, Fill, SaveFails
<1>9. CASE UNCHANGED vars
  BY <1>2, <1>9 DEF vars
<1> QED
  BY <1>1, <1>3, <1>4, <1>5, <1>6, <1>7, <1>8, <1>9 DEF Next, Program, Terminated

\* The depth cell is the number of open calls however those end, it stays within
\* max_depth, and the shared step counter passes max_total_steps by no more than the
\* calls that were open (RunnerState and execute_sub_recipe).
THEOREM NestingStaysBounded == Spec => []NestingIsBounded
<1>1. Init => NestingIsBounded
  BY DEF Init, NestingIsBounded
<1> QED
  BY <1>1, BoundedStep, ShapeHolds, PTL DEF Spec

-----------------------------------------------------------------------------
(* A path lies in the past of a stack when, at some level, it has the id of a  *)
(* step that level has left behind, below the steps the runs beneath are at.   *)

Passed(s, i, p) ==
  \E j \in 1..i :
    /\ j <= Len(p)
    /\ \A m \in 1..(j - 1) : p[m] = StepsOf(s[m])[s[m].pos].id
    /\ \E k \in 1..(s[j].pos - 1) : p[j] = StepsOf(s[j])[k].id

\* What the runs of a stack s know of, and the calls F that failed, lie in the past
\* of s, and nothing a run knows of was written below one of those calls.
TraceOK(s, F) ==
  /\ \A i \in 1..Len(s) : \A p \in s[i].ctx :
       Passed(s, i, p) /\ \A q \in F : ~IsStrictPrefix(q, p)
  /\ s # <<>> => \A q \in F : Passed(s, Len(s), q)

TraceInv == TraceOK(stack, failedCalls)

\* t has the runs of s up to n, and the one at n has moved on.
MovedAt(s, t, n) ==
  /\ StackOK(s) /\ StackOK(t) /\ n \in 1..Len(s) /\ Len(t) = n
  /\ \A m \in 1..(n - 1) : t[m] = s[m]
  /\ t[n].recipe = s[n].recipe /\ t[n].pos = s[n].pos + 1
  /\ \A m \in 1..n : s[m].pos <= Len(StepsOf(s[m]))

\* What lies in the past of lower runs lies in the past of the stack.
LEMMA PastMonotone ==
  ASSUME NEW s, NEW i \in Nat, NEW j \in Nat, i <= j, NEW p, Passed(s, i, p)
  PROVE  Passed(s, j, p)
BY DEF Passed

\* Only what the first i runs are at matters.
LEMMA PastSame ==
  ASSUME NEW s, NEW t, StackOK(s), StackOK(t), NEW i \in 1..Len(s), i <= Len(t),
         \A m \in 1..i : t[m].recipe = s[m].recipe /\ t[m].pos = s[m].pos,
         NEW p, Passed(s, i, p)
  PROVE  Passed(t, i, p)
<1>1. \A m \in 1..i : StepsOf(t[m]) = StepsOf(s[m]) /\ t[m].pos = s[m].pos
  BY DEF StepsOf
<1>2. i \in Nat
  BY DEF StackOK
<1> QED
  BY <1>1, <1>2 DEF Passed

\* The past stays past when a run moves on.
LEMMA PastMoves ==
  ASSUME NEW s, NEW t, NEW n, MovedAt(s, t, n), NEW p, Passed(s, n, p)
  PROVE  Passed(t, n, p)
<1>1. PICK j \in 1..n :
        /\ j <= Len(p)
        /\ \A m \in 1..(j - 1) : p[m] = StepsOf(s[m])[s[m].pos].id
        /\ \E k \in 1..(s[j].pos - 1) : p[j] = StepsOf(s[j])[k].id
  BY DEF Passed
<1>2. PICK k \in 1..(s[j].pos - 1) : p[j] = StepsOf(s[j])[k].id
  BY <1>1
<1>3. n \in Nat /\ Len(s) \in Nat /\ n <= Len(s)
  BY DEF MovedAt, StackOK
<1>4. s[j].pos \in Nat
  <2>1. j \in 1..Len(s) /\ StackOK(s)
    BY <1>3 DEF MovedAt
  <2> QED
    BY <2>1, FrameTop
<1>5. \A m \in 1..n : StepsOf(t[m]) = StepsOf(s[m])
  BY <1>3 DEF MovedAt, StepsOf
<1>6. t[j].pos \in {s[j].pos, s[j].pos + 1}
  BY <1>3 DEF MovedAt
<1>7. k \in 1..(t[j].pos - 1)
  BY <1>4, <1>6
<1>8. \A m \in 1..(j - 1) : t[m].pos = s[m].pos
  BY <1>3 DEF MovedAt
<1>9. p[j] = StepsOf(t[j])[k].id
  BY <1>2, <1>5
<1>10. \A m \in 1..(j - 1) : p[m] = StepsOf(t[m])[t[m].pos].id
  BY <1>1, <1>3, <1>5, <1>8
<1> QED
  BY <1>1, <1>7, <1>9, <1>10 DEF Passed

\* A path through the step the run at n was at is in the past when that has moved on.
LEMMA PastReached ==
  ASSUME NEW s, NEW t, NEW n, MovedAt(s, t, n), NEW p, n <= Len(p),
         \A m \in 1..n : p[m] = StepsOf(s[m])[s[m].pos].id
  PROVE  Passed(t, n, p)
<1>1. n \in Nat /\ Len(s) \in Nat /\ n <= Len(s) /\ n \in 1..n /\ n \in 1..Len(s)
  BY DEF MovedAt, StackOK
<1>2. s[n].pos \in Nat /\ 1 <= s[n].pos
  BY <1>1, FrameTop DEF MovedAt
<1>3. s[n].pos \in 1..(t[n].pos - 1)
  BY <1>2 DEF MovedAt
<1>4. \A m \in 1..n : StepsOf(t[m]) = StepsOf(s[m])
  BY <1>1 DEF MovedAt, StepsOf
<1>5. \A m \in 1..(n - 1) : p[m] = StepsOf(t[m])[t[m].pos].id
  BY <1>1, <1>4 DEF MovedAt
<1>6. p[n] = StepsOf(t[n])[s[n].pos].id
  BY <1>1, <1>4
<1> QED
  BY <1>1, <1>3, <1>5, <1>6 DEF Passed

\* What lies in the past of the run above does so when that has returned.
LEMMA PastReturns ==
  ASSUME NEW s, NEW t, NEW n, MovedAt(s, t, n), NEW p \in Seq(STRING), Passed(s, n + 1, p)
  PROVE  Passed(t, n, p)
<1>1. PICK j \in 1..(n + 1) :
        /\ j <= Len(p)
        /\ \A m \in 1..(j - 1) : p[m] = StepsOf(s[m])[s[m].pos].id
        /\ \E k \in 1..(s[j].pos - 1) : p[j] = StepsOf(s[j])[k].id
  BY DEF Passed
<1>2. n \in Nat
  BY DEF MovedAt, StackOK
<1>3. CASE j <= n
  <2>1. j \in 1..n
    BY <1>2, <1>3
  <2>2. Passed(s, n, p)
    BY <1>1, <2>1 DEF Passed
  <2> QED
    BY <2>2, PastMoves
<1>4. CASE j = n + 1
  <2>1. n <= Len(p)
    BY <1>1, <1>2, <1>4
  <2> QED
    BY <1>1, <1>2, <1>4, <2>1, PastReached
<1> QED
  BY <1>2, <1>3, <1>4

\* A path and its prefixes agree as far as the prefix goes.
LEMMA PrefixAgrees ==
  ASSUME NEW p \in Seq(STRING), NEW q \in Seq(STRING), IsStrictPrefix(q, p)
  PROVE  Len(q) <= Len(p) /\ \A j \in 1..Len(q) : q[j] = p[j]
<1>1. Len(q) <= Len(p) /\ SubSeq(q, 1, Len(q)) = SubSeq(p, 1, Len(q))
  BY DEF IsStrictPrefix, IsPrefix
<1>2. \A j \in 1..Len(q) : SubSeq(q, 1, Len(q))[j] = q[j] /\ SubSeq(p, 1, Len(q))[j] = p[j]
  BY <1>1
<1> QED
  BY <1>1, <1>2

\* A path in the past and one through the present part ways.
LEMMA WaysPart ==
  ASSUME IdsDiffer, NEW s, StackOK(s), NEW n \in 1..Len(s),
         \A m \in 1..n : s[m].pos <= Len(StepsOf(s[m])),
         NEW p \in Seq(STRING), Passed(s, n, p),
         NEW q \in Seq(STRING), Len(q) = n,
         \A m \in 1..n : q[m] = StepsOf(s[m])[s[m].pos].id
  PROVE  ~IsStrictPrefix(q, p) /\ ~IsStrictPrefix(p, q)
<1>1. PICK j \in 1..n :
        j <= Len(p) /\ \E k \in 1..(s[j].pos - 1) : p[j] = StepsOf(s[j])[k].id
  BY DEF Passed
<1>2. PICK k \in 1..(s[j].pos - 1) : p[j] = StepsOf(s[j])[k].id
  BY <1>1
<1>3. n \in Nat /\ Len(s) \in Nat /\ j \in 1..Len(s)
  BY DEF StackOK
<1>4. s[j].recipe \in DOMAIN Recipes /\ s[j].pos \in Nat /\ 1 <= s[j].pos
      /\ Len(StepsOf(s[j])) \in Nat /\ s[j].pos <= Len(StepsOf(s[j]))
  BY <1>3, FrameTop
<1>5. s[j].pos \in 1..Len(StepsOf(s[j])) /\ k \in 1..Len(StepsOf(s[j])) /\ k # s[j].pos
  BY <1>4
<1>6. p[j] # q[j]
  BY <1>2, <1>4, <1>5 DEF IdsDiffer, StepsOf
<1>7. j \in 1..Len(q) /\ j \in 1..Len(p)
  BY <1>1, <1>3
<1> QED
  BY <1>6, <1>7, PrefixAgrees

\* A stack whose top, or the run below it, has moved on.
LEMMA MovedFacts ==
  ASSUME NEW s, NEW t, StackOK(s), NEW b, StackOK(b), b # <<>>,
         b[Len(b)].pos <= Len(StepsOf(b[Len(b)])),
         Len(b) <= Len(s), \A i \in 1..Len(b) : b[i] = s[i],
         NEW status, NEW ctx, NEW ok, Moved(b, t, status, ctx, ok)
  PROVE  /\ MovedAt(s, t, Len(b)) /\ t[Len(b)].ctx = ctx
         /\ PathOf(b) \in Seq(STRING) /\ Len(PathOf(b)) = Len(b)
         /\ \A m \in 1..Len(b) : PathOf(b)[m] = StepsOf(s[m])[s[m].pos].id
<1>1. Len(b) \in Nat /\ Len(b) >= 1 /\ Len(s) \in Nat /\ Len(b) \in 1..Len(s)
  BY DEF StackOK
<1>2. /\ PathOf(b) \in Seq(STRING) /\ Len(PathOf(b)) = Len(b)
      /\ \A m \in 1..Len(b) : PathOf(b)[m] = StepsOf(s[m])[s[m].pos].id
  BY PathFacts
<1>3. \A m \in 1..Len(b) : s[m].pos <= Len(StepsOf(s[m]))
  <2> SUFFICES ASSUME NEW m \in 1..Len(b) PROVE b[m].pos <= Len(StepsOf(b[m]))
    OBVIOUS
  <2>1. CASE m = Len(b)
    BY <2>1
  <2>2. CASE m # Len(b)
    <3>1. m \in 1..(Len(b) - 1)
      BY <1>1, <2>2
    <3> QED
      BY <3>1 DEF StackOK
  <2> QED
    BY <2>1, <2>2
<1>4. MovedAt(s, t, Len(b))
  BY <1>1, <1>3 DEF Moved, MovedAt
<1> QED
  BY <1>2, <1>4 DEF Moved

\* The run on top, at n, moves on: with what it knew and the path it was at, ...
LEMMA TraceMoves ==
  ASSUME IdsDiffer, NEW s, NEW t, NEW status, NEW ok, NEW ctx,
         StackOK(s), s # <<>>, s[Len(s)].pos <= Len(StepsOf(s[Len(s)])),
         Moved(s, t, status, ctx, ok),
         NEW F \in SUBSET Seq(STRING), TraceOK(s, F), ctx \subseteq s[Len(s)].ctx \cup {PathOf(s)}
  PROVE  TraceOK(t, F)
<1> DEFINE n == Len(s)
<1>1. /\ MovedAt(s, t, n) /\ t[n].ctx = ctx /\ n \in Nat /\ n \in 1..n /\ Len(t) = n
      /\ PathOf(s) \in Seq(STRING) /\ Len(PathOf(s)) = n
      /\ \A m \in 1..n : PathOf(s)[m] = StepsOf(s[m])[s[m].pos].id
  <2>1. n \in Nat /\ n \in 1..n /\ n <= n /\ Len(t) = n /\ \A i \in 1..n : s[i] = s[i]
    BY DEF StackOK, Moved
  <2> QED
    BY <2>1, MovedFacts
<1>2. \A m \in 1..n : s[m].pos <= Len(StepsOf(s[m]))
  BY <1>1 DEF MovedAt
<1>3. ASSUME NEW q \in F PROVE Passed(t, n, q) /\ ~IsStrictPrefix(q, PathOf(s))
  <2>1. Passed(s, n, q) /\ q \in Seq(STRING)
    BY DEF TraceOK
  <2> QED
    BY <1>1, <1>2, <2>1, PastMoves, WaysPart
<1>4. ASSUME NEW i \in 1..n, NEW p \in t[i].ctx
      PROVE  Passed(t, i, p) /\ \A q \in F : ~IsStrictPrefix(q, p)
  <2>1. CASE i = n
    <3>1. CASE p \in s[n].ctx
      <4>1. Passed(s, n, p) /\ \A q \in F : ~IsStrictPrefix(q, p)
        BY <1>1, <3>1 DEF TraceOK
      <4> QED
        BY <1>1, <2>1, <4>1, PastMoves
    <3>2. CASE p = PathOf(s)
      <4>1. Passed(t, n, p)
        BY <1>1, <3>2, PastReached
      <4> QED
        BY <1>3, <2>1, <3>2, <4>1
    <3> QED
      BY <1>1, <1>4, <2>1, <3>1, <3>2
  <2>2. CASE i # n
    <3>1. i \in 1..(n - 1) /\ i \in 1..Len(s) /\ i <= Len(t) /\ t[i] = s[i] /\ i \in Nat
      BY <1>1, <2>2 DEF MovedAt
    <3>2. Passed(s, i, p) /\ \A q \in F : ~IsStrictPrefix(q, p)
      BY <1>4, <3>1 DEF TraceOK
    <3>3. \A m \in 1..i : t[m].recipe = s[m].recipe /\ t[m].pos = s[m].pos
      <4>1. \A m \in 1..i : m \in 1..(n - 1)
        BY <1>1, <3>1
      <4> QED
        BY <1>1, <4>1 DEF MovedAt
    <3>4. StackOK(s) /\ StackOK(t)
      BY <1>1 DEF MovedAt
    <3> QED
      BY <3>1, <3>2, <3>3, <3>4, PastSame
  <2> QED
    BY <2>1, <2>2
<1> HIDE DEF n
<1> QED
  BY <1>1, <1>3, <1>4 DEF TraceOK

\* ... or when the run it called, on top of s, has returned: with what that one knew,
\* or without it, and the call failed.
LEMMA TraceReturns ==
  ASSUME IdsDiffer, NEW s, NEW b, NEW t, NEW status, NEW ok, NEW ctx,
         StackOK(s), StackOK(b), b # <<>>, Len(s) = Len(b) + 1,
         \A i \in 1..Len(b) : b[i] = s[i],
         b[Len(b)].pos <= Len(StepsOf(b[Len(b)])),
         Moved(b, t, status, ctx, ok),
         NEW F \in SUBSET Seq(STRING), TraceOK(s, F), NEW G,
         \/ ctx = b[Len(b)].ctx /\ G = F \cup {PathOf(b)}
         \/ ctx = b[Len(b)].ctx \cup s[Len(s)].ctx /\ G = F
  PROVE  TraceOK(t, G)
<1> DEFINE n == Len(b)
<1>1. n \in Nat /\ n \in 1..n /\ Len(s) = n + 1 /\ n \in 1..Len(s) /\ n + 1 \in 1..Len(s) /\ s # <<>>
  BY DEF StackOK
<1>2. /\ MovedAt(s, t, n) /\ t[n].ctx = ctx /\ Len(t) = n
      /\ PathOf(b) \in Seq(STRING) /\ Len(PathOf(b)) = n
      /\ \A m \in 1..n : PathOf(b)[m] = StepsOf(s[m])[s[m].pos].id
  <2>1. Len(b) <= Len(s)
    BY <1>1
  <2>2. MovedAt(s, t, Len(b))
    BY <2>1, MovedFacts
  <2> QED
    BY <2>1, <2>2, MovedFacts DEF MovedAt
<1>3. /\ \A m \in 1..n : s[m].pos <= Len(StepsOf(s[m]))
      /\ b[n] = s[n] /\ s[n].ctx \in SUBSET Seq(STRING) /\ s[n + 1].ctx \in SUBSET Seq(STRING)
  BY <1>1, <1>2, FrameTop DEF MovedAt
<1>4. ASSUME NEW q \in G PROVE Passed(t, n, q)
  <2>1. CASE q \in F
    <3>1. Passed(s, n + 1, q) /\ q \in Seq(STRING)
      BY <1>1, <2>1 DEF TraceOK
    <3> QED
      BY <1>2, <3>1, PastReturns
  <2>2. CASE q = PathOf(b)
    <3>1. n <= Len(q)
      BY <1>1, <1>2, <2>2
    <3> QED
      BY <1>2, <2>2, <3>1, PastReached
  <2> QED
    BY <1>4, <2>1, <2>2
<1>5. ASSUME NEW i \in 1..n, NEW p \in s[i].ctx, NEW q \in G PROVE ~IsStrictPrefix(q, p)
  <2>1. Passed(s, i, p) /\ \A r \in F : ~IsStrictPrefix(r, p)
    BY <1>1 DEF TraceOK
  <2>2. p \in Seq(STRING)
    BY <1>1, FrameTop
  <2>3. Passed(s, n, p)
    BY <1>1, <2>1, PastMonotone
  <2>4. ~IsStrictPrefix(PathOf(b), p)
    BY <1>1, <1>2, <1>3, <2>2, <2>3, WaysPart
  <2> QED
    BY <2>1, <2>4
<1>6. ASSUME NEW i \in 1..n, NEW p \in t[i].ctx
      PROVE  Passed(t, i, p) /\ \A q \in G : ~IsStrictPrefix(q, p)
  <2>1. CASE i = n
    <3>1. CASE p \in s[n].ctx
      <4>1. Passed(s, n, p)
        BY <1>1, <3>1 DEF TraceOK
      <4> QED
        BY <1>1, <1>2, <1>5, <2>1, <3>1, <4>1, PastMoves
    <3>2. CASE p \notin s[n].ctx
      <4>1. p \in s[n + 1].ctx /\ G = F
        BY <1>1, <1>2, <1>3, <1>6, <2>1, <3>2
      <4>2. Passed(s, n + 1, p) /\ \A q \in F : ~IsStrictPrefix(q, p)
        BY <1>1, <4>1 DEF TraceOK
      <4>3. p \in Seq(STRING)
        BY <1>3, <4>1
      <4> QED
        BY <1>2, <2>1, <4>1, <4>2, <4>3, PastReturns
    <3> QED
      BY <3>1, <3>2
  <2>2. CASE i # n
    <3>1. i \in 1..(n - 1) /\ i \in 1..Len(s) /\ i <= Len(t) /\ i \in Nat
      BY <1>1, <1>2, <2>2
    <3>2. \A m \in 1..(n - 1) : t[m] = s[m]
      BY <1>2 DEF MovedAt
    <3>3. i \in 1..Len(s) /\ i <= Len(t) /\ t[i] = s[i] /\ i \in Nat
      BY <3>1, <3>2
    <3>4. Passed(s, i, p)
      BY <1>6, <3>3 DEF TraceOK
    <3>5. \A m \in 1..i : t[m].recipe = s[m].recipe /\ t[m].pos = s[m].pos
      <4>1. \A m \in 1..i : m \in 1..(n - 1)
        BY <1>1, <3>1
      <4> QED
        BY <3>2, <4>1
    <3>6. StackOK(s) /\ StackOK(t)
      BY <1>2 DEF MovedAt
    <3>7. Passed(t, i, p)
      BY <3>3, <3>4, <3>5, <3>6, PastSame
    <3> QED
      BY <1>5, <1>6, <3>3, <3>7
  <2> QED
    BY <2>1, <2>2
<1> HIDE DEF n
<1> QED
  BY <1>2, <1>4, <1>6 DEF TraceOK

\* Every step keeps the traces in order.
LEMMA TraceStep ==
  ASSUME IdsDiffer
  PROVE  ShapeInv /\ TraceInv /\ [Next]_vars => TraceInv'
<1> SUFFICES ASSUME ShapeInv, TraceInv, [Next]_vars PROVE TraceInv'
  OBVIOUS
<1>0. /\ StackOK(stack) /\ failedCalls \in SUBSET Seq(STRING) /\ TraceOK(stack, failedCalls)
      /\ Len(stack) \in Nat /\ stack \in Seq(FrameType)
  BY DEF ShapeInv, TraceInv, StackOK
<1>1. ASSUME NEW t, t = stack', NEW G, G = failedCalls', TraceOK(t, G) PROVE TraceInv'
  BY <1>1 DEF TraceInv
<1>2. PICK t : t = stack'
  OBVIOUS
<1>3. CASE Execute
  <2>1. PICK G : G = failedCalls' /\ G = {}
    BY <1>3 DEF Execute
  <2>2. CASE t = <<>>
    <3>1. TraceOK(t, G)
      BY <2>1, <2>2 DEF TraceOK
    <3> QED
      BY <1>1, <1>2, <2>1, <3>1
  <2>3. CASE t # <<>>
    <3> DEFINE g == Frame(Root, {})
    <3>1. t = <<g>>
      BY <1>2, <1>3, <2>3 DEF Execute
    <3>2. g.ctx = {}
      BY DEF Frame
    <3> HIDE DEF g
    <3>3. Len(t) = 1 /\ t[1] = g
      BY <3>1
    <3>4. TraceOK(t, G)
      BY <2>1, <3>2, <3>3 DEF TraceOK
    <3> QED
      BY <1>1, <1>2, <2>1, <3>4
  <2> QED
    BY <2>2, <2>3
<1>4. CASE Limit
  <2>1. /\ StackOK(t) /\ Len(t) = Len(stack) /\ stack # <<>>
        /\ \A i \in 1..Len(stack) :
             t[i].recipe = stack[i].recipe /\ t[i].pos = stack[i].pos /\ t[i].ctx = stack[i].ctx
    BY <1>2, <1>4, LimitStack
  <2>2. ASSUME NEW i \in 1..Len(stack), NEW p, Passed(stack, i, p) PROVE Passed(t, i, p)
    <3>1. \A m \in 1..i : m \in 1..Len(stack)
      BY <1>0
    <3> QED
      BY <1>0, <2>1, <2>2, <3>1, PastSame
  <2>3. Len(stack) \in 1..Len(stack)
    BY <1>0, <2>1
  <2>4. TraceOK(t, failedCalls)
    BY <1>0, <2>1, <2>2, <2>3 DEF TraceOK
  <2>5. failedCalls' = failedCalls
    BY <1>4 DEF Limit
  <2> QED
    BY <1>1, <1>2, <2>4, <2>5
<1>5. CASE SkipResumed \/ Leaf \/ NoCall
  <2>1. /\ stack # <<>> /\ stack[Len(stack)].pos <= Len(StepsOf(stack[Len(stack)]))
        /\ failedCalls' = failedCalls
    BY <1>5, AtStepFacts DEF SkipResumed, Leaf, NoCall, Top
  <2>2. \E status \in Statuses, ctx \in {Top.ctx, Top.ctx \cup {Path}}, ok \in BOOLEAN :
          Moved(stack, t, status, ctx, ok)
    <3>1. CASE SkipResumed
      <4>1. "skipped" \in Statuses /\ Top.ok \in BOOLEAN
        BY <1>0, <2>1, FrameTop DEF Statuses, Top
      <4> QED
        BY <1>2, <3>1, <4>1, SkipStack
    <3>2. CASE Leaf
      BY <1>2, <3>2, LeafSettles
    <3>3. CASE NoCall
      BY <1>2, <3>3, NoCallSettles
    <3> QED
      BY <1>5, <3>1, <3>2, <3>3
  <2>3. PICK status \in Statuses, ctx \in {Top.ctx, Top.ctx \cup {Path}}, ok \in BOOLEAN :
          Moved(stack, t, status, ctx, ok)
    BY <2>2
  <2>4. ctx \subseteq stack[Len(stack)].ctx \cup {PathOf(stack)}
    BY <2>3 DEF Top, Path
  <2>5. TraceOK(t, failedCalls)
    BY <1>0, <2>1, <2>3, <2>4, TraceMoves
  <2> QED
    BY <1>1, <1>2, <2>1, <2>5
<1>6. CASE Call
  <2> DEFINE n == Len(stack)
  <2>1. /\ StackOK(t) /\ Len(t) = n + 1 /\ n \in Nat /\ n \in 1..n /\ t # <<>>
        /\ \A i \in 1..n : t[i] = stack[i]
        /\ t[n + 1].ctx = stack[n].ctx
    BY <1>0, <1>2, <1>6, CallStack DEF Top
  <2>2. failedCalls' = failedCalls
    BY <1>6 DEF Call
  <2>3. ASSUME NEW i \in 1..n, NEW p, Passed(stack, i, p) PROVE Passed(t, i, p)
    <3>1. \A m \in 1..i : m \in 1..n
      BY <2>1
    <3>2. i <= Len(t)
      BY <2>1
    <3> QED
      BY <1>0, <2>1, <2>3, <3>1, <3>2, PastSame
  <2>4. ASSUME NEW p, Passed(stack, n, p) PROVE Passed(t, n + 1, p)
    BY <2>1, <2>3, <2>4, PastMonotone
  <2>5. stack # <<>>
    BY <1>6, CallStack
  <2>6. \A q \in failedCalls : Passed(t, n + 1, q)
    BY <1>0, <2>4, <2>5 DEF TraceOK
  <2>7. ASSUME NEW i \in 1..(n + 1), NEW p \in t[i].ctx
        PROVE  Passed(t, i, p) /\ \A q \in failedCalls : ~IsStrictPrefix(q, p)
    <3>1. CASE i \in 1..n
      BY <1>0, <2>1, <2>3, <2>7, <3>1 DEF TraceOK
    <3>2. CASE i = n + 1
      <4>1. p \in stack[n].ctx
        BY <2>1, <2>7, <3>2
      <4>2. Passed(stack, n, p) /\ \A q \in failedCalls : ~IsStrictPrefix(q, p)
        BY <1>0, <2>1, <4>1 DEF TraceOK
      <4> QED
        BY <2>4, <3>2, <4>2
    <3> QED
      BY <2>1, <3>1, <3>2
  <2>8. TraceOK(t, failedCalls)
    BY <2>1, <2>6, <2>7 DEF TraceOK
  <2> QED
    BY <1>1, <1>2, <2>2, <2>8
<1>7. CASE Return
  <2> DEFINE b == Front(stack)
             mine == b[Len(b)].ctx
  <2>1. /\ StackOK(b) /\ b # <<>> /\ Len(b) = Len(stack) - 1
        /\ \A i \in 1..Len(b) : b[i] = stack[i]
        /\ b[Len(b)].pos <= Len(StepsOf(b[Len(b)]))
        /\ \E status \in Statuses, ctx \in {mine, mine \cup Top.ctx}, ok \in BOOLEAN :
             /\ Moved(b, stack', status, ctx, ok)
             /\ \/ ctx = mine /\ failedCalls' = failedCalls \cup {PathOf(b)}
                \/ ctx = mine \cup Top.ctx /\ failedCalls' = failedCalls
    BY <1>7, ReturnSettles
  <2> HIDE DEF b
  <2>2. PICK G : G = failedCalls'
    OBVIOUS
  <2>3. PICK status \in Statuses, ctx \in {mine, mine \cup Top.ctx}, ok \in BOOLEAN :
          /\ Moved(b, t, status, ctx, ok)
          /\ \/ ctx = mine /\ G = failedCalls \cup {PathOf(b)}
             \/ ctx = mine \cup Top.ctx /\ G = failedCalls
    BY <1>2, <2>1, <2>2
  <2>4. Len(stack) = Len(b) + 1
    BY <1>0, <2>1
  <2>5. \/ ctx = b[Len(b)].ctx /\ G = failedCalls \cup {PathOf(b)}
        \/ ctx = b[Len(b)].ctx \cup stack[Len(stack)].ctx /\ G = failedCalls
    BY <2>3 DEF Top
  <2>6. TraceOK(t, G)
    BY <1>0, <2>1, <2>3, <2>4, <2>5, TraceReturns
  <2> QED
    BY <1>1, <1>2, <2>2, <2>6
<1>8. CASE UNCHANGED <<stack, failedCalls>>
  BY <1>0, <1>8 DEF TraceInv
<1>9. CASE Finish \/ Truncate \/ Fill \/ SaveFails \/ UNCHANGED vars
  BY <1>8, <1>9 DEF Finish, Truncate, Fill, SaveFails, vars
<1>10. CASE Crash
  <2>1. t = <<>> /\ failedCalls' = failedCalls
    BY <1>2, <1>10 DEF Crash
  <2>2. TraceOK(t, failedCalls)
    BY <2>1 DEF TraceOK
  <2> QED
    BY <1>1, <1>2, <2>1, <2>2
<1> QED
  BY <1>3, <1>4, <1>5, <1>6, <1>7, <1>9, <1>10 DEF Next, Program, Terminated

\* Where the ids of each recipe differ, nothing a failed nested run wrote is in the
\* context of a run that called it, whether or not an agent recovered the call: the
\* context is merged back only on success (execute_sub_recipe); and the limits hold.
THEOREM NestedRunsStayContained ==
  ASSUME IdsDiffer
  PROVE  Spec => []NestedRunsAreContained
<1>1. Init => TraceInv
  <2> SUFFICES ASSUME Init PROVE TraceInv
    OBVIOUS
  <2>1. stack = <<>> /\ failedCalls = {}
    BY DEF Init
  <2> QED
    BY <2>1 DEF TraceInv, TraceOK
<1>2. ShapeInv /\ TraceInv /\ NestingIsBounded => NestedRunsAreContained
  <2> SUFFICES ASSUME ShapeInv, TraceInv PROVE FailedRunsLeaveNoTrace
    BY DEF NestedRunsAreContained
  <2>1. DOMAIN stack = 1..Len(stack)
    BY DEF ShapeInv, StackOK
  <2> QED
    BY <2>1 DEF TraceInv, TraceOK, FailedRunsLeaveNoTrace
<1> QED
  BY <1>1, <1>2, TraceStep, ShapeHolds, NestingStaysBounded, PTL DEF Spec

-----------------------------------------------------------------------------
(* Every id a checkpoint holds, or may come to hold, is that of a root step    *)
(* that settled without failing; and so is, unless it is nonfatal, every step  *)
(* a root run in good standing has left behind.  D stands for Cleared.        *)

Settled(ids, D) == \A id \in ids : id \in RootIds /\ <<id>> \in D

RootCovered(s, D) ==
  /\ Len(s) > 1 => s[1].ok
  /\ s # <<>> => \A k \in 1..(s[1].pos - 1) :
       /\ s[1].ok => <<Recipes[Root][k].id>> \in D \/ Recipes[Root][k].nonfatal
       /\ s[1].results[k] = "completed" => <<Recipes[Root][k].id>> \in D

CoverInv ==
  /\ Settled(resume, Cleared) /\ Settled(save.ids, Cleared) /\ Settled(disk.ids, Cleared)
  /\ RootCovered(stack, Cleared)
  /\ success => phase = "done"
  /\ SuccessCoversAll

\* Only the run at the bottom is one of the root recipe.
LEMMA RootAtBottom ==
  ASSUME RootNotCalled, NEW s, StackOK(s), NEW n \in 1..Len(s), s[n].recipe = Root
  PROVE  n = 1
<1> SUFFICES ASSUME n # 1 PROVE FALSE
  OBVIOUS
<1> DEFINE m == n - 1
<1>1. m \in 1..(Len(s) - 1) /\ m \in 1..Len(s) /\ m + 1 = n
  BY DEF StackOK
<1> HIDE DEF m
<1>2. s[m].pos <= Len(StepsOf(s[m])) /\ s[m + 1].recipe = StepsOf(s[m])[s[m].pos].calls
  BY <1>1 DEF StackOK
<1>3. s[m].recipe \in DOMAIN Recipes /\ s[m].pos \in 1..Len(StepsOf(s[m]))
  BY <1>1, <1>2, FrameTop
<1>4. StepsOf(s[m])[s[m].pos].calls # Root
  BY <1>3 DEF RootNotCalled, StepsOf
<1> QED
  BY <1>1, <1>2, <1>4

\* The path of a step of the root is its id.
LEMMA RootPath ==
  ASSUME NEW s, StackOK(s), Len(s) = 1, s[1].pos <= Len(StepsOf(s[1]))
  PROVE  /\ s[1].recipe = Root /\ StepsOf(s[1]) = Recipes[Root]
         /\ s[1].pos \in 1..Len(Recipes[Root])
         /\ PathOf(s) = <<Recipes[Root][s[1].pos].id>>
<1>1. s # <<>> /\ 1 \in 1..Len(s)
  OBVIOUS
<1>2. s[1].recipe = Root /\ StepsOf(s[1]) = Recipes[Root]
  BY <1>1 DEF StackOK, StepsOf
<1>3. s[1].pos \in 1..Len(Recipes[Root])
  BY <1>1, <1>2, FrameTop
<1>4. /\ PathOf(s) \in Seq(STRING) /\ Len(PathOf(s)) = 1
      /\ PathOf(s)[1] = Recipes[Root][s[1].pos].id
  BY <1>1, <1>2, PathFacts
<1> HIDE DEF PathOf
<1> QED
  BY <1>2, <1>3, <1>4

\* What was done stays done.
LEMMA SettledGrows ==
  ASSUME NEW ids, NEW D, NEW E, D \subseteq E, Settled(ids, D)
  PROVE  Settled(ids, E)
BY DEF Settled

\* A step of the root that moves on is covered if it did not fail or is nonfatal.
LEMMA CoverMoves ==
  ASSUME NEW s, NEW t, NEW status, NEW ctx, NEW ok, Moved(s, t, status, ctx, ok),
         StackOK(s), s # <<>>, s[Len(s)].pos <= Len(StepsOf(s[Len(s)])), s[1].ok,
         NEW D, NEW E, D \subseteq E, RootCovered(s, D),
         Len(s) = 1 =>
           /\ ok => \/ <<Recipes[Root][s[1].pos].id>> \in E
                    \/ Recipes[Root][s[1].pos].nonfatal
           /\ status = "completed" => <<Recipes[Root][s[1].pos].id>> \in E
  PROVE  RootCovered(t, E)
<1> DEFINE n == Len(s)
<1>1. n \in Nat /\ n >= 1 /\ Len(t) = n /\ 1 \in 1..n
  BY DEF StackOK, Moved
<1>2. CASE n > 1
  <2>1. t[1] = s[1]
    BY <1>1, <1>2 DEF Moved
  <2> QED
    BY <1>1, <1>2, <2>1 DEF RootCovered
<1>3. CASE n = 1
  <2>1. /\ s[1].pos \in Nat /\ 1 <= s[1].pos
        /\ s[1].results \in Seq(Statuses) /\ Len(s[1].results) = s[1].pos - 1
    BY <1>1, FrameTop
  <2>2. t[1].pos = s[1].pos + 1 /\ t[1].results = Append(s[1].results, status) /\ t[1].ok = ok
    BY <1>3 DEF Moved
  <2>3. \A k \in 1..(s[1].pos - 1) : t[1].results[k] = s[1].results[k]
    BY <2>1, <2>2
  <2>4. t[1].results[s[1].pos] = status
    <3>1. s[1].pos = Len(s[1].results) + 1
      BY <2>1
    <3>2. Append(s[1].results, status)[Len(s[1].results) + 1] = status
      BY <2>1
    <3> QED
      BY <2>2, <3>1, <3>2
  <2>5. ASSUME NEW k \in 1..(t[1].pos - 1)
        PROVE  /\ t[1].ok => <<Recipes[Root][k].id>> \in E \/ Recipes[Root][k].nonfatal
               /\ t[1].results[k] = "completed" => <<Recipes[Root][k].id>> \in E
    <3>1. CASE k = s[1].pos
      BY <1>3, <2>2, <2>4, <3>1
    <3>2. CASE k # s[1].pos
      <4>1. k \in 1..(s[1].pos - 1)
        BY <2>1, <2>2, <3>2
      <4>2. /\ <<Recipes[Root][k].id>> \in D \/ Recipes[Root][k].nonfatal
            /\ s[1].results[k] = "completed" => <<Recipes[Root][k].id>> \in D
        BY <4>1 DEF RootCovered
      <4> QED
        BY <2>3, <4>1, <4>2
    <3> QED
      BY <3>1, <3>2
  <2> QED
    BY <1>1, <1>3, <2>5 DEF RootCovered
<1> QED
  BY <1>1, <1>2, <1>3

\* Settling a step keeps the root covered, and what is then saved was done.
LEMMA CoverSettles ==
  ASSUME RootNotCalled, NEW s, StackOK(s), s # <<>>,
         s[Len(s)].pos <= Len(StepsOf(s[Len(s)])), s[1].ok,
         RootCovered(s, Cleared), SettlesTop(s, PathOf(s))
  PROVE  /\ RootCovered(stack', Cleared') /\ Cleared \subseteq Cleared'
         /\ Settled(save'.ids, Cleared')
<1> DEFINE n == Len(s)
           f == s[n]
           path == PathOf(s)
<1>1. n \in Nat /\ n >= 1 /\ n \in 1..n
  BY DEF StackOK
<1>2. PICK E : E = Cleared'
  OBVIOUS
<1>3. PICK t : t = stack'
  OBVIOUS
<1>4. PICK w : w = save'
  OBVIOUS
<1>5. PICK status \in Statuses, ctx \in SUBSET Seq(STRING), ok \in BOOLEAN :
        /\ Moved(s, t, status, ctx, ok)
        /\ ok /\ status = "failed" => StepsOf(f)[f.pos].nonfatal
        /\ E = IF status = "failed" THEN Cleared ELSE Cleared \cup {path}
        /\ \/ w = None
           \/ status # "failed" /\ f.recipe = Root /\ w = Saved(f)
  BY <1>2, <1>3, <1>4 DEF SettlesTop, Cleared
<1>6. Cleared \subseteq E
  BY <1>5
<1>7. ASSUME n = 1
      PROVE  /\ StepsOf(f) = Recipes[Root] /\ f.pos \in 1..Len(Recipes[Root])
             /\ path = <<Recipes[Root][f.pos].id>>
  BY <1>7, RootPath
<1>8. RootCovered(t, E)
  <2>1. ASSUME Len(s) = 1
        PROVE  /\ ok => \/ <<Recipes[Root][s[1].pos].id>> \in E
                        \/ Recipes[Root][s[1].pos].nonfatal
               /\ status = "completed" => <<Recipes[Root][s[1].pos].id>> \in E
    BY <1>5, <1>7, <2>1
  <2> QED
    BY <1>5, <1>6, <2>1, CoverMoves
<1>9. Settled(w.ids, E)
  <2>1. CASE w = None
    BY <2>1, NoneFacts DEF Settled
  <2>2. CASE status # "failed" /\ f.recipe = Root /\ w = Saved(f)
    <3>1. n = 1
      BY <1>1, <2>2, RootAtBottom
    <3>2. /\ StepsOf(f) = Recipes[Root] /\ f.pos \in 1..Len(Recipes[Root])
          /\ <<Recipes[Root][f.pos].id>> \in E
      BY <1>5, <1>7, <2>2, <3>1
    <3>3. f.results \in Seq(Statuses) /\ Len(f.results) = f.pos - 1 /\ f.pos \in Nat
      BY <1>1, FrameTop
    <3>4. ASSUME NEW k \in Completed(f.results)
          PROVE  k \in 1..Len(Recipes[Root]) /\ <<Recipes[Root][k].id>> \in E
      <4>1. k \in 1..(f.pos - 1) /\ f.results[k] = "completed"
        BY <3>3 DEF Completed
      <4>2. <<Recipes[Root][k].id>> \in Cleared
        BY <3>1, <4>1 DEF RootCovered
      <4>3. Len(Recipes[Root]) \in Nat
        BY RecipesAssumption
      <4> QED
        BY <1>6, <3>2, <3>3, <4>1, <4>2, <4>3
    <3>5. w.ids = {Recipes[Root][i].id : i \in Completed(f.results)} \cup {Recipes[Root][f.pos].id}
      BY <2>2, <3>2 DEF Saved
    <3> HIDE DEF f
    <3> QED
      BY <3>2, <3>4, <3>5 DEF Settled, RootIds
  <2> QED
    BY <1>5, <2>1, <2>2
<1> QED
  BY <1>2, <1>3, <1>4, <1>6, <1>8, <1>9

\* Every step keeps the root covered.
LEMMA CoverStep ==
  ASSUME RootNotCalled
  PROVE  ShapeInv /\ CoverInv /\ [Next]_vars => CoverInv' /\ Cleared \subseteq Cleared'
<1> SUFFICES ASSUME ShapeInv, CoverInv, [Next]_vars PROVE CoverInv' /\ Cleared \subseteq Cleared'
  OBVIOUS
<1>0. /\ StackOK(stack) /\ stack \in Seq(FrameType) /\ Len(stack) \in Nat
      /\ RootCovered(stack, Cleared)
      /\ Settled(resume, Cleared) /\ Settled(save.ids, Cleared) /\ Settled(disk.ids, Cleared)
  BY DEF ShapeInv, StackOK, CoverInv
\* While a run is going, only what the root has left behind is to be shown.
<1>1. ASSUME phase = "running", success' = success, phase' # "done",
             resume' = resume, disk' = disk, Cleared \subseteq Cleared',
             Settled(save'.ids, Cleared'), RootCovered(stack', Cleared')
      PROVE  CoverInv'
  <2>1. ~success
    BY <1>1 DEF CoverInv
  <2>2. PICK E, R, K : E = Cleared' /\ R = resume' /\ K = disk'
    OBVIOUS
  <2>3. Settled(R, E) /\ Settled(K.ids, E)
    BY <1>0, <1>1, <2>2, SettledGrows
  <2> QED
    BY <1>1, <2>1, <2>2, <2>3 DEF CoverInv, SuccessCoversAll
<1>2. ASSUME AtStep PROVE stack[1].ok /\ stack # <<>> /\ phase = "running"
                          /\ Top.pos <= Len(StepsOf(Top)) /\ Top = stack[Len(stack)]
  <2>1. stack # <<>> /\ Top.ok /\ Top = stack[Len(stack)] /\ phase = "running"
        /\ Top.pos <= Len(StepsOf(Top))
    BY <1>2, AtStepFacts DEF AtStep, Running, Top
  <2>2. PICK n \in Nat : n = Len(stack)
    BY <1>0
  <2>3. n = 1 \/ n > 1
    <3>1. n >= 1
      BY <1>2, <2>2, AtStepFacts
    <3> QED
      BY <3>1
  <2>4. stack[1].ok
    BY <1>0, <2>1, <2>2, <2>3 DEF RootCovered
  <2> QED
    BY <2>1, <2>4
<1>3. CASE Execute
  <2>1. /\ ~success' /\ Cleared' = Cleared /\ save' = save /\ disk' = disk
        /\ resume' = {} \/ resume' = disk.ids
    BY <1>3 DEF Execute, Cleared
  <2>2. Settled(resume', Cleared)
    BY <1>0, <2>1 DEF Settled
  <2>3. RootCovered(stack', Cleared)
    <3>1. CASE stack' = <<>>
      BY <3>1 DEF RootCovered
    <3>2. CASE stack' = <<Frame(Root, {})>>
      <4> DEFINE g == Frame(Root, {})
      <4>1. g.pos = 1
        BY DEF Frame
      <4>2. PICK t : t = stack' /\ t = <<g>>
        BY <3>2
      <4> HIDE DEF g
      <4>3. Len(t) = 1 /\ t[1] = g
        BY <4>2
      <4>4. RootCovered(t, Cleared)
        BY <4>1, <4>3 DEF RootCovered
      <4> QED
        BY <4>2, <4>4
    <3> QED
      BY <1>3, <3>1, <3>2 DEF Execute
  <2> QED
    BY <1>0, <2>1, <2>2, <2>3 DEF CoverInv, SuccessCoversAll
<1>4. CASE Limit
  <2>1. AtStep /\ Cleared' = Cleared /\ UNCHANGED <<save, disk, resume, success, phase>>
    BY <1>4 DEF Limit, Cleared
  <2>2. PICK t : t = stack'
    OBVIOUS
  <2>3. /\ Len(t) = Len(stack) /\ stack # <<>>
        /\ t[1].recipe = stack[1].recipe /\ t[1].pos = stack[1].pos
        /\ t[1].results = stack[1].results
        /\ t[1].ok => stack[1].ok
        /\ Len(stack) > 1 => t[1] = stack[1]
    <3>1. stack # <<>>
      BY <1>4, LimitStack
    <3>2. 1 \in 1..Len(stack) /\ (Len(stack) > 1 => 1 \in 1..(Len(stack) - 1))
      BY <1>0, <3>1
    <3> QED
      BY <1>4, <2>2, <3>1, <3>2, LimitStack
  <2>4. RootCovered(t, Cleared)
    BY <1>0, <2>3 DEF RootCovered
  <2> QED
    BY <1>0, <1>1, <1>2, <2>1, <2>2, <2>4
<1>5. CASE SkipResumed
  <2>1. AtStep /\ Cleared' = Cleared /\ UNCHANGED <<save, disk, resume, success, phase>>
        /\ Cur.id \in resume
    BY <1>5 DEF SkipResumed, Cleared
  <2>2. PICK t : t = stack' /\ Moved(stack, t, "skipped", Top.ctx, Top.ok)
    BY <1>5, SkipStack
  <2>3. ASSUME Len(stack) = 1 PROVE <<Recipes[Root][stack[1].pos].id>> \in Cleared
    <3>1. Cur = Recipes[Root][stack[1].pos]
      BY <1>0, <1>2, <2>1, <2>3, RootPath, AtStepFacts
    <3> QED
      BY <1>0, <2>1, <3>1 DEF Settled
  <2>4. RootCovered(t, Cleared)
    BY <1>0, <1>2, <2>1, <2>2, <2>3, CoverMoves
  <2> QED
    BY <1>0, <1>1, <1>2, <2>1, <2>2, <2>4
<1>6. CASE Leaf \/ NoCall
  <2>1. AtStep /\ UNCHANGED <<disk, resume, success, phase>> /\ SettlesTop(stack, PathOf(stack))
    BY <1>6, LeafSettles, NoCallSettles DEF Leaf, NoCall, Path
  <2>2. /\ RootCovered(stack', Cleared') /\ Cleared \subseteq Cleared'
        /\ Settled(save'.ids, Cleared')
    BY <1>0, <1>2, <2>1, CoverSettles
  <2> QED
    BY <1>1, <1>2, <2>1, <2>2
<1>7. CASE Call
  <2>1. AtStep /\ Cleared' = Cleared /\ UNCHANGED <<save, disk, resume, success, phase>>
    BY <1>7 DEF Call, Cleared
  <2>2. PICK t : t = stack'
    OBVIOUS
  <2>3. t[1] = stack[1] /\ t # <<>>
    BY <1>0, <1>7, <2>2, CallStack
  <2>4. RootCovered(t, Cleared)
    BY <1>0, <1>2, <2>1, <2>3 DEF RootCovered
  <2> QED
    BY <1>0, <1>1, <1>2, <2>1, <2>2, <2>4
<1>8. CASE Return
  <2> DEFINE b == Front(stack)
  <2>1. /\ StackOK(b) /\ b # <<>> /\ Len(b) = Len(stack) - 1
        /\ \A i \in 1..Len(b) : b[i] = stack[i]
        /\ b[Len(b)].pos <= Len(StepsOf(b[Len(b)]))
        /\ SettlesTop(b, PathOf(b))
    BY <1>8, ReturnSettles
  <2> HIDE DEF b
  <2>2. UNCHANGED <<disk, resume, success, phase>> /\ Len(stack) > 1 /\ phase = "running"
    BY <1>8 DEF Return, RunEnded, Running
  <2>3. b[1] = stack[1] /\ stack # <<>> /\ Len(b) \in Nat /\ b[1].ok
    BY <1>0, <2>1, <2>2 DEF RootCovered
  <2>4. RootCovered(b, Cleared)
    BY <1>0, <2>3 DEF RootCovered
  <2>5. /\ RootCovered(stack', Cleared') /\ Cleared \subseteq Cleared'
        /\ Settled(save'.ids, Cleared')
    BY <2>1, <2>3, <2>4, CoverSettles
  <2> QED
    BY <1>1, <2>2, <2>5
<1>9. CASE Finish
  <2>1. /\ success' = Succeeds /\ phase' = "done" /\ RunEnded /\ Len(stack) = 1
        /\ UNCHANGED <<stack, resume, save, disk, Cleared>>
    BY <1>9 DEF Finish, Cleared
  <2>2. ASSUME Succeeds, NEW i \in 1..Len(Recipes[Root])
        PROVE  <<Recipes[Root][i].id>> \in Cleared \/ Recipes[Root][i].nonfatal
    <3>1. stack[1].recipe = Root /\ stack[1].pos \in Nat /\ Top = stack[1] /\ stack # <<>>
      BY <1>0, <2>1, FrameTop DEF StackOK, Top
    <3>2. stack[1].ok /\ stack[1].pos > Len(Recipes[Root])
      BY <2>1, <2>2, <3>1 DEF RunEnded, Succeeds, Here
    <3>3. Len(Recipes[Root]) \in Nat
      BY RecipesAssumption
    <3>4. i \in 1..(stack[1].pos - 1)
      BY <3>1, <3>2, <3>3
    <3> QED
      BY <1>0, <3>1, <3>2, <3>4 DEF RootCovered
  <2>3. SuccessCoversAll'
    <3>1. DOMAIN Recipes[Root] = 1..Len(Recipes[Root])
      BY RecipesAssumption
    <3> QED
      BY <2>1, <2>2, <3>1 DEF SuccessCoversAll, Cleared
  <2> QED
    BY <1>0, <2>1, <2>3 DEF CoverInv
<1>10. CASE Truncate
  <2>1. phase = "running" /\ disk' = save /\ UNCHANGED <<phase, stack, resume, save, success, Cleared>>
    BY <1>10 DEF Truncate, Cleared
  <2> QED
    BY <1>0, <2>1 DEF CoverInv, SuccessCoversAll
<1>11. CASE Fill
  <2>1. disk'.ids = save.ids
    BY <1>11 DEF Fill, ShapeInv, Checkpoint
  <2>2. phase = "running" /\ save' = None /\ UNCHANGED <<phase, stack, resume, success, Cleared>>
    BY <1>11 DEF Fill, Cleared
  <2>3. Settled(save'.ids, Cleared)
    BY <2>2, NoneFacts DEF Settled
  <2> QED
    BY <1>0, <2>1, <2>2, <2>3 DEF CoverInv, SuccessCoversAll
<1>12. CASE SaveFails
  <2>1. save' = None /\ UNCHANGED <<phase, stack, resume, disk, success, Cleared>>
    BY <1>12 DEF SaveFails, Cleared
  <2>2. Settled(save'.ids, Cleared)
    BY <2>1, NoneFacts DEF Settled
  <2> QED
    BY <1>0, <2>1, <2>2 DEF CoverInv, SuccessCoversAll
<1>13. CASE Crash
  <2>1. /\ phase = "running" /\ phase' = "crashed" /\ stack' = <<>> /\ save' = None
        /\ UNCHANGED <<resume, disk, success, Cleared>>
    BY <1>13 DEF Crash, Cleared
  <2>2. Settled(save'.ids, Cleared') /\ RootCovered(stack', Cleared')
    BY <2>1, NoneFacts DEF Settled, RootCovered
  <2> QED
    BY <1>1, <2>1, <2>2
<1>14. CASE UNCHANGED vars
  BY <1>14 DEF vars, CoverInv, SuccessCoversAll, Cleared
<1> QED
  BY <1>3, <1>4, <1>5, <1>6, <1>7, <1>8, <1>9, <1>10, <1>11, <1>12, <1>13, <1>14
     DEF Next, Program, Terminated

\* So it always is.
LEMMA CoverHolds ==
  ASSUME RootNotCalled
  PROVE  Spec => []CoverInv
<1>1. Init => CoverInv
  BY NoneFacts DEF Init, CoverInv, Settled, RootCovered, SuccessCoversAll
<1> QED
  BY <1>1, CoverStep, ShapeHolds, PTL DEF Spec

\* Where no recipe calls the root, a run that succeeds, resumed or not, has seen every
\* step of the root settle without failing, in this process or an earlier one, but for
\* nonfatal steps: whatever the crashes, the torn and the lost checkpoints.
THEOREM SuccessMeansCovered ==
  ASSUME RootNotCalled
  PROVE  Spec => []SuccessCoversAll
<1>1. CoverInv => SuccessCoversAll
  BY DEF CoverInv
<1> QED
  BY <1>1, CoverHolds, PTL

\* Where also no other recipe uses an id of the root, a step is skipped as resumed only
\* if that very step settled without failing before, run or passed over by its condition.
THEOREM SkippedStepsWereDone ==
  ASSUME RootNotCalled, RootIdsOwn
  PROVE  Spec => []SkippedWasDone
<1>1. Init => SkippedWasDone
  BY DEF Init, SkippedWasDone
<1>2. ShapeInv /\ CoverInv /\ SkippedWasDone /\ [Next]_vars => SkippedWasDone'
  <2> SUFFICES ASSUME ShapeInv, CoverInv, SkippedWasDone, [Next]_vars PROVE SkippedWasDone'
    OBVIOUS
  <2>1. Cleared \subseteq Cleared'
    BY CoverStep
  <2>2. CASE skips' = skips
    BY <2>1, <2>2 DEF SkippedWasDone
  <2>3. CASE SkipResumed
    <3>1. /\ skips' = skips \cup {Path} /\ Cur.id \in resume /\ AtStep
      BY <2>3 DEF SkipResumed
    <3>2. Cur.id \in RootIds /\ <<Cur.id>> \in Cleared
      BY <3>1 DEF CoverInv, Settled
    <3>3. /\ stack # <<>> /\ StackOK(stack) /\ Len(stack) \in 1..Len(stack)
          /\ Top.pos <= Len(StepsOf(Top)) /\ Top = stack[Len(stack)]
          /\ Cur = StepsOf(Top)[Top.pos]
      BY <3>1, AtStepFacts DEF Top
    <3>4. Top.recipe \in DOMAIN Recipes /\ Top.pos \in 1..Len(StepsOf(Top))
      BY <3>3, FrameTop
    <3>5. Top.recipe = Root
      BY <3>2, <3>3, <3>4 DEF RootIdsOwn, StepsOf
    <3>6. Len(stack) = 1
      BY <3>3, <3>5, RootAtBottom
    <3>7. Path = <<Recipes[Root][stack[1].pos].id>> /\ StepsOf(stack[1]) = Recipes[Root]
      BY <3>3, <3>6, RootPath DEF Path
    <3>8. Path = <<Cur.id>>
      BY <3>3, <3>6, <3>7
    <3> QED
      BY <2>1, <3>1, <3>2, <3>8 DEF SkippedWasDone
  <2>4. SkipResumed \/ skips' = skips
    BY DEF Next, Program, Execute, Limit, Leaf, NoCall, Call, Return, Finish, Truncate,
           Fill, SaveFails, Crash, Terminated, vars
  <2> QED
    BY <2>2, <2>3, <2>4
<1> QED
  BY <1>1, <1>2, ShapeHolds, CoverHolds, PTL DEF Spec

-----------------------------------------------------------------------------
(* Discovery, Locations and Recipes: what holds of every input.               *)

\* A set of natural numbers that is not empty has a least one.
LEMMA Smallest ==
  ASSUME NEW T, T \subseteq Nat, T # {}
  PROVE  \E x \in T : \A y \in T : x <= y
<1> DEFINE R == {ss \in Nat \X Nat : ss[1] < ss[2]}
<1>1. IsWellFoundedOn(R, Nat)
  BY NatLessThanWellFounded, Zenon DEF OpToRel
<1>2. PICK x \in T : \A y \in T : <<y, x>> \notin R
  <2> HIDE DEF R
  <2> QED
    BY <1>1, WFMin
<1>3. ASSUME NEW y \in T PROVE x <= y
  <2>1. <<y, x>> \in Nat \X Nat
    OBVIOUS
  <2> QED
    BY <1>2, <2>1
<1> QED
  BY <1>3

\* What a CHOOSE of the least number of a set gives.
LEMMA LeastChosen ==
  ASSUME NEW I, I \subseteq Nat, I # {}
  PROVE  /\ (CHOOSE i \in I : \A j \in I : i <= j) \in I
         /\ \A j \in I : (CHOOSE i \in I : \A j2 \in I : i <= j2) <= j
<1>1. \E x \in I : \A y \in I : x <= y
  BY Smallest
<1> QED
  BY <1>1

\* A file that is found by its stem is on the disk, in the first of the directories
\* searched that holds one of that stem, and .yaml if there is one.
FoundAt(held, stem, dirs, f, at) ==
  /\ at \in 1..Len(dirs) /\ f \in held /\ f.dir = dirs[at] /\ f.stem = stem /\ f.ext \in {"yaml", "yml"}
  /\ \A g \in held : g.stem = stem /\ g.dir = dirs[at] /\ g.ext = "yaml" => f.ext = "yaml"
  /\ \A b \in 1..(at - 1), g \in held : g.stem = stem /\ g.dir = dirs[b] => g.ext \notin {"yaml", "yml"}

LEMMA FoundFirst ==
  ASSUME NEW held, NEW stem, NEW X, NEW dirs \in Seq(X), NEW exts, exts = <<"yaml", "yml">>,
         NEW hit, hit = FirstOn(held, stem, Tried(dirs, exts)), hit.found
  PROVE  \E at : FoundAt(held, stem, dirs, hit.file, at)
<1> DEFINE tried == Tried(dirs, exts)
           here(t) == {f \in held : f.dir = t.dir /\ f.ext = t.ext /\ f.stem = stem}
           I == {i \in 1..Len(tried) : here(tried[i]) # {}}
           first == CHOOSE i \in I : \A j \in I : i <= j
           file == CHOOSE f \in here(tried[first]) : TRUE
<1>1. Nothing.found = FALSE
  BY DEF Nothing
<1>2. hit = IF I = {} THEN Nothing ELSE Hit(file)
  BY Zenon DEF FirstOn
<1>3. I # {} /\ hit = Hit(file)
  BY <1>1, <1>2
<1>4. first \in I /\ \A j \in I : first <= j
  <2>1. I \subseteq Nat
    OBVIOUS
  <2> HIDE DEF I
  <2> QED
    BY <1>3, <2>1, LeastChosen
<1>5. file \in here(tried[first])
  <2>1. here(tried[first]) # {}
    <3> HIDE DEF first, tried
    <3> QED
      BY <1>4
  <2> HIDE DEF here
  <2> QED
    BY <2>1
<1>6. hit.file = file
  <2> HIDE DEF file
  <2> QED
    BY <1>3 DEF Hit
<1> DEFINE m == Len(dirs)
           at == ((first - 1) \div 2) + 1
           e == ((first - 1) % 2) + 1
<1>7. m \in Nat /\ Len(exts) = 2 /\ exts[1] = "yaml" /\ exts[2] = "yml"
  OBVIOUS
<1>8. tried = [k \in 1..(m * 2) |-> [dir |-> dirs[((k - 1) \div 2) + 1], ext |-> exts[((k - 1) % 2) + 1]]]
  BY <1>7, Zenon DEF Tried
<1>9. Len(tried) = m * 2
  <2> HIDE DEF tried, m
  <2> QED
    BY <1>7, <1>8
<1>10. first \in 1..(m * 2)
  <2>1. first \in 1..Len(tried)
    <3> HIDE DEF first, here, tried
    <3> QED
      BY <1>4
  <2> QED
    BY <1>9, <2>1
<1>11. at \in 1..m /\ e \in {1, 2} /\ first = 2 * (at - 1) + e
  <2> HIDE DEF first, m
  <2> QED
    BY <1>7, <1>10
<1>12. tried[first].dir = dirs[at] /\ tried[first].ext = exts[e]
  <2> HIDE DEF first, tried, m
  <2> QED
    BY <1>8, <1>10
<1>13. file \in held /\ file.dir = dirs[at] /\ file.stem = stem /\ file.ext = exts[e]
  <2> HIDE DEF file, tried, first, at, e
  <2> QED
    BY <1>5, <1>12
<1>14. ASSUME NEW b \in 1..m, NEW x \in {1, 2}, 2 * (b - 1) + x < first, NEW g \in held
       PROVE  ~(g.dir = dirs[b] /\ g.ext = exts[x] /\ g.stem = stem)
  <2> DEFINE k == 2 * (b - 1) + x
  <2>1. k \in 1..(m * 2) /\ ((k - 1) \div 2) + 1 = b /\ ((k - 1) % 2) + 1 = x
    BY <1>7
  <2> HIDE DEF k
  <2>2. tried[k].dir = dirs[b] /\ tried[k].ext = exts[x]
    <3> HIDE DEF tried, m
    <3> QED
      BY <1>8, <2>1
  <2>3. k \notin I
    <3>1. ~ (first <= k)
      <4> HIDE DEF first
      <4> QED
        BY <1>10, <1>14, <2>1 DEF k
    <3> HIDE DEF first, I
    <3> QED
      BY <1>4, <3>1
  <2>4. here(tried[k]) = {}
    <3> HIDE DEF here, tried
    <3> QED
      BY <1>9, <2>1, <2>3
  <2> HIDE DEF tried
  <2> QED
    BY <2>2, <2>4
<1> HIDE DEF first, file, at, e, tried
<1>15. ASSUME NEW g \in held, g.stem = stem, g.dir = dirs[at], g.ext = "yaml" PROVE file.ext = "yaml"
  <2>1. CASE e = 1
    BY <1>7, <1>13, <2>1
  <2>2. CASE e = 2
    <3>1. at \in 1..m /\ 2 * (at - 1) + 1 < first
      BY <1>7, <1>11, <2>2
    <3> QED
      BY <1>7, <1>14, <1>15, <3>1
  <2> QED
    BY <1>11, <2>1, <2>2
<1>16. ASSUME NEW b \in 1..(at - 1), NEW g \in held, g.stem = stem, g.dir = dirs[b]
       PROVE  g.ext \notin {"yaml", "yml"}
  <2>1. b \in 1..m /\ 2 * (b - 1) + 1 < first /\ 2 * (b - 1) + 2 < first
    BY <1>7, <1>11
  <2> QED
    BY <1>7, <1>14, <1>16, <2>1
<1>17. file.ext \in {"yaml", "yml"}
  BY <1>7, <1>11, <1>13
<1>18. FoundAt(held, stem, dirs, file, at)
  <2> HIDE DEF m
  <2> QED
    BY <1>11, <1>13, <1>15, <1>16, <1>17, Zenon DEF FoundAt, m
<1> QED
  BY <1>6, <1>18

\* A recipe found by name lies in one of the directories searched.
LEMMA FoundSomewhere ==
  ASSUME NEW held, NEW name, NEW X, NEW dirs \in Seq(X),
         NEW hit, hit = FindRecipe(held, name, dirs), hit.found
  PROVE  hit.file.dir \in Range(dirs)
<1>1. hit = FirstOn(held, name, Tried(dirs, <<"yaml", "yml">>))
  <2>1. Nothing.found = FALSE
    BY DEF Nothing
  <2> QED
    BY <2>1, Zenon DEF FindRecipe
<1>2. PICK at : FoundAt(held, name, dirs, hit.file, at)
  BY <1>1, FoundFirst, Zenon
<1>3. at \in 1..Len(dirs) /\ hit.file.dir = dirs[at]
  BY <1>2, Zenon DEF FoundAt
<1> QED
  BY <1>3 DEF Range

-----------------------------------------------------------------------------

\* A recipe found by name lies physically inside a root of the anchored search, whatever
\* the links there lead to, unless a directory the user named or a default one of the
\* installation holds it.
THEOREM RecipesAreWithinRoots ==
  ASSUME NEW held, NEW name, NEW s, s.given \in Seq(STRING), s.defaults \in Seq(STRING)
  PROVE  FoundWithinRoots(held, name, s)
<1> DEFINE given == FindRecipe(held, name, s.given)
           anchored == AnchoredDirs(held, s.origin, s.ancestors, s.git)
           near == FindRecipe(held, name, anchored)
           far == FindRecipe(held, name, s.defaults)
           hit == FindRecipePath(held, name, s)
<1>1. Nothing.found = FALSE
  BY DEF Nothing
<1>2. ASSUME NEW dirs \in Seq(STRING), NEW h, h = FindRecipe(held, name, dirs), h.found
      PROVE  h.file.dir \in Range(dirs)
  BY <1>2, FoundSomewhere
<1>3. SUFFICES ASSUME hit.found
      PROVE  \/ hit.file.dir \in Range(s.given)
             \/ /\ s.defaultSearch
                /\ \/ hit.file.dir \in Range(s.defaults)
                   \/ Inside(hit.file, anchored)
  BY Zenon DEF FoundWithinRoots
<1>4. \/ hit = given
      \/ s.defaultSearch /\ hit = near /\ WithinAny(near.file, anchored)
      \/ s.defaultSearch /\ hit = far
  BY <1>1, <1>3, Zenon DEF FindRecipePath
<1> HIDE DEF given, anchored, near, far, hit
<1>5. CASE hit = given
  BY <1>2, <1>3, <1>5 DEF given
<1>6. CASE s.defaultSearch /\ hit = near /\ WithinAny(near.file, anchored)
  BY <1>6, Zenon DEF WithinAny, Inside
<1>7. CASE s.defaultSearch /\ hit = far
  BY <1>2, <1>3, <1>7 DEF far
<1> QED
  BY <1>4, <1>5, <1>6, <1>7

-----------------------------------------------------------------------------

\* A directory holds one file of a name, and a hash stands for one text.
OneFileEach(held) ==
  \A f, g \in held : f.dir = g.dir /\ f.stem = g.stem /\ f.ext = g.ext => f = g
SameText(held, later) ==
  \A f \in held, g \in later :
    f.dir = g.dir /\ f.stem = g.stem /\ f.ext = g.ext /\ f.hash = g.hash => f = g

\* What is told of a disk and a manifest, change by change.
Told(c, held, d, manifest) ==
  \/ \E f \in Entries(held, d) : c \in Compared(f, manifest)
  \/ \E n \in DOMAIN manifest :
       /\ ~\E f \in held : f.dir = d /\ f.stem = n /\ f.ext = "yaml" /\ f.hash # ""
       /\ c = Change(n, "deleted")

\* What check_upstream_changes tells is told of a file there or of a name gone.
LEMMA ToldOf ==
  ASSUME NEW held, NEW d, NEW manifest, NEW c
  PROVE  c \in CheckUpstreamChanges(held, d, manifest) <=> Told(c, held, d, manifest)
<1> DEFINE A == UNION {Compared(f, manifest) : f \in Entries(held, d)}
           B == {Change(n, "deleted") : n \in {m \in DOMAIN manifest :
             ~\E f \in held : f.dir = d /\ f.stem = m /\ f.ext = "yaml" /\ f.hash # ""}}
<1>1. CheckUpstreamChanges(held, d, manifest) = A \cup B
  BY Zenon DEF CheckUpstreamChanges
<1>2. c \in A <=> \E f \in Entries(held, d) : c \in Compared(f, manifest)
  OBVIOUS
<1>3. c \in B <=>
        \E n \in DOMAIN manifest :
          /\ ~\E f \in held : f.dir = d /\ f.stem = n /\ f.ext = "yaml" /\ f.hash # ""
          /\ c = Change(n, "deleted")
  OBVIOUS
<1> HIDE DEF A, B
<1> QED
  BY <1>1, <1>2, <1>3 DEF Told

\* After update_manifest on one disk, check_upstream_changes on a later one tells exactly
\* what came, changed and went, whatever the two disks hold; an entry that cannot be
\* read now is told as deleted whether or not it changed.
THEOREM ManifestTells ==
  ASSUME NEW before, NEW after, NEW d, OneFileEach(before), OneFileEach(after), SameText(before, after)
  PROVE  ManifestTellsTheDifference(before, after, d)
<1> DEFINE E(held) == {f \in held : f.dir = d /\ f.ext = "yaml"}
           R(held) == {f \in held : f.dir = d /\ f.ext = "yaml" /\ f.hash # ""}
           stems(F) == {f.stem : f \in F}
           manifest == UpdateManifest(before, d)
           told == CheckUpstreamChanges(after, d, manifest)
           named(status) == {c.name : c \in {c \in told : c.status = status}}
           same == {f.stem : f \in {f \in before \cap after : f.dir = d /\ f.ext = "yaml"}}
<1>1. /\ DOMAIN manifest = stems(E(before))
      /\ \A f \in E(before) : manifest[f.stem] = f.hash
  <2>1. manifest = [n \in stems(E(before)) |-> (CHOOSE f \in E(before) : f.stem = n).hash]
    BY Zenon DEF UpdateManifest, Entries
  <2>2. ASSUME NEW f \in E(before) PROVE (CHOOSE g \in E(before) : g.stem = f.stem) = f
    <3>1. \A g \in E(before) : g.stem = f.stem => g = f
      BY Zenon DEF OneFileEach
    <3> HIDE DEF E
    <3> QED
      BY <3>1, Zenon
  <2>3. \A f \in E(before) : f.stem \in stems(E(before))
    BY Zenon
  <2> HIDE DEF E, stems, manifest
  <2> QED
    BY <2>1, <2>2, <2>3
<1>3. \A n : (\E f \in after : f.dir = d /\ f.stem = n /\ f.ext = "yaml" /\ f.hash # "") <=> n \in stems(R(after))
  OBVIOUS
<1> HIDE DEF manifest, told
<1>4. ASSUME NEW f \in E(after)
      PROVE  Compared(f, manifest) =
               IF f.stem \notin stems(R(before)) THEN {Change(f.stem, "new")}
               ELSE IF f.stem \notin same THEN {Change(f.stem, "modified")} ELSE {}
  <2>1. CASE f.stem \notin stems(E(before))
    BY <1>1, <2>1 DEF Compared
  <2>2. CASE f.stem \in stems(E(before))
    <3>1. PICK g \in E(before) : g.stem = f.stem
      BY <2>2
    <3>2. manifest[f.stem] = g.hash /\ f.stem \in DOMAIN manifest
      BY <1>1, <3>1
    <3>3. f.stem \in stems(R(before)) <=> g.hash # ""
      BY <3>1 DEF OneFileEach
    <3>4. f.stem \in same <=> g.hash = f.hash
      <4>1. ASSUME g.hash = f.hash PROVE f.stem \in same
        <5>1. g = f
          BY <3>1, <4>1 DEF SameText
        <5> QED
          BY <5>1
      <4>2. ASSUME f.stem \in same PROVE g.hash = f.hash
        <5>1. PICK h \in before \cap after : h.dir = d /\ h.ext = "yaml" /\ h.stem = f.stem
          BY <4>2
        <5>2. h = g /\ h = f
          BY <3>1, <5>1 DEF OneFileEach
        <5> QED
          BY <5>2
      <4> QED
        BY <4>1, <4>2
    <3> QED
      BY <3>2, <3>3, <3>4 DEF Compared
  <2> QED
    BY <2>1, <2>2, Zenon
<1>5. ASSUME NEW n, NEW status
      PROVE  n \in named(status) <=>
               \/ status = "new" /\ n \in stems(E(after)) /\ n \notin stems(R(before))
               \/ status = "modified" /\ n \in stems(E(after)) /\ n \in stems(R(before)) /\ n \notin same
               \/ status = "deleted" /\ n \in stems(E(before)) /\ n \notin stems(R(after))
  <2>0. ASSUME NEW c
        PROVE  c \in told <=>
          \/ \E f \in E(after) : c \in Compared(f, manifest)
          \/ \E k \in DOMAIN manifest : k \notin stems(R(after)) /\ c = Change(k, "deleted")
    <3>1. Entries(after, d) = E(after)
      BY DEF Entries
    <3>2. c \in told <=>
            \/ \E f \in E(after) : c \in Compared(f, manifest)
            \/ \E k \in DOMAIN manifest :
                 /\ ~\E f \in after : f.dir = d /\ f.stem = k /\ f.ext = "yaml" /\ f.hash # ""
                 /\ c = Change(k, "deleted")
      <4>1. c \in told <=>
              \/ \E f \in Entries(after, d) : c \in Compared(f, manifest)
              \/ \E k \in DOMAIN manifest :
                   /\ ~\E f \in after : f.dir = d /\ f.stem = k /\ f.ext = "yaml" /\ f.hash # ""
                   /\ c = Change(k, "deleted")
        <5>1. c \in told <=> Told(c, after, d, manifest)
          BY ToldOf DEF told
        <5> QED
          BY <5>1, Zenon DEF Told
      <4> HIDE DEF E
      <4> QED
        BY <3>1, <4>1, Zenon
    <3> HIDE DEF E, R, stems
    <3> QED
      BY <3>2, <1>3, Zenon
  <2>1. n \in named(status) <=> Change(n, status) \in told
    <3>1. \A c \in told : \E k, st : c = Change(k, st)
      <4> HIDE DEF E, R, same, stems
      <4> QED
        BY <2>0, <1>4
    <3>2. \A k, st : Change(k, st).name = k /\ Change(k, st).status = st
      BY DEF Change
    <3> QED
      BY <3>1, <3>2
  <2>2. \A k, st : Change(n, status) = Change(k, st) <=> k = n /\ st = status
    BY DEF Change
  <2>3. Change(n, status) \in told <=>
          \/ \E f \in E(after) : Change(n, status) \in Compared(f, manifest)
          \/ \E k \in DOMAIN manifest : k \notin stems(R(after)) /\ Change(n, status) = Change(k, "deleted")
    BY <2>0, Zenon
  <2>4. \A f \in E(after) : Change(n, status) \in Compared(f, manifest) <=>
          \/ status = "new" /\ f.stem = n /\ n \notin stems(R(before))
          \/ status = "modified" /\ f.stem = n /\ n \in stems(R(before)) /\ n \notin same
    <3> HIDE DEF E, R, same, stems
    <3> QED
      BY <1>4, <2>2
  <2>5. n \in stems(E(after)) <=> \E f \in E(after) : f.stem = n
    BY Zenon
  <2> HIDE DEF E, R, same, stems, named
  <2> QED
    BY <1>1, <2>1, <2>2, <2>3, <2>4, <2>5
<1>6. /\ named("new") = stems(E(after)) \ stems(R(before))
      /\ named("deleted") = stems(E(before)) \ stems(R(after))
      /\ named("modified") = (stems(R(before)) \cap stems(E(after))) \ same
  <2> HIDE DEF E, R, same, stems, named
  <2> QED
    BY <1>5
<1> QED
  BY <1>6, Zenon DEF ManifestTellsTheDifference, told, manifest

\* What happens in a process, and the states it goes through.
Happens(op, Texts) ==
  \/ op.do \in {"get", "invalidate", "wait"}
  \/ op.do = "write" /\ op.disk \in Texts
Goes(f, ops, ttl, m) ==
  /\ f = [i \in 0..m |-> f[i]] /\ f[0] = Started
  /\ \A i \in 1..m : f[i] = After(f[i - 1], ops[i], ttl)

\* Any calls in any number take a process somewhere.
LEMMA GoesSomewhere ==
  ASSUME NEW ops, NEW ttl, NEW m \in Nat
  PROVE  \E f : Goes(f, ops, ttl, m)
<1> DEFINE T == {k \in Nat : k <= m /\ ~ \E f : Goes(f, ops, ttl, k)}
<1> SUFFICES ASSUME T # {} PROVE FALSE
  OBVIOUS
<1>1. PICK k \in T : \A y \in T : k <= y
  <2>1. T \subseteq Nat
    OBVIOUS
  <2> HIDE DEF T
  <2> QED
    BY <2>1, Smallest
<1>2. k # 0
  <2>1. Goes([i \in 0..0 |-> Started], ops, ttl, 0)
    BY DEF Goes
  <2> QED
    BY <2>1, <1>1
<1>3. PICK f : Goes(f, ops, ttl, k - 1)
  BY <1>1, <1>2
<1> DEFINE v == After(f[k - 1], ops[k], ttl)
           g == [i \in 0..k |-> IF i = k THEN v ELSE f[i]]
<1>4. Goes(g, ops, ttl, k)
  <2>1. g[0] = Started /\ g = [i \in 0..k |-> g[i]]
    BY <1>1, <1>2, <1>3 DEF Goes
  <2>2. ASSUME NEW i \in 1..k PROVE g[i] = After(g[i - 1], ops[i], ttl)
    <3>1. g[i - 1] = f[i - 1]
      BY <1>1, <2>2
    <3>2. CASE i = k
      <4>1. g[i] = v
        BY <2>2, <3>2
      <4> HIDE DEF g
      <4> QED
        BY <3>1, <3>2, <4>1, Zenon
    <3>3. CASE i # k
      <4>1. g[i] = f[i] /\ i \in 1..(k - 1)
        BY <1>1, <2>2, <3>3
      <4>2. f[i] = After(f[i - 1], ops[i], ttl)
        BY <1>3, <4>1 DEF Goes
      <4> HIDE DEF g
      <4> QED
        BY <3>1, <4>1, <4>2, Zenon
    <3> QED
      BY <3>2, <3>3
  <2> HIDE DEF g
  <2> QED
    BY <2>1, <2>2 DEF Goes
<1> QED
  BY <1>1, <1>4

\* The play of some calls is where they take the process, call after call.
LEMMA PlayGoes ==
  ASSUME NEW ops, Len(ops) \in Nat, NEW ttl
  PROVE  \E f : Goes(f, ops, ttl, Len(ops)) /\ Play(ops, ttl) = f[Len(ops)]
<1> DEFINE m == Len(ops)
           Is(f) == f = [i \in 0..m |-> IF i = 0 THEN Started ELSE After(f[i - 1], ops[i], ttl)]
           g == CHOOSE g : Is(g)
<1>1. PICK f : Goes(f, ops, ttl, m)
  BY GoesSomewhere
<1>2. Is(f)
  BY <1>1 DEF Goes
<1>3. Is(g) /\ Play(ops, ttl) = g[m]
  BY <1>2, Zenon DEF Play
<1> HIDE DEF g
<1>4. Goes(g, ops, ttl, m)
  <2>1. g = [i \in 0..m |-> g[i]] /\ g[0] = Started
    BY <1>3
  <2>2. \A i \in 1..m : g[i] = After(g[i - 1], ops[i], ttl)
    BY <1>3
  <2> QED
    BY <2>1, <2>2 DEF Goes
<1> QED
  BY <1>3, <1>4

\* An element of a sequence.
LEMMA ElementOf ==
  ASSUME NEW X, NEW q \in Seq(X), NEW k \in 1..Len(q)
  PROVE  q[k] \in X
  OBVIOUS

\* The last element of a sequence that has one.
LEMMA LastOf ==
  ASSUME NEW X, NEW q \in Seq(X), NEW k \in 1..Len(q)
  PROVE  Last(q) = q[Len(q)] /\ q[Len(q)] \in X /\ Len(q) \in k..Len(q) /\ Len(q) \in Nat
  BY DEF Last

\* What the cache holds is what its directories held at a moment the process has seen
\* since the last invalidate, unless it is empty.
Holds(s, i) ==
  /\ i \in s.first..Len(s.seen) /\ s.seen[i].at = s.cache.at
  /\ s.cache.found = DiscoverRecipes(s.seen[i].disk, s.cache.dirs)
Shape(c, q, n, a) == [cache |-> c, seen |-> q, first |-> n, asked |-> a]
Kept(s, Texts) ==
  /\ s = Shape(s.cache, s.seen, s.first, s.asked)
  /\ s.cache = [dirs |-> s.cache.dirs, found |-> s.cache.found, at |-> s.cache.at]
  /\ s.seen \in Seq([disk : Texts, at : Nat]) /\ s.first \in 1..Len(s.seen)
  /\ (s.cache.dirs = <<>> /\ s.cache.found = <<>>) \/ \E i \in s.first..Len(s.seen) : Holds(s, i)

\* Each call keeps the cache an answer to what the process has seen.
LEMMA KeptByEach ==
  ASSUME NEW Texts, NEW s, Kept(s, Texts), NEW op, Happens(op, Texts), NEW ttl, NEW t, t = After(s, op, ttl)
  PROVE  Kept(t, Texts)
<1> DEFINE now == Last(s.seen)
<1>0. s.seen \in Seq([disk : Texts, at : Nat]) /\ s.first \in 1..Len(s.seen)
  BY DEF Kept
<1>1. now = s.seen[Len(s.seen)] /\ now \in [disk : Texts, at : Nat]
  BY <1>0, LastOf
<1> HIDE DEF now
<1>2. CASE op.do = "get"
  <2> DEFINE c == GetOrDiscover(s.cache, now.disk, op.dirs, now.at, ttl)
  <2>1. t = [s EXCEPT !.cache = c, !.asked = op.dirs]
    BY <1>2, Zenon DEF After, now
  <2>2. c = s.cache \/ c = [dirs |-> op.dirs, found |-> DiscoverRecipes(now.disk, op.dirs), at |-> now.at]
    BY Zenon DEF GetOrDiscover
  <2> HIDE DEF c
  <2>3. t = Shape(c, s.seen, s.first, op.dirs)
    BY <2>1 DEF Kept, Shape
  <2>4. t.cache = c /\ t.seen = s.seen /\ t.first = s.first /\ t.asked = op.dirs
    BY <2>3 DEF Shape
  <2>5. CASE c = s.cache
    BY <2>3, <2>4, <2>5 DEF Kept, Holds
  <2>6. CASE c = [dirs |-> op.dirs, found |-> DiscoverRecipes(now.disk, op.dirs), at |-> now.at]
    <3>1. c.dirs = op.dirs /\ c.found = DiscoverRecipes(now.disk, op.dirs) /\ c.at = now.at
      BY <2>6
    <3>2. Len(s.seen) \in s.first..Len(s.seen)
      BY DEF Kept
    <3>3. Holds(t, Len(s.seen))
      BY <1>1, <2>4, <3>1, <3>2 DEF Holds
    <3>4. c = [dirs |-> c.dirs, found |-> c.found, at |-> c.at]
      BY <2>6, <3>1
    <3> QED
      BY <2>3, <2>4, <3>2, <3>3, <3>4 DEF Kept
  <2> QED
    BY <2>2, <2>5, <2>6
<1>3. CASE op.do = "invalidate"
  <2>1. t = [s EXCEPT !.cache = Invalidate(s.cache), !.first = Len(s.seen), !.asked = <<>>]
    BY <1>3, Zenon DEF After
  <2>2. t = Shape(Invalidate(s.cache), s.seen, Len(s.seen), <<>>)
    BY <2>1 DEF Kept, Shape
  <2>3. /\ t.cache = Invalidate(s.cache) /\ t.seen = s.seen /\ t.first = Len(s.seen) /\ t.asked = <<>>
    BY <2>2 DEF Shape
  <2>4. t.cache = [dirs |-> <<>>, found |-> <<>>, at |-> s.cache.at]
    BY <2>3 DEF Kept, Invalidate
  <2>5. t.cache.dirs = <<>> /\ t.cache.found = <<>> /\ t.cache.at = s.cache.at
    BY <2>4
  <2>6. t.seen \in Seq([disk : Texts, at : Nat]) /\ t.first \in 1..Len(t.seen)
    BY <2>3 DEF Kept
  <2> QED
    BY <2>2, <2>3, <2>4, <2>5, <2>6 DEF Kept
<1>4. ASSUME NEW next \in [disk : Texts, at : Nat], t = [s EXCEPT !.seen = Append(s.seen, next)]
      PROVE  Kept(t, Texts)
  <2>1. t = Shape(s.cache, Append(s.seen, next), s.first, s.asked)
    BY <1>4 DEF Kept, Shape
  <2>2. t.cache = s.cache /\ t.seen = Append(s.seen, next) /\ t.first = s.first /\ t.asked = s.asked
    BY <2>1 DEF Shape
  <2>3. /\ t.seen \in Seq([disk : Texts, at : Nat]) /\ Len(t.seen) = Len(s.seen) + 1
        /\ \A i \in 1..Len(s.seen) : t.seen[i] = s.seen[i]
    BY <2>2 DEF Kept
  <2>4. ASSUME NEW i \in s.first..Len(s.seen), Holds(s, i) PROVE i \in t.first..Len(t.seen) /\ Holds(t, i)
    <3>1. i \in t.first..Len(t.seen) /\ t.seen[i] = s.seen[i]
      BY <2>2, <2>3 DEF Kept
    <3> QED
      BY <2>2, <2>4, <3>1 DEF Holds
  <2>5. t.first \in 1..Len(t.seen)
    BY <2>2, <2>3 DEF Kept
  <2> QED
    BY <2>1, <2>2, <2>3, <2>4, <2>5 DEF Kept
<1>5. CASE op.do = "write" /\ op.disk \in Texts
  <2>1. t = [s EXCEPT !.seen = Append(s.seen, [now EXCEPT !.disk = op.disk])]
    BY <1>5, Zenon DEF After, now
  <2>2. [now EXCEPT !.disk = op.disk] \in [disk : Texts, at : Nat]
    BY <1>1, <1>5
  <2> QED
    BY <1>4, <2>1, <2>2
<1>6. CASE op.do = "wait"
  <2>1. t = [s EXCEPT !.seen = Append(s.seen, [now EXCEPT !.at = now.at + 1])]
    BY <1>6, Zenon DEF After, now
  <2>2. [now EXCEPT !.at = now.at + 1] \in [disk : Texts, at : Nat]
    BY <1>1
  <2> QED
    BY <1>4, <2>1, <2>2
<1> QED
  BY <1>2, <1>3, <1>5, <1>6 DEF Happens

\* Whatever a process does with the cache and whatever happens to the disk meanwhile, a
\* get answers what the directories it asks for held less than the time to live ago and
\* since the last invalidate, or hold now (get_or_discover, invalidate).
THEOREM CacheAnswersAreRecent ==
  ASSUME NEW Texts, {} \in Texts, NEW ops, Len(ops) \in Nat \ {0}, NEW ttl \in Int,
         \A i \in 1..Len(ops) : Happens(ops[i], Texts)
  PROVE  CacheIsRecent(ops, ttl)
<1> DEFINE m == Len(ops)
           s == Play(ops, ttl)
           n == Len(s.seen)
<1>1. PICK f : Goes(f, ops, ttl, m) /\ s = f[m]
  BY PlayGoes
<1>2. \A i \in 0..m : Kept(f[i], Texts)
  <2> DEFINE T == {i \in Nat : i <= m /\ ~Kept(f[i], Texts)}
  <2> SUFFICES ASSUME T # {} PROVE FALSE
    OBVIOUS
  <2>1. PICK i \in T : \A y \in T : i <= y
    <3>1. T \subseteq Nat
      OBVIOUS
    <3> HIDE DEF T
    <3> QED
      BY <3>1, Smallest
  <2>2. CASE i = 0
    <3>1. f[0] = Shape([dirs |-> <<>>, found |-> <<>>, at |-> 0], <<[disk |-> {}, at |-> 0]>>, 1, <<>>)
      BY <1>1 DEF Goes, Shape, Started, NoCache
    <3> DEFINE z == f[0]
    <3>2. /\ z.cache = [dirs |-> <<>>, found |-> <<>>, at |-> 0] /\ z.first = 1 /\ z.asked = <<>>
          /\ z.seen = <<[disk |-> {}, at |-> 0]>> /\ z = Shape(z.cache, z.seen, z.first, z.asked)
      <4>1. z = Shape([dirs |-> <<>>, found |-> <<>>, at |-> 0], <<[disk |-> {}, at |-> 0]>>, 1, <<>>)
        BY <3>1
      <4> HIDE DEF z
      <4> QED
        BY <4>1 DEF Shape
    <3> HIDE DEF z
    <3>3. z.cache.dirs = <<>> /\ z.cache.found = <<>> /\ z.cache.at = 0
      BY <3>2
    <3>4. z.seen \in Seq([disk : Texts, at : Nat]) /\ z.first \in 1..Len(z.seen)
      BY <3>2
    <3> QED
      BY <2>1, <2>2, <3>2, <3>3, <3>4 DEF Kept, z
  <2>3. CASE i # 0
    <3>1. i - 1 \in Nat /\ i - 1 <= m /\ i - 1 \notin T /\ i \in 1..m
      BY <2>1, <2>3
    <3>2. Kept(f[i - 1], Texts) /\ Happens(ops[i], Texts) /\ f[i] = After(f[i - 1], ops[i], ttl)
      BY <1>1, <3>1 DEF Goes
    <3>3. Kept(f[i], Texts)
      BY <3>2, KeptByEach
    <3> QED
      BY <2>1, <3>3
  <2> QED
    BY <2>2, <2>3
<1>3. SUFFICES ASSUME Last(ops).do = "get"
      PROVE  \E i \in s.first..n : /\ i = n \/ s.seen[n].at - s.seen[i].at < ttl
                                   /\ s.cache.found = DiscoverRecipes(s.seen[i].disk, s.asked)
  BY Zenon DEF CacheIsRecent
<1> DEFINE r == f[m - 1]
           op == ops[m]
           now == Last(r.seen)
           c == GetOrDiscover(r.cache, now.disk, op.dirs, now.at, ttl)
<1>4. Kept(r, Texts) /\ s = After(r, op, ttl)
  <2>1. m \in 1..m /\ m - 1 \in 0..m
    OBVIOUS
  <2>2. f[m] = After(f[m - 1], ops[m], ttl)
    BY <1>1, <2>1 DEF Goes
  <2>3. Kept(f[m - 1], Texts)
    BY <1>2, <2>1
  <2> QED
    BY <1>1, <2>2, <2>3, Zenon
<1>5. op.do = "get"
  BY <1>3, Zenon DEF Last
<1> HIDE DEF r, op, s
<1>6. s = [r EXCEPT !.cache = c, !.asked = op.dirs]
  BY <1>4, <1>5, Zenon DEF After
<1> HIDE DEF c
<1>7. s.cache = c /\ s.seen = r.seen /\ s.first = r.first /\ s.asked = op.dirs
  <2>1. s = Shape(c, r.seen, r.first, op.dirs)
    BY <1>4, <1>6 DEF Kept, Shape
  <2> QED
    BY <2>1 DEF Shape
<1>8. /\ n \in Nat /\ n \in r.first..n /\ now = r.seen[n] /\ r.first \in 1..n
      /\ \A i \in 1..n : r.seen[i].at \in Nat
  <2>1. r.seen \in Seq([disk : Texts, at : Nat]) /\ r.first \in 1..Len(r.seen)
    BY <1>4 DEF Kept
  <2>2. n = Len(r.seen)
    BY <1>7
  <2>3. n \in Nat /\ n \in r.first..n /\ now = r.seen[n]
    BY <2>1, <2>2, LastOf
  <2>4. \A i \in 1..n : r.seen[i] \in [disk : Texts, at : Nat]
    BY <2>1, <2>2, ElementOf
  <2> HIDE DEF n, now
  <2> QED
    BY <2>1, <2>2, <2>3, <2>4
<1>9. CASE Miss(r.cache, op.dirs, now.at, ttl)
  <2>1. c = [dirs |-> op.dirs, found |-> DiscoverRecipes(now.disk, op.dirs), at |-> now.at]
    BY <1>9, Zenon DEF c, GetOrDiscover
  <2>2. c.found = DiscoverRecipes(now.disk, op.dirs)
    BY <2>1
  <2> HIDE DEF n, now
  <2> QED
    BY <1>7, <1>8, <2>2
<1>10. CASE ~Miss(r.cache, op.dirs, now.at, ttl)
  <2>1. c = r.cache
    BY <1>10, Zenon DEF c, GetOrDiscover
  <2>2. r.cache.dirs = op.dirs /\ ~(r.cache.dirs = <<>> /\ r.cache.found = <<>>)
    BY <1>10, Zenon DEF Miss
  <2>3. PICK i \in r.first..n : Holds(r, i)
    BY <1>4, <1>7, <2>2 DEF Kept
  <2>4. ~(now.at - r.cache.at >= ttl)
    BY <1>10, Zenon DEF Miss
  <2>5. r.seen[n].at - r.seen[i].at < ttl
    <3>1. i \in 1..n
      BY <1>8, <2>3
    <3>2. r.seen[i].at = r.cache.at
      BY <2>3 DEF Holds
    <3> HIDE DEF n, now
    <3> QED
      BY <1>8, <2>4, <3>1, <3>2
  <2>6. s.cache.found = DiscoverRecipes(s.seen[i].disk, s.asked)
    BY <1>7, <2>1, <2>2, <2>3 DEF Holds
  <2> HIDE DEF n, now
  <2> QED
    BY <1>7, <2>3, <2>5, <2>6
<1> QED
  BY <1>9, <1>10

\* The parts of a sequence of sequences put together one after the other.
Both(p, q) == p \o q
Parts(f, ss, m) ==
  /\ f = [i \in 1..m |-> f[i]] /\ f[1] = ss[1]
  /\ \A i \in 2..m : f[i] = Both(f[i - 1], ss[i])

\* Any number of parts can be put together one after the other.
LEMMA PartsThere ==
  ASSUME NEW ss, NEW m \in Nat \ {0}
  PROVE  \E f : Parts(f, ss, m)
<1> DEFINE T == {k \in Nat : k # 0 /\ k <= m /\ ~ \E f : Parts(f, ss, k)}
<1> SUFFICES ASSUME T # {} PROVE FALSE
  OBVIOUS
<1>1. PICK k \in T : \A y \in T : k <= y
  <2>1. T \subseteq Nat
    OBVIOUS
  <2> HIDE DEF T
  <2> QED
    BY <2>1, Smallest
<1>2. k # 1
  <2>1. Parts([i \in 1..1 |-> ss[1]], ss, 1)
    BY DEF Parts
  <2> QED
    BY <2>1, <1>1
<1>3. PICK f : Parts(f, ss, k - 1)
  BY <1>1, <1>2
<1> DEFINE v == Both(f[k - 1], ss[k])
           g == [i \in 1..k |-> IF i = k THEN v ELSE f[i]]
<1>4. Parts(g, ss, k)
  <2>1. g[1] = ss[1] /\ g = [i \in 1..k |-> g[i]]
    BY <1>1, <1>2, <1>3 DEF Parts
  <2>2. ASSUME NEW i \in 2..k PROVE g[i] = Both(g[i - 1], ss[i])
    <3>1. g[i - 1] = f[i - 1]
      BY <1>1, <2>2
    <3>2. CASE i = k
      <4>1. g[i] = v
        BY <2>2, <3>2
      <4> HIDE DEF g
      <4> QED
        BY <3>1, <3>2, <4>1, Zenon
    <3>3. CASE i # k
      <4>1. g[i] = f[i] /\ i \in 2..(k - 1)
        BY <1>1, <2>2, <3>3
      <4>2. f[i] = Both(f[i - 1], ss[i])
        BY <1>3, <4>1 DEF Parts
      <4> HIDE DEF g
      <4> QED
        BY <3>1, <4>1, <4>2, Zenon
    <3> QED
      BY <3>2, <3>3
  <2> HIDE DEF g
  <2> QED
    BY <2>1, <2>2 DEF Parts
<1> QED
  BY <1>1, <1>4

\* That is what FlattenSeq does.
LEMMA FlattenParts ==
  ASSUME NEW ss, Len(ss) \in Nat \ {0}
  PROVE  \E f : Parts(f, ss, Len(ss)) /\ FlattenSeq(ss) = f[Len(ss)]
<1> DEFINE m == Len(ss)
           Is(f) == f = [i \in 1..m |-> IF i = 1 THEN ss[i] ELSE Both(f[i - 1], ss[i])]
           g == CHOOSE g : Is(g)
<1>1. PICK f : Parts(f, ss, m)
  BY PartsThere
<1>2. Is(f)
  <2>1. f = [i \in 1..m |-> f[i]]
    BY <1>1 DEF Parts
  <2>2. \A i \in 1..m : f[i] = IF i = 1 THEN ss[i] ELSE Both(f[i - 1], ss[i])
    <3>1. f[1] = ss[1] /\ \A i \in 2..m : f[i] = Both(f[i - 1], ss[i])
      BY <1>1 DEF Parts
    <3>2. \A i \in 1..m : i = 1 \/ (i # 1 /\ i \in 2..m)
      OBVIOUS
    <3> HIDE DEF m
    <3> QED
      BY <3>1, <3>2
  <2> HIDE DEF m
  <2> QED
    BY <2>1, <2>2
<1>3. Is(g) /\ FlattenSeq(ss) = g[m]
  BY <1>2, Zenon DEF FlattenSeq, Both
<1> HIDE DEF g
<1>4. Parts(g, ss, m)
  <2>1. g = [i \in 1..m |-> g[i]] /\ g[1] = ss[1]
    BY <1>3
  <2>2. \A i \in 2..m : g[i] = Both(g[i - 1], ss[i])
    BY <1>3
  <2> QED
    BY <2>1, <2>2 DEF Parts
<1> QED
  BY <1>3, <1>4

\* An element of one is an element of one of the parts, and the other way round.
InParts(x, ss, k) == \E b \in 1..k : \E i \in 1..Len(ss[b]) : x = ss[b][i]
Among(x, s) == \E n \in 1..Len(s) : x = s[n]

\* What is put together holds the elements of its parts, and no other.
LEMMA PartsHold ==
  ASSUME NEW S, NEW ss \in Seq(Seq(S)), NEW f, Parts(f, ss, Len(ss)), NEW k \in 1..Len(ss)
  PROVE  f[k] \in Seq(S) /\ \A x : Among(x, f[k]) <=> InParts(x, ss, k)
<1> DEFINE Good(i) == f[i] \in Seq(S) /\ \A x : Among(x, f[i]) <=> InParts(x, ss, i)
           T == {i \in Nat : i \in 1..Len(ss) /\ ~Good(i)}
<1> SUFFICES ASSUME T # {} PROVE FALSE
  OBVIOUS
<1>1. PICK j \in T : \A y \in T : j <= y
  <2>1. T \subseteq Nat
    OBVIOUS
  <2> HIDE DEF T
  <2> QED
    BY <2>1, Smallest
<1>2. CASE j = 1
  <2>1. f[1] = ss[1] /\ ss[1] \in Seq(S)
    BY <1>1, <1>2 DEF Parts
  <2>2. \A x : Among(x, f[1]) <=> InParts(x, ss, 1)
    BY <2>1 DEF Among, InParts
  <2> QED
    BY <1>1, <1>2, <2>1, <2>2
<1>3. CASE j # 1
  <2>1. j - 1 \in 1..Len(ss) /\ j - 1 \notin T /\ j \in 2..Len(ss)
    BY <1>1, <1>3
  <2>2. Good(j - 1)
    BY <2>1
  <2>3. f[j] = f[j - 1] \o ss[j]
    BY <2>1 DEF Parts, Both
  <2> DEFINE p == f[j - 1]
             q == ss[j]
  <2>4. p \in Seq(S) /\ q \in Seq(S) /\ f[j] = p \o q
    BY <2>1, <2>2, <2>3
  <2> HIDE DEF p, q
  <2>5. \A x : Among(x, f[j]) <=> Among(x, p) \/ Among(x, q)
    <3>1. /\ Len(p \o q) = Len(p) + Len(q)
          /\ \A n \in 1..Len(p) : (p \o q)[n] = p[n]
          /\ \A n \in 1..Len(q) : (p \o q)[Len(p) + n] = q[n]
      BY <2>4
    <3>2. \A n \in 1..Len(p \o q) : n \in 1..Len(p) \/ (n - Len(p) \in 1..Len(q) /\ Len(p) + (n - Len(p)) = n)
      BY <2>4, <3>1
    <3>3. ASSUME NEW x, Among(x, p \o q) PROVE Among(x, p) \/ Among(x, q)
      <4>1. PICK n \in 1..Len(p \o q) : x = (p \o q)[n]
        BY <3>3 DEF Among
      <4>2. CASE n \in 1..Len(p)
        BY <3>1, <4>1, <4>2 DEF Among
      <4>3. CASE n - Len(p) \in 1..Len(q) /\ Len(p) + (n - Len(p)) = n
        BY <3>1, <4>1, <4>3 DEF Among
      <4> QED
        BY <3>2, <4>2, <4>3
    <3>4. ASSUME NEW x, Among(x, p) PROVE Among(x, p \o q)
      BY <2>4, <3>1, <3>4 DEF Among
    <3>5. ASSUME NEW x, Among(x, q) PROVE Among(x, p \o q)
      <4>1. PICK n \in 1..Len(q) : x = q[n]
        BY <3>5 DEF Among
      <4>2. Len(p) + n \in 1..Len(p \o q)
        BY <2>4, <3>1
      <4> QED
        BY <3>1, <4>1, <4>2 DEF Among
    <3> QED
      BY <2>4, <3>3, <3>4, <3>5
  <2>6. \A x : Among(x, p) <=> InParts(x, ss, j - 1)
    BY <2>2 DEF p
  <2>7. \A x : InParts(x, ss, j) <=> InParts(x, ss, j - 1) \/ Among(x, q)
    <3>1. \A b : b \in 1..j <=> b \in 1..(j - 1) \/ b = j
      BY <2>1
    <3> QED
      BY <3>1, Zenon DEF InParts, Among, q
  <2>8. f[j] \in Seq(S)
    BY <2>4
  <2> QED
    BY <1>1, <2>5, <2>6, <2>7, <2>8
<1> QED
  BY <1>2, <1>3

\* So does a sequence of sequences made one.
LEMMA FlattenHolds ==
  ASSUME NEW S, NEW ss \in Seq(Seq(S)), ss # <<>>
  PROVE  FlattenSeq(ss) \in Seq(S) /\ \A x : Among(x, FlattenSeq(ss)) <=> InParts(x, ss, Len(ss))
<1>1. Len(ss) \in Nat \ {0} /\ Len(ss) \in 1..Len(ss)
  OBVIOUS
<1>2. PICK f : Parts(f, ss, Len(ss)) /\ FlattenSeq(ss) = f[Len(ss)]
  BY <1>1, FlattenParts
<1> QED
  BY <1>1, <1>2, PartsHold

\* An agent definition is found exactly if the reference is a valid one and there is one
\* that can be read inside the search path it lies under, and what is found is such a one:
\* no definition that lies outside or cannot be read hides it (resolve).
THEOREM AgentsAreWithinRoots ==
  ASSUME NEW held, NEW ref, NEW bases \in Seq(STRING)
  PROVE  AgentWithinRoots(held, ref, bases)
<1> DEFINE parts == Split(ref, ":")
           dirs == AgentDirs(parts)
           ss == [b \in 1..Len(bases) |->
                   [i \in 1..Len(dirs) |-> <<bases[b], Under(bases[b], dirs[i])>>]]
           tried == FlattenSeq(ss)
           hits(n) == {f \in held : /\ f.dir = tried[n][2] /\ f.stem = Last(parts) /\ f.ext = "md"
                                    /\ WithinAny(f, <<tried[n][1]>>) /\ f.hash # ""}
           I == {n \in 1..Len(tried) : hits(n) # {}}
           first == CHOOSE n \in I : \A m \in I : n <= m
           file == CHOOSE f \in hits(first) : TRUE
           valid == Len(parts) \in 2..3 /\ \A i \in 1..Len(parts) : SubRecipeName(parts[i])
           hit == ResolveAgent(held, ref, bases)
           fit == {f \in held : /\ f.stem = Last(parts) /\ f.ext = "md" /\ f.hash # ""
                                /\ \E b \in Range(bases), d \in Range(dirs) :
                                     f.dir = Under(b, d) /\ Inside(f, <<b>>)}
<1>1. hit = IF ~valid \/ I = {} THEN Nothing ELSE Hit(file)
  <2> DEFINE bad == Len(parts) \notin 2..3 \/ (\E i \in 1..Len(parts) : ~SubRecipeName(parts[i])) \/ I = {}
  <2>1. hit = IF bad THEN Nothing ELSE Hit(file)
    BY Zenon DEF ResolveAgent
  <2>2. bad <=> ~valid \/ I = {}
    <3> HIDE DEF I, parts
    <3> QED
      BY Zenon
  <2> HIDE DEF hit, bad, valid, I, file
  <2> QED
    BY <2>1, <2>2
<1>2. AgentWithinRoots(held, ref, bases) <=>
        IF valid /\ fit # {} THEN hit.found /\ hit.file \in fit ELSE ~hit.found
  BY Zenon DEF AgentWithinRoots
<1>3. PICK X : dirs \in Seq(X)
  <2> DEFINE a == parts[1] \o "/" \o parts[2]
             b == parts[2]
             c == parts[1] \o "/core"
             d == parts[1] \o "/specialized"
             named == IF Len(parts) = 3 THEN <<a, b>> ELSE <<>>
             X == {a, b, c, d, "core", "specialized", ""}
  <2>1. dirs = named \o <<c, d, "core", "specialized", "">>
    BY Zenon DEF AgentDirs
  <2> HIDE DEF a, b, c, d, dirs
  <2>2. <<c, d, "core", "specialized", "">> \in Seq(X)
    OBVIOUS
  <2>3. <<a, b>> \in Seq(X) /\ <<>> \in Seq(X)
    OBVIOUS
  <2>4. named \in Seq(X)
    <3> HIDE DEF X
    <3> QED
      BY <2>3
  <2> HIDE DEF named, X
  <2>5. dirs \in Seq(X)
    <3> DEFINE rest == <<c, d, "core", "specialized", "">>
    <3>1. dirs = named \o rest /\ rest \in Seq(X)
      BY <2>1, <2>2
    <3> HIDE DEF rest
    <3> QED
      BY <2>4, <3>1
  <2> QED
    BY <2>5
<1>4. Range(dirs) = {dirs[i] : i \in 1..Len(dirs)} /\ Range(bases) = {bases[i] : i \in 1..Len(bases)}
  <2> HIDE DEF dirs
  <2> QED
    BY <1>3 DEF Range
<1> DEFINE Place(b, i) == <<bases[b], Under(bases[b], dirs[i])>>
           Fits(f, t) == f.dir = t[2] /\ WithinAny(f, <<t[1]>>)
           Right(f) == f.stem = Last(parts) /\ f.ext = "md" /\ f.hash # ""
<1>5. \A x : Among(x, tried) <=> \E b \in 1..Len(bases), i \in 1..Len(dirs) : x = Place(b, i)
  <2> HIDE DEF dirs
  <2>1. Len(dirs) \in Nat /\ Len(bases) \in Nat
    BY <1>3
  <2> DEFINE P == {Place(b, i) : b \in 1..Len(bases), i \in 1..Len(dirs)}
  <2>2. ss \in Seq(Seq(P)) /\ Len(ss) = Len(bases)
    <3>1. ASSUME NEW b \in 1..Len(bases) PROVE ss[b] \in Seq(P)
      <4>1. ss[b] = [i \in 1..Len(dirs) |-> Place(b, i)]
        BY <3>1
      <4>2. \A i \in 1..Len(dirs) : Place(b, i) \in P
        BY <3>1
      <4> HIDE DEF P, ss, Place
      <4> QED
        BY <2>1, <4>1, <4>2
    <3>2. ss = [b \in 1..Len(bases) |-> ss[b]]
      BY Zenon
    <3> HIDE DEF P, ss
    <3> QED
      BY <2>1, <3>1, <3>2
  <2>3. \A b \in 1..Len(bases) : Len(ss[b]) = Len(dirs) /\ \A i \in 1..Len(dirs) : ss[b][i] = Place(b, i)
    BY <2>1
  <2>4. tried = FlattenSeq(ss)
    BY Zenon DEF FlattenSeq
  <2> HIDE DEF ss, tried, P, Place
  <2>5. CASE ss = <<>>
    <3>1. tried = <<>>
      BY <2>4, <2>5 DEF FlattenSeq
    <3>2. Len(bases) = 0 /\ Len(tried) = 0
      BY <2>2, <2>5, <3>1
    <3> QED
      BY <3>2 DEF Among
  <2>6. CASE ss # <<>>
    <3>1. \A x : Among(x, tried) <=> InParts(x, ss, Len(ss))
      BY <2>2, <2>4, <2>6, FlattenHolds
    <3>2. \A x : InParts(x, ss, Len(ss)) <=> \E b \in 1..Len(bases), i \in 1..Len(dirs) : x = Place(b, i)
      <4>1. ASSUME NEW x, InParts(x, ss, Len(ss)) PROVE \E b \in 1..Len(bases), i \in 1..Len(dirs) : x = Place(b, i)
        <5>1. PICK b \in 1..Len(ss) : \E i \in 1..Len(ss[b]) : x = ss[b][i]
          BY <4>1 DEF InParts
        <5>2. PICK i \in 1..Len(ss[b]) : x = ss[b][i]
          BY <5>1
        <5> QED
          BY <2>2, <2>3, <5>1, <5>2
      <4>2. ASSUME NEW b \in 1..Len(bases), NEW i \in 1..Len(dirs) PROVE InParts(Place(b, i), ss, Len(ss))
        <5>1. b \in 1..Len(ss) /\ i \in 1..Len(ss[b]) /\ Place(b, i) = ss[b][i]
          BY <2>2, <2>3
        <5> QED
          BY <5>1 DEF InParts
      <4> QED
        BY <4>1, <4>2
    <3> QED
      BY <3>1, <3>2
  <2> QED
    BY <2>5, <2>6
<1>6. \A f : f \in fit <=> f \in held /\ Right(f) /\ \E b \in 1..Len(bases), i \in 1..Len(dirs) : Fits(f, Place(b, i))
  <2>1. \A f, b : Inside(f, <<b>>) <=> WithinAny(f, <<b>>)
    BY Zenon DEF Inside, WithinAny
  <2>2. \A b, i : Place(b, i)[1] = bases[b] /\ Place(b, i)[2] = Under(bases[b], dirs[i])
    OBVIOUS
  <2>3. \A f, b, i : Fits(f, Place(b, i)) <=>
          f.dir = Under(bases[b], dirs[i]) /\ Inside(f, <<bases[b]>>)
    <3> HIDE DEF Place
    <3> QED
      BY <2>1, <2>2
  <2>4. \A f : f \in fit <=> f \in held /\ Right(f) /\ \E b \in Range(bases), d \in Range(dirs) :
                                     f.dir = Under(b, d) /\ Inside(f, <<b>>)
    BY Zenon
  <2> HIDE DEF Place, Fits, dirs, fit, Right
  <2>5. ASSUME NEW f, NEW b \in Range(bases), NEW d \in Range(dirs),
               f.dir = Under(b, d), Inside(f, <<b>>)
        PROVE  \E k \in 1..Len(bases), i \in 1..Len(dirs) : Fits(f, Place(k, i))
    <3>1. PICK k \in 1..Len(bases) : b = bases[k]
      BY <1>4
    <3>2. PICK i \in 1..Len(dirs) : d = dirs[i]
      BY <1>4
    <3> QED
      BY <2>3, <2>5, <3>1, <3>2
  <2>6. ASSUME NEW f, NEW k \in 1..Len(bases), NEW i \in 1..Len(dirs), Fits(f, Place(k, i))
        PROVE  \E b \in Range(bases), d \in Range(dirs) :
                 f.dir = Under(b, d) /\ Inside(f, <<b>>)
    <3>1. bases[k] \in Range(bases) /\ dirs[i] \in Range(dirs)
      BY <1>4
    <3> QED
      BY <2>3, <2>6, <3>1
  <2> QED
    BY <2>4, <2>5, <2>6
<1>7. \A n, f : f \in hits(n) <=> f \in held /\ Right(f) /\ Fits(f, tried[n])
  BY Zenon
<1>8. \A n \in 1..Len(tried) : \A f \in hits(n) : f \in fit
  <2> SUFFICES ASSUME NEW n \in 1..Len(tried), NEW f \in hits(n) PROVE f \in fit
    OBVIOUS
  <2> HIDE DEF tried, dirs, fit, hits, Right, Fits, Place
  <2>1. Among(tried[n], tried)
    BY DEF Among
  <2>2. \E b \in 1..Len(bases), i \in 1..Len(dirs) : tried[n] = Place(b, i)
    BY <1>5, <2>1
  <2> QED
    BY <1>6, <1>7, <2>2
<1>9. \A f \in fit : \E n \in 1..Len(tried) : f \in hits(n)
  <2> SUFFICES ASSUME NEW f \in fit PROVE \E n \in 1..Len(tried) : f \in hits(n)
    OBVIOUS
  <2> HIDE DEF tried, dirs, fit, hits, Right, Fits, Place
  <2>1. PICK b \in 1..Len(bases), i \in 1..Len(dirs) : Fits(f, Place(b, i))
    BY <1>6
  <2>2. PICK n \in 1..Len(tried) : Place(b, i) = tried[n]
    <3>1. Among(Place(b, i), tried)
      BY <1>5
    <3> QED
      BY <3>1 DEF Among
  <2> QED
    BY <1>6, <1>7, <2>1, <2>2
<1>10. I = {} <=> fit = {}
  <2> HIDE DEF tried, dirs, fit, hits
  <2> QED
    BY <1>8, <1>9
<1>11. I # {} => file \in fit
  <2> SUFFICES ASSUME I # {} PROVE file \in fit
    OBVIOUS
  <2>1. first \in I
    <3>1. I \subseteq Nat
      <4> HIDE DEF hits, tried
      <4> QED
        OBVIOUS
    <3> HIDE DEF I
    <3> QED
      BY <3>1, LeastChosen
  <2> HIDE DEF first, hits, tried, fit
  <2>2. file \in hits(first)
    BY <2>1
  <2> QED
    BY <1>8, <2>1, <2>2
<1>12. Nothing.found = FALSE /\ Hit(file).found = TRUE /\ Hit(file).file = file
  <2> HIDE DEF file
  <2> QED
    BY DEF Nothing, Hit
<1> HIDE DEF hit, I, fit, file, valid
<1> QED
  BY <1>1, <1>2, <1>10, <1>11, <1>12

\* A text is its characters, and a character has its own code.
Spelled(T) ==
  /\ \A s \in T : Len(s) \in Nat
  /\ \A s \in T, i \in Nat : Code(Char(s, i)) \in Nat
  /\ \A s, t \in T, i \in Nat : Code(Char(s, i)) = Code(Char(t, i)) => Char(s, i) = Char(t, i)
  /\ \A s, t \in T : (\A i \in 1..(Len(s) + Len(t)) : Char(s, i) = Char(t, i)) => s = t

\* Two texts part at a place: they have the same characters up to it, and not there.
PartAt(s, t, i) ==
  i \in Nat \ {0} /\ Char(s, i) # Char(t, i) /\ \A j \in 1..(i - 1) : Char(s, j) = Char(t, j)

\* The code there decides which comes first.
LEMMA OrderAt ==
  ASSUME NEW s, NEW t, Len(s) \in Nat, Len(t) \in Nat, NEW i, PartAt(s, t, i)
  PROVE  Order(s, t) = IF Code(Char(s, i)) < Code(Char(t, i)) THEN -1 ELSE 1
<1> DEFINE D == {k \in 1..(Len(s) + Len(t)) : Char(s, k) # Char(t, k)}
           first == CHOOSE k \in D : \A j \in D : k <= j
<1>1. i \in D
  <2>1. i \in 1..Len(s) \/ i \in 1..Len(t)
    <3>1. \A x : i \notin 1..Len(x) => Char(x, i) = ""
      BY Zenon DEF Char
    <3> QED
      BY <3>1, Zenon DEF PartAt
  <2>2. i \in 1..(Len(s) + Len(t))
    BY <2>1
  <2> QED
    BY <2>2, Zenon DEF PartAt
<1>2. D \subseteq Nat
  OBVIOUS
<1>3. first \in D /\ first <= i
  <2> HIDE DEF D
  <2> QED
    BY <1>1, <1>2, LeastChosen
<1>4. \A j \in 1..(i - 1) : j \notin D
  BY Zenon DEF PartAt
<1>5. first = i
  <2>1. first \in Nat /\ first >= 1 /\ i \in Nat
    BY <1>1, <1>3
  <2> HIDE DEF first, D
  <2> QED
    BY <1>3, <1>4, <2>1
<1>6. s # t
  BY Zenon DEF PartAt
<1>7. Order(s, t) = IF s = t THEN 0 ELSE IF Code(Char(s, first)) < Code(Char(t, first)) THEN -1 ELSE 1
  BY Zenon DEF Order
<1> HIDE DEF first
<1> QED
  BY <1>5, <1>6, <1>7

\* Two different texts part somewhere, and there they have different codes.
LEMMA TextsPart ==
  ASSUME NEW T, Spelled(T), NEW s \in T, NEW t \in T, s # t
  PROVE  \E i : PartAt(s, t, i)
<1> DEFINE D == {k \in 1..(Len(s) + Len(t)) : Char(s, k) # Char(t, k)}
<1>1. Len(s) \in Nat /\ Len(t) \in Nat
  BY Zenon DEF Spelled
<1>2. D # {}
  <2>1. \E i \in 1..(Len(s) + Len(t)) : Char(s, i) # Char(t, i)
    BY Zenon DEF Spelled
  <2> QED
    BY <2>1, Zenon
<1>3. D \subseteq Nat
  OBVIOUS
<1>4. PICK i \in D : \A y \in D : i <= y
  <2> HIDE DEF D
  <2> QED
    BY <1>2, <1>3, Smallest
<1>5. i \in Nat \ {0} /\ i \in 1..(Len(s) + Len(t)) /\ Char(s, i) # Char(t, i)
  BY <1>1, <1>4
<1>6. ASSUME NEW j \in 1..(i - 1) PROVE Char(s, j) = Char(t, j)
  <2>1. j \in 1..(Len(s) + Len(t)) /\ ~(i <= j)
    BY <1>1, <1>5
  <2> QED
    BY <1>4, <2>1
<1> QED
  BY <1>5, <1>6, Zenon DEF PartAt

\* So texts are in order.
LEMMA TextsInOrder ==
  ASSUME NEW T, Spelled(T)
  PROVE  /\ \A s, t \in T : s # t => (Order(s, t) = -1 \/ Order(t, s) = -1)
         /\ \A s, t \in T : Order(s, t) = -1 => Order(t, s) # -1
         /\ \A s, t, u \in T : Order(s, t) = -1 /\ Order(t, u) = -1 => Order(s, u) = -1
<1> DEFINE C(s, i) == Code(Char(s, i))
<1>1. \A s \in T : Len(s) \in Nat
  BY Zenon DEF Spelled
<1>2. \A s \in T, i \in Nat : C(s, i) \in Nat
  BY Zenon DEF Spelled
<1>3. \A s, t \in T, i \in Nat : C(s, i) = C(t, i) => Char(s, i) = Char(t, i)
  BY Zenon DEF Spelled
<1>4. \A s : Order(s, s) = 0
  BY Zenon DEF Order
<1>5. ASSUME NEW s \in T, NEW t \in T, NEW i, PartAt(s, t, i)
      PROVE  /\ i \in Nat \ {0} /\ C(s, i) \in Nat /\ C(t, i) \in Nat /\ C(s, i) # C(t, i)
             /\ Order(s, t) = -1 <=> C(s, i) < C(t, i)
  <2>1. i \in Nat \ {0} /\ Char(s, i) # Char(t, i)
    BY <1>5, Zenon DEF PartAt
  <2>2. i \in Nat
    BY <2>1
  <2>3. C(s, i) \in Nat /\ C(t, i) \in Nat /\ C(s, i) # C(t, i)
    BY <1>2, <1>3, <2>1, <2>2, Zenon
  <2>4. Order(s, t) = IF C(s, i) < C(t, i) THEN -1 ELSE 1
    BY <1>1, <1>5, OrderAt, Zenon
  <2> HIDE DEF C
  <2> QED
    BY <2>1, <2>3, <2>4
<1> HIDE DEF C
<1>6. ASSUME NEW s \in T, NEW t \in T, s # t
      PROVE  Order(s, t) = -1 <=> Order(t, s) # -1
  <2>1. PICK i : PartAt(s, t, i)
    BY <1>6, TextsPart, Zenon
  <2>2. PartAt(t, s, i)
    BY <2>1, Zenon DEF PartAt
  <2> QED
    BY <1>5, <2>1, <2>2
<1>7. ASSUME NEW s \in T, NEW t \in T, NEW u \in T, Order(s, t) = -1, Order(t, u) = -1
      PROVE  Order(s, u) = -1
  <2>1. s # t /\ t # u
    BY <1>4, <1>7
  <2>2. PICK i : PartAt(s, t, i)
    BY <2>1, TextsPart, Zenon
  <2>3. PICK j : PartAt(t, u, j)
    BY <2>1, TextsPart, Zenon
  <2>4. i \in Nat \ {0} /\ C(s, i) \in Nat /\ C(t, i) \in Nat /\ C(s, i) < C(t, i)
    BY <1>5, <1>7, <2>2
  <2>5. j \in Nat \ {0} /\ C(t, j) \in Nat /\ C(u, j) \in Nat /\ C(t, j) < C(u, j)
    BY <1>5, <1>7, <2>3
  <2>6. \A k \in 1..(i - 1) : Char(s, k) = Char(t, k)
    BY <2>2, Zenon DEF PartAt
  <2>7. \A k \in 1..(j - 1) : Char(t, k) = Char(u, k)
    BY <2>3, Zenon DEF PartAt
  <2>8. \A x, y, k : Char(x, k) = Char(y, k) => C(x, k) = C(y, k)
    BY Zenon DEF C
  <2> DEFINE k == IF i < j THEN i ELSE j
  <2>9. k \in Nat \ {0} /\ k <= i /\ k <= j /\ (k = i \/ k = j)
    BY <2>4, <2>5
  <2> HIDE DEF k
  <2>10. C(s, k) \in Nat /\ C(u, k) \in Nat /\ C(s, k) < C(u, k)
    <3>1. CASE i < j
      <4>1. k = i /\ i \in 1..(j - 1)
        BY <2>4, <2>5, <3>1 DEF k
      <4>2. C(u, i) = C(t, i)
        BY <2>7, <2>8, <4>1
      <4> QED
        BY <2>4, <4>1, <4>2
    <3>2. CASE j < i
      <4>1. k = j /\ j \in 1..(i - 1)
        BY <2>4, <2>5, <3>2 DEF k
      <4>2. C(s, j) = C(t, j)
        BY <2>6, <2>8, <4>1
      <4> QED
        BY <2>5, <4>1, <4>2
    <3>3. CASE i = j
      BY <2>4, <2>5, <3>3 DEF k
    <3> QED
      BY <2>4, <2>5, <3>1, <3>2, <3>3
  <2>11. PartAt(s, u, k)
    <3>1. C(s, k) # C(u, k)
      BY <2>10
    <3>2. Char(s, k) # Char(u, k)
      BY <2>8, <3>1
    <3>3. ASSUME NEW a \in 1..(k - 1) PROVE Char(s, a) = Char(u, a)
      <4>1. a \in 1..(i - 1) /\ a \in 1..(j - 1)
        BY <2>4, <2>5, <2>9
      <4> QED
        BY <2>6, <2>7, <4>1
    <3> QED
      BY <2>9, <3>2, <3>3, Zenon DEF PartAt
  <2> QED
    BY <1>5, <2>10, <2>11
<1>8. ASSUME NEW s \in T, NEW t \in T, Order(s, t) = -1 PROVE Order(t, s) # -1
  <2>1. s # t
    BY <1>4, <1>8
  <2> QED
    BY <1>6, <1>8, <2>1
<1> QED
  BY <1>6, <1>7, <1>8

\* The stems of a disk are texts, and .yaml comes before .yml.
Alphabetical(held) ==
  /\ Spelled({f.stem : f \in held})
  /\ Order("yaml", "yml") = -1 /\ Order("yml", "yaml") = 1

\* The recipe files of a directory stand in one order.
LEMMA BeforeOrders ==
  ASSUME NEW held, NEW d, OneFileEach(held), Alphabetical(held)
  PROVE  LET S == RecipesIn(held, d)
         IN  /\ \A f, g \in S : f # g => Before(f, g) \/ Before(g, f)
             /\ \A f, g \in S : Before(f, g) => ~Before(g, f)
             /\ \A f, g, h \in S : Before(f, g) /\ Before(g, h) => Before(f, h)
<1> DEFINE S == RecipesIn(held, d)
           T == {f.stem : f \in held}
           E == {"yaml", "yml"}
<1>1. \A f \in S : f \in held /\ f.stem \in T /\ f.dir = d /\ f.ext \in E
  BY DEF RecipesIn
<1>2. \A s : Order(s, s) = 0
  BY Zenon DEF Order
<1>3. \A s, t \in T : s # t => (Order(s, t) = -1 \/ Order(t, s) = -1)
  BY TextsInOrder, Zenon DEF Alphabetical
<1>4. \A s, t \in T : Order(s, t) = -1 => Order(t, s) # -1
  BY TextsInOrder, Zenon DEF Alphabetical
<1>5. \A s, t, u \in T : Order(s, t) = -1 /\ Order(t, u) = -1 => Order(s, u) = -1
  BY TextsInOrder, Zenon DEF Alphabetical
<1>6. Order("yaml", "yml") = -1 /\ Order("yml", "yaml") = 1
  BY Zenon DEF Alphabetical
<1>7. \A x, y \in E : Order(x, y) = 1 <=> x = "yml" /\ y = "yaml"
  BY <1>2, <1>6
<1>8. \A f, g \in S : f.stem = g.stem /\ f.ext = g.ext => f = g
  BY <1>1, Zenon DEF OneFileEach
<1> HIDE DEF S, T, E
<1>9. \A f, g \in S : Before(f, g) <=>
        \/ Order(f.stem, g.stem) = -1
        \/ f.stem = g.stem /\ f.ext = "yml" /\ g.ext = "yaml"
  BY <1>1, <1>7, Zenon DEF Before
<1>10. ASSUME NEW f \in S, NEW g \in S, f # g PROVE Before(f, g) \/ Before(g, f)
  <2>1. CASE f.stem = g.stem
    <3>1. f.ext # g.ext
      BY <1>8, <1>10, <2>1
    <3> QED
      BY <1>1, <1>9, <2>1, <3>1 DEF E
  <2>2. CASE f.stem # g.stem
    BY <1>1, <1>3, <1>9, <2>2
  <2> QED
    BY <2>1, <2>2
<1>11. ASSUME NEW f \in S, NEW g \in S, Before(f, g) PROVE ~Before(g, f)
  BY <1>1, <1>2, <1>4, <1>9, <1>11
<1>12. ASSUME NEW f \in S, NEW g \in S, NEW h \in S, Before(f, g), Before(g, h) PROVE Before(f, h)
  BY <1>1, <1>5, <1>9, <1>12
<1> QED
  BY <1>10, <1>11, <1>12 DEF S

\* So they can be listed in it, each once, and RecipeFiles lists them so.
LEMMA FilesInOrder ==
  ASSUME NEW held, NEW d, IsFiniteSet(held), OneFileEach(held), Alphabetical(held)
  PROVE  /\ RecipeFiles(held, d) \in Seq(RecipesIn(held, d))
         /\ \A f \in RecipesIn(held, d) : Among(f, RecipeFiles(held, d))
         /\ InOrder(RecipeFiles(held, d))
<1> DEFINE S == RecipesIn(held, d)
           n == Cardinality(S)
           R(x) == {y \in S : Before(y, x)}
           rank == [x \in S |-> Cardinality(R(x)) + 1]
<1>1. /\ \A f, g \in S : f # g => Before(f, g) \/ Before(g, f)
      /\ \A f, g \in S : Before(f, g) => ~Before(g, f)
      /\ \A f, g, h \in S : Before(f, g) /\ Before(g, h) => Before(f, h)
  BY BeforeOrders
<1>2. IsFiniteSet(S)
  BY FS_Subset DEF RecipesIn
<1>3. n \in Nat /\ \A x : R(x) \in SUBSET S /\ IsFiniteSet(R(x)) /\ Cardinality(R(x)) \in Nat
  <2>1. ASSUME NEW x PROVE R(x) \in SUBSET S /\ IsFiniteSet(R(x)) /\ Cardinality(R(x)) \in Nat
    <3>1. R(x) \in SUBSET S
      BY Zenon
    <3> HIDE DEF R, S
    <3>2. IsFiniteSet(R(x))
      BY <1>2, <3>1, FS_Subset, Zenon
    <3> QED
      BY <3>1, <3>2, FS_CardinalityType, Zenon
  <2> HIDE DEF R, S
  <2> QED
    BY <1>2, <2>1, FS_CardinalityType
<1> HIDE DEF S
<1>4. ASSUME NEW x \in S, NEW y \in S, Before(x, y) PROVE rank[x] < rank[y]
  <2>1. R(x) \in SUBSET R(y) /\ x \in R(y) /\ x \notin R(x)
    BY <1>1, <1>4, Zenon
  <2> HIDE DEF R
  <2>2. Cardinality(R(x)) <= Cardinality(R(y)) /\ Cardinality(R(x)) # Cardinality(R(y))
    BY <1>3, <2>1, FS_Subset
  <2> QED
    BY <1>3, <2>2
<1>5. ASSUME NEW x \in S PROVE rank[x] \in 1..n
  <2>1. x \notin R(x)
    BY <1>1
  <2> HIDE DEF R
  <2>2. Cardinality(R(x)) <= n /\ Cardinality(R(x)) # n
    BY <1>2, <1>3, <2>1, FS_Subset
  <2> QED
    BY <1>3, <2>2
<1>6. rank \in Injection(S, 1..n)
  <2>1. rank \in [S -> 1..n]
    BY <1>5
  <2>2. ASSUME NEW x \in S, NEW y \in S, x # y PROVE rank[x] # rank[y]
    <3>1. rank[x] < rank[y] \/ rank[y] < rank[x]
      BY <1>1, <1>4, <2>2
    <3>2. rank[x] \in 1..n /\ rank[y] \in 1..n
      BY <1>5
    <3> HIDE DEF rank, n
    <3> QED
      BY <1>3, <3>1, <3>2
  <2> HIDE DEF rank, n
  <2> QED
    BY <2>1, <2>2 DEF Injection, IsInjective
<1>7. rank \in Surjection(S, 1..n)
  <2>1. IsFiniteSet(1..n) /\ Cardinality(1..n) = n
    <3> HIDE DEF n
    <3> QED
      BY <1>3, FS_Interval
  <2> HIDE DEF rank
  <2> QED
    BY <1>6, <2>1, FS_Injection
<1>8. \A i \in 1..n : \E x \in S : rank[x] = i
  <2> HIDE DEF rank, n
  <2> QED
    BY <1>7 DEF Surjection
<1> DEFINE s == [i \in 1..n |-> CHOOSE x \in S : rank[x] = i]
<1> HIDE DEF rank, n
<1>9. \A i \in 1..n : s[i] \in S /\ rank[s[i]] = i
  <2>1. ASSUME NEW i \in 1..n PROVE s[i] \in S /\ rank[s[i]] = i
    <3>1. s[i] = CHOOSE x \in S : rank[x] = i
      BY Zenon
    <3> HIDE DEF s
    <3> QED
      BY <1>8, <3>1, Zenon
  <2> HIDE DEF s
  <2> QED
    BY <2>1
<1>10. s \in SetToSeqs(S) /\ Len(s) = n
  <2>1. s \in [1..n -> S] /\ Len(s) = n
    BY <1>3, <1>9
  <2>2. \A i, j \in 1..n : i # j => s[i] # s[j]
    <3> HIDE DEF s
    <3> QED
      BY <1>9
  <2> HIDE DEF s
  <2> QED
    BY <2>1, <2>2, Zenon DEF SetToSeqs, n
<1>11. InOrder(s)
  <2>1. ASSUME NEW i \in 1..n, NEW j \in 1..n, i < j PROVE Before(s[i], s[j])
    <3>1. s[i] \in S /\ s[j] \in S /\ rank[s[i]] = i /\ rank[s[j]] = j
      BY <1>9
    <3> HIDE DEF s
    <3>2. s[i] # s[j]
      BY <2>1, <3>1
    <3>3. ~Before(s[j], s[i])
      <4>1. ~ (j < i)
        BY <1>3, <2>1
      <4> QED
        BY <1>4, <3>1, <4>1
    <3> QED
      BY <1>1, <3>1, <3>2, <3>3
  <2> HIDE DEF s
  <2> QED
    BY <1>10, <2>1, Zenon DEF InOrder
<1> HIDE DEF s
<1> DEFINE q == RecipeFiles(held, d)
<1>12. q \in SetToSeqs(S) /\ InOrder(q)
  BY <1>10, <1>11, Zenon DEF RecipeFiles, S
<1> HIDE DEF q
<1>13. q \in [1..n -> S] /\ \A i, j \in 1..n : i # j => q[i] # q[j]
  BY <1>12, Zenon DEF SetToSeqs, n
<1>14. q \in Seq(S) /\ Len(q) = n
  BY <1>3, <1>13
<1>15. q \in Injection(1..n, S)
  BY <1>13 DEF Injection, IsInjective
<1>16. q \in Surjection(1..n, S)
  <2>1. IsFiniteSet(1..n) /\ Cardinality(1..n) = n
    BY <1>3, FS_Interval
  <2> QED
    BY <1>2, <1>15, <2>1, FS_Injection DEF n
<1>17. \A f \in S : Among(f, q)
  BY <1>14, <1>16 DEF Surjection, Among
<1> QED
  BY <1>12, <1>14, <1>17 DEF S, q

\* The files of a listing, inserted one after the other.
Finds(g, files, m) ==
  /\ g = [i \in 0..m |-> g[i]] /\ g[0] = <<>>
  /\ \A i \in 1..m : g[i] = Insert(g[i - 1], files[i])

\* Any number of files can be.
LEMMA FindsSome ==
  ASSUME NEW files, NEW m \in Nat
  PROVE  \E f : Finds(f, files, m)
<1> DEFINE T == {k \in Nat : k <= m /\ ~ \E f : Finds(f, files, k)}
<1> SUFFICES ASSUME T # {} PROVE FALSE
  OBVIOUS
<1>1. PICK k \in T : \A y \in T : k <= y
  <2>1. T \subseteq Nat
    OBVIOUS
  <2> HIDE DEF T
  <2> QED
    BY <2>1, Smallest
<1>2. k # 0
  <2>1. Finds([i \in 0..0 |-> <<>>], files, 0)
    BY DEF Finds
  <2> QED
    BY <2>1, <1>1
<1>3. PICK f : Finds(f, files, k - 1)
  BY <1>1, <1>2
<1> DEFINE v == Insert(f[k - 1], files[k])
           g == [i \in 0..k |-> IF i = k THEN v ELSE f[i]]
<1>4. Finds(g, files, k)
  <2>1. g[0] = <<>> /\ g = [i \in 0..k |-> g[i]]
    BY <1>1, <1>2, <1>3 DEF Finds
  <2>2. ASSUME NEW i \in 1..k PROVE g[i] = Insert(g[i - 1], files[i])
    <3>1. g[i - 1] = f[i - 1]
      BY <1>1, <2>2
    <3>2. CASE i = k
      <4>1. g[i] = v
        BY <2>2, <3>2
      <4> HIDE DEF g
      <4> QED
        BY <3>1, <3>2, <4>1, Zenon
    <3>3. CASE i # k
      <4>1. g[i] = f[i] /\ i \in 1..(k - 1)
        BY <1>1, <2>2, <3>3
      <4>2. f[i] = Insert(f[i - 1], files[i])
        BY <1>3, <4>1 DEF Finds
      <4> HIDE DEF g
      <4> QED
        BY <3>1, <4>1, <4>2, Zenon
    <3> QED
      BY <3>2, <3>3
  <2> HIDE DEF g
  <2> QED
    BY <2>1, <2>2 DEF Finds
<1> QED
  BY <1>1, <1>4

\* What a listing has read of a disk: the files of its directories, one directory after
\* the other.
Listing(held, dirs) == FlattenSeq([i \in 1..Len(dirs) |-> RecipeFiles(held, dirs[i])])

\* That is what discover_recipes does.
LEMMA DiscoverFinds ==
  ASSUME NEW held, NEW dirs, Len(Listing(held, dirs)) \in Nat
  PROVE  LET q == Listing(held, dirs)
         IN  \E g : Finds(g, q, Len(q)) /\ DiscoverRecipes(held, dirs) = g[Len(q)]
<1> DEFINE q == Listing(held, dirs)
           m == Len(q)
           Is(g) == g = [i \in 0..m |-> IF i = 0 THEN <<>> ELSE Insert(g[i - 1], q[i])]
           h == CHOOSE g : Is(g)
<1>1. DiscoverRecipes(held, dirs) = h[m]
  BY Zenon DEF DiscoverRecipes, Listing
<1> HIDE DEF q
<1>2. m \in Nat
  BY DEF q
<1>3. PICK f : Finds(f, q, m)
  <2> HIDE DEF m
  <2> QED
    BY <1>2, FindsSome
<1> HIDE DEF m
<1>4. Is(f)
  BY <1>3 DEF Finds
<1>5. Is(h)
  BY <1>4, Zenon
<1> HIDE DEF h
<1>6. Finds(h, q, m)
  <2>1. h = [i \in 0..m |-> h[i]] /\ h[0] = <<>>
    BY <1>2, <1>5
  <2>2. \A i \in 1..m : h[i] = Insert(h[i - 1], q[i])
    BY <1>2, <1>5
  <2> QED
    BY <2>1, <2>2 DEF Finds
<1> QED
  BY <1>1, <1>6 DEF q, m

\* The last file of a name takes its place in a listing.
LastNamed(q, m, n, j) == n # "" /\ q[j].name = n /\ \A i \in (j + 1)..m : q[i].name # n
LEMMA LastTakes ==
  ASSUME NEW q, NEW m \in Nat, NEW g, Finds(g, q, m), NEW n, NEW j \in 1..m, LastNamed(q, m, n, j)
  PROVE  g[m][n] = q[j]
<1> DEFINE Good(i) == n \in DOMAIN g[i] /\ g[i][n] = q[j]
           T == {i \in Nat : i \in j..m /\ ~Good(i)}
<1> SUFFICES ASSUME T # {} PROVE FALSE
  BY SMT
<1>1. PICK k \in T : \A y \in T : k <= y
  <2>1. T \subseteq Nat
    OBVIOUS
  <2> HIDE DEF T
  <2> QED
    BY <2>1, Smallest
<1>2. k \in 1..m /\ k \in j..m
  BY <1>1
<1>3. g[k] = Insert(g[k - 1], q[k])
  BY <1>2, Zenon DEF Finds
<1>4. CASE k = j
  <2>1. q[k].name = n /\ q[k].name # ""
    BY <1>4, Zenon DEF LastNamed
  <2>2. g[k] = [x \in DOMAIN g[k - 1] \cup {n} |-> IF x = n THEN q[k] ELSE g[k - 1][x]]
    BY <1>3, <2>1, Zenon DEF Insert
  <2> QED
    BY <1>1, <1>4, <2>2
<1>5. CASE k # j
  <2>1. Good(k - 1)
    BY <1>1, <1>2, <1>5
  <2>2. q[k].name # n
    <3>1. k \in (j + 1)..m
      BY <1>2, <1>5
    <3> QED
      BY <3>1, Zenon DEF LastNamed
  <2> DEFINE p == g[k - 1]
  <2>3. n \in DOMAIN p /\ p[n] = q[j]
    BY <2>1
  <2>4. g[k] = IF q[k].name = "" THEN p
               ELSE [x \in DOMAIN p \cup {q[k].name} |-> IF x = q[k].name THEN q[k] ELSE p[x]]
    BY <1>3, Zenon DEF Insert
  <2> HIDE DEF p
  <2>5. Good(k)
    <3>1. CASE q[k].name = ""
      BY <2>3, <2>4, <3>1
    <3>2. CASE q[k].name # ""
      <4>1. g[k] = [x \in DOMAIN p \cup {q[k].name} |-> IF x = q[k].name THEN q[k] ELSE p[x]]
        BY <2>4, <3>2
      <4> QED
        BY <2>2, <2>3, <4>1
    <3> QED
      BY <3>1, <3>2
  <2> QED
    BY <1>1, <2>5
<1> QED
  BY <1>4, <1>5

\* No part after the b-th has any of N.
NoneAfter(ss, b, N) == \A c \in (b + 1)..Len(ss) : \A i \in 1..Len(ss[c]) : ss[c][i] \notin N
\* A sequence has x at a place that no element of N follows.
LastIn(s, x, N) == \E j \in 1..Len(s) : s[j] = x /\ \A i \in (j + 1)..Len(s) : s[i] \notin N

\* Where the elements of two sequences stand in one after the other.
LEMMA JoinPlaces ==
  ASSUME NEW S, NEW p \in Seq(S), NEW r \in Seq(S)
  PROVE  /\ Len(p \o r) = Len(p) + Len(r) /\ Len(p) \in Nat /\ Len(r) \in Nat
         /\ \A n \in 1..Len(p) : (p \o r)[n] = p[n]
         /\ \A n \in 1..Len(r) : (p \o r)[Len(p) + n] = r[n]
  OBVIOUS

\* What is last in a part is last in the whole when no later part has any of its kind.
LEMMA PartsLast ==
  ASSUME NEW S, NEW ss \in Seq(Seq(S)), NEW f, Parts(f, ss, Len(ss)), NEW b \in 1..Len(ss), NEW x, NEW N,
         LastIn(ss[b], x, N), NoneAfter(ss, b, N)
  PROVE  LastIn(f[Len(ss)], x, N)
<1> DEFINE Good(i) == LastIn(f[i], x, N)
           T == {i \in Nat : i \in b..Len(ss) /\ ~Good(i)}
<1> SUFFICES ASSUME T # {} PROVE FALSE
  BY SMT
<1>1. PICK k \in T : \A y \in T : k <= y
  <2>1. T \subseteq Nat
    OBVIOUS
  <2> HIDE DEF T
  <2> QED
    BY <2>1, Smallest
<1>2. k \in 1..Len(ss) /\ k \in b..Len(ss)
  BY <1>1
<1>3. \A i \in 1..Len(ss) : f[i] \in Seq(S) /\ ss[i] \in Seq(S)
  <2>1. \A i \in 1..Len(ss) : f[i] \in Seq(S)
    BY PartsHold, Zenon
  <2>2. \A i \in 1..Len(ss) : ss[i] \in Seq(S)
    OBVIOUS
  <2> QED
    BY <2>1, <2>2
<1>4. CASE k = b /\ k = 1
  <2>1. f[1] = ss[1]
    BY DEF Parts
  <2> QED
    BY <1>1, <1>4, <2>1
<1>5. CASE k # 1
  <2>1. k \in 2..Len(ss) /\ k - 1 \in 1..Len(ss)
    BY <1>2, <1>5
  <2>2. f[k] = f[k - 1] \o ss[k]
    BY <2>1, Zenon DEF Parts, Both
  <2> DEFINE p == f[k - 1]
             r == ss[k]
  <2>3. p \in Seq(S) /\ r \in Seq(S) /\ f[k] = p \o r
    BY <1>2, <1>3, <2>1, <2>2
  <2> HIDE DEF p, r
  <2>4. /\ Len(p \o r) = Len(p) + Len(r) /\ Len(p) \in Nat /\ Len(r) \in Nat
        /\ \A n \in 1..Len(p) : (p \o r)[n] = p[n]
        /\ \A n \in 1..Len(r) : (p \o r)[Len(p) + n] = r[n]
    BY <2>3, JoinPlaces
  <2>5. CASE k = b
    <3>1. PICK j \in 1..Len(r) : r[j] = x /\ \A i \in (j + 1)..Len(r) : r[i] \notin N
      BY <2>5, Zenon DEF LastIn, r
    <3>2. Len(p) + j \in 1..Len(p \o r) /\ (p \o r)[Len(p) + j] = x
      BY <2>4, <3>1
    <3>3. ASSUME NEW i \in (Len(p) + j + 1)..Len(p \o r) PROVE (p \o r)[i] \notin N
      <4>1. i - Len(p) \in (j + 1)..Len(r) /\ i - Len(p) \in 1..Len(r) /\ Len(p) + (i - Len(p)) = i
        BY <2>4, <3>1, <3>3
      <4> QED
        BY <2>4, <3>1, <4>1
    <3>4. LastIn(p \o r, x, N)
      BY <3>2, <3>3, Zenon DEF LastIn
    <3> QED
      BY <1>1, <2>3, <3>4
  <2>6. CASE k # b
    <3>1. Good(k - 1)
      BY <1>1, <1>2, <2>6
    <3>2. PICK j \in 1..Len(p) : p[j] = x /\ \A i \in (j + 1)..Len(p) : p[i] \notin N
      BY <3>1, Zenon DEF LastIn, p
    <3>3. \A i \in 1..Len(r) : r[i] \notin N
      <4>1. k \in (b + 1)..Len(ss)
        BY <1>2, <2>6
      <4> QED
        BY <4>1, Zenon DEF NoneAfter, r
    <3>4. j \in 1..Len(p \o r) /\ (p \o r)[j] = x
      BY <2>4, <3>2
    <3>5. ASSUME NEW i \in (j + 1)..Len(p \o r) PROVE (p \o r)[i] \notin N
      <4>1. CASE i \in (j + 1)..Len(p)
        <5>1. i \in 1..Len(p)
          BY <2>4, <3>2, <4>1
        <5> QED
          BY <2>4, <3>2, <4>1, <5>1
      <4>2. CASE i \notin (j + 1)..Len(p)
        <5>1. i - Len(p) \in 1..Len(r) /\ Len(p) + (i - Len(p)) = i
          BY <2>4, <3>2, <3>5, <4>2
        <5> QED
          BY <2>4, <3>3, <5>1
      <4> QED
        BY <4>1, <4>2
    <3>6. LastIn(p \o r, x, N)
      BY <3>4, <3>5, Zenon DEF LastIn
    <3> QED
      BY <1>1, <2>3, <3>6
  <2> QED
    BY <2>5, <2>6
<1> QED
  BY <1>2, <1>4, <1>5

\* Of the files of one name and directory the one a search takes is the last of a
\* listing.
LEMMA TakenIsLast ==
  ASSUME NEW held, IsFiniteSet(held), OneFileEach(held), Alphabetical(held),
         NEW n, NEW dirs, NEW file, NEW at, FoundAt(held, n, dirs, file, at)
  PROVE  LastIn(RecipeFiles(held, dirs[at]), file, {g \in held : g.stem = n})
<1> DEFINE d == dirs[at]
           q == RecipeFiles(held, d)
           N == {g \in held : g.stem = n}
<1>1. q \in Seq(RecipesIn(held, d)) /\ (\A f \in RecipesIn(held, d) : Among(f, q)) /\ InOrder(q)
  BY FilesInOrder, Zenon
<1> HIDE DEF d
<1>2. \A f : f \in RecipesIn(held, d) <=> f \in held /\ f.dir = d /\ f.ext \in {"yaml", "yml"}
  BY Zenon DEF RecipesIn
<1>3. file \in RecipesIn(held, d) /\ file.stem = n
  BY <1>2, Zenon DEF FoundAt, d
<1> HIDE DEF q
<1>4. PICK j \in 1..Len(q) : q[j] = file
  BY <1>1, <1>3, Zenon DEF Among
<1>5. ASSUME NEW i \in (j + 1)..Len(q) PROVE q[i] \notin N
  <2>1. i \in 1..Len(q) /\ j < i
    BY <1>1, <1>4, <1>5
  <2>2. q[i] \in RecipesIn(held, d)
    BY <1>1, <2>1, ElementOf
  <2> SUFFICES ASSUME q[i] \in N PROVE FALSE
    OBVIOUS
  <2> DEFINE g == q[i]
  <2>3. g \in held /\ g.stem = n /\ g.dir = d /\ g.ext \in {"yaml", "yml"}
    BY <1>2, <2>2, Zenon
  <2>4. Before(file, g)
    BY <1>1, <1>4, <2>1, Zenon DEF InOrder
  <2> HIDE DEF g
  <2>5. Order(n, n) = 0 /\ Order("yaml", "yaml") = 0 /\ Order("yml", "yml") = 0
    BY Zenon DEF Order
  <2>6. Order("yaml", "yml") = -1
    BY Zenon DEF Alphabetical
  <2>7. Order(n, n) = -1 \/ Order(file.ext, g.ext) = 1
    BY <1>3, <2>3, <2>4, Zenon DEF Before
  <2>8. file.ext \in {"yaml", "yml"}
    BY <1>2, <1>3, Zenon
  <2>9. g.ext = "yaml" /\ file.ext = "yml"
    BY <2>3, <2>5, <2>6, <2>7, <2>8
  <2>10. file.ext = "yaml"
    BY <2>3, <2>9, Zenon DEF FoundAt, d
  <2> QED
    BY <2>9, <2>10
<1> QED
  BY <1>4, <1>5, Zenon DEF LastIn, q, d

\* Finding a recipe and listing it lead to one file when every file of that stem, and no
\* other, holds a recipe of that name: find_recipe takes the first directory that has it,
\* discover_recipes the last, and both take .yaml before .yml, whatever the directories
\* and what lies in them.
THEOREM FoundIsListed ==
  ASSUME NEW held, IsFiniteSet(held), OneFileEach(held), Alphabetical(held),
         NEW dirs \in Seq(STRING)
  PROVE  FindAndListAgree(held, dirs)
<1> DEFINE m == Len(dirs)
           back == Reverse(dirs)
           Own(n) == \A f \in held : f.name = n <=> f.stem = n
<1>1. SUFFICES ASSUME NEW n, FindRecipe(held, n, back).found, Own(n)
      PROVE  DiscoverRecipes(held, dirs)[n] = FindRecipe(held, n, back).file
  BY Zenon DEF FindAndListAgree
<1>2. m \in Nat /\ back \in Seq(STRING) /\ Len(back) = m /\ \A i \in 1..m : back[i] = dirs[m - i + 1]
  BY DEF Reverse
<1> HIDE DEF back
<1> DEFINE hit == FindRecipe(held, n, back)
           file == hit.file
<1>3. n # "" /\ hit = FirstOn(held, n, Tried(back, <<"yaml", "yml">>))
  <2>1. Nothing.found = FALSE
    BY DEF Nothing
  <2> QED
    BY <1>1, <2>1, Zenon DEF FindRecipe, SafeRecipeName
<1>4. hit.found
  BY <1>1
<1> HIDE DEF hit
<1>5. PICK at : FoundAt(held, n, back, file, at)
  BY <1>2, <1>3, <1>4, FoundFirst, Zenon
<1> DEFINE b == m - at + 1
           ss == [i \in 1..m |-> RecipeFiles(held, dirs[i])]
           N == {g \in held : g.stem = n}
<1>6. at \in 1..m
  BY <1>2, <1>5, Zenon DEF FoundAt
<1>7. b \in 1..m /\ dirs[b] = back[at] /\ m \in Nat \ {0}
  BY <1>2, <1>6
<1>8. \A i \in 1..m : ss[i] \in Seq(RecipesIn(held, dirs[i])) /\ ss[i] = RecipeFiles(held, dirs[i])
  BY FilesInOrder
<1>9. ss \in Seq(Seq(held)) /\ Len(ss) = m
  <2>1. ASSUME NEW i \in 1..m PROVE ss[i] \in Seq(held)
    <3>1. RecipesIn(held, dirs[i]) \subseteq held
      BY DEF RecipesIn
    <3> HIDE DEF ss
    <3> QED
      BY <1>8, <3>1
  <2>2. ss = [i \in 1..m |-> ss[i]]
    OBVIOUS
  <2> HIDE DEF ss, m
  <2> QED
    BY <1>2, <2>1, <2>2
<1>10. LastIn(ss[b], file, N)
  <2>1. LastIn(RecipeFiles(held, back[at]), file, N)
    BY <1>5, TakenIsLast, Zenon
  <2> HIDE DEF ss, N, b
  <2> QED
    BY <1>7, <1>8, <2>1
<1>11. NoneAfter(ss, b, N)
  <2>1. ASSUME NEW c \in (b + 1)..m, NEW i \in 1..Len(ss[c]) PROVE ss[c][i] \notin N
    <3>1. c \in 1..m /\ m - c + 1 \in 1..(at - 1) /\ m - c + 1 \in 1..m
      BY <1>2, <1>6, <1>7, <2>1
    <3>2. back[m - c + 1] = dirs[c]
      BY <1>2, <3>1
    <3>3. ss[c][i] \in RecipesIn(held, dirs[c])
      <4> HIDE DEF ss
      <4> QED
        BY <1>8, <2>1, <3>1, ElementOf
    <3> DEFINE g == ss[c][i]
    <3>4. g \in held /\ g.dir = back[m - c + 1] /\ g.ext \in {"yaml", "yml"}
      BY <3>2, <3>3, Zenon DEF RecipesIn
    <3> HIDE DEF g, m
    <3>5. g.stem # n
      BY <1>5, <3>1, <3>4, Zenon DEF FoundAt
    <3> QED
      BY <3>5, Zenon DEF g
  <2> HIDE DEF ss, N, b, m
  <2> QED
    BY <1>9, <2>1, Zenon DEF NoneAfter
<1>12. PICK f : Parts(f, ss, Len(ss)) /\ Listing(held, dirs) = f[Len(ss)]
  <2>1. \E f : Parts(f, ss, Len(ss)) /\ FlattenSeq(ss) = f[Len(ss)]
    <3> HIDE DEF ss, m
    <3> QED
      BY <1>7, <1>9, FlattenParts
  <2> QED
    BY <2>1, Zenon DEF Listing
<1> HIDE DEF ss, b, m
<1> DEFINE q == Listing(held, dirs)
<1>13. LastIn(q, file, N)
  <2> HIDE DEF N, file
  <2> QED
    BY <1>7, <1>9, <1>10, <1>11, <1>12, PartsLast, Zenon
<1>14. q \in Seq(held)
  <2>1. Len(ss) \in 1..Len(ss)
    BY <1>7, <1>9
  <2> QED
    BY <1>9, <1>12, <2>1, PartsHold, Zenon
<1>15. Len(q) \in Nat /\ \A i \in 1..Len(q) : q[i] \in held
  <2> HIDE DEF q
  <2> QED
    BY <1>14, ElementOf
<1>16. PICK j \in 1..Len(q) : q[j] = file /\ \A i \in (j + 1)..Len(q) : q[i] \notin N
  BY <1>13, Zenon DEF LastIn
<1>17. LastNamed(q, Len(q), n, j)
  <2>1. file \in held /\ file.stem = n
    BY <1>5, Zenon DEF FoundAt
  <2>2. q[j].name = n
    BY <1>1, <1>16, <2>1, Zenon
  <2>3. ASSUME NEW i \in (j + 1)..Len(q) PROVE q[i].name # n
    <3>1. i \in 1..Len(q)
      <4> HIDE DEF q
      <4> QED
        BY <1>15, <2>3
    <3>2. q[i] \in held /\ q[i] \notin N
      BY <1>15, <1>16, <2>3, <3>1, Zenon
    <3> QED
      BY <1>1, <3>2, Zenon
  <2> QED
    BY <1>3, <2>2, <2>3, Zenon DEF LastNamed
<1>18. PICK g : Finds(g, q, Len(q)) /\ DiscoverRecipes(held, dirs) = g[Len(q)]
  BY <1>15, DiscoverFinds, Zenon
<1>19. DiscoverRecipes(held, dirs)[n] = q[j]
  <2> DEFINE k == Len(q)
  <2>1. k \in Nat /\ j \in 1..k /\ LastNamed(q, k, n, j) /\ Finds(g, q, k)
    BY <1>15, <1>16, <1>17, <1>18
  <2> HIDE DEF k, q
  <2>2. g[k][n] = q[j]
    BY <2>1, LastTakes
  <2> QED
    BY <1>18, <2>2, Zenon DEF k
<1> QED
  BY <1>16, <1>19, Zenon DEF hit

\* A comparison with the upstream asks the repository the remote has, which is the one
\* asked for only if there was no remote yet; what it says of changes and files was so when
\* each of its two diffs looked, unless that one failed; and a refusal by the URL leaves
\* the remotes alone (sync_upstream).
THEOREM SyncTells ==
  ASSUME NEW git, NEW envUrl, NEW asked, asked # ""
  PROVE  SyncTellsTheDifference(git, envUrl, asked)
<1> DEFINE there == IF git.remote # "" THEN git.remote ELSE git.raced
           remote == IF there # "" THEN there ELSE asked
           before == git.before[remote]
           after == git.after[remote]
           changed == Printed(before, BothDirs, git.fails = "diff")
           listed == Printed(after, ListedDirs, git.fails = "list")
           out == SyncUpstream(git, envUrl, asked)
           synced == [ok |-> TRUE, remote |-> remote, hasChanges |-> changed # {}, files |-> listed]
<1>1. out = IF ~Acceptable(envUrl) THEN Refused(git)
            ELSE IF there = "" /\ git.fails = "add" THEN Refused(git)
            ELSE IF git.fails \in {"fetch", "start"} THEN Refused([git EXCEPT !.remote = remote])
            ELSE synced
  BY Zenon DEF SyncUpstream
<1>2. \A g : Refused(g).ok = FALSE /\ Refused(g).remote = g.remote
  BY DEF Refused
<1>3. synced.ok = TRUE /\ synced.remote = remote /\ synced.files = listed /\ synced.hasChanges = (changed # {})
  <2> HIDE DEF remote, changed, listed
  <2> QED
    OBVIOUS
<1>4. remote \in {git.remote, git.raced, asked} \ {""} /\ (git.remote # "" => remote = git.remote)
  OBVIOUS
<1> HIDE DEF there, remote, before, after
<1>5. changed = {} => git.fails = "diff" \/ \A d \in BothDirs : before[d] = {}
  BY DEF Printed
<1>6. listed \subseteq after["bundle"] /\ (git.fails # "list" => listed = after["bundle"])
  BY DEF Printed, ListedDirs
<1>7. changed = {} /\ listed # {} => git.fails = "diff" \/ before["bundle"] # after["bundle"]
  BY <1>5, <1>6 DEF BothDirs
<1> HIDE DEF synced, changed, listed, out
<1>8. CASE ~Acceptable(envUrl)
  <2>1. out = Refused(git)
    BY <1>1, <1>8
  <2>2. out.ok = FALSE /\ out.remote = git.remote
    BY <1>2, <2>1
  <2> QED
    BY <1>8, <2>2, Zenon DEF SyncTellsTheDifference, out
<1>9. CASE Acceptable(envUrl) /\ out.ok = FALSE
  BY <1>9, Zenon DEF SyncTellsTheDifference, out
<1>10. CASE Acceptable(envUrl) /\ out.ok # FALSE
  <2>1. out = synced
    BY <1>1, <1>2, <1>10
  <2>2. out.ok = TRUE /\ out.remote = remote /\ out.files = listed
    BY <1>3, <2>1
  <2>3. ~out.hasChanges => changed = {}
    BY <1>3, <2>1
  <2>4. before = git.before[out.remote] /\ after = git.after[out.remote]
    BY <2>2 DEF before, after
  <2>5. ~out.hasChanges => git.fails = "diff" \/ \A d \in BothDirs : git.before[out.remote][d] = {}
    BY <1>5, <2>3, <2>4
  <2>6. out.files \subseteq git.after[out.remote]["bundle"]
        /\ (git.fails # "list" => out.files = git.after[out.remote]["bundle"])
    BY <1>6, <2>2, <2>4
  <2>7. ~out.hasChanges /\ out.files # {}
          => git.fails = "diff" \/ git.before[out.remote]["bundle"] # git.after[out.remote]["bundle"]
    BY <1>7, <2>2, <2>3, <2>4
  <2> QED
    BY <1>4, <1>10, <2>2, <2>5, <2>6, <2>7, Zenon DEF SyncTellsTheDifference, out
<1> QED
  BY <1>8, <1>9, <1>10

\* The elements of sequences put together.
LEMMA RangesJoin ==
  ASSUME NEW X, NEW p \in Seq(X), NEW q \in Seq(X)
  PROVE  p \o q \in Seq(X) /\ Range(p \o q) = Range(p) \cup Range(q)
<1>1. /\ p \o q \in Seq(X) /\ Len(p \o q) = Len(p) + Len(q)
      /\ \A n \in 1..Len(p) : (p \o q)[n] = p[n]
      /\ \A n \in 1..Len(q) : (p \o q)[Len(p) + n] = q[n]
  OBVIOUS
<1> DEFINE r == p \o q
<1>2. /\ Range(r) = {r[i] : i \in 1..Len(r)} /\ Range(p) = {p[i] : i \in 1..Len(p)}
      /\ Range(q) = {q[i] : i \in 1..Len(q)}
  <2> HIDE DEF r
  <2>1. r \in Seq(X)
    BY <1>1 DEF r
  <2> QED
    BY <2>1 DEF Range
<1> HIDE DEF r
<1>3. r \in Seq(X) /\ Len(r) = Len(p) + Len(q) /\ (\A n \in 1..Len(p) : r[n] = p[n]) /\ \A n \in 1..Len(q) : r[Len(p) + n] = q[n]
  BY <1>1 DEF r
<1>4. ASSUME NEW x \in Range(r) PROVE x \in Range(p) \cup Range(q)
  <2>1. PICK n \in 1..Len(r) : x = r[n]
    BY <1>2
  <2>2. CASE n \in 1..Len(p)
    BY <1>2, <1>3, <2>1, <2>2
  <2>3. CASE n \notin 1..Len(p)
    <3>1. n - Len(p) \in 1..Len(q) /\ Len(p) + (n - Len(p)) = n
      BY <1>3, <2>1, <2>3
    <3> QED
      BY <1>2, <1>3, <2>1, <3>1
  <2> QED
    BY <2>2, <2>3
<1>5. ASSUME NEW x \in Range(p) PROVE x \in Range(r)
  <2>1. PICK n \in 1..Len(p) : x = p[n]
    BY <1>2
  <2>2. n \in 1..Len(r)
    BY <1>3, <2>1
  <2> QED
    BY <1>2, <1>3, <2>1, <2>2
<1>6. ASSUME NEW x \in Range(q) PROVE x \in Range(r)
  <2>1. PICK n \in 1..Len(q) : x = q[n]
    BY <1>2
  <2>2. Len(p) + n \in 1..Len(r)
    BY <1>3, <2>1
  <2> QED
    BY <1>2, <1>3, <2>1, <2>2
<1> QED
  BY <1>3, <1>4, <1>5, <1>6 DEF r

\* Appending adds what is appended.
LEMMA RangeGrows ==
  ASSUME NEW X, NEW s \in Seq(X), NEW x \in X
  PROVE  Range(Append(s, x)) = Range(s) \cup {x}
<1> DEFINE y == <<x>>
<1>1. y \in Seq(X) /\ Append(s, x) = s \o y
  OBVIOUS
<1>2. Range(y) = {x}
  BY DEF Range
<1> HIDE DEF y
<1>3. Range(s \o y) = Range(s) \cup Range(y)
  BY <1>1, RangesJoin, Zenon
<1> QED
  BY <1>1, <1>2, <1>3, Zenon

\* A function on 0..m that starts at c and goes from each value to the next by d.
Walks(f, V, c, d, m) ==
  f \in [0..m -> V] /\ f[0] = c /\ \A i \in 1..m : f[i] = d[i][f[i - 1]]

\* There is one.
LEMMA WalkThere ==
  ASSUME NEW V, NEW c \in V, NEW m \in Nat, NEW d \in [1..m -> [V -> V]]
  PROVE  \E f : Walks(f, V, c, d, m)
<1> DEFINE T == {k \in Nat : k <= m /\ ~ \E f : Walks(f, V, c, d, k)}
<1> SUFFICES ASSUME T # {} PROVE FALSE
  OBVIOUS
<1>1. PICK k \in T : \A y \in T : k <= y
  <2>1. T \subseteq Nat
    OBVIOUS
  <2> HIDE DEF T
  <2> QED
    BY <2>1, Smallest
<1>2. k # 0
  <2>1. Walks([i \in 0..0 |-> c], V, c, d, 0)
    BY DEF Walks
  <2> QED
    BY <2>1, <1>1
<1>3. PICK f : Walks(f, V, c, d, k - 1)
  BY <1>1, <1>2
<1> DEFINE v == d[k][f[k - 1]]
           g == [i \in 0..k |-> IF i = k THEN v ELSE f[i]]
<1>4. v \in V
  BY <1>1, <1>2, <1>3 DEF Walks
<1>5. Walks(g, V, c, d, k)
  <2>1. g \in [0..k -> V] /\ g[0] = c
    BY <1>1, <1>2, <1>3, <1>4 DEF Walks
  <2>2. ASSUME NEW i \in 1..k PROVE g[i] = d[i][g[i - 1]]
    <3>1. g[i - 1] = f[i - 1]
      BY <1>1, <2>2
    <3> QED
      BY <1>1, <1>3, <3>1 DEF Walks
  <2> QED
    BY <2>1, <2>2 DEF Walks
<1> QED
  BY <1>1, <1>5

\* Leaving out what has been seen loses no element.
Taken(seen, d) == IF d \in Range(seen) THEN seen ELSE Append(seen, d)

\* What was seen grows by the element that is looked at.
LEMMA TakenGrows ==
  ASSUME NEW X, NEW s \in Seq(X), NEW x \in X
  PROVE  Taken(s, x) \in Seq(X) /\ Range(Taken(s, x)) = Range(s) \cup {x}
<1>1. CASE x \in Range(s)
  <2>1. Taken(s, x) = s
    BY <1>1, Zenon DEF Taken
  <2>2. Range(s) = Range(s) \cup {x}
    BY <1>1, Zenon
  <2> QED
    BY <2>1, <2>2, Zenon
<1>2. CASE x \notin Range(s)
  <2>1. Taken(s, x) = Append(s, x)
    BY <1>2, Zenon DEF Taken
  <2>2. Append(s, x) \in Seq(X)
    OBVIOUS
  <2>3. Range(Append(s, x)) = Range(s) \cup {x}
    BY RangeGrows
  <2> QED
    BY <2>1, <2>2, <2>3, Zenon
<1> QED
  BY <1>1, <1>2, Zenon

\* The distinct elements of a sequence are its elements.
LEMMA DistinctKeeps ==
  ASSUME NEW X, NEW ds \in Seq(X)
  PROVE  Range(Distinct(ds)) = Range(ds)
<1> DEFINE m == Len(ds)
           V == Seq(X)
           d == [i \in 1..m |-> [seen \in V |-> Taken(seen, ds[i])]]
           Is(f) == f = [i \in 0..m |-> IF i = 0 THEN <<>> ELSE Taken(f[i - 1], ds[i])]
           g == CHOOSE g : Is(g)
<1>1. m \in Nat /\ \A i \in 1..m : ds[i] \in X
  OBVIOUS
<1>2. \A seen \in V, x \in X : Taken(seen, x) \in V
  BY DEF Taken
<1>3. PICK f : Walks(f, V, <<>>, d, m)
  <2>1. d \in [1..m -> [V -> V]]
    <3> HIDE DEF V, m
    <3> QED
      BY <1>1, <1>2
  <2>2. <<>> \in V
    OBVIOUS
  <2> HIDE DEF d, V, m
  <2> QED
    BY <1>1, <2>1, <2>2, WalkThere
<1> HIDE DEF V
<1>4. \A i \in 1..m : f[i - 1] \in V /\ f[i] = Taken(f[i - 1], ds[i])
  <2>1. \A i \in 1..m : f[i - 1] \in V /\ f[i] = d[i][f[i - 1]]
    <3> HIDE DEF d, m
    <3> QED
      BY <1>1, <1>3 DEF Walks
  <2> HIDE DEF m
  <2> QED
    BY <2>1
<1>5. Is(f)
  <2>1. f = [i \in 0..m |-> f[i]] /\ f[0] = <<>>
    <3> HIDE DEF d, m
    <3> QED
      BY <1>3 DEF Walks
  <2>2. \A i \in 0..m : f[i] = IF i = 0 THEN <<>> ELSE Taken(f[i - 1], ds[i])
    <3>1. \A i \in 1..m : f[i] = Taken(f[i - 1], ds[i])
      BY <1>4, Zenon
    <3>2. \A i \in 0..m : i = 0 \/ (i # 0 /\ i \in 1..m)
      BY <1>1
    <3> HIDE DEF m
    <3> QED
      BY <2>1, <3>1, <3>2
  <2> HIDE DEF m
  <2> QED
    BY <2>1, <2>2
<1>6. Is(g) /\ Distinct(ds) = g[m]
  BY <1>5, Zenon DEF Distinct, Taken
<1> HIDE DEF g
<1>7. g[0] = <<>> /\ \A i \in 1..m : g[i] = Taken(g[i - 1], ds[i])
  <2> HIDE DEF m
  <2> QED
    BY <1>1, <1>6
<1> DEFINE first(i) == {ds[j] : j \in 1..i}
           Good(i) == g[i] \in Seq(X) /\ Range(g[i]) = first(i)
<1>8. \A i \in 0..m : Good(i)
  <2> DEFINE T == {i \in Nat : i <= m /\ ~Good(i)}
  <2>0. \A i \in 0..m : i \in Nat /\ i <= m
    <3> HIDE DEF m
    <3> QED
      BY <1>1
  <2> SUFFICES ASSUME T # {} PROVE FALSE
    <3> HIDE DEF Good, m
    <3> QED
      BY <2>0
  <2>1. PICK i \in T : \A y \in T : i <= y
    <3>1. T \subseteq Nat
      OBVIOUS
    <3> HIDE DEF T
    <3> QED
      BY <3>1, Smallest
  <2>2. CASE i = 0
    <3>1. g[0] = <<>> /\ <<>> \in Seq(X) /\ Range(<<>>) = {} /\ first(0) = {}
      BY <1>7 DEF Range
    <3> QED
      BY <2>1, <2>2, <3>1
  <2>3. CASE i # 0
    <3>1. i \in 1..m /\ i - 1 \in Nat /\ i - 1 <= m /\ i - 1 \notin T
      <4> HIDE DEF Good, m
      <4> QED
        BY <1>1, <2>1, <2>3
    <3>0. Good(i - 1)
      <4> HIDE DEF Good, m
      <4> QED
        BY <3>1
    <3> DEFINE s == g[i - 1]
               x == ds[i]
    <3>2. s \in Seq(X) /\ Range(s) = first(i - 1) /\ x \in X /\ g[i] = Taken(s, x)
      <4>1. s \in Seq(X) /\ Range(s) = first(i - 1)
        BY <3>0
      <4> HIDE DEF first, m
      <4> QED
        BY <1>1, <1>7, <3>1, <4>1
    <3>3. first(i) = first(i - 1) \cup {x}
      <4>1. \A j : j \in 1..i <=> j \in 1..(i - 1) \/ j = i
        BY <3>1
      <4> QED
        BY <4>1
    <3> HIDE DEF s, x, first
    <3>4. Taken(s, x) \in Seq(X) /\ Range(Taken(s, x)) = Range(s) \cup {x}
      <4>1. s \in Seq(X) /\ x \in X
        BY <3>2
      <4> HIDE DEF T, m
      <4> QED
        BY <4>1, TakenGrows
    <3>6. Good(i)
      BY <3>2, <3>3, <3>4, Zenon
    <3> HIDE DEF Good
    <3> QED
      BY <2>1, <3>6
  <2> QED
    BY <2>2, <2>3
<1>9. Range(ds) = first(m)
  BY <1>1 DEF Range
<1> HIDE DEF first
<1> QED
  BY <1>1, <1>6, <1>8, <1>9

\* What a failed search for a sub-recipe lists was searched, and every place searched is
\* listed, but for the directories two variables name and for a home that is not known
\* (sub_recipe_search_diagnostic, find_recipe_path, default_search_dirs).
THEOREM DiagnosticTells ==
  ASSUME NEW s, NEW env, NEW home,
         s.given \in Seq(STRING), s.anchored \in Seq(STRING), s.defaultSearch \in BOOLEAN,
         Split(env.recipeDirs, ":") \in Seq(STRING)
  PROVE  DiagnosticTellsTheSearch(s, env, home)
<1> DEFINE dirs == Split(env.recipeDirs, ":")
           a == s.given
           b == s.anchored
           h == IF home = "" THEN <<>> ELSE InHome(home)
           u == Bundled(env.amplihackHome)
           l == Local
           p == Given(env.packageDir)
           d == Listed(dirs)
           H == InHome(IF home = "" THEN "." ELSE home)
           X == STRING \cup Range(u) \cup Range(p) \cup Range(l) \cup Range(h) \cup Range(H)
           R(q) == Range(q)
           ss == [i \in 1..Len(dirs) |-> Given(dirs[i])]
<1>1. \A x : Given(x) = <<>> \/ Given(x) = <<x>>
  BY DEF Given
<1>2. /\ u \in Seq(R(u)) /\ l \in Seq(R(l)) /\ h \in Seq(R(h)) /\ H \in Seq(R(H))
  <2>1. \A x, y, z : /\ <<>> \in Seq(R(<<>>)) /\ <<x>> \in Seq(R(<<x>>))
                    /\ <<x, y>> \in Seq(R(<<x, y>>)) /\ <<x, y, z>> \in Seq(R(<<x, y, z>>))
    BY DEF Range
  <2> HIDE DEF R
  <2> QED
    BY <2>1, Zenon DEF Bundled, Local, InHome
<1>3. p \in Seq(R(p)) /\ R(p) \subseteq {env.packageDir}
  <2>1. \A x : <<>> \in Seq(R(<<>>)) /\ <<x>> \in Seq(R(<<x>>)) /\ R(<<>>) = {} /\ R(<<x>>) = {x}
    BY DEF Range
  <2> HIDE DEF R
  <2> QED
    BY <2>1, Zenon DEF Given
<1>4. d \in Seq(STRING) /\ R(d) \subseteq R(dirs)
  <2>1. CASE dirs = <<>>
    <3>1. ss = <<>>
      BY <2>1
    <3>2. d = <<>>
      <4>1. d = FlattenSeq(ss)
        BY Zenon DEF Listed
      <4> HIDE DEF ss, d
      <4> QED
        BY <3>1, <4>1 DEF FlattenSeq
    <3> HIDE DEF d
    <3> QED
      BY <3>2 DEF Range
  <2>2. CASE dirs # <<>>
    <3>1. ss \in Seq(Seq(STRING)) /\ ss # <<>> /\ Len(ss) = Len(dirs)
      <4>1. dirs \in Seq(STRING) /\ dirs # <<>>
        BY <2>2
      <4> HIDE DEF dirs
      <4>2. Len(dirs) \in Nat /\ Len(dirs) # 0 /\ \A i \in 1..Len(dirs) : dirs[i] \in STRING
        BY <4>1
      <4>3. \A x \in STRING : Given(x) \in Seq(STRING)
        <5> TAKE x \in STRING
        <5>1. <<>> \in Seq(STRING) /\ <<x>> \in Seq(STRING)
          OBVIOUS
        <5> QED
          BY <1>1, <5>1, Zenon
      <4>4. ss \in [1..Len(dirs) -> Seq(STRING)]
        BY <4>2, <4>3, Zenon
      <4> HIDE DEF ss
      <4>5. ss \in Seq(Seq(STRING)) /\ Len(ss) = Len(dirs)
        <5> DEFINE S == Seq(STRING)
                   n == Len(dirs)
        <5>1. ss \in [1..n -> S] /\ n \in Nat
          BY <4>2, <4>4
        <5> HIDE DEF S, n
        <5>2. ss \in Seq(S) /\ Len(ss) = n
          BY <5>1
        <5> QED
          BY <5>2 DEF S, n
      <4> QED
        BY <4>2, <4>5
    <3>2. d = FlattenSeq(ss)
      BY Zenon DEF Listed, FlattenSeq
    <3> HIDE DEF d
    <3>3. \A x : Among(x, d) <=> InParts(x, ss, Len(ss))
      <4> HIDE DEF ss
      <4> QED
        BY <3>1, <3>2, FlattenHolds
    <3>4. d \in Seq(STRING)
      <4> HIDE DEF ss
      <4> QED
        BY <3>1, <3>2, FlattenHolds
    <3>5. ASSUME NEW x \in R(d) PROVE x \in R(dirs)
      <4>1. Among(x, d)
        BY <3>4, <3>5 DEF Range, Among
      <4>2. InParts(x, ss, Len(ss))
        BY <3>3, <4>1
      <4>3. PICK i \in 1..Len(dirs) : \E j \in 1..Len(ss[i]) : x = ss[i][j]
        <5>1. \E i \in 1..Len(ss) : \E j \in 1..Len(ss[i]) : x = ss[i][j]
          BY <4>2, Zenon DEF InParts
        <5> HIDE DEF ss
        <5> QED
          BY <3>1, <5>1
      <4>4. ss[i] = Given(dirs[i])
        BY <4>3
      <4>5. x = dirs[i]
        <5> HIDE DEF ss
        <5> QED
          BY <1>1, <4>3, <4>4
      <4> HIDE DEF ss, dirs
      <4> QED
        BY <4>3, <4>5 DEF Range, dirs
    <3> QED
      BY <3>4, <3>5
  <2> QED
    BY <2>1, <2>2
<1> HIDE DEF p, d, u, l, h, H, R
<1>5. \A q, T : q \in Seq(T) /\ T \subseteq X => q \in Seq(X)
  <2> HIDE DEF X
  <2> QED
    OBVIOUS
<1>6. /\ a \in Seq(X) /\ b \in Seq(X) /\ u \in Seq(X) /\ l \in Seq(X) /\ h \in Seq(X)
      /\ H \in Seq(X) /\ p \in Seq(X) /\ d \in Seq(X)
  <2>1. /\ STRING \subseteq X /\ R(u) \subseteq X /\ R(l) \subseteq X /\ R(h) \subseteq X
        /\ R(H) \subseteq X /\ R(p) \subseteq X
    BY DEF R
  <2> HIDE DEF X
  <2> QED
    BY <1>2, <1>3, <1>4, <1>5, <2>1
<1> HIDE DEF X, a, b, dirs
<1>7. \A q, r : q \in Seq(X) /\ r \in Seq(X) => q \o r \in Seq(X) /\ R(q \o r) = R(q) \cup R(r)
  BY RangesJoin DEF R
<1> DEFINE always == a \o b \o h \o u \o l
           defaults == p \o d \o u \o H \o l
<1>8. always \in Seq(X) /\ R(always) = R(a) \cup R(b) \cup R(h) \cup R(u) \cup R(l)
  <2>1. a \o b \in Seq(X) /\ R(a \o b) = R(a) \cup R(b)
    BY <1>6, <1>7, Zenon
  <2>2. a \o b \o h \in Seq(X) /\ R(a \o b \o h) = R(a \o b) \cup R(h)
    BY <1>6, <1>7, <2>1, Zenon
  <2>3. a \o b \o h \o u \in Seq(X) /\ R(a \o b \o h \o u) = R(a \o b \o h) \cup R(u)
    BY <1>6, <1>7, <2>2, Zenon
  <2>4. always \in Seq(X) /\ R(always) = R(a \o b \o h \o u) \cup R(l)
    BY <1>6, <1>7, <2>3, Zenon
  <2> QED
    BY <2>1, <2>2, <2>3, <2>4, Zenon
<1>9. R(defaults) = R(p) \cup R(d) \cup R(u) \cup R(H) \cup R(l)
  <2>1. p \o d \in Seq(X) /\ R(p \o d) = R(p) \cup R(d)
    BY <1>6, <1>7, Zenon
  <2>2. p \o d \o u \in Seq(X) /\ R(p \o d \o u) = R(p \o d) \cup R(u)
    BY <1>6, <1>7, <2>1, Zenon
  <2>3. p \o d \o u \o H \in Seq(X) /\ R(p \o d \o u \o H) = R(p \o d \o u) \cup R(H)
    BY <1>6, <1>7, <2>2, Zenon
  <2>4. R(defaults) = R(p \o d \o u \o H) \cup R(l)
    BY <1>6, <1>7, <2>3, Zenon
  <2> QED
    BY <2>1, <2>2, <2>3, <2>4, Zenon
<1> DEFINE told == R(Diagnosed(s, env, home))
<1>10. told = IF s.defaultSearch THEN R(always) ELSE R(a)
  <2>1. Diagnosed(s, env, home) = IF s.defaultSearch THEN Distinct(always) ELSE Distinct(a)
    BY Zenon DEF Diagnosed, DiagnosedAlways, a, b, h, u, l
  <2>2. R(Distinct(always)) = R(always) /\ R(Distinct(a)) = R(a)
    <3> HIDE DEF always
    <3> QED
      BY <1>6, <1>8, DistinctKeeps DEF R
  <2> HIDE DEF always
  <2> QED
    BY <2>1, <2>2, Zenon
<1>11. /\ home = "" => R(h) = {} /\ R(H) = R(InHome("."))
       /\ home # "" => R(h) = R(H)
  <2>1. R(<<>>) = {}
    BY DEF R, Range
  <2> QED
    BY <2>1, Zenon DEF h, H
<1>12. DefaultSearchDirs(env, home) = defaults
  BY Zenon DEF DefaultSearchDirs, p, d, u, H, l, dirs
<1> HIDE DEF always, defaults, told
<1> DEFINE searched == R(a) \cup IF s.defaultSearch THEN R(b) \cup R(defaults) ELSE {}
           unsaid == {env.packageDir} \cup R(dirs) \cup IF home = "" THEN R(InHome(".")) ELSE {}
<1>13. told \subseteq searched
  <2>1. CASE s.defaultSearch
    <3>1. R(h) \subseteq R(H)
      BY <1>11
    <3> QED
      BY <1>8, <1>9, <1>10, <2>1, <3>1
  <2>2. CASE ~s.defaultSearch
    BY <1>10, <2>2
  <2> QED
    BY <2>1, <2>2
<1>14. searched \ told \subseteq unsaid
  <2>1. CASE s.defaultSearch
    BY <1>3, <1>4, <1>8, <1>9, <1>10, <1>11, <2>1
  <2>2. CASE ~s.defaultSearch
    BY <1>10, <2>2
  <2> QED
    BY <2>1, <2>2
<1> QED
  BY <1>12, <1>13, <1>14, Zenon DEF DiagnosticTellsTheSearch, told, R, a, b, dirs

\* What the parser complains of, and the reasons to refuse a parent.
Complaints == {"too large", "no name", "no steps", "bad id", "bad reference", ""}
Refusals == Complaints \cup {"circular", "not found"}

\* The documents a chain is made of, and the states of the way up it.
Documents(library, doc) == {doc} \cup {library[x] : x \in DOMAIN library}
Ascents(library, doc) == [chain : Seq(Documents(library, doc)), visited : SUBSET DOMAIN library, err : Refusals]

\* A complaint is one of six texts.
LEMMA ComplaintIsOne ==
  ASSUME NEW d
  PROVE  Complaint(d) \in Complaints
<1> DEFINE A == d \in TooLarge
           B == d.name = ""
           C == d.steps = <<>>
           D == "" \in Range(Ids(d.steps)) \/ ~IsInjective(Ids(d.steps))
           E == \E i \in 1..Len(d.steps) : ~ReferenceOk(d.steps[i])
           rest == CASE D -> "bad id" [] E -> "bad reference" [] OTHER -> ""
<1>1. Complaint(d) = CASE A -> "too large" [] d \notin TooLarge /\ B -> "no name"
                           [] d \notin TooLarge /\ d.name # "" /\ C -> "no steps" [] OTHER -> rest
  BY Zenon DEF Complaint
<1>2. rest \in {"bad id", "bad reference", ""}
  BY Zenon
<1> QED
  BY <1>1, <1>2, Zenon DEF Complaints

\* What is true of a way up after i steps: each document but the last extends the next,
\* under a name of its own; it goes on until there is nothing more to extend or there is
\* a reason to refuse what is.
Linked(library, c) ==
  \A k \in 1..(Len(c) - 1) :
    /\ c[k].extends # "" /\ c[k].extends \in DOMAIN library
    /\ c[k + 1] = library[c[k].extends] /\ Complaint(c[k + 1]) = ""
NamedOnce(c) == \A k, l \in 1..(Len(c) - 1) : c[k].extends = c[l].extends => k = l
Refusable(library, visited, name) ==
  name # "" /\ (name \in visited \/ name \notin DOMAIN library \/ Complaint(library[name]) # "")
Climbed(library, doc, a, i) ==
  /\ Len(a.chain) \in 1..(i + 1) /\ a.chain[1] = doc
  /\ Linked(library, a.chain) /\ NamedOnce(a.chain)
  /\ \A x : x \in a.visited <=> \E k \in 1..(Len(a.chain) - 1) : x = a.chain[k].extends
  /\ a.err = "" /\ a.chain[Len(a.chain)].extends # "" => Len(a.chain) = i + 1
  /\ a.err # "" => Refusable(library, a.visited, a.chain[Len(a.chain)].extends)

\* A step of Climb is one of three.
LEMMA ClimbIs ==
  ASSUME NEW library, NEW doc, NEW a \in Ascents(library, doc), a.chain # <<>>
  PROVE  LET name == a.chain[Len(a.chain)].extends
             up == Climb(library, a)
         IN  \/ (a.err # "" \/ name = "") /\ up = a
             \/ /\ a.err = "" /\ Refusable(library, a.visited, name)
                /\ up \in Ascents(library, doc) /\ up.chain = a.chain /\ up.visited = a.visited /\ up.err # ""
             \/ /\ a.err = "" /\ name # "" /\ ~Refusable(library, a.visited, name)
                /\ up \in Ascents(library, doc)
                /\ up.chain = Append(a.chain, library[name]) /\ up.visited = a.visited \cup {name} /\ up.err = ""
<1> DEFINE name == a.chain[Len(a.chain)].extends
           up == Climb(library, a)
           refusal == CASE name \in a.visited -> "circular"
                        [] name \notin a.visited /\ name \notin DOMAIN library -> "not found"
                        [] OTHER -> Complaint(library[name])
           refused == [a EXCEPT !.err = refusal]
           onward == [a EXCEPT !.chain = Append(@, library[name]), !.visited = @ \cup {name}]
<1>1. up = IF a.err # "" \/ name = "" THEN a ELSE IF refusal # "" THEN refused ELSE onward
  BY Zenon DEF Climb, Last
<1>2. refusal \in Refusals /\ (name # "" => (refusal # "" <=> Refusable(library, a.visited, name)))
  <2>1. CASE name \in a.visited
    <3>1. refusal = "circular"
      BY <2>1, Zenon
    <3> HIDE DEF refusal, name
    <3>2. refusal \in Refusals /\ refusal # ""
      BY <3>1 DEF Refusals
    <3> QED
      BY <2>1, <3>2, Zenon DEF Refusable
  <2>2. CASE name \notin a.visited /\ name \notin DOMAIN library
    <3>1. refusal = "not found"
      BY <2>2, Zenon
    <3> HIDE DEF refusal, name
    <3>2. refusal \in Refusals /\ refusal # ""
      BY <3>1 DEF Refusals
    <3> QED
      BY <2>2, <3>2, Zenon DEF Refusable
  <2>3. CASE name \notin a.visited /\ name \in DOMAIN library
    <3>1. refusal = Complaint(library[name])
      BY <2>3
    <3> HIDE DEF refusal, name
    <3> QED
      BY <2>3, <3>1, ComplaintIsOne DEF Refusable, Refusals
  <2> QED
    BY <2>1, <2>2, <2>3
<1> HIDE DEF refusal
<1>3. refused \in Ascents(library, doc) /\ refused.chain = a.chain /\ refused.visited = a.visited /\ refused.err = refusal
  BY <1>2 DEF Ascents, Refusals, Complaints
<1>4. ASSUME name \in DOMAIN library, a.err = ""
      PROVE /\ onward \in Ascents(library, doc) /\ onward.chain = Append(a.chain, library[name])
            /\ onward.visited = a.visited \cup {name} /\ onward.err = ""
  <2>1. library[name] \in Documents(library, doc)
    BY <1>4 DEF Documents
  <2> HIDE DEF name
  <2>2. Append(a.chain, library[name]) \in Seq(Documents(library, doc)) /\ a.visited \cup {name} \in SUBSET DOMAIN library
    <3>1. a.chain \in Seq(Documents(library, doc)) /\ a.visited \in SUBSET DOMAIN library
      BY DEF Ascents
    <3> DEFINE S == Documents(library, doc)
               c == a.chain
               x == library[name]
    <3>2. c \in Seq(S) /\ x \in S
      BY <2>1, <3>1
    <3> HIDE DEF S, c, x
    <3>3. Append(c, x) \in Seq(S)
      BY <3>2
    <3> QED
      BY <1>4, <3>1, <3>3 DEF S, c, x
  <2> QED
    BY <1>4, <2>2 DEF Ascents, Refusals, Complaints
<1>5. ~Refusable(library, a.visited, name) /\ name # "" => name \in DOMAIN library
  BY DEF Refusable
<1> HIDE DEF up, refused, onward, name
<1>6. CASE a.err # "" \/ name = ""
  BY <1>1, <1>6, Zenon DEF up, name
<1>7. CASE a.err = "" /\ name # "" /\ refusal # ""
  <2>1. up = refused
    BY <1>1, <1>7, Zenon
  <2> QED
    BY <1>2, <1>3, <1>7, <2>1, Zenon DEF up, name
<1>8. CASE a.err = "" /\ name # "" /\ refusal = ""
  <2>1. up = onward
    BY <1>1, <1>8, Zenon
  <2> QED
    BY <1>2, <1>4, <1>5, <1>8, <2>1, Zenon DEF up, name
<1> QED
  BY <1>6, <1>7, <1>8, Zenon

\* It keeps what is true of the way up.
LEMMA ClimbKeeps ==
  ASSUME NEW library, NEW doc, NEW a \in Ascents(library, doc), NEW i \in Nat, Climbed(library, doc, a, i)
  PROVE  Climb(library, a) \in Ascents(library, doc) /\ Climbed(library, doc, Climb(library, a), i + 1)
<1> DEFINE c == a.chain
           name == c[Len(c)].extends
           up == Climb(library, a)
<1>1. c \in Seq(Documents(library, doc)) /\ Len(c) \in 1..(i + 1) /\ c # <<>> /\ a.visited \in SUBSET DOMAIN library
  <2>1. c \in Seq(Documents(library, doc)) /\ a.visited \in SUBSET DOMAIN library
    BY DEF Ascents
  <2>2. Len(c) \in 1..(i + 1)
    BY DEF Climbed
  <2> HIDE DEF c
  <2> QED
    BY <2>1, <2>2
<1>2. CASE (a.err # "" \/ name = "") /\ up = a
  <2>1. Len(a.chain) \in 1..(i + 1 + 1)
    BY <1>1
  <2>2. Climbed(library, doc, a, i + 1)
    BY <1>2, <2>1 DEF Climbed
  <2> HIDE DEF up, c, name
  <2> QED
    BY <1>2, <2>2, Zenon DEF up
<1>3. CASE /\ a.err = "" /\ Refusable(library, a.visited, name)
           /\ up \in Ascents(library, doc) /\ up.chain = a.chain /\ up.visited = a.visited /\ up.err # ""
  <2>1. Len(a.chain) \in 1..(i + 1 + 1)
    BY <1>1
  <2>2. up.chain = a.chain /\ up.visited = a.visited /\ up.err # "" /\ up \in Ascents(library, doc)
    BY <1>3
  <2> HIDE DEF up
  <2>3. Len(up.chain) \in 1..(i + 1 + 1) /\ up.chain[1] = doc
    BY <2>1, <2>2, Zenon DEF Climbed
  <2>4. Linked(library, up.chain) /\ NamedOnce(up.chain)
    BY <2>2, Zenon DEF Climbed
  <2>5. \A x : x \in up.visited <=> \E k \in 1..(Len(up.chain) - 1) : x = up.chain[k].extends
    BY <2>2, Zenon DEF Climbed
  <2>6. up.err # "" /\ Refusable(library, up.visited, up.chain[Len(up.chain)].extends)
    BY <1>3, <2>2, Zenon DEF name, c
  <2>7. Climbed(library, doc, up, i + 1)
    BY <2>3, <2>4, <2>5, <2>6, Zenon DEF Climbed
  <2> QED
    BY <2>2, <2>7, Zenon DEF up
<1>4. CASE /\ a.err = "" /\ name # "" /\ ~Refusable(library, a.visited, name)
           /\ up \in Ascents(library, doc)
           /\ up.chain = Append(a.chain, library[name]) /\ up.visited = a.visited \cup {name} /\ up.err = ""
  <2> DEFINE n == Len(c)
             d == up.chain
  <2>1. name \in DOMAIN library /\ name \notin a.visited /\ Complaint(library[name]) = ""
    BY <1>4 DEF Refusable
  <2>2. n = i + 1 /\ n \in Nat \ {0}
    <3>1. a.err = "" /\ name # "" => n = i + 1
      BY DEF Climbed
    <3>2. n \in 1..(i + 1)
      BY <1>1
    <3>3. a.err = "" /\ name # ""
      BY <1>4
    <3>4. n = i + 1
      BY <3>1, <3>3, Zenon
    <3> HIDE DEF n, name, d
    <3> QED
      BY <3>2, <3>4
  <2>3. Len(d) = n + 1 /\ d[n + 1] = library[name] /\ \A k \in 1..n : d[k] = c[k]
    <3>1. d = Append(c, library[name])
      BY <1>4
    <3> HIDE DEF d
    <3> QED
      BY <1>1, <3>1
  <2>4. \A k \in 1..n : k = n \/ k \in 1..(n - 1)
    BY <2>2
  <2>5. \A k \in 1..(n - 1) : k + 1 \in 1..n /\ k \in 1..n
    BY <2>2
  <2>6. d[1] = doc
    <3>1. c[1] = doc
      BY DEF Climbed
    <3> HIDE DEF c, d, n
    <3> QED
      BY <2>2, <2>3, <3>1
  <2>7. /\ Linked(library, c) /\ NamedOnce(c)
        /\ \A x : x \in a.visited <=> \E k \in 1..(n - 1) : x = c[k].extends
    BY DEF Climbed
  <2>8. d[n].extends = name /\ n \in 1..n
    BY <2>2, <2>3
  <2> HIDE DEF d, c, n, name
  <2>9. Linked(library, d)
    <3>1. ASSUME NEW k \in 1..n
          PROVE  /\ d[k].extends # "" /\ d[k].extends \in DOMAIN library
                 /\ d[k + 1] = library[d[k].extends] /\ Complaint(d[k + 1]) = ""
      <4>1. CASE k = n
        BY <1>4, <2>1, <2>3, <2>8, <4>1
      <4>2. CASE k \in 1..(n - 1)
        <5>1. d[k] = c[k] /\ d[k + 1] = c[k + 1]
          BY <2>3, <2>5, <4>2
        <5>2. /\ c[k].extends # "" /\ c[k].extends \in DOMAIN library
              /\ c[k + 1] = library[c[k].extends] /\ Complaint(c[k + 1]) = ""
          BY <2>7, <4>2 DEF Linked, n
        <5> QED
          BY <5>1, <5>2
      <4> QED
        BY <2>4, <4>1, <4>2
    <3>2. Len(d) - 1 = n
      BY <2>2, <2>3
    <3> QED
      BY <3>1, <3>2, Zenon DEF Linked
  <2>10. \A k \in 1..(n - 1) : d[k].extends = c[k].extends /\ c[k].extends \in a.visited
    BY <2>3, <2>5, <2>7
  <2>11. NamedOnce(d)
    <3>1. ASSUME NEW k \in 1..n, NEW l \in 1..n, d[k].extends = d[l].extends PROVE k = l
      <4>1. CASE k = n /\ l = n
        BY <4>1
      <4>2. CASE k = n /\ l \in 1..(n - 1)
        BY <2>1, <2>8, <2>10, <3>1, <4>2
      <4>3. CASE l = n /\ k \in 1..(n - 1)
        BY <2>1, <2>8, <2>10, <3>1, <4>3
      <4>4. CASE k \in 1..(n - 1) /\ l \in 1..(n - 1)
        BY <2>7, <2>10, <3>1, <4>4 DEF NamedOnce, n
      <4> QED
        BY <2>4, <4>1, <4>2, <4>3, <4>4
    <3>2. Len(d) - 1 = n
      BY <2>2, <2>3
    <3> QED
      BY <3>1, <3>2 DEF NamedOnce
  <2>12. \A x : x \in a.visited \cup {name} <=> \E k \in 1..(Len(d) - 1) : x = d[k].extends
    <3>1. Len(d) - 1 = n
      BY <2>2, <2>3
    <3>2. ASSUME NEW x \in a.visited PROVE \E k \in 1..n : x = d[k].extends
      <4>1. PICK k \in 1..(n - 1) : x = c[k].extends
        BY <2>7, <3>2
      <4> QED
        BY <2>5, <2>10, <4>1
    <3>3. ASSUME NEW x, NEW k \in 1..n, x = d[k].extends PROVE x \in a.visited \cup {name}
      BY <2>4, <2>8, <2>10, <3>3
    <3> QED
      BY <2>8, <3>1, <3>2, <3>3
  <2>13. Len(d) \in 1..(i + 1 + 1) /\ Len(d) = i + 1 + 1
    BY <2>2, <2>3
  <2> QED
    BY <1>4, <2>6, <2>9, <2>11, <2>12, <2>13 DEF Climbed, d
<1> QED
  <2>1. a.chain # <<>>
    BY <1>1
  <2> HIDE DEF c, name, up
  <2>2. \/ (a.err # "" \/ name = "") /\ up = a
        \/ /\ a.err = "" /\ Refusable(library, a.visited, name)
           /\ up \in Ascents(library, doc) /\ up.chain = a.chain /\ up.visited = a.visited /\ up.err # ""
        \/ /\ a.err = "" /\ name # "" /\ ~Refusable(library, a.visited, name)
           /\ up \in Ascents(library, doc)
           /\ up.chain = Append(a.chain, library[name]) /\ up.visited = a.visited \cup {name} /\ up.err = ""
    BY <2>1, ClimbIs, Zenon DEF c, name, up
  <2>3. up \in Ascents(library, doc) /\ Climbed(library, doc, up, i + 1)
    BY <1>2, <1>3, <1>4, <2>2, Zenon DEF up
  <2> QED
    BY <2>3, Zenon DEF up

\* Of the way up: its end, after one step more than there are documents to extend.
LEMMA AscentIs ==
  ASSUME NEW library, NEW doc, IsFiniteSet(DOMAIN library)
  PROVE  LET top == Ascent(library, doc)
             n == Len(top.chain)
         IN  /\ top \in Ascents(library, doc)
             /\ Climbed(library, doc, top, Cardinality(DOMAIN library) + 1)
             /\ n <= Cardinality(DOMAIN library) + 1
             /\ top.err = "" => top.chain[n].extends = ""
<1> DEFINE N == Cardinality(DOMAIN library)
           m == N + 1
           c == [chain |-> <<doc>>, visited |-> {}, err |-> ""]
           V == {a \in Ascents(library, doc) : a.chain # <<>>}
           d == [i \in 1..m |-> [a \in V |-> Climb(library, a)]]
           Is(f) == f = [i \in 0..m |-> IF i = 0 THEN c ELSE Climb(library, f[i - 1])]
           g == CHOOSE g : Is(g)
           top == Ascent(library, doc)
<1>1. N \in Nat /\ m \in Nat
  BY FS_CardinalityType
<1>2. c \in V
  <2>1. doc \in Documents(library, doc)
    BY DEF Documents
  <2>2. <<doc>> \in Seq(Documents(library, doc)) /\ <<doc>> # <<>>
    BY <2>1
  <2>3. {} \in SUBSET DOMAIN library /\ "" \in Refusals
    BY DEF Refusals, Complaints
  <2>4. c \in Ascents(library, doc)
    BY <2>2, <2>3, Zenon DEF Ascents
  <2>5. c.chain = <<doc>>
    OBVIOUS
  <2> HIDE DEF c
  <2> QED
    BY <2>2, <2>4, <2>5, Zenon
<1>3. \A a \in V : Climb(library, a) \in V
  <2> TAKE a \in V
  <2>1. a \in Ascents(library, doc) /\ a.chain # <<>>
    OBVIOUS
  <2> DEFINE name == a.chain[Len(a.chain)].extends
             up == Climb(library, a)
  <2>2. \/ (a.err # "" \/ name = "") /\ up = a
        \/ /\ a.err = "" /\ Refusable(library, a.visited, name)
           /\ up \in Ascents(library, doc) /\ up.chain = a.chain /\ up.visited = a.visited /\ up.err # ""
        \/ /\ a.err = "" /\ name # "" /\ ~Refusable(library, a.visited, name)
           /\ up \in Ascents(library, doc)
           /\ up.chain = Append(a.chain, library[name]) /\ up.visited = a.visited \cup {name} /\ up.err = ""
    BY <2>1, ClimbIs, Zenon
  <2>3. \A x : Append(a.chain, x) # <<>>
    <3>1. a.chain \in Seq(Documents(library, doc))
      BY <2>1 DEF Ascents
    <3> QED
      BY <3>1
  <2> HIDE DEF name, up
  <2> QED
    BY <2>1, <2>2, <2>3, Zenon DEF up
<1>4. PICK f : Walks(f, V, c, d, m)
  <2>1. d \in [1..m -> [V -> V]]
    <3> HIDE DEF V, m
    <3> QED
      BY <1>3, Zenon
  <2> HIDE DEF d, V, m, c
  <2> QED
    BY <1>1, <1>2, <2>1, WalkThere
<1> HIDE DEF V, c
<1>5. \A i \in 1..m : f[i - 1] \in V /\ f[i] = Climb(library, f[i - 1])
  <2>1. \A i \in 1..m : f[i - 1] \in V /\ f[i] = d[i][f[i - 1]]
    <3> HIDE DEF d, m
    <3> QED
      BY <1>1, <1>4 DEF Walks
  <2> HIDE DEF m
  <2> QED
    BY <2>1
<1>6. Is(f)
  <2>1. f = [i \in 0..m |-> f[i]] /\ f[0] = c
    <3> HIDE DEF d, m
    <3> QED
      BY <1>4 DEF Walks
  <2>2. \A i \in 0..m : f[i] = IF i = 0 THEN c ELSE Climb(library, f[i - 1])
    <3>1. \A i \in 0..m : i = 0 \/ (i # 0 /\ i \in 1..m)
      BY <1>1
    <3> HIDE DEF m
    <3> QED
      BY <1>5, <2>1, <3>1, Zenon
  <2> HIDE DEF m
  <2> QED
    BY <2>1, <2>2, Zenon
<1>7. Is(g) /\ top = g[m]
  BY <1>6, Zenon DEF Ascent, c
<1> HIDE DEF g, top
<1>8. g[0] = c /\ \A i \in 1..m : g[i] = Climb(library, g[i - 1])
  <2>1. \A i \in 1..m : i \in 0..m /\ i # 0
    BY <1>1
  <2>2. 0 \in 0..m
    BY <1>1
  <2> HIDE DEF m
  <2> QED
    BY <1>7, <2>1, <2>2
<1> DEFINE Good(i) == g[i] \in Ascents(library, doc) /\ Climbed(library, doc, g[i], i)
<1>9. \A i \in 0..m : Good(i)
  <2> DEFINE T == {i \in Nat : i <= m /\ ~Good(i)}
  <2>0. \A i \in 0..m : i \in Nat /\ i <= m
    <3> HIDE DEF m
    <3> QED
      BY <1>1
  <2> SUFFICES ASSUME T # {} PROVE FALSE
    <3> HIDE DEF Good, m
    <3> QED
      BY <2>0
  <2>1. PICK i \in T : \A y \in T : i <= y
    <3>1. T \subseteq Nat
      OBVIOUS
    <3> HIDE DEF T
    <3> QED
      BY <3>1, Smallest
  <2>2. CASE i = 0
    <3>1. g[0] \in Ascents(library, doc)
      BY <1>2, <1>8 DEF V
    <3> DEFINE a == g[0]
    <3>2. a = c /\ c.chain = <<doc>> /\ c.visited = {} /\ c.err = ""
      <4>1. c.chain = <<doc>> /\ c.visited = {} /\ c.err = ""
        BY DEF c
      <4> HIDE DEF a
      <4> QED
        BY <1>8, <4>1, Zenon DEF a
    <3>3. Len(<<doc>>) = 1 /\ <<doc>>[1] = doc /\ 1..(1 - 1) = {}
      OBVIOUS
    <3>4. Climbed(library, doc, g[0], 0)
      <4>1. a.chain = <<doc>> /\ a.visited = {} /\ a.err = ""
        BY <3>2, Zenon
      <4> HIDE DEF a
      <4>2. Climbed(library, doc, a, 0)
        <5> DEFINE w == a.chain
        <5>1. Len(w) = 1 /\ w[1] = doc /\ 1..(Len(w) - 1) = {} /\ Len(w) \in 1..(0 + 1)
          <6>1. Len(w) = 1 /\ w[1] = doc
            BY <3>3, <4>1, Zenon
          <6> HIDE DEF w
          <6> QED
            BY <6>1
        <5>2. Linked(library, w) /\ NamedOnce(w)
          <6> HIDE DEF w
          <6> QED
            BY <5>1, Zenon DEF Linked, NamedOnce
        <5>3. Len(w) = 0 + 1
          BY <5>1
        <5> QED
          BY <4>1, <5>1, <5>2, <5>3, Zenon DEF Climbed
      <4> QED
        BY <4>2 DEF a
    <3> QED
      BY <2>1, <2>2, <3>1, <3>4, Zenon
  <2>3. CASE i # 0
    <3>1. i \in 1..m /\ i - 1 \in Nat /\ i - 1 <= m /\ i - 1 \notin T /\ (i - 1) + 1 = i
      <4> HIDE DEF Good, m
      <4> QED
        BY <1>1, <2>1, <2>3
    <3>2. Good(i - 1)
      <4> HIDE DEF Good, m
      <4> QED
        BY <3>1
    <3> DEFINE a == g[i - 1]
    <3>3. a \in Ascents(library, doc) /\ Climbed(library, doc, a, i - 1) /\ g[i] = Climb(library, a)
      <4> HIDE DEF m
      <4> QED
        BY <1>8, <3>1, <3>2, Zenon
    <3> HIDE DEF a
    <3>4. g[i] \in Ascents(library, doc) /\ Climbed(library, doc, g[i], (i - 1) + 1)
      BY <3>1, <3>3, ClimbKeeps, Zenon
    <3> HIDE DEF Good
    <3> QED
      <4>1. Good(i)
        BY <3>1, <3>4, Zenon DEF Good
      <4> QED
        BY <2>1, <4>1
  <2> QED
    BY <2>2, <2>3
<1>10. top \in Ascents(library, doc) /\ Climbed(library, doc, top, m)
  <2>1. m \in 0..m
    BY <1>1
  <2> HIDE DEF m
  <2> QED
    BY <1>7, <1>9, <2>1, Zenon
<1> DEFINE q == top.chain
           n == Len(q)
           K == 1..(n - 1)
<1>11. n \in 1..(m + 1) /\ n - 1 \in Nat
  <2>1. n \in 1..(m + 1)
    BY <1>10 DEF Climbed
  <2> HIDE DEF n
  <2> QED
    BY <1>1, <2>1
<1>12. n - 1 <= N
  <2> DEFINE h == [k \in K |-> q[k].extends]
  <2>1. h \in Injection(K, DOMAIN library)
    <3>1. h \in [K -> DOMAIN library]
      BY <1>10, Zenon DEF Climbed, Linked
    <3>2. \A k, l \in K : h[k] = h[l] => k = l
      <4>1. \A k, l \in K : q[k].extends = q[l].extends => k = l
        BY <1>10, Zenon DEF Climbed, NamedOnce
      <4> HIDE DEF q, K
      <4> QED
        BY <4>1, Zenon
    <3> HIDE DEF h, K
    <3> QED
      BY <3>1, <3>2 DEF Injection, IsInjective
  <2>2. IsFiniteSet(K) /\ Cardinality(K) = n - 1
    <3> HIDE DEF n
    <3> QED
      BY <1>11, FS_Interval
  <2> HIDE DEF h, K
  <2>3. Cardinality(K) <= N
    BY <2>1, FS_Injection
  <2> QED
    BY <2>2, <2>3
<1>13. n <= m /\ n # m + 1
  <2> HIDE DEF n, N
  <2> QED
    BY <1>1, <1>11, <1>12
<1>14. top.err = "" => q[n].extends = ""
  BY <1>10, <1>13, Zenon DEF Climbed
<1> QED
  BY <1>10, <1>13, <1>14, Zenon DEF top

\* What is true of a chain after i steps.
Follows(library, c) ==
  \A k \in 1..(Len(c) - 1) : c[k].extends \in DOMAIN library /\ c[k + 1] = library[c[k].extends]
Extending(library, doc, c, i) ==
  /\ Len(c) \in 1..(i + 1) /\ c[1] = doc /\ Follows(library, c)
  /\ c[Len(c)].extends \in DOMAIN library => Len(c) = i + 1

\* One more document keeps it true of the next step.
LEMMA ExtendedKeeps ==
  ASSUME NEW library, NEW doc, NEW c \in Seq(Documents(library, doc)), NEW i \in Nat, Extending(library, doc, c, i)
  PROVE  LET e == Extended(library, c)
         IN  e \in Seq(Documents(library, doc)) /\ Extending(library, doc, e, i + 1)
<1> DEFINE e == Extended(library, c)
           S == Documents(library, doc)
           n == Len(c)
           name == c[n].extends
<1>1. n \in 1..(i + 1) /\ c[1] = doc /\ Follows(library, c) /\ (name \in DOMAIN library => n = i + 1)
  BY DEF Extending
<1>2. e = IF name \in DOMAIN library THEN Append(c, library[name]) ELSE c
  BY Zenon DEF Extended, Last
<1>3. CASE name \notin DOMAIN library
  <2>1. e = c
    BY <1>2, <1>3, Zenon
  <2>2. n \in 1..(i + 1 + 1)
    <3> HIDE DEF n
    <3> QED
      BY <1>1
  <2>3. Extending(library, doc, c, i + 1)
    BY <1>1, <1>3, <2>2, Zenon DEF Extending
  <2> QED
    BY <2>1, <2>3, Zenon
<1>4. CASE name \in DOMAIN library
  <2> DEFINE x == library[name]
  <2>1. e = Append(c, x) /\ x \in S /\ n = i + 1
    BY <1>1, <1>2, <1>4, Zenon DEF Documents
  <2> HIDE DEF x, e, S
  <2>2. e \in Seq(S) /\ Len(e) = n + 1 /\ e[n + 1] = x /\ \A k \in 1..n : e[k] = c[k]
    <3>1. c \in Seq(S)
      BY DEF S
    <3> QED
      BY <2>1, <3>1
  <2> HIDE DEF n, name
  <2>3. ASSUME NEW k \in 1..(Len(e) - 1) PROVE e[k].extends \in DOMAIN library /\ e[k + 1] = library[e[k].extends]
    <3>1. k \in 1..n /\ e[k] = c[k]
      BY <2>1, <2>2
    <3>2. CASE k = n
      BY <1>4, <2>2, <3>1, <3>2, Zenon DEF x, name
    <3>3. CASE k # n
      <4>1. k \in 1..(n - 1) /\ k + 1 \in 1..n
        BY <1>1, <3>1, <3>3
      <4>2. e[k + 1] = c[k + 1] /\ c[k].extends \in DOMAIN library /\ c[k + 1] = library[c[k].extends]
        BY <1>1, <2>2, <4>1, Zenon DEF Follows, n
      <4> QED
        BY <3>1, <4>2, Zenon
    <3> QED
      BY <3>2, <3>3
  <2>4. Len(e) \in 1..(i + 1 + 1) /\ Len(e) = i + 1 + 1
    BY <2>1, <2>2
  <2>5. e[1] = doc
    BY <1>1, <2>2
  <2>6. Extending(library, doc, e, i + 1)
    BY <2>3, <2>4, <2>5, Zenon DEF Extending, Follows
  <2> QED
    BY <2>2, <2>6, Zenon DEF S, e
<1> QED
  BY <1>3, <1>4

\* The chain of a document is what it extends, as far as the library holds it.
LEMMA ChainIs ==
  ASSUME NEW library, NEW doc, IsFiniteSet(DOMAIN library)
  PROVE  LET c == Chain(library, doc)
         IN  /\ c \in Seq(Documents(library, doc))
             /\ Extending(library, doc, c, Cardinality(DOMAIN library) + 1)
<1> DEFINE m == Cardinality(DOMAIN library) + 1
           c == <<doc>>
           V == Seq(Documents(library, doc))
           W == V \ {<<>>}
           d == [i \in 1..m |-> [a \in W |-> Extended(library, a)]]
           Is(f) == f = [i \in 0..m |-> IF i = 0 THEN c ELSE Extended(library, f[i - 1])]
           g == CHOOSE g : Is(g)
           top == Chain(library, doc)
<1>1. m \in Nat
  BY FS_CardinalityType
<1>2. c \in W /\ Len(c) = 1 /\ c[1] = doc
  BY DEF Documents
<1>3. \A a \in W : Extended(library, a) \in W
  <2> TAKE a \in W
  <2> DEFINE name == a[Len(a)].extends
  <2>1. Extended(library, a) = IF name \in DOMAIN library THEN Append(a, library[name]) ELSE a
    BY Zenon DEF Extended, Last
  <2>2. name \in DOMAIN library => library[name] \in Documents(library, doc)
    BY DEF Documents
  <2> HIDE DEF name
  <2> QED
    BY <2>1, <2>2
<1>4. PICK f : Walks(f, W, c, d, m)
  <2>1. d \in [1..m -> [W -> W]]
    <3> HIDE DEF W, m
    <3> QED
      BY <1>3, Zenon
  <2> HIDE DEF d, W, m, c
  <2> QED
    BY <1>1, <1>2, <2>1, WalkThere
<1> HIDE DEF W, c
<1>5. \A i \in 1..m : f[i - 1] \in W /\ f[i] = Extended(library, f[i - 1])
  <2>1. \A i \in 1..m : f[i - 1] \in W /\ f[i] = d[i][f[i - 1]]
    <3> HIDE DEF d, m
    <3> QED
      BY <1>1, <1>4 DEF Walks
  <2> HIDE DEF m
  <2> QED
    BY <2>1
<1>6. Is(f)
  <2>1. f = [i \in 0..m |-> f[i]] /\ f[0] = c
    <3> HIDE DEF d, m
    <3> QED
      BY <1>4 DEF Walks
  <2>2. \A i \in 0..m : f[i] = IF i = 0 THEN c ELSE Extended(library, f[i - 1])
    <3>1. \A i \in 0..m : i = 0 \/ (i # 0 /\ i \in 1..m)
      BY <1>1
    <3> HIDE DEF m
    <3> QED
      BY <1>5, <2>1, <3>1, Zenon
  <2> HIDE DEF m
  <2> QED
    BY <2>1, <2>2, Zenon
<1>7. Is(g) /\ top = g[m]
  BY <1>6, Zenon DEF Chain, c
<1> HIDE DEF g, top
<1>8. g[0] = c /\ \A i \in 1..m : g[i] = Extended(library, g[i - 1])
  <2>1. \A i \in 1..m : i \in 0..m /\ i # 0
    BY <1>1
  <2>2. 0 \in 0..m
    BY <1>1
  <2> HIDE DEF m
  <2> QED
    BY <1>7, <2>1, <2>2
<1> DEFINE Good(i) == g[i] \in V /\ Extending(library, doc, g[i], i)
<1>9. \A i \in 0..m : Good(i)
  <2> DEFINE T == {i \in Nat : i <= m /\ ~Good(i)}
  <2>0. \A i \in 0..m : i \in Nat /\ i <= m
    <3> HIDE DEF m
    <3> QED
      BY <1>1
  <2> SUFFICES ASSUME T # {} PROVE FALSE
    <3> HIDE DEF Good, m
    <3> QED
      BY <2>0
  <2>1. PICK i \in T : \A y \in T : i <= y
    <3>1. T \subseteq Nat
      OBVIOUS
    <3> HIDE DEF T
    <3> QED
      BY <3>1, Smallest
  <2>2. CASE i = 0
    <3>1. 1..(Len(c) - 1) = {} /\ Len(c) \in 1..(0 + 1) /\ Len(c) = 0 + 1
      BY <1>2
    <3>2. Extending(library, doc, c, 0)
      BY <1>2, <3>1, Zenon DEF Extending, Follows
    <3>3. c \in V
      BY <1>2 DEF W
    <3> QED
      BY <1>8, <2>1, <2>2, <3>2, <3>3, Zenon
  <2>3. CASE i # 0
    <3>1. i \in 1..m /\ i - 1 \in Nat /\ i - 1 <= m /\ i - 1 \notin T /\ (i - 1) + 1 = i
      <4> HIDE DEF Good, m
      <4> QED
        BY <1>1, <2>1, <2>3
    <3>2. Good(i - 1)
      <4> HIDE DEF Good, m
      <4> QED
        BY <3>1
    <3> DEFINE a == g[i - 1]
    <3>3. a \in V /\ Extending(library, doc, a, i - 1) /\ g[i] = Extended(library, a)
      <4> HIDE DEF m
      <4> QED
        BY <1>8, <3>1, <3>2, Zenon
    <3> HIDE DEF a
    <3>4. g[i] \in V /\ Extending(library, doc, g[i], (i - 1) + 1)
      BY <3>1, <3>3, ExtendedKeeps, Zenon
    <3> HIDE DEF Good
    <3> QED
      <4>1. Good(i)
        BY <3>1, <3>4, Zenon DEF Good
      <4> QED
        BY <2>1, <4>1
  <2> QED
    BY <2>2, <2>3
<1>10. m \in 0..m
  BY <1>1
<1> HIDE DEF m
<1> QED
  BY <1>7, <1>9, <1>10, Zenon DEF top, m

\* No document has an empty name.
NamesHold(library) == "" \notin DOMAIN library

\* The way up and the chain agree as far as the way up goes, which is no longer; and the
\* way up is refused exactly if the chain is broken.
LEMMA BrokenIs ==
  ASSUME NEW library, NEW doc, IsFiniteSet(DOMAIN library), NamesHold(library)
  PROVE  LET c == Chain(library, doc)
             n == Len(c)
             top == Ascent(library, doc)
             broken == \/ n > Cardinality(DOMAIN library) + 1
                       \/ c[n].extends # ""
                       \/ \E i \in 2..n : Complaint(c[i]) # ""
         IN  /\ top.err # "" <=> broken
             /\ top.err = "" => top.chain = c
<1> DEFINE N == Cardinality(DOMAIN library)
           c == Chain(library, doc)
           n == Len(c)
           top == Ascent(library, doc)
           w == top.chain
           m == Len(w)
           S == Documents(library, doc)
<1>1. N \in Nat
  BY FS_CardinalityType
<1>2. /\ c \in Seq(S) /\ n \in 1..(N + 2) /\ c[1] = doc /\ Follows(library, c)
      /\ c[n].extends \in DOMAIN library => n = N + 2
  <2>1. c \in Seq(S) /\ Extending(library, doc, c, N + 1)
    BY ChainIs, Zenon
  <2>2. N + 1 + 1 = N + 2
    <3> HIDE DEF N
    <3> QED
      BY <1>1
  <2> QED
    BY <2>1, <2>2, Zenon DEF Extending
<1>3. /\ w \in Seq(S) /\ m \in 1..(N + 2) /\ m <= N + 1 /\ w[1] = doc
      /\ Linked(library, w)
      /\ \A x : x \in top.visited <=> \E k \in 1..(m - 1) : x = w[k].extends
      /\ top.err # "" => Refusable(library, top.visited, w[m].extends)
      /\ top.err = "" => w[m].extends = ""
  <2>1. top \in Ascents(library, doc) /\ Climbed(library, doc, top, N + 1) /\ m <= N + 1 /\ (top.err = "" => w[m].extends = "")
    BY AscentIs, Zenon
  <2>2. N + 1 + 1 = N + 2
    <3> HIDE DEF N
    <3> QED
      BY <1>1
  <2>3. w \in Seq(S)
    BY <2>1, Zenon DEF Ascents
  <2> QED
    BY <2>1, <2>2, <2>3, Zenon DEF Climbed
<1>4. Len(c) = n /\ Len(w) = m
  OBVIOUS
<1> HIDE DEF N, c, n, w, m, S, top
<1>0. N \in Nat /\ n \in 1..(N + 2) /\ m \in 1..(N + 2) /\ m <= N + 1
  BY <1>1, <1>2, <1>3, Zenon
<1>00. n \in Nat \ {0} /\ m \in Nat \ {0} /\ n <= N + 2 /\ m <= N + 1 /\ c[1] = w[1]
  <2>1. c[1] = w[1]
    BY <1>2, <1>3, Zenon
  <2> QED
    BY <1>0, <2>1
<1>01. c[n].extends \in DOMAIN library => n = N + 2
  BY <1>2, Zenon
<1>5. \A k \in 1..(n - 1) : c[k].extends \in DOMAIN library /\ c[k + 1] = library[c[k].extends]
  BY <1>2, <1>4, Zenon DEF Follows
<1>6. \A k \in 1..(m - 1) :
        /\ w[k].extends # "" /\ w[k].extends \in DOMAIN library
        /\ w[k + 1] = library[w[k].extends] /\ Complaint(w[k + 1]) = ""
  BY <1>3, <1>4, Zenon DEF Linked
<1>7. \A k \in 1..m : k <= n /\ c[k] = w[k]
  <2> DEFINE T == {k \in Nat : k \in 1..m /\ ~(k <= n /\ c[k] = w[k])}
  <2> SUFFICES ASSUME T # {} PROVE FALSE
    BY <1>00
  <2>1. PICK k \in T : \A y \in T : k <= y
    <3>1. T \subseteq Nat
      OBVIOUS
    <3> HIDE DEF T
    <3> QED
      BY <3>1, Smallest
  <2>2. k # 1
    BY <1>0, <1>00, <2>1
  <2>3. k - 1 \in 1..(m - 1) /\ k - 1 \in 1..m /\ k - 1 \notin T
    BY <1>0, <1>00, <2>1, <2>2
  <2>4. k - 1 <= n /\ c[k - 1] = w[k - 1] /\ (k - 1) + 1 = k
    BY <2>1, <2>3
  <2>5. w[k - 1].extends \in DOMAIN library /\ w[k] = library[w[k - 1].extends]
    BY <1>6, <2>3, <2>4
  <2>6. k - 1 # n
    <3>1. k - 1 < N + 2
      BY <1>0, <1>00, <2>1
    <3> QED
      BY <1>0, <1>00, <1>01, <2>4, <2>5, <3>1
  <2>7. k - 1 \in 1..(n - 1)
    BY <1>0, <1>00, <2>3, <2>4, <2>6
  <2>8. c[k] = w[k]
    BY <1>5, <2>4, <2>5, <2>7
  <2> QED
    BY <1>00, <2>1, <2>7, <2>8
<1>8. m \in 1..m /\ m <= n /\ c[m] = w[m]
  BY <1>0, <1>00, <1>7
<1>9. n # m => n > m /\ c[m].extends \in DOMAIN library /\ c[m + 1] = library[c[m].extends] /\ m + 1 \in 2..n
  <2> SUFFICES ASSUME n # m PROVE n > m /\ c[m].extends \in DOMAIN library /\ c[m + 1] = library[c[m].extends] /\ m + 1 \in 2..n
    OBVIOUS
  <2>1. n > m /\ m \in 1..(n - 1) /\ m + 1 \in 2..n
    BY <1>0, <1>00, <1>8
  <2> QED
    BY <1>5, <2>1
<1> DEFINE broken == \/ n > N + 1 \/ c[n].extends # "" \/ \E i \in 2..n : Complaint(c[i]) # ""
<1>10. ASSUME top.err = "" PROVE ~broken /\ w = c
  <2>1. w[m].extends = ""
    BY <1>3, <1>10
  <2>2. n = m
    BY <1>8, <1>9, <2>1 DEF NamesHold
  <2>3. n <= N + 1 /\ c[n].extends = ""
    BY <1>0, <1>00, <1>8, <2>1, <2>2
  <2>4. \A i \in 2..n : Complaint(c[i]) = ""
    <3> TAKE i \in 2..n
    <3>1. i - 1 \in 1..(m - 1) /\ (i - 1) + 1 = i /\ i \in 1..m
      BY <1>0, <1>00, <2>2
    <3> QED
      BY <1>6, <1>7, <3>1
  <2>5. w = c
    <3>1. w \in Seq(S) /\ c \in Seq(S)
      BY <1>2, <1>3, Zenon
    <3>2. Len(w) = Len(c) /\ \A k \in 1..Len(w) : w[k] = c[k]
      BY <1>4, <1>7, <2>2, Zenon
    <3> QED
      BY <3>1, <3>2
  <2>6. ~broken
    <3>1. ~(n > N + 1)
      <4>1. n <= N + 1
        BY <2>3, Zenon
      <4> QED
        BY <1>0, <1>00, <4>1
    <3> QED
      BY <2>3, <2>4, <3>1
  <2> QED
    BY <2>5, <2>6
<1>11. ASSUME top.err # "" PROVE broken
  <2> DEFINE name == w[m].extends
  <2>1. name # "" /\ (name \in top.visited \/ name \notin DOMAIN library \/ Complaint(library[name]) # "")
    BY <1>3, <1>11, Zenon DEF Refusable
  <2>2. c[m].extends = name
    BY <1>8
  <2> HIDE DEF name
  <2>3. CASE name \notin DOMAIN library
    <3>1. n = m
      BY <1>9, <2>2, <2>3
    <3> QED
      BY <2>1, <2>2, <3>1
  <2>4. CASE name \in DOMAIN library /\ Complaint(library[name]) # ""
    <3>1. n # m
      <4>1. n = m => n = N + 2
        BY <1>01, <2>2, <2>4, Zenon
      <4> QED
        BY <1>0, <1>00, <4>1
    <3>2. c[m + 1] = library[name] /\ m + 1 \in 2..n
      BY <1>9, <2>2, <3>1
    <3> QED
      BY <2>4, <3>2
  <2>5. CASE name \in top.visited
    <3>1. PICK i \in 1..(m - 1) : name = w[i].extends
      BY <1>3, <2>5
    <3>2. \A k \in 1..m : w[k].extends \in DOMAIN library /\ \E l \in 1..m : library[w[k].extends] = w[l]
      <4> TAKE k \in 1..m
      <4>1. CASE k = m
        <5>1. i + 1 \in 1..m /\ w[i].extends \in DOMAIN library /\ library[w[i].extends] = w[i + 1]
          <6>1. i + 1 \in 1..m
            BY <1>0, <1>00
          <6> QED
            BY <1>6, <6>1
        <5>2. w[k].extends = w[i].extends
          BY <3>1, <4>1 DEF name
        <5> QED
          BY <5>1, <5>2
      <4>2. CASE k # m
        <5>1. k \in 1..(m - 1) /\ k + 1 \in 1..m
          BY <1>0, <1>00, <4>2
        <5> QED
          BY <1>6, <5>1
      <4> QED
        BY <4>1, <4>2
    <3>3. \A j \in 1..n : \E k \in 1..m : c[j] = w[k]
      <4> DEFINE T == {j \in Nat : j \in 1..n /\ ~ \E k \in 1..m : c[j] = w[k]}
      <4> SUFFICES ASSUME T # {} PROVE FALSE
        BY <1>00
      <4>1. PICK j \in T : \A y \in T : j <= y
        <5>1. T \subseteq Nat
          OBVIOUS
        <5> HIDE DEF T
        <5> QED
          BY <5>1, Smallest
      <4>2. j # 1
        <5>1. c[1] = w[1] /\ 1 \in 1..m
          BY <1>0, <1>00
        <5> QED
          BY <4>1, <5>1
      <4>3. j - 1 \in 1..(n - 1) /\ j - 1 \in 1..n /\ j - 1 \notin T /\ (j - 1) + 1 = j /\ j \in 1..n
        BY <1>0, <1>00, <4>1, <4>2
      <4>4. PICK k \in 1..m : c[j - 1] = w[k]
        BY <4>1, <4>3
      <4>5. c[j] = library[c[j - 1].extends]
        BY <1>5, <4>3
      <4>6. PICK l \in 1..m : library[w[k].extends] = w[l]
        BY <3>2
      <4>7. c[j] = w[l]
        BY <4>4, <4>5, <4>6
      <4> QED
        BY <4>1, <4>7
    <3>4. n \in 1..n
      BY <1>0, <1>00
    <3>5. c[n].extends \in DOMAIN library
      BY <3>2, <3>3, <3>4
    <3>6. n = N + 2
      BY <1>01, <3>5
    <3>7. n > N + 1
      BY <1>0, <1>00, <3>6
    <3> QED
      BY <3>7, Zenon
  <2> QED
    BY <2>1, <2>3, <2>4, <2>5
<1> QED
  <2>1. (top.err # "" <=> broken) /\ (top.err = "" => w = c)
    BY <1>0, <1>00, <1>10, <1>11, Zenon
  <2> QED
    BY <2>1, Zenon DEF N, c, n, w, top

\* The documents of a chain laid over one another, from the oldest on.
Lays(f, c, n, m) ==
  /\ f = [k \in 1..m |-> f[k]] /\ f[1] = c[n]
  /\ \A k \in 2..m : f[k] = Merge(f[k - 1], c[n + 1 - k])

\* Any number of documents can be laid over one another.
LEMMA LaysThere ==
  ASSUME NEW c, NEW n, NEW m \in Nat \ {0}
  PROVE  \E f : Lays(f, c, n, m)
<1> DEFINE T == {k \in Nat : k # 0 /\ k <= m /\ ~ \E f : Lays(f, c, n, k)}
<1> SUFFICES ASSUME T # {} PROVE FALSE
  OBVIOUS
<1>1. PICK k \in T : \A y \in T : k <= y
  <2>1. T \subseteq Nat
    OBVIOUS
  <2> HIDE DEF T
  <2> QED
    BY <2>1, Smallest
<1>2. k # 1
  <2>1. Lays([i \in 1..1 |-> c[n]], c, n, 1)
    BY DEF Lays
  <2> QED
    BY <2>1, <1>1
<1>3. PICK f : Lays(f, c, n, k - 1)
  BY <1>1, <1>2
<1> DEFINE v == Merge(f[k - 1], c[n + 1 - k])
           g == [i \in 1..k |-> IF i = k THEN v ELSE f[i]]
<1>4. Lays(g, c, n, k)
  <2>1. g[1] = c[n] /\ g = [i \in 1..k |-> g[i]]
    BY <1>1, <1>2, <1>3 DEF Lays
  <2>2. ASSUME NEW i \in 2..k PROVE g[i] = Merge(g[i - 1], c[n + 1 - i])
    <3>1. g[i - 1] = f[i - 1]
      BY <1>1, <2>2
    <3>2. CASE i = k
      <4>1. g[i] = v
        BY <2>2, <3>2
      <4> HIDE DEF g
      <4> QED
        BY <3>1, <3>2, <4>1, Zenon
    <3>3. CASE i # k
      <4>1. g[i] = f[i] /\ i \in 2..(k - 1)
        BY <1>1, <2>2, <3>3
      <4>2. f[i] = Merge(f[i - 1], c[n + 1 - i])
        BY <1>3, <4>1, Zenon DEF Lays
      <4> HIDE DEF g
      <4> QED
        BY <3>1, <4>1, <4>2, Zenon
    <3> QED
      BY <3>2, <3>3
  <2> HIDE DEF g
  <2> QED
    BY <2>1, <2>2, Zenon DEF Lays
<1> QED
  BY <1>1, <1>4

\* That is what Descent does.
LEMMA DescentLays ==
  ASSUME NEW c, Len(c) \in Nat \ {0}
  PROVE  \E f : Lays(f, c, Len(c), Len(c)) /\ Descent(c) = f[Len(c)]
<1> DEFINE n == Len(c)
           Is(f) == f = [k \in 1..n |-> IF k = 1 THEN c[n] ELSE Merge(f[k - 1], c[n + 1 - k])]
           g == CHOOSE g : Is(g)
<1>1. PICK f : Lays(f, c, n, n)
  BY LaysThere
<1>2. Is(f)
  <2>1. f = [k \in 1..n |-> f[k]]
    BY <1>1 DEF Lays
  <2>2. \A k \in 1..n : f[k] = IF k = 1 THEN c[n] ELSE Merge(f[k - 1], c[n + 1 - k])
    <3>1. f[1] = c[n] /\ \A k \in 2..n : f[k] = Merge(f[k - 1], c[n + 1 - k])
      BY <1>1, Zenon DEF Lays
    <3>2. \A k \in 1..n : k = 1 \/ (k # 1 /\ k \in 2..n)
      OBVIOUS
    <3> HIDE DEF n
    <3> QED
      BY <3>1, <3>2, Zenon
  <2> HIDE DEF n
  <2> QED
    BY <2>1, <2>2, Zenon
<1>3. Is(g) /\ Descent(c) = g[n]
  BY <1>2, Zenon DEF Descent
<1> HIDE DEF g
<1>4. Lays(g, c, n, n)
  <2>1. \A k \in 1..n : g[k] = IF k = 1 THEN c[n] ELSE Merge(g[k - 1], c[n + 1 - k])
    <3> HIDE DEF n
    <3> QED
      BY <1>3, Zenon
  <2>2. 1 \in 1..n /\ \A k \in 2..n : k \in 1..n /\ k # 1
    OBVIOUS
  <2>3. g = [k \in 1..n |-> g[k]]
    <3> HIDE DEF n
    <3> QED
      BY <1>3
  <2> HIDE DEF n
  <2> QED
    BY <2>1, <2>2, <2>3, Zenon DEF Lays
<1> QED
  BY <1>3, <1>4

\* A document is the record a recipe's file gives.
Recorded(d) ==
  d = [name |-> d.name, steps |-> d.steps, context |-> d.context, tags |-> d.tags,
       recursion |-> d.recursion, hooks |-> d.hooks, extends |-> d.extends]

\* What a merge makes of each field.
MergesTo(parent, child, r) ==
  /\ r.name = child.name /\ r.tags = parent.tags \cup child.tags
  /\ r.steps = Both(parent.steps, child.steps)
  /\ r.context = Over(parent.context, child.context)
  /\ child.recursion = Default => r.recursion = parent.recursion
  /\ child.recursion # Default => r.recursion = child.recursion
  /\ \A h \in HookNames : child.hooks[h] = "" => r.hooks[h] = parent.hooks[h]
  /\ \A h \in HookNames : child.hooks[h] # "" => r.hooks[h] = child.hooks[h]

\* The code's merge makes that of each field.
LEMMA MergeIs ==
  ASSUME NEW parent, NEW child, Recorded(child)
  PROVE  MergesTo(parent, child, Merge(parent, child))
<1> DEFINE x == MergedContext(parent, child)
           s == MergedSteps(parent, child)
           t == parent.tags \cup child.tags
           u == IF child.recursion = Default THEN parent.recursion ELSE child.recursion
           v == [h \in HookNames |-> IF child.hooks[h] = "" THEN parent.hooks[h] ELSE child.hooks[h]]
           r == Merge(parent, child)
<1>1. r = [child EXCEPT !.extends = "", !.context = x, !.steps = s, !.tags = t, !.recursion = u, !.hooks = v]
  BY Zenon DEF Merge
<1>2. x = Over(parent.context, child.context) /\ s = Both(parent.steps, child.steps)
  BY Zenon DEF MergedContext, MergedSteps, Both
<1>3. /\ child.recursion = Default => u = parent.recursion
      /\ child.recursion # Default => u = child.recursion
      /\ \A h \in HookNames : child.hooks[h] = "" => v[h] = parent.hooks[h]
      /\ \A h \in HookNames : child.hooks[h] # "" => v[h] = child.hooks[h]
  OBVIOUS
<1> HIDE DEF x, s, t, u, v, r
<1>4. DOMAIN child = {"name", "steps", "context", "tags", "recursion", "hooks", "extends"}
  BY DEF Recorded
<1>5. r.name = child.name /\ r.steps = s /\ r.context = x /\ r.tags = t
  BY <1>1, <1>4
<1>6. r.recursion = u /\ r.hooks = v
  BY <1>1, <1>4
<1>7. /\ child.recursion = Default => r.recursion = parent.recursion
      /\ child.recursion # Default => r.recursion = child.recursion
      /\ \A h \in HookNames : child.hooks[h] = "" => r.hooks[h] = parent.hooks[h]
      /\ \A h \in HookNames : child.hooks[h] # "" => r.hooks[h] = child.hooks[h]
  BY <1>3, <1>6, Zenon
<1>8. r.tags = parent.tags \cup child.tags
  BY <1>5 DEF t
<1> QED
  BY <1>2, <1>5, <1>7, <1>8, Zenon DEF MergesTo, r

\* What is true of the documents from the i-th on laid over one another as r.
Covers(c, r, i, n) ==
  /\ r.name = c[i].name
  /\ \A x : x \in DOMAIN r.context <=> \E j \in i..n : x \in DOMAIN c[j].context
  /\ \A x \in DOMAIN r.context : \E j \in i..n :
       /\ x \in DOMAIN c[j].context /\ r.context[x] = c[j].context[x]
       /\ \A l \in i..n : x \in DOMAIN c[l].context => j <= l
  /\ \A x : x \in r.tags <=> \E j \in i..n : x \in c[j].tags
  /\ \/ r.recursion = Default /\ \A j \in i..n : c[j].recursion = Default
     \/ \E j \in i..n : /\ c[j].recursion # Default /\ r.recursion = c[j].recursion
                        /\ \A l \in i..n : c[l].recursion # Default => j <= l
  /\ \A h \in HookNames :
       \/ r.hooks[h] = "" /\ \A j \in i..n : c[j].hooks[h] = ""
       \/ \E j \in i..n : /\ c[j].hooks[h] # "" /\ r.hooks[h] = c[j].hooks[h]
                          /\ \A l \in i..n : c[l].hooks[h] # "" => j <= l

\* A document merged over what covers the rest of a chain covers it too.
LEMMA MergeCovers ==
  ASSUME NEW c, NEW n \in Nat, NEW i \in 1..(n - 1), NEW p, Covers(c, p, i + 1, n), Recorded(c[i])
  PROVE  Covers(c, Merge(p, c[i]), i, n)
<1> DEFINE r == Merge(p, c[i])
           d == c[i]
           J == i..n
           K == (i + 1)..n
<1>1. \A j : j \in J <=> j = i \/ j \in K
  OBVIOUS
<1>2. i \in J /\ (\A j \in K : j \in J /\ j # i /\ i <= j) /\ i <= i
  OBVIOUS
<1>0. MergesTo(p, d, r)
  BY MergeIs, Zenon
<1>3. /\ r.name = d.name /\ r.tags = p.tags \cup d.tags
      /\ r.context = Over(p.context, d.context)
  BY <1>0, Zenon DEF MergesTo
<1>30. /\ d.recursion = Default => r.recursion = p.recursion
       /\ d.recursion # Default => r.recursion = d.recursion
       /\ \A h \in HookNames : d.hooks[h] = "" => r.hooks[h] = p.hooks[h]
       /\ \A h \in HookNames : d.hooks[h] # "" => r.hooks[h] = d.hooks[h]
  BY <1>0, Zenon DEF MergesTo
<1>4. /\ \A x : x \in DOMAIN p.context <=> \E j \in K : x \in DOMAIN c[j].context
      /\ \A x : x \in p.tags <=> \E j \in K : x \in c[j].tags
  BY Zenon DEF Covers
<1>5. \A x \in DOMAIN p.context : \E j \in K :
        /\ x \in DOMAIN c[j].context /\ p.context[x] = c[j].context[x]
        /\ \A l \in K : x \in DOMAIN c[l].context => j <= l
  BY Zenon DEF Covers
<1>6. \/ p.recursion = Default /\ \A j \in K : c[j].recursion = Default
      \/ \E j \in K : /\ c[j].recursion # Default /\ p.recursion = c[j].recursion
                      /\ \A l \in K : c[l].recursion # Default => j <= l
  BY Zenon DEF Covers
<1>7. \A h \in HookNames :
       \/ p.hooks[h] = "" /\ \A j \in K : c[j].hooks[h] = ""
       \/ \E j \in K : /\ c[j].hooks[h] # "" /\ p.hooks[h] = c[j].hooks[h]
                       /\ \A l \in K : c[l].hooks[h] # "" => j <= l
  BY Zenon DEF Covers
<1> HIDE DEF r, J, K
<1>8. DOMAIN r.context = DOMAIN p.context \cup DOMAIN d.context
      /\ \A x \in DOMAIN r.context : r.context[x] = IF x \in DOMAIN d.context THEN d.context[x] ELSE p.context[x]
  <2> DEFINE f == p.context
             g == d.context
             q == r.context
  <2>1. q = [k \in DOMAIN f \cup DOMAIN g |-> IF k \in DOMAIN g THEN g[k] ELSE f[k]]
    BY <1>3, Zenon DEF Over
  <2> HIDE DEF f, g, q
  <2>2. DOMAIN q = DOMAIN f \cup DOMAIN g /\ \A x \in DOMAIN q : q[x] = IF x \in DOMAIN g THEN g[x] ELSE f[x]
    BY <2>1
  <2> QED
    BY <2>2, Zenon DEF f, g, q
<1>9. ASSUME NEW x
      PROVE  x \in DOMAIN r.context <=> \E j \in J : x \in DOMAIN c[j].context
  BY <1>1, <1>4, <1>8, Zenon
<1>10. ASSUME NEW x \in DOMAIN r.context
       PROVE  \E j \in J : /\ x \in DOMAIN c[j].context /\ r.context[x] = c[j].context[x]
                           /\ \A l \in J : x \in DOMAIN c[l].context => j <= l
  <2>1. CASE x \in DOMAIN d.context
    <3>1. r.context[x] = c[i].context[x]
      BY <1>8, <2>1, Zenon
    <3>2. \A l \in J : i <= l
      BY <1>1, <1>2, Zenon
    <3> QED
      BY <1>2, <2>1, <3>1, <3>2, Zenon
  <2>2. CASE x \notin DOMAIN d.context
    <3>1. x \in DOMAIN p.context /\ r.context[x] = p.context[x]
      BY <1>8, <2>2, Zenon
    <3>2. PICK j \in K : /\ x \in DOMAIN c[j].context /\ p.context[x] = c[j].context[x]
                         /\ \A l \in K : x \in DOMAIN c[l].context => j <= l
      BY <1>5, <3>1, Zenon
    <3>3. \A l \in J : x \in DOMAIN c[l].context => j <= l
      BY <1>1, <2>2, <3>2, Zenon
    <3> QED
      BY <1>2, <3>1, <3>2, <3>3, Zenon
  <2> QED
    BY <2>1, <2>2
<1>11. ASSUME NEW x
       PROVE  x \in r.tags <=> \E j \in J : x \in c[j].tags
  BY <1>1, <1>3, <1>4, Zenon
<1>12. \/ r.recursion = Default /\ \A j \in J : c[j].recursion = Default
       \/ \E j \in J : /\ c[j].recursion # Default /\ r.recursion = c[j].recursion
                       /\ \A l \in J : c[l].recursion # Default => j <= l
  <2>1. CASE d.recursion # Default
    <3>1. r.recursion = c[i].recursion
      BY <1>30, <2>1, Zenon
    <3>2. \A l \in J : i <= l
      BY <1>1, <1>2, Zenon
    <3> QED
      BY <1>2, <2>1, <3>1, <3>2, Zenon
  <2>2. CASE d.recursion = Default
    <3>1. r.recursion = p.recursion
      BY <1>30, <2>2, Zenon
    <3>2. CASE p.recursion = Default /\ \A j \in K : c[j].recursion = Default
      BY <1>1, <2>2, <3>1, <3>2, Zenon
    <3>3. CASE \E j \in K : /\ c[j].recursion # Default /\ p.recursion = c[j].recursion
                            /\ \A l \in K : c[l].recursion # Default => j <= l
      <4>1. PICK j \in K : /\ c[j].recursion # Default /\ p.recursion = c[j].recursion
                           /\ \A l \in K : c[l].recursion # Default => j <= l
        BY <3>3, Zenon
      <4>2. \A l \in J : c[l].recursion # Default => j <= l
        BY <1>1, <2>2, <4>1, Zenon
      <4> QED
        BY <1>2, <3>1, <4>1, <4>2, Zenon
    <3> QED
      BY <1>6, <3>2, <3>3, Zenon
  <2> QED
    BY <2>1, <2>2, Zenon
<1>13. ASSUME NEW h \in HookNames
       PROVE  \/ r.hooks[h] = "" /\ \A j \in J : c[j].hooks[h] = ""
              \/ \E j \in J : /\ c[j].hooks[h] # "" /\ r.hooks[h] = c[j].hooks[h]
                              /\ \A l \in J : c[l].hooks[h] # "" => j <= l
  <2>0. (d.hooks[h] = "" => r.hooks[h] = p.hooks[h]) /\ (d.hooks[h] # "" => r.hooks[h] = d.hooks[h])
    BY <1>30, Zenon
  <2>1. CASE d.hooks[h] # ""
    <3>1. r.hooks[h] = c[i].hooks[h]
      BY <2>0, <2>1, Zenon
    <3>2. \A l \in J : i <= l
      BY <1>1, <1>2, Zenon
    <3> QED
      BY <1>2, <2>1, <3>1, <3>2, Zenon
  <2>2. CASE d.hooks[h] = ""
    <3>1. r.hooks[h] = p.hooks[h]
      BY <2>0, <2>2, Zenon
    <3>2. CASE p.hooks[h] = "" /\ \A j \in K : c[j].hooks[h] = ""
      BY <1>1, <2>2, <3>1, <3>2, Zenon
    <3>3. CASE \E j \in K : /\ c[j].hooks[h] # "" /\ p.hooks[h] = c[j].hooks[h]
                            /\ \A l \in K : c[l].hooks[h] # "" => j <= l
      <4>1. PICK j \in K : /\ c[j].hooks[h] # "" /\ p.hooks[h] = c[j].hooks[h]
                           /\ \A l \in K : c[l].hooks[h] # "" => j <= l
        BY <3>3, Zenon
      <4>2. \A l \in J : c[l].hooks[h] # "" => j <= l
        BY <1>1, <2>2, <4>1, Zenon
      <4> QED
        BY <1>2, <3>1, <4>1, <4>2, Zenon
    <3> QED
      BY <1>7, <3>2, <3>3, Zenon
  <2> QED
    BY <2>1, <2>2, Zenon
<1> QED
  BY <1>3, <1>9, <1>10, <1>11, <1>12, <1>13, Zenon DEF Covers, r, J

\* The youngest document of a chain covers itself.
LEMMA LastCovers ==
  ASSUME NEW c, NEW n \in Nat
  PROVE  Covers(c, c[n], n, n)
<1>1. \A j : j \in n..n <=> j = n
  OBVIOUS
<1>2. n <= n
  OBVIOUS
<1> QED
  <2> DEFINE d == c[n]
             J == n..n
  <2>1. \A j : j \in J <=> j = n
    BY <1>1
  <2>0. n \in J /\ \A l \in J : n <= l
    OBVIOUS
  <2> HIDE DEF J
  <2>2. \A x : x \in DOMAIN d.context <=> \E j \in J : x \in DOMAIN c[j].context
    BY <2>1, Zenon
  <2>3. \A x \in DOMAIN d.context : \E j \in J :
         /\ x \in DOMAIN c[j].context /\ d.context[x] = c[j].context[x]
         /\ \A l \in J : x \in DOMAIN c[l].context => j <= l
    BY <2>0, <2>1, Zenon
  <2>4. \A x : x \in d.tags <=> \E j \in J : x \in c[j].tags
    BY <2>1, Zenon
  <2>5. \/ d.recursion = Default /\ \A j \in J : c[j].recursion = Default
        \/ \E j \in J : /\ c[j].recursion # Default /\ d.recursion = c[j].recursion
                        /\ \A l \in J : c[l].recursion # Default => j <= l
    BY <2>0, <2>1, Zenon
  <2>6. \A h \in HookNames :
         \/ d.hooks[h] = "" /\ \A j \in J : c[j].hooks[h] = ""
         \/ \E j \in J : /\ c[j].hooks[h] # "" /\ d.hooks[h] = c[j].hooks[h]
                         /\ \A l \in J : c[l].hooks[h] # "" => j <= l
    BY <2>0, <2>1, Zenon
  <2> QED
    BY <2>2, <2>3, <2>4, <2>5, <2>6, Zenon DEF Covers, J

\* Laid over one another from the last on, k documents cover the last k.
LEMMA LaidCovers ==
  ASSUME NEW c, NEW n \in Nat \ {0}, \A k \in 1..n : Recorded(c[k]), NEW f, Lays(f, c, n, n)
  PROVE  \A k \in 1..n : Covers(c, f[k], n + 1 - k, n)
<1> DEFINE T == {k \in Nat : k \in 1..n /\ ~Covers(c, f[k], n + 1 - k, n)}
<1> SUFFICES ASSUME T # {} PROVE FALSE
  OBVIOUS
<1>1. PICK k \in T : \A y \in T : k <= y
  <2>1. T \subseteq Nat
    OBVIOUS
  <2> HIDE DEF T
  <2> QED
    BY <2>1, Smallest
<1>2. k \in 1..n /\ ~Covers(c, f[k], n + 1 - k, n)
  BY <1>1
<1>3. CASE k = 1
  <2>1. n + 1 - k = n
    BY <1>3
  <2>2. f[k] = c[n]
    BY <1>3, Zenon DEF Lays
  <2> QED
    BY <1>2, <2>1, <2>2, LastCovers, Zenon
<1>4. CASE k # 1
  <2> DEFINE i == n + 1 - k
  <2>1. k \in 2..n /\ i \in 1..(n - 1) /\ n + 1 - (k - 1) = i + 1 /\ k - 1 \in Nat /\ k - 1 \in 1..n /\ ~(k <= k - 1) /\ i \in 1..n
    BY <1>2, <1>4
  <2>2. k - 1 \notin T
    BY <1>1, <2>1
  <2>3. Covers(c, f[k - 1], i + 1, n)
    <3>1. Covers(c, f[k - 1], n + 1 - (k - 1), n)
      BY <2>1, <2>2
    <3> QED
      BY <2>1, <3>1
  <2>4. f[k] = Merge(f[k - 1], c[i])
    BY <2>1, Zenon DEF Lays
  <2>5. Recorded(c[i])
    BY <2>1, Zenon
  <2> HIDE DEF i
  <2>6. Covers(c, f[k], i, n)
    BY <2>1, <2>3, <2>4, <2>5, MergeCovers, Zenon
  <2> QED
    BY <1>2, <2>6 DEF i
<1> QED
  BY <1>3, <1>4

\* And the steps are put together, those of the oldest first.
LEMMA LaidSteps ==
  ASSUME NEW c, NEW n \in Nat \ {0}, \A k \in 1..n : Recorded(c[k]), NEW f, Lays(f, c, n, n),
         NEW s, NEW ss, \A j \in 1..n : ss[j] = c[n + 1 - j].steps, Parts(s, ss, n)
  PROVE  \A k \in 1..n : f[k].steps = s[k]
<1> DEFINE T == {k \in Nat : k \in 1..n /\ f[k].steps # s[k]}
<1> SUFFICES ASSUME T # {} PROVE FALSE
  OBVIOUS
<1>1. PICK k \in T : \A y \in T : k <= y
  <2>1. T \subseteq Nat
    OBVIOUS
  <2> HIDE DEF T
  <2> QED
    BY <2>1, Smallest
<1>2. k \in 1..n /\ f[k].steps # s[k]
  BY <1>1
<1>3. CASE k = 1
  <2>1. s[1] = ss[1] /\ 1 \in 1..n /\ n + 1 - 1 = n
    BY DEF Parts
  <2>2. ss[1] = c[n + 1 - 1].steps
    BY <2>1
  <2>3. f[1] = c[n]
    BY Zenon DEF Lays
  <2> QED
    BY <1>2, <1>3, <2>1, <2>2, <2>3, Zenon
<1>4. CASE k # 1
  <2> DEFINE i == n + 1 - k
  <2>1. k \in 2..n /\ k - 1 \in Nat /\ k - 1 \in 1..n /\ ~(k <= k - 1) /\ i \in 1..n
    BY <1>2, <1>4
  <2>2. k - 1 \notin T
    BY <1>1, <2>1
  <2>3. f[k - 1].steps = s[k - 1]
    BY <2>1, <2>2
  <2>4. f[k] = Merge(f[k - 1], c[i]) /\ s[k] = Both(s[k - 1], ss[k])
    BY <2>1, Zenon DEF Lays, Parts
  <2>5. ss[k] = c[i].steps
    BY <1>2
  <2>6. Recorded(c[i])
    BY <2>1, Zenon
  <2> HIDE DEF i
  <2>7. f[k].steps = Both(f[k - 1].steps, c[i].steps)
    <3>1. MergesTo(f[k - 1], c[i], f[k])
      BY <2>4, <2>6, MergeIs, Zenon
    <3> QED
      BY <3>1, Zenon DEF MergesTo
  <2> QED
    BY <1>2, <2>3, <2>4, <2>5, <2>7, Zenon
<1> QED
  BY <1>3, <1>4

\* The first of some positions is the one chosen as the first.
LEMMA FirstIs ==
  ASSUME NEW I, NEW j \in I, I \subseteq Nat, \A l \in I : j <= l
  PROVE  (CHOOSE i \in I : \A l \in I : i <= l) = j
<1> DEFINE g == CHOOSE i \in I : \A l \in I : i <= l
<1>1. g \in I /\ \A l \in I : g <= l
  BY Zenon
<1> HIDE DEF g
<1>2. g = j
  BY <1>1
<1> QED
  BY <1>2 DEF g

\* The documents a library holds are what files give.
Readable(library, doc) ==
  /\ IsFiniteSet(DOMAIN library) /\ NamesHold(library)
  /\ Recorded(doc) /\ \A x \in DOMAIN library : Recorded(library[x])

\* What a document resolves to: the chain laid over itself, if it is not broken.
ResolvesAsChained(library, doc) ==
  LET c == Chain(library, doc)
      n == Len(c)
      res == ResolveExtends(library, doc)
      ss == [j \in 1..n |-> c[n + 1 - j].steps]
      broken == \/ n > Cardinality(DOMAIN library) + 1
                \/ c[n].extends # ""
                \/ \E i \in 2..n : Complaint(c[i]) # ""
  IN  /\ res.err # "" <=> broken
      /\ c \in Seq(Documents(library, doc)) /\ n \in Nat \ {0} /\ c[1] = doc
      /\ ~broken => /\ Covers(c, res.r, 1, n) /\ res.r.steps = FlattenSeq(ss)
                    /\ \A i \in 2..n : Complaint(c[i]) = ""

\* The code resolves a document as its chain says, or refuses it when the chain is broken.
LEMMA ResolvesTo ==
  ASSUME NEW library, NEW doc, Readable(library, doc)
  PROVE  ResolvesAsChained(library, doc)
<1> DEFINE c == Chain(library, doc)
           n == Len(c)
           top == Ascent(library, doc)
           res == ResolveExtends(library, doc)
           ss == [j \in 1..n |-> c[n + 1 - j].steps]
           broken == \/ n > Cardinality(DOMAIN library) + 1
                     \/ c[n].extends # ""
                     \/ \E i \in 2..n : Complaint(c[i]) # ""
<1>1. (top.err # "" <=> broken) /\ (top.err = "" => top.chain = c)
  BY BrokenIs, Zenon DEF Readable
<1>2. c \in Seq(Documents(library, doc)) /\ c[1] = doc
  BY ChainIs, Zenon DEF Readable, Extending
<1>3. n \in Nat \ {0}
  <2>1. n \in 1..(Cardinality(DOMAIN library) + 1 + 1)
    BY ChainIs, Zenon DEF Readable, Extending
  <2> HIDE DEF n
  <2> QED
    BY <2>1
<1>4. /\ top.err # "" => res.err = top.err
      /\ top.err = "" => res.err = "" /\ res.r = Descent(top.chain)
  <2>1. res = IF top.err # "" THEN Fails(top.err) ELSE Resolved(Descent(top.chain))
    BY Zenon DEF ResolveExtends
  <2> DEFINE d == Descent(top.chain)
             e == top.err
  <2> HIDE DEF res, d, e
  <2>2. Fails(e).err = e /\ Resolved(d).err = "" /\ Resolved(d).r = d
    BY DEF Fails, Resolved
  <2> QED
    BY <2>1, <2>2, Zenon DEF d, e
<1>5. \A k \in 1..n : Recorded(c[k])
  <2> TAKE k \in 1..n
  <2>1. c[k] \in Documents(library, doc)
    BY <1>2, <1>3
  <2> QED
    BY <2>1, Zenon DEF Documents, Readable
<1>6. PICK f : Lays(f, c, n, n) /\ Descent(c) = f[n]
  BY <1>3, DescentLays, Zenon
<1>7. Len(ss) = n
  <2> HIDE DEF c, n
  <2> QED
    BY <1>3
<1>8. PICK s : Parts(s, ss, n) /\ FlattenSeq(ss) = s[n]
  <2> HIDE DEF ss
  <2>1. \E s : Parts(s, ss, Len(ss)) /\ FlattenSeq(ss) = s[Len(ss)]
    BY <1>3, <1>7, FlattenParts
  <2> HIDE DEF n
  <2> QED
    BY <1>7, <2>1, Zenon
<1>9. n \in 1..n /\ n + 1 - n = 1
  <2> HIDE DEF n
  <2> QED
    BY <1>3
<1>10. Covers(c, f[n], 1, n)
  <2>1. \A k \in 1..n : Covers(c, f[k], n + 1 - k, n)
    <3> HIDE DEF c, n
    <3> QED
      BY <1>3, <1>5, <1>6, LaidCovers, Zenon
  <2>2. Covers(c, f[n], n + 1 - n, n)
    BY <1>9, <2>1, Zenon
  <2> QED
    BY <1>9, <2>2, Zenon
<1>11. f[n].steps = FlattenSeq(ss)
  <2>1. \A k \in 1..n : f[k].steps = s[k]
    <3>1. \A j \in 1..n : ss[j] = c[n + 1 - j].steps
      OBVIOUS
    <3> HIDE DEF c, n, ss
    <3> QED
      BY <1>3, <1>5, <1>6, <1>8, <3>1, LaidSteps
  <2> QED
    BY <1>8, <1>9, <2>1, Zenon
<1> HIDE DEF c, n, top, res, ss
<1>12. res.err # "" <=> broken
  BY <1>1, <1>4, Zenon
<1>13. ASSUME ~broken
       PROVE  /\ Covers(c, res.r, 1, n) /\ res.r.steps = FlattenSeq(ss)
              /\ \A i \in 2..n : Complaint(c[i]) = ""
  <2>1. res.r = f[n]
    BY <1>1, <1>4, <1>6, <1>13, Zenon
  <2> QED
    BY <1>10, <1>11, <1>13, <2>1, Zenon
<1> QED
  BY <1>2, <1>3, <1>12, <1>13, Zenon DEF ResolvesAsChained, c, n, res, ss

\* A resolved recipe is its whole chain laid over one another: the steps of the oldest
\* ancestor first, each variable, hook and limit from the nearest document that sets it,
\* and the tags of all. Resolving fails exactly when the chain comes back to a document,
\* leaves the library, or meets a document that does not parse (resolve_extends).
THEOREM ExtendsLays ==
  ASSUME NEW library, NEW doc, Readable(library, doc)
  PROVE  ExtendsLaysOver(library, doc)
<1> DEFINE c == Chain(library, doc)
           n == Len(c)
           res == ResolveExtends(library, doc)
           r == res.r
           ss == [j \in 1..n |-> c[n + 1 - j].steps]
           broken == \/ n > Cardinality(DOMAIN library) + 1
                     \/ c[n].extends # ""
                     \/ \E i \in 2..n : Complaint(c[i]) # ""
<1>1. /\ res.err # "" <=> broken
      /\ n \in Nat \ {0} /\ c[1] = doc
      /\ ~broken => Covers(c, r, 1, n) /\ r.steps = FlattenSeq(ss)
  <2>1. ResolvesAsChained(library, doc)
    BY ResolvesTo
  <2>2. /\ res.err # "" <=> broken
        /\ c \in Seq(Documents(library, doc)) /\ n \in Nat \ {0} /\ c[1] = doc
        /\ ~broken => /\ Covers(c, r, 1, n) /\ r.steps = FlattenSeq(ss)
                      /\ \A i \in 2..n : Complaint(c[i]) = ""
    BY <2>1, Zenon DEF ResolvesAsChained
  <2> HIDE DEF c, n, res, r, ss, broken
  <2> QED
    BY <2>2, Zenon
<1>2. \A x : FlattenSeq(x) = FlattenSeq(x)
  BY Zenon DEF FlattenSeq
<1>3. ASSUME ~broken
      PROVE  /\ r.name = doc.name
             /\ r.steps = FlattenSeq(ss)
             /\ DOMAIN r.context = UNION {DOMAIN c[i].context : i \in 1..n}
             /\ \A k \in DOMAIN r.context :
                  r.context[k] = Nearest(c, LAMBDA d : d.context[k], LAMBDA d : k \in DOMAIN d.context, "")
             /\ r.tags = UNION {c[i].tags : i \in 1..n}
             /\ r.recursion = Nearest(c, LAMBDA d : d.recursion, LAMBDA d : d.recursion # Default, Default)
             /\ \A h \in HookNames :
                  r.hooks[h] = Nearest(c, LAMBDA d : d.hooks[h], LAMBDA d : d.hooks[h] # "", "")
  <2>1. Covers(c, r, 1, n) /\ r.steps = FlattenSeq(ss) /\ c[1] = doc
    BY <1>1, <1>3, Zenon
  <2>2. 1..n \subseteq Nat
    OBVIOUS
  <2> HIDE DEF n, r, ss, c
  <2>3. r.name = doc.name /\ r.steps = FlattenSeq(ss)
    BY <1>2, <2>1, Zenon DEF Covers
  <2>4. DOMAIN r.context = UNION {DOMAIN c[i].context : i \in 1..n}
    <3>1. \A x : x \in DOMAIN r.context <=> \E j \in 1..n : x \in DOMAIN c[j].context
      BY <2>1, Zenon DEF Covers
    <3> QED
      BY <3>1, Zenon
  <2>5. r.tags = UNION {c[i].tags : i \in 1..n}
    <3>1. \A x : x \in r.tags <=> \E j \in 1..n : x \in c[j].tags
      BY <2>1, Zenon DEF Covers
    <3> QED
      BY <3>1, Zenon
  <2>6. ASSUME NEW k \in DOMAIN r.context
        PROVE  r.context[k] = Nearest(c, LAMBDA d : d.context[k], LAMBDA d : k \in DOMAIN d.context, "")
    <3> DEFINE I == {i \in 1..n : k \in DOMAIN c[i].context}
               first == CHOOSE i \in I : \A j \in I : i <= j
    <3>1. PICK j \in 1..n : /\ k \in DOMAIN c[j].context /\ r.context[k] = c[j].context[k]
                            /\ \A l \in 1..n : k \in DOMAIN c[l].context => j <= l
      BY <2>1, Zenon DEF Covers
    <3>2. j \in I /\ I \subseteq Nat /\ \A l \in I : j <= l
      BY <2>2, <3>1, Zenon
    <3>3. Nearest(c, LAMBDA d : d.context[k], LAMBDA d : k \in DOMAIN d.context, "")
            = IF I = {} THEN "" ELSE c[first].context[k]
      BY Zenon DEF Nearest, n
    <3> HIDE DEF I
    <3>4. first = j
      BY <3>2, FirstIs
    <3>5. I # {}
      BY <3>2
    <3> HIDE DEF first
    <3> QED
      BY <3>1, <3>3, <3>4, <3>5, Zenon
  <2>7. r.recursion = Nearest(c, LAMBDA d : d.recursion, LAMBDA d : d.recursion # Default, Default)
    <3> DEFINE I == {i \in 1..n : c[i].recursion # Default}
               first == CHOOSE i \in I : \A j \in I : i <= j
    <3>1. Nearest(c, LAMBDA d : d.recursion, LAMBDA d : d.recursion # Default, Default)
            = IF I = {} THEN Default ELSE c[first].recursion
      BY Zenon DEF Nearest, n
    <3>2. \/ r.recursion = Default /\ \A j \in 1..n : c[j].recursion = Default
          \/ \E j \in 1..n : /\ c[j].recursion # Default /\ r.recursion = c[j].recursion
                             /\ \A l \in 1..n : c[l].recursion # Default => j <= l
      BY <2>1, Zenon DEF Covers
    <3>3. CASE r.recursion = Default /\ \A j \in 1..n : c[j].recursion = Default
      <4>1. I = {}
        BY <3>3, Zenon
      <4> QED
        BY <3>1, <3>3, <4>1, Zenon
    <3>4. CASE \E j \in 1..n : /\ c[j].recursion # Default /\ r.recursion = c[j].recursion
                               /\ \A l \in 1..n : c[l].recursion # Default => j <= l
      <4>1. PICK j \in 1..n : /\ c[j].recursion # Default /\ r.recursion = c[j].recursion
                              /\ \A l \in 1..n : c[l].recursion # Default => j <= l
        BY <3>4, Zenon
      <4>2. j \in I /\ I \subseteq Nat /\ \A l \in I : j <= l
        BY <2>2, <4>1, Zenon
      <4> HIDE DEF I
      <4>3. first = j
        BY <4>2, FirstIs
      <4>4. I # {}
        BY <4>2
      <4> HIDE DEF first
      <4> QED
        BY <3>1, <4>1, <4>3, <4>4, Zenon
    <3> QED
      BY <3>2, <3>3, <3>4, Zenon
  <2>8. ASSUME NEW h \in HookNames
        PROVE  r.hooks[h] = Nearest(c, LAMBDA d : d.hooks[h], LAMBDA d : d.hooks[h] # "", "")
    <3> DEFINE I == {i \in 1..n : c[i].hooks[h] # ""}
               first == CHOOSE i \in I : \A j \in I : i <= j
    <3>1. Nearest(c, LAMBDA d : d.hooks[h], LAMBDA d : d.hooks[h] # "", "")
            = IF I = {} THEN "" ELSE c[first].hooks[h]
      BY Zenon DEF Nearest, n
    <3>2. \/ r.hooks[h] = "" /\ \A j \in 1..n : c[j].hooks[h] = ""
          \/ \E j \in 1..n : /\ c[j].hooks[h] # "" /\ r.hooks[h] = c[j].hooks[h]
                             /\ \A l \in 1..n : c[l].hooks[h] # "" => j <= l
      BY <2>1, Zenon DEF Covers
    <3>3. CASE r.hooks[h] = "" /\ \A j \in 1..n : c[j].hooks[h] = ""
      <4>1. I = {}
        BY <3>3, Zenon
      <4> QED
        BY <3>1, <3>3, <4>1, Zenon
    <3>4. CASE \E j \in 1..n : /\ c[j].hooks[h] # "" /\ r.hooks[h] = c[j].hooks[h]
                               /\ \A l \in 1..n : c[l].hooks[h] # "" => j <= l
      <4>1. PICK j \in 1..n : /\ c[j].hooks[h] # "" /\ r.hooks[h] = c[j].hooks[h]
                              /\ \A l \in 1..n : c[l].hooks[h] # "" => j <= l
        BY <3>4, Zenon
      <4>2. j \in I /\ I \subseteq Nat /\ \A l \in I : j <= l
        BY <2>2, <4>1, Zenon
      <4> HIDE DEF I
      <4>3. first = j
        BY <4>2, FirstIs
      <4>4. I # {}
        BY <4>2
      <4> HIDE DEF first
      <4> QED
        BY <3>1, <4>1, <4>3, <4>4, Zenon
    <3> QED
      BY <3>2, <3>3, <3>4, Zenon
  <2> QED
    BY <2>3, <2>4, <2>5, <2>6, <2>7, <2>8, Zenon
<1> QED
  BY <1>1, <1>3, Zenon DEF ExtendsLaysOver

\* The ids of some steps, and that none is there twice.
IdSet(q) == {q[i].id : i \in 1..Len(q)}
Once(q) == \A i, j \in 1..Len(q) : q[i].id = q[j].id => i = j

\* The ids the code collects are those, and its test is that one.
LEMMA IdsAre ==
  ASSUME NEW q
  PROVE  Range(Ids(q)) = IdSet(q) /\ (IsInjective(Ids(q)) <=> Once(q))
<1> DEFINE f == Ids(q)
           D == 1..Len(q)
<1>1. f = [i \in D |-> q[i].id]
  BY Zenon DEF Ids
<1> HIDE DEF f, D
<1>2. DOMAIN f = D /\ \A i \in D : f[i] = q[i].id
  BY <1>1
<1>3. Range(f) = {q[i].id : i \in D}
  BY <1>2 DEF Range
<1>4. IsInjective(f) <=> \A i, j \in D : q[i].id = q[j].id => i = j
  BY <1>2 DEF IsInjective
<1> QED
  BY <1>3, <1>4, Zenon DEF IdSet, Once, f, D

\* Steps put together have the ids of both, and none twice if neither has and they share none.
LEMMA JoinedIds ==
  ASSUME NEW S, NEW p \in Seq(S), NEW q \in Seq(S)
  PROVE  /\ IdSet(p \o q) = IdSet(p) \cup IdSet(q)
         /\ Once(p \o q) <=> Once(p) /\ Once(q) /\ IdSet(p) \cap IdSet(q) = {}
<1> DEFINE r == p \o q
           a == Len(p)
           b == Len(q)
<1>1. /\ Len(r) = a + b /\ a \in Nat /\ b \in Nat
      /\ \A n \in 1..a : r[n] = p[n]
      /\ \A n \in 1..b : r[a + n] = q[n]
  OBVIOUS
<1>2. /\ IdSet(r) = {r[i].id : i \in 1..Len(r)}
      /\ Once(r) <=> \A i, j \in 1..Len(r) : r[i].id = r[j].id => i = j
  BY Zenon DEF IdSet, Once
<1>3. /\ IdSet(p) = {p[i].id : i \in 1..a} /\ IdSet(q) = {q[i].id : i \in 1..b}
      /\ Once(p) <=> \A i, j \in 1..a : p[i].id = p[j].id => i = j
      /\ Once(q) <=> \A i, j \in 1..b : q[i].id = q[j].id => i = j
  BY Zenon DEF IdSet, Once
<1> HIDE DEF r, a, b
<1>4. \A n \in 1..Len(r) : n \in 1..a \/ (n - a \in 1..b /\ a + (n - a) = n)
  BY <1>1
<1>5. (\A n \in 1..a : n \in 1..Len(r)) /\ (\A n \in 1..b : a + n \in 1..Len(r)) /\ \A m \in 1..a, n \in 1..b : m # a + n
  BY <1>1
<1>6. \A x : x \in IdSet(r) => x \in IdSet(p) \/ x \in IdSet(q)
  <2> SUFFICES ASSUME NEW n \in 1..Len(r) PROVE r[n].id \in IdSet(p) \/ r[n].id \in IdSet(q)
    BY <1>2, Zenon
  <2>1. CASE n \in 1..a
    <3>1. r[n].id = p[n].id
      BY <1>1, <2>1
    <3> QED
      BY <1>3, <2>1, <3>1, Zenon
  <2>2. CASE n - a \in 1..b /\ a + (n - a) = n
    <3>1. r[n].id = q[n - a].id
      BY <1>1, <2>2
    <3> QED
      BY <1>3, <2>2, <3>1, Zenon
  <2> QED
    BY <1>4, <2>1, <2>2
<1>7. \A x : x \in IdSet(p) => x \in IdSet(r)
  <2> SUFFICES ASSUME NEW n \in 1..a PROVE p[n].id \in IdSet(r)
    BY <1>3, Zenon
  <2>1. p[n].id = r[n].id /\ n \in 1..Len(r)
    BY <1>1, <1>5
  <2> QED
    BY <1>2, <2>1, Zenon
<1>8. \A x : x \in IdSet(q) => x \in IdSet(r)
  <2> SUFFICES ASSUME NEW n \in 1..b PROVE q[n].id \in IdSet(r)
    BY <1>3, Zenon
  <2>1. q[n].id = r[a + n].id /\ a + n \in 1..Len(r)
    BY <1>1, <1>5
  <2> QED
    BY <1>2, <2>1, Zenon
<1>9. ASSUME Once(r) PROVE Once(p) /\ Once(q) /\ IdSet(p) \cap IdSet(q) = {}
  <2>0. \A i, j \in 1..Len(r) : r[i].id = r[j].id => i = j
    BY <1>2, <1>9, Zenon
  <2>1. ASSUME NEW i \in 1..a, NEW j \in 1..a, p[i].id = p[j].id PROVE i = j
    <3>1. r[i].id = r[j].id /\ i \in 1..Len(r) /\ j \in 1..Len(r)
      BY <1>1, <1>5, <2>1
    <3> QED
      BY <2>0, <3>1, Zenon
  <2>2. ASSUME NEW i \in 1..b, NEW j \in 1..b, q[i].id = q[j].id PROVE i = j
    <3>1. r[a + i].id = r[a + j].id /\ a + i \in 1..Len(r) /\ a + j \in 1..Len(r)
      BY <1>1, <1>5, <2>2
    <3>2. a + i = a + j
      BY <2>0, <3>1, Zenon
    <3> QED
      BY <1>1, <3>2
  <2>3. ASSUME NEW i \in 1..a, NEW j \in 1..b, p[i].id = q[j].id PROVE FALSE
    <3>1. r[i].id = r[a + j].id /\ i \in 1..Len(r) /\ a + j \in 1..Len(r) /\ i # a + j
      BY <1>1, <1>5, <2>3
    <3> QED
      BY <2>0, <3>1, Zenon
  <2>4. IdSet(p) \cap IdSet(q) = {}
    <3>1. ASSUME NEW x \in IdSet(p), x \in IdSet(q) PROVE FALSE
      <4>1. PICK i \in 1..a : x = p[i].id
        BY <1>3, <3>1, Zenon
      <4>2. PICK j \in 1..b : x = q[j].id
        <5>1. IdSet(q) = {q[j].id : j \in 1..b}
          BY <1>3, Zenon
        <5> QED
          BY <3>1, <5>1
      <4> QED
        BY <2>3, <4>1, <4>2, Zenon
    <3> QED
      BY <3>1
  <2> QED
    BY <1>3, <2>1, <2>2, <2>4, Zenon
<1>10. ASSUME Once(p), Once(q), IdSet(p) \cap IdSet(q) = {} PROVE Once(r)
  <2> SUFFICES ASSUME NEW i \in 1..Len(r), NEW j \in 1..Len(r), r[i].id = r[j].id PROVE i = j
    BY <1>2, Zenon
  <2>1. CASE i \in 1..a /\ j \in 1..a
    <3>1. p[i].id = p[j].id
      BY <1>1, <2>1
    <3> QED
      BY <1>3, <1>10, <2>1, <3>1, Zenon
  <2>2. CASE i \in 1..a /\ j - a \in 1..b /\ a + (j - a) = j
    <3>1. p[i].id = q[j - a].id
      BY <1>1, <2>2
    <3>2. p[i].id \in IdSet(p) /\ q[j - a].id \in IdSet(q)
      BY <1>3, <2>2, Zenon
    <3> QED
      BY <1>10, <3>1, <3>2
  <2>3. CASE j \in 1..a /\ i - a \in 1..b /\ a + (i - a) = i
    <3>1. p[j].id = q[i - a].id
      BY <1>1, <2>3
    <3>2. p[j].id \in IdSet(p) /\ q[i - a].id \in IdSet(q)
      BY <1>3, <2>3, Zenon
    <3> QED
      BY <1>10, <3>1, <3>2
  <2>4. CASE i - a \in 1..b /\ a + (i - a) = i /\ j - a \in 1..b /\ a + (j - a) = j
    <3>1. q[i - a].id = q[j - a].id
      BY <1>1, <2>4
    <3>2. i - a = j - a
      BY <1>3, <1>10, <2>4, <3>1, Zenon
    <3> QED
      BY <1>1, <3>2
  <2> QED
    BY <1>4, <2>1, <2>2, <2>3, <2>4, Zenon
<1> QED
  <2>1. IdSet(r) = IdSet(p) \cup IdSet(q)
    BY <1>6, <1>7, <1>8
  <2> QED
    BY <1>9, <1>10, <2>1, Zenon DEF r

\* What parse has seen to when it does not complain.
LEMMA UncomplainedIs ==
  ASSUME NEW d, Complaint(d) = ""
  PROVE  /\ "" \notin Range(Ids(d.steps)) /\ IsInjective(Ids(d.steps))
         /\ \A j \in 1..Len(d.steps) : ReferenceOk(d.steps[j])
<1> DEFINE A == d \in TooLarge
           B == d.name = ""
           C == d.steps = <<>>
           D == "" \in Range(Ids(d.steps)) \/ ~IsInjective(Ids(d.steps))
           E == \E i \in 1..Len(d.steps) : ~ReferenceOk(d.steps[i])
           rest == CASE D -> "bad id" [] E -> "bad reference" [] OTHER -> ""
<1>1. Complaint(d) = CASE A -> "too large" [] ~A /\ B -> "no name"
                           [] ~A /\ ~B /\ C -> "no steps" [] OTHER -> rest
  BY Zenon DEF Complaint
<1>2. "too large" # "" /\ "no name" # "" /\ "no steps" # "" /\ "bad id" # "" /\ "bad reference" # ""
  OBVIOUS
<1>3. rest = ""
  <2> HIDE DEF rest, A, B, C
  <2> QED
    BY <1>1, <1>2, Zenon
<1>4. ~D
  <2> HIDE DEF D, E
  <2> QED
    BY <1>2, <1>3, Zenon
<1>5. ~E
  <2> HIDE DEF D, E
  <2> QED
    BY <1>2, <1>3, <1>4, Zenon
<1> QED
  BY <1>4, <1>5, Zenon

\* No two of the first k parts share an id.
Apart(ss, k) == \A a, b \in 1..k : a # b => IdSet(ss[a]) \cap IdSet(ss[b]) = {}

\* Parts put together hold the ids of the parts, each once when no two parts share one.
LEMMA PartsOnce ==
  ASSUME NEW S, NEW ss \in Seq(Seq(S)), \A a \in 1..Len(ss) : Once(ss[a]),
         NEW f, Parts(f, ss, Len(ss)), NEW k \in 1..Len(ss)
  PROVE  /\ \A x : x \in IdSet(f[k]) <=> \E b \in 1..k : x \in IdSet(ss[b])
         /\ Once(f[k]) <=> Apart(ss, k)
<1> DEFINE Good(i) == /\ \A x : x \in IdSet(f[i]) <=> \E b \in 1..i : x \in IdSet(ss[b])
                      /\ Once(f[i]) <=> Apart(ss, i)
           T == {i \in Nat : i \in 1..Len(ss) /\ ~Good(i)}
<1>0. Len(ss) \in Nat
  OBVIOUS
<1> SUFFICES ASSUME T # {} PROVE FALSE
  <2> HIDE DEF Good
  <2>1. k \in Nat
    BY <1>0
  <2>2. T = {} => Good(k)
    BY <2>1
  <2> QED
    BY <2>2, Zenon DEF Good
<1>1. PICK j \in T : \A y \in T : j <= y
  <2>1. T \subseteq Nat
    OBVIOUS
  <2> HIDE DEF T
  <2> QED
    BY <2>1, Smallest
<1>2. j \in Nat /\ j \in 1..Len(ss) /\ ~Good(j)
  BY <1>1, Zenon
<1>3. CASE j = 1
  <2>1. f[1] = ss[1]
    BY Zenon DEF Parts
  <2>2. \A b : b \in 1..1 <=> b = 1
    OBVIOUS
  <2>3. \A x : x \in IdSet(f[1]) <=> \E b \in 1..1 : x \in IdSet(ss[b])
    BY <2>1, <2>2, Zenon
  <2>4. Once(f[1])
    BY <1>2, <1>3, <2>1, Zenon
  <2>5. Apart(ss, 1)
    <3>1. \A a, b \in 1..1 : a = b
      OBVIOUS
    <3> QED
      BY <3>1, Zenon DEF Apart
  <2> QED
    BY <1>2, <1>3, <2>3, <2>4, <2>5, Zenon
<1>4. CASE j # 1
  <2> DEFINE p == f[j - 1]
             q == ss[j]
  <2>1. j - 1 \in Nat /\ j - 1 \in 1..Len(ss) /\ j \in 2..Len(ss) /\ ~(j <= j - 1)
    BY <1>0, <1>2, <1>4
  <2>2. Good(j - 1)
    <3> HIDE DEF Good
    <3> QED
      BY <1>1, <2>1
  <2>3. f[j] = p \o q
    BY <2>1, Zenon DEF Parts, Both
  <2>4. p \in Seq(S)
    BY <2>1, PartsHold, Zenon
  <2>5. q \in Seq(S)
    BY <1>2
  <2>6. Once(q)
    BY <1>2, Zenon
  <2>7. \A b : b \in 1..j <=> b \in 1..(j - 1) \/ b = j
    BY <1>2, <1>4
  <2>8. \A b \in 1..(j - 1) : b # j
    BY <1>2
  <2> DEFINE I == 1..(j - 1)
  <2>9. (\A x : x \in IdSet(p) <=> \E b \in I : x \in IdSet(ss[b])) /\ (Once(p) <=> Apart(ss, j - 1))
    BY <2>2, Zenon
  <2> HIDE DEF p, q
  <2>10. /\ IdSet(f[j]) = IdSet(p) \cup IdSet(q)
         /\ Once(f[j]) <=> Once(p) /\ Once(q) /\ IdSet(p) \cap IdSet(q) = {}
    BY <2>3, <2>4, <2>5, JoinedIds
  <2>11. \A x : x \in IdSet(f[j]) <=> \E b \in 1..j : x \in IdSet(ss[b])
    <3>1. \A x : x \in IdSet(f[j]) <=> x \in IdSet(p) \/ x \in IdSet(q)
      BY <2>10, Zenon
    <3>2. IdSet(q) = IdSet(ss[j])
      BY DEF q
    <3> QED
      BY <2>7, <2>9, <3>1, <3>2, Zenon
  <2>12. IdSet(p) \cap IdSet(q) = {} <=> \A b \in I : IdSet(ss[b]) \cap IdSet(ss[j]) = {}
    <3>1. IdSet(q) = IdSet(ss[j])
      BY DEF q
    <3>2. IdSet(p) \cap IdSet(q) = {} <=> \A x \in IdSet(p) : x \notin IdSet(q)
      BY Zenon
    <3>3. (\A x \in IdSet(p) : x \notin IdSet(q)) <=> \A b \in I : \A x \in IdSet(ss[b]) : x \notin IdSet(ss[j])
      BY <2>9, <3>1, Zenon
    <3> QED
      BY <3>2, <3>3, Zenon
  <2>13. Apart(ss, j) <=> Apart(ss, j - 1) /\ \A b \in I : IdSet(ss[b]) \cap IdSet(ss[j]) = {}
    <3>1. Apart(ss, j) => Apart(ss, j - 1) /\ \A b \in I : IdSet(ss[b]) \cap IdSet(ss[j]) = {}
      BY <2>7, <2>8, Zenon DEF Apart
    <3>2. ASSUME Apart(ss, j - 1), \A b \in I : IdSet(ss[b]) \cap IdSet(ss[j]) = {},
                 NEW a \in 1..j, NEW b \in 1..j, a # b
          PROVE  IdSet(ss[a]) \cap IdSet(ss[b]) = {}
      <4>1. CASE a \in I /\ b \in I
        BY <3>2, <4>1, Zenon DEF Apart
      <4>2. CASE a \in I /\ b = j
        BY <3>2, <4>2, Zenon
      <4>3. CASE a = j /\ b \in I
        <5>1. IdSet(ss[b]) \cap IdSet(ss[j]) = {}
          BY <3>2, <4>3, Zenon
        <5> QED
          BY <4>3, <5>1
      <4> QED
        BY <2>7, <3>2, <4>1, <4>2, <4>3, Zenon
    <3> QED
      BY <3>1, <3>2, Zenon DEF Apart
  <2>14. Once(f[j]) <=> Apart(ss, j)
    BY <2>6, <2>9, <2>10, <2>12, <2>13, Zenon DEF q
  <2> QED
    BY <1>2, <2>11, <2>14, Zenon
<1> QED
  BY <1>3, <1>4

\* The steps of the documents are in a set.
StepsAre(library, doc, S) == \A d \in Documents(library, doc) : d.steps \in Seq(S)

\* What run_steps relies on: in a recipe that resolved, every step has a name and every
\* literal reference is a safe one, and the ids are those of the chain: they are distinct
\* exactly when no document repeats the id of an ancestor, since nothing looks for
\* duplicates again after the merge (resolve_extends, RecipeParser::parse).
THEOREM MergedRecipesAreSound ==
  ASSUME NEW library, NEW doc, Readable(library, doc), NEW S, StepsAre(library, doc, S)
  PROVE  MergedRecipeIsSound(library, doc)
<1> DEFINE c == Chain(library, doc)
           n == Len(c)
           res == ResolveExtends(library, doc)
           r == res.r
           ss == [j \in 1..n |-> c[n + 1 - j].steps]
           IdsOf(d) == Range(Ids(d.steps))
           Hyp == res.err = "" /\ Complaint(doc) = ""
           Apart1 == \A i, j \in 1..n : i # j => IdsOf(c[i]) \cap IdsOf(c[j]) = {}
<1> SUFFICES ASSUME Hyp
             PROVE  /\ "" \notin IdsOf(r)
                    /\ \A i \in 1..Len(r.steps) : ReferenceOk(r.steps[i])
                    /\ IsInjective(Ids(r.steps)) <=> Apart1
  BY Zenon DEF MergedRecipeIsSound
<1>00. Complaint(doc) = "" /\ res.err = ""
  OBVIOUS
<1> HIDE DEF Hyp
<1>1. /\ c \in Seq(Documents(library, doc)) /\ n \in Nat \ {0} /\ c[1] = doc
      /\ r.steps = FlattenSeq(ss) /\ \A i \in 2..n : Complaint(c[i]) = ""
  <2>1. ResolvesAsChained(library, doc)
    BY ResolvesTo
  <2> QED
    BY <1>00, <2>1, Zenon DEF ResolvesAsChained
<1>0. n \in Nat \ {0}
  BY <1>1, Zenon
<1>2. \A i \in 1..n : Complaint(c[i]) = "" /\ c[i].steps \in Seq(S)
  <2> TAKE i \in 1..n
  <2>1. i = 1 \/ i \in 2..n
    <3> HIDE DEF n
    <3> QED
      BY <1>0
  <2>2. Complaint(c[i]) = ""
    BY <1>00, <1>1, <2>1, Zenon
  <2>3. c[i] \in Documents(library, doc)
    <3>1. c \in Seq(Documents(library, doc))
      BY <1>1, Zenon
    <3> QED
      BY <3>1
  <2> QED
    BY <2>2, <2>3, Zenon DEF StepsAre
<1>3. \A i \in 1..n : /\ "" \notin IdSet(c[i].steps) /\ Once(c[i].steps)
                      /\ \A j \in 1..Len(c[i].steps) : ReferenceOk(c[i].steps[j])
  <2> TAKE i \in 1..n
  <2>1. /\ "" \notin Range(Ids(c[i].steps)) /\ IsInjective(Ids(c[i].steps))
        /\ \A j \in 1..Len(c[i].steps) : ReferenceOk(c[i].steps[j])
    BY <1>2, UncomplainedIs, Zenon
  <2> QED
    BY <2>1, IdsAre, Zenon
<1>4. \A d : IdsOf(d) = IdSet(d.steps)
  BY IdsAre, Zenon
<1> HIDE DEF c, n, IdsOf, r
<1>5. \A j \in 1..n : n + 1 - j \in 1..n /\ n + 1 - (n + 1 - j) = j
  BY <1>0
<1>6. Len(ss) = n /\ \A j \in 1..n : ss[j] = c[n + 1 - j].steps /\ ss[j] \in Seq(S)
  <2>1. \A j \in 1..n : c[n + 1 - j].steps \in Seq(S)
    BY <1>2, <1>5, Zenon
  <2> QED
    BY <1>0, <2>1
<1>7. ss \in Seq(Seq(S)) /\ ss # <<>>
  <2> DEFINE Q == Seq(S)
  <2>1. \A j \in 1..n : c[n + 1 - j].steps \in Q
    BY <1>2, <1>5, Zenon
  <2> HIDE DEF Q
  <2>2. ss \in [1..n -> Q]
    BY <2>1, Zenon
  <2>3. ss \in Seq(Q) /\ Len(ss) = n
    <3> HIDE DEF ss
    <3> QED
      BY <1>0, <2>2
  <2>4. ss # <<>>
    <3> HIDE DEF ss
    <3> QED
      BY <1>0, <2>3
  <2> QED
    BY <2>3, <2>4 DEF Q
<1> HIDE DEF ss
<1> DEFINE q == FlattenSeq(ss)
<1>8. q \in Seq(S)
  BY <1>7, FlattenHolds, Zenon
<1>9. \A x : Among(x, q) <=> InParts(x, ss, n)
  BY <1>6, <1>7, FlattenHolds, Zenon
<1>10. PICK f : Parts(f, ss, n) /\ q = f[n]
  <2>1. \E f : Parts(f, ss, Len(ss)) /\ FlattenSeq(ss) = f[Len(ss)]
    BY <1>1, <1>6, FlattenParts, Zenon
  <2> QED
    BY <1>6, <2>1, Zenon
<1>11. \A a \in 1..n : Once(ss[a])
  BY <1>3, <1>5, <1>6, Zenon
<1>12. /\ \A x : x \in IdSet(q) <=> \E b \in 1..n : x \in IdSet(ss[b])
       /\ Once(q) <=> Apart(ss, n)
  <2>1. n \in 1..n
    BY <1>0
  <2>2. /\ \A x : x \in IdSet(f[n]) <=> \E b \in 1..n : x \in IdSet(ss[b])
        /\ Once(f[n]) <=> Apart(ss, n)
    <3>1. /\ Parts(f, ss, Len(ss)) /\ n \in 1..Len(ss)
          /\ \A a \in 1..Len(ss) : Once(ss[a])
      BY <1>6, <1>10, <1>11, <2>1, Zenon
    <3>2. ss \in Seq(Seq(S))
      BY <1>7, Zenon
    <3>3. \A k \in 1..Len(ss) : (Once(f[k]) <=> Apart(ss, k))
      BY <3>1, <3>2, PartsOnce
    <3>4. \A k \in 1..Len(ss) : \A x : x \in IdSet(f[k]) <=> \E b \in 1..k : x \in IdSet(ss[b])
      BY <3>1, <3>2, PartsOnce
    <3> QED
      BY <3>1, <3>3, <3>4, Zenon
  <2> QED
    BY <1>10, <2>2, Zenon
<1> HIDE DEF q
<1>13. r.steps = q
  BY <1>1, Zenon DEF q
<1>14. "" \notin IdsOf(r)
  <2>1. \A b \in 1..n : "" \notin IdSet(ss[b])
    BY <1>3, <1>5, <1>6, Zenon
  <2>2. "" \notin IdSet(q)
    BY <1>12, <2>1, Zenon
  <2> QED
    BY <1>4, <1>13, <2>2, Zenon
<1>15. ASSUME NEW i \in 1..Len(r.steps) PROVE ReferenceOk(r.steps[i])
  <2>1. Among(q[i], q)
    BY <1>13, <1>15, Zenon DEF Among
  <2>2. PICK b \in 1..n : \E j \in 1..Len(ss[b]) : q[i] = ss[b][j]
    BY <1>9, <2>1, Zenon DEF InParts
  <2>3. PICK j \in 1..Len(ss[b]) : q[i] = ss[b][j]
    BY <2>2, Zenon
  <2>4. \A l \in 1..Len(ss[b]) : ReferenceOk(ss[b][l])
    BY <1>3, <1>5, <1>6, Zenon
  <2> QED
    BY <1>13, <2>3, <2>4, Zenon
<1>16. Apart(ss, n) <=> Apart1
  <2>1. \A a \in 1..n : IdSet(ss[a]) = IdsOf(c[n + 1 - a])
    BY <1>4, <1>6, Zenon
  <2>2. \A a, b \in 1..n : a # b => n + 1 - a # n + 1 - b
    BY <1>0
  <2>3. ASSUME Apart(ss, n), NEW i \in 1..n, NEW j \in 1..n, i # j PROVE IdsOf(c[i]) \cap IdsOf(c[j]) = {}
    <3>1. /\ n + 1 - i \in 1..n /\ n + 1 - j \in 1..n /\ n + 1 - i # n + 1 - j
          /\ n + 1 - (n + 1 - i) = i /\ n + 1 - (n + 1 - j) = j
      BY <1>5, <2>2, <2>3, Zenon
    <3>2. IdSet(ss[n + 1 - i]) \cap IdSet(ss[n + 1 - j]) = {}
      BY <2>3, <3>1, Zenon DEF Apart
    <3>3. IdSet(ss[n + 1 - i]) = IdsOf(c[n + 1 - (n + 1 - i)]) /\ IdSet(ss[n + 1 - j]) = IdsOf(c[n + 1 - (n + 1 - j)])
      BY <2>1, <3>1, Zenon
    <3> QED
      BY <3>1, <3>2, <3>3, Zenon
  <2>4. ASSUME Apart1, NEW a \in 1..n, NEW b \in 1..n, a # b PROVE IdSet(ss[a]) \cap IdSet(ss[b]) = {}
    <3>1. n + 1 - a \in 1..n /\ n + 1 - b \in 1..n /\ n + 1 - a # n + 1 - b
      BY <1>5, <2>2, <2>4, Zenon
    <3>2. IdsOf(c[n + 1 - a]) \cap IdsOf(c[n + 1 - b]) = {}
      BY <2>4, <3>1, Zenon
    <3> QED
      BY <2>1, <3>2, Zenon
  <2> QED
    BY <2>3, <2>4, Zenon DEF Apart
<1>17. IsInjective(Ids(r.steps)) <=> Once(q)
  BY <1>13, IdsAre, Zenon
<1> QED
  BY <1>12, <1>14, <1>15, <1>16, <1>17, Zenon

-----------------------------------------------------------------------------
(* CommandLine: what holds of every command line in every world.              *)

\* The places an anchored search looks in.
Near(origin, ancestors) == Range(origin) \cup Range(ancestors) \cup {Bundle(a) : a \in Range(ancestors)}

\* The places of a sequence pushed one after the other.
Pushes(g, held, all) == g = [i \in 0..Len(all) |-> IF i = 0 THEN <<>> ELSE PushUnique(held, g[i - 1], all[i])]
\* Pushing what is there and new, one after the other, keeps a sequence in a set.
LEMMA AllPushed ==
  ASSUME NEW held, NEW X, NEW all \in Seq(X), NEW g, Pushes(g, held, all)
  PROVE  g[Len(all)] \in Seq(X)
<1> DEFINE m == Len(all)
           T == {i \in Nat : i <= m /\ g[i] \notin Seq(X)}
<1>1. m \in Nat /\ \A i \in 1..m : all[i] \in X
  OBVIOUS
<1>2. g[0] = <<>> /\ \A i \in 1..m : g[i] = PushUnique(held, g[i - 1], all[i])
  <2>1. g = [i \in 0..m |-> IF i = 0 THEN <<>> ELSE PushUnique(held, g[i - 1], all[i])]
    BY Zenon DEF Pushes
  <2> HIDE DEF m
  <2> QED
    BY <1>1, <2>1
<1> HIDE DEF m
<1> SUFFICES ASSUME T # {} PROVE FALSE
  BY <1>1 DEF m
<1>3. PICK i \in T : \A y \in T : i <= y
  <2>1. T \subseteq Nat
    OBVIOUS
  <2> HIDE DEF T
  <2> QED
    BY <2>1, Smallest
<1>4. i # 0
  <2>1. <<>> \in Seq(X)
    OBVIOUS
  <2> QED
    BY <1>2, <1>3, <2>1
<1>5. i \in 1..m /\ i - 1 \in Nat /\ i - 1 <= m /\ i - 1 \notin T
  <2>1. i \in Nat /\ i <= m
    BY <1>3
  <2>2. i - 1 \notin T
    <3>1. ~(i <= i - 1)
      BY <2>1
    <3> HIDE DEF T
    <3> QED
      BY <1>3, <3>1
  <2> HIDE DEF T
  <2> QED
    BY <1>1, <1>4, <2>1, <2>2
<1> DEFINE s == g[i - 1]
           x == all[i]
<1>6. s \in Seq(X) /\ x \in X /\ g[i] = PushUnique(held, s, x)
  BY <1>1, <1>2, <1>5
<1> HIDE DEF s, x
<1>7. Append(s, x) \in Seq(X)
  BY <1>6
<1>8. g[i] \in Seq(X)
  <2>1. g[i] = Append(s, x) \/ g[i] = s
    BY <1>6, Zenon DEF PushUnique
  <2> QED
    BY <1>6, <1>7, <2>1
<1> QED
  BY <1>3, <1>8

\* An anchored search looks nowhere but near the recipe and the working directory.
LEMMA AnchoredNear ==
  ASSUME NEW held, NEW origin \in Seq(STRING), NEW ancestors \in Seq(STRING), ancestors # <<>>, NEW git
  PROVE  AnchoredDirs(held, origin, ancestors, git) \in Seq(Near(origin, ancestors))
<1> DEFINE X == Near(origin, ancestors)
           up == WalkUp(ancestors, git)
           over == [i \in 1..Len(up) |-> Bundle(up[i])]
           work == <<ancestors[1], Bundle(ancestors[1])>>
           all == origin \o work \o over
           Is(g) == g = [i \in 0..Len(all) |-> IF i = 0 THEN <<>> ELSE PushUnique(held, g[i - 1], all[i])]
           dirs == CHOOSE g : Is(g)
<1>1. AnchoredDirs(held, origin, ancestors, git) = dirs[Len(all)]
  BY Zenon DEF AnchoredDirs
<1>2. \A i \in 1..Len(ancestors) : ancestors[i] \in Range(ancestors)
  BY DEF Range
<1>3. Len(up) \in Nat /\ \A i \in 1..Len(up) : up[i] \in Range(ancestors)
  <2> DEFINE stops == {i \in 1..Len(ancestors) : ancestors[i] \in git \/ i = WalkUpMax}
             last == IF stops = {} THEN Len(ancestors) ELSE CHOOSE i \in stops : \A j \in stops : i <= j
  <2>1. up = SubSeq(ancestors, 1, last)
    BY Zenon DEF WalkUp
  <2>2. last \in 1..Len(ancestors)
    <3>1. CASE stops = {}
      BY <3>1
    <3>2. CASE stops # {}
      <4>1. stops \subseteq Nat
        OBVIOUS
      <4>2. last \in stops
        <5> HIDE DEF stops
        <5> QED
          BY <3>2, <4>1, LeastChosen
      <4> HIDE DEF last
      <4> QED
        BY <4>2
    <3> QED
      BY <3>1, <3>2
  <2> HIDE DEF last, up
  <2>3. Len(up) = last /\ \A i \in 1..last : up[i] = ancestors[i]
    BY <2>1, <2>2
  <2> QED
    BY <1>2, <2>2, <2>3
<1> HIDE DEF up
<1>4. \A a \in Range(ancestors) : a \in X /\ Bundle(a) \in X
  BY Zenon DEF Near
<1>5. work \in Seq(X)
  <2>1. ancestors[1] \in Range(ancestors)
    BY <1>2
  <2> HIDE DEF X
  <2> QED
    BY <1>4, <2>1
<1>6. over \in Seq(X)
  <2> HIDE DEF X
  <2> QED
    BY <1>3, <1>4
<1>7. origin \in Seq(X)
  <2>1. \A i \in 1..Len(origin) : origin[i] \in X
    BY DEF Near, Range
  <2> HIDE DEF X
  <2> QED
    BY <2>1
<1> HIDE DEF X, work, over
<1>8. all \in Seq(X)
  <2>1. origin \o work \in Seq(X)
    BY <1>5, <1>7
  <2> DEFINE p == origin \o work
  <2>2. p \in Seq(X)
    BY <2>1
  <2> HIDE DEF p
  <2>3. p \o over \in Seq(X)
    BY <1>6, <2>2
  <2> QED
    BY <2>3 DEF p
<1> HIDE DEF all
<1> DEFINE V == Seq(X)
           m == Len(all)
           d == [i \in 1..m |-> [seen \in V |-> PushUnique(held, seen, all[i])]]
<1>9. m \in Nat /\ \A i \in 1..m : all[i] \in X
  BY <1>8
<1>10. \A seen \in V, x \in X : PushUnique(held, seen, x) \in V
  BY DEF PushUnique
<1>11. PICK f : Walks(f, V, <<>>, d, m)
  <2>1. d \in [1..m -> [V -> V]]
    <3> HIDE DEF V, m
    <3> QED
      BY <1>9, <1>10
  <2>2. <<>> \in V
    OBVIOUS
  <2> HIDE DEF d, V, m
  <2> QED
    BY <1>9, <2>1, <2>2, WalkThere
<1> HIDE DEF V
<1>12. \A i \in 1..m : f[i] = PushUnique(held, f[i - 1], all[i])
  <2>1. \A i \in 1..m : f[i - 1] \in V /\ f[i] = d[i][f[i - 1]]
    <3> HIDE DEF d, m
    <3> QED
      BY <1>9, <1>11 DEF Walks
  <2> HIDE DEF m
  <2> QED
    BY <2>1
<1>13. Is(f)
  <2>1. f = [i \in 0..m |-> f[i]] /\ f[0] = <<>>
    <3> HIDE DEF d, m
    <3> QED
      BY <1>11 DEF Walks
  <2>2. \A i \in 0..m : f[i] = IF i = 0 THEN <<>> ELSE PushUnique(held, f[i - 1], all[i])
    <3>1. \A i \in 0..m : i = 0 \/ (i # 0 /\ i \in 1..m)
      BY <1>9
    <3> HIDE DEF m
    <3> QED
      BY <1>12, <2>1, <3>1
  <2> QED
    BY <2>1, <2>2 DEF m
<1>14. Is(dirs)
  BY <1>13, Zenon
<1> HIDE DEF dirs
<1>15. dirs[Len(all)] \in Seq(X)
  <2>1. Pushes(dirs, held, all)
    BY <1>14, Zenon DEF Pushes
  <2> QED
    BY <1>8, <2>1, AllPushed
<1> QED
  BY <1>1, <1>15 DEF X

\* A sub-recipe lies where its search was told to look.
LEMMA ChildSomewhere ==
  ASSUME NEW held, NEW name, NEW s, s.given \in Seq(STRING), s.defaults \in Seq(STRING),
         s.origin \in Seq(STRING), s.ancestors \in Seq(STRING), s.ancestors # <<>>,
         NEW hit, hit = FindRecipePath(held, name, s), hit.found
  PROVE  \/ hit.file.dir \in Range(s.given)
         \/ /\ s.defaultSearch
            /\ hit.file.dir \in Near(s.origin, s.ancestors) \cup Range(s.defaults)
<1> DEFINE given == FindRecipe(held, name, s.given)
           anchored == AnchoredDirs(held, s.origin, s.ancestors, s.git)
           near == FindRecipe(held, name, anchored)
           far == FindRecipe(held, name, s.defaults)
<1>1. Nothing.found = FALSE
  BY DEF Nothing
<1>2. hit = given \/ (s.defaultSearch /\ hit = near) \/ (s.defaultSearch /\ hit = far)
  BY <1>1, Zenon DEF FindRecipePath
<1>3. anchored \in Seq(Near(s.origin, s.ancestors))
  BY AnchoredNear, Zenon
<1> HIDE DEF anchored
<1>4. CASE hit = given
  BY <1>4, FoundSomewhere, Zenon
<1>5. CASE s.defaultSearch /\ hit = near
  <2>1. hit.file.dir \in Range(anchored)
    BY <1>3, <1>5, FoundSomewhere, Zenon
  <2>2. Range(anchored) \subseteq Near(s.origin, s.ancestors)
    <3> DEFINE X == Near(s.origin, s.ancestors)
    <3>1. anchored \in Seq(X)
      BY <1>3
    <3> HIDE DEF X
    <3>2. Range(anchored) \subseteq X
      BY <3>1 DEF Range
    <3> QED
      BY <3>2 DEF X
  <2> QED
    BY <1>5, <2>1, <2>2
<1>6. CASE s.defaultSearch /\ hit = far
  <2>1. hit.file.dir \in Range(s.defaults)
    BY <1>6, FoundSomewhere, Zenon
  <2> QED
    BY <1>6, <2>1
<1> HIDE DEF given, near, far
<1> QED
  BY <1>2, <1>4, <1>5, <1>6

\* What a listing holds is among the files that were inserted.
LEMMA FindsAmong ==
  ASSUME NEW q, NEW m \in Nat, NEW g, Finds(g, q, m)
  PROVE  \A n \in DOMAIN g[m] : \E j \in 1..m : g[m][n] = q[j]
<1> DEFINE Good(i) == \A n \in DOMAIN g[i] : \E j \in 1..i : g[i][n] = q[j]
           T == {i \in Nat : i <= m /\ ~Good(i)}
<1> SUFFICES ASSUME T # {} PROVE FALSE
  OBVIOUS
<1>1. PICK k \in T : \A y \in T : k <= y
  <2>1. T \subseteq Nat
    OBVIOUS
  <2> HIDE DEF T
  <2> QED
    BY <2>1, Smallest
<1>2. k # 0
  <2>1. g[0] = <<>> /\ DOMAIN <<>> = {}
    BY DEF Finds
  <2> QED
    BY <1>1, <2>1
<1>3. k \in 1..m
  BY <1>1, <1>2
<1>4. Good(k - 1)
  BY <1>1, <1>3
<1>5. g[k] = Insert(g[k - 1], q[k])
  BY <1>3, Zenon DEF Finds
<1> DEFINE p == g[k - 1]
           f == q[k]
<1>6. g[k] = p \/ g[k] = [x \in DOMAIN p \cup {f.name} |-> IF x = f.name THEN f ELSE p[x]]
  BY <1>5, Zenon DEF Insert
<1>7. \A n \in DOMAIN p : \E j \in 1..(k - 1) : p[n] = q[j]
  BY <1>4
<1>8. k \in 1..k /\ \A j \in 1..(k - 1) : j \in 1..k
  BY <1>3
<1> HIDE DEF p
<1>9. ASSUME NEW n \in DOMAIN g[k] PROVE \E j \in 1..k : g[k][n] = q[j]
  <2>1. CASE g[k] = p
    BY <1>7, <1>8, <1>9, <2>1
  <2>2. CASE g[k] = [x \in DOMAIN p \cup {f.name} |-> IF x = f.name THEN f ELSE p[x]]
    <3>1. CASE n = f.name
      <4>1. g[k][n] = q[k]
        BY <1>9, <2>2, <3>1
      <4> QED
        BY <1>8, <4>1
    <3>2. CASE n # f.name
      <4>1. n \in DOMAIN p /\ g[k][n] = p[n]
        BY <1>9, <2>2, <3>2
      <4> QED
        BY <1>7, <1>8, <4>1
    <3> QED
      BY <3>1, <3>2
  <2> QED
    BY <1>6, <2>1, <2>2
<1> QED
  BY <1>1, <1>9

\* A listing holds files of the directories listed, and no other.
LEMMA ListedSomewhere ==
  ASSUME NEW held, IsFiniteSet(held), OneFileEach(held), Alphabetical(held), NEW X, NEW dirs \in Seq(X)
  PROVE  \A n \in DOMAIN DiscoverRecipes(held, dirs) : DiscoverRecipes(held, dirs)[n].dir \in Range(dirs)
<1> DEFINE m == Len(dirs)
           ss == [i \in 1..m |-> RecipeFiles(held, dirs[i])]
           q == Listing(held, dirs)
           There(f) == \E i \in 1..m : f.dir = dirs[i]
<1>1. \A i \in 1..m : ss[i] = RecipeFiles(held, dirs[i]) /\ ss[i] \in Seq(RecipesIn(held, dirs[i]))
  BY FilesInOrder
<1>2. m \in Nat /\ Len(ss) = m
  OBVIOUS
<1>3. \A i \in 1..m : ss[i] \in Seq(held) /\ \A j \in 1..Len(ss[i]) : ss[i][j].dir = dirs[i]
  <2> SUFFICES ASSUME NEW i \in 1..m
               PROVE  ss[i] \in Seq(held) /\ \A j \in 1..Len(ss[i]) : ss[i][j].dir = dirs[i]
    OBVIOUS
  <2> DEFINE r == ss[i]
             S == RecipesIn(held, dirs[i])
  <2>1. r \in Seq(S)
    BY <1>1
  <2>2. S \subseteq held /\ \A f \in S : f.dir = dirs[i]
    BY DEF RecipesIn
  <2> HIDE DEF r, S
  <2>3. r \in Seq(held) /\ \A j \in 1..Len(r) : r[j].dir = dirs[i]
    BY <2>1, <2>2
  <2> QED
    BY <2>3 DEF r
<1>4. ss \in Seq(Seq(held))
  <2>1. ss = [i \in 1..m |-> ss[i]]
    OBVIOUS
  <2> HIDE DEF ss, m
  <2> QED
    BY <1>2, <1>3, <2>1
<1>5. q = FlattenSeq(ss)
  BY Zenon DEF Listing
<1>6. Len(q) \in Nat /\ \A j \in 1..Len(q) : There(q[j])
  <2> HIDE DEF q, ss, There
  <2>1. CASE m = 0
    <3>1. q = ss
      BY <1>2, <1>5, <2>1, Zenon DEF FlattenSeq
    <3> QED
      BY <1>2, <2>1, <3>1
  <2>2. CASE m # 0
    <3>1. ss # <<>>
      BY <1>2, <2>2
    <3>2. q \in Seq(held) /\ \A x : Among(x, q) <=> InParts(x, ss, Len(ss))
      BY <1>4, <1>5, <3>1, FlattenHolds, Zenon
    <3>3. Len(q) \in Nat
      <4>1. q \in Seq(held)
        BY <3>2, Zenon
      <4> QED
        BY <4>1
    <3>4. ASSUME NEW j \in 1..Len(q) PROVE There(q[j])
      <4>1. InParts(q[j], ss, m)
        BY <1>2, <3>2, Zenon DEF Among
      <4>2. PICK b \in 1..m : \E i \in 1..Len(ss[b]) : q[j] = ss[b][i]
        BY <4>1, Zenon DEF InParts
      <4> QED
        BY <1>3, <4>2, Zenon DEF There
    <3> QED
      BY <3>3, <3>4
  <2> QED
    BY <2>1, <2>2
<1> HIDE DEF q
<1>7. PICK g : Finds(g, q, Len(q)) /\ DiscoverRecipes(held, dirs) = g[Len(q)]
  <2>1. Len(Listing(held, dirs)) \in Nat
    BY <1>6, Zenon DEF q
  <2> QED
    BY <2>1, DiscoverFinds, Zenon DEF q
<1>8. \A n \in DOMAIN g[Len(q)] : \E j \in 1..Len(q) : g[Len(q)][n] = q[j]
  <2> DEFINE k == Len(q)
  <2>1. k \in Nat /\ Finds(g, q, k)
    BY <1>6, <1>7
  <2> HIDE DEF k
  <2>2. \A n \in DOMAIN g[k] : \E j \in 1..k : g[k][n] = q[j]
    BY <2>1, FindsAmong
  <2> QED
    BY <2>2, Zenon DEF k
<1>9. \A f : There(f) => f.dir \in Range(dirs)
  BY DEF Range
<1> HIDE DEF There
<1> QED
  BY <1>6, <1>7, <1>8, <1>9, Zenon

\* What the options can be, and what a disk and the places around it are.
Options(cli) ==
  cli \in [capabilities : BOOLEAN, alone : BOOLEAN, command : {"", "list", "update"}, recipe : STRING,
           dirs : Seq(STRING), agentDirs : Seq(STRING), noDefault : BOOLEAN, launcher : STRING,
           explain : BOOLEAN, validateOnly : BOOLEAN]
Surroundings(world) ==
  /\ IsFiniteSet(world.disk) /\ OneFileEach(world.disk) /\ Alphabetical(world.disk)
  /\ \A f \in world.disk : f.dir \in STRING
  /\ world.defaults \in Seq(STRING) /\ world.agentDefaults \in Seq(STRING)
  /\ world.ancestors \in Seq(STRING) /\ world.ancestors # <<>> /\ world.gone \in BOOLEAN

\* The recipe of the command line is on the disk: it is the file of that path, or lies in
\* a directory that recipes are named in.
LEMMA RecipeSomewhere ==
  ASSUME NEW cli, NEW world, NamedDirs(cli, world) \in Seq(STRING), Recipe(cli, world).found
  PROVE  LET hit == Recipe(cli, world)
         IN  hit.file \in world.disk
             /\ (FileAt(hit.file) = cli.recipe \/ hit.file.dir \in Range(NamedDirs(cli, world)))
<1> DEFINE given == {f \in world.disk : FileAt(f) = cli.recipe}
           file == CHOOSE f \in given : TRUE
           found == FindRecipe(world.disk, cli.recipe, NamedDirs(cli, world))
           hit == Recipe(cli, world)
<1>1. hit = IF given # {} THEN Hit(file) ELSE found
  BY Zenon DEF Recipe
<1>2. CASE given # {}
  <2>1. file \in given
    <3> HIDE DEF given
    <3> QED
      BY <1>2
  <2>2. hit.file = file
    <3> HIDE DEF file, given
    <3> QED
      BY <1>1, <1>2 DEF Hit
  <2> QED
    BY <2>1, <2>2, Zenon
<1>3. CASE given = {}
  <2>1. hit = found /\ found.found
    BY <1>1, <1>3, Zenon
  <2>2. hit.file.dir \in Range(NamedDirs(cli, world))
    BY <2>1, FoundSomewhere, Zenon
  <2>3. found = FirstOn(world.disk, cli.recipe, Tried(NamedDirs(cli, world), <<"yaml", "yml">>))
    <3>1. Nothing.found = FALSE
      BY DEF Nothing
    <3> QED
      BY <2>1, <3>1, Zenon DEF FindRecipe
  <2>4. PICK at : FoundAt(world.disk, cli.recipe, NamedDirs(cli, world), found.file, at)
    BY <2>1, <2>3, FoundFirst, Zenon
  <2>5. found.file \in world.disk
    BY <2>4, Zenon DEF FoundAt
  <2> QED
    BY <2>1, <2>2, <2>5, Zenon
<1> QED
  BY <1>2, <1>3, Zenon

\* A recipe that is run is found, and not looked at only.
Outcome(cli, world) ==
  LET hit == Recipe(cli, world)
  IN  IF cli.recipe = "" \/ (cli.launcher # "" /\ ~StartsWith(cli.launcher, "/")) THEN "bad"
      ELSE IF ~hit.found THEN "missing" ELSE IF hit.file \in world.broken THEN "broken" ELSE "good"

\* What looking and running make of it: how each ends, and with what code.
LEMMA MainEnds ==
  ASSUME NEW cli, NEW world
  PROVE  LET out == Main(cli, world)
             o == Outcome(cli, world)
         IN  IF cli.capabilities THEN out.did = "capabilities"
             ELSE IF cli.command = "update" THEN out.did = "update"
             ELSE IF cli.command = "list" THEN out.did = "list"
             ELSE IF o = "bad" THEN out = Ends(4, "nothing")
             ELSE IF o = "missing" THEN out = Ends(3, "nothing")
             ELSE IF o = "broken" THEN out = Ends(2, "nothing")
             ELSE /\ o = "good" /\ Recipe(cli, world).found
                  /\ IF cli.explain THEN out.did = "explain" ELSE IF GoneOnRereading(cli, world) THEN out = Ends(2, "nothing")
                     ELSE out.did = IF cli.validateOnly THEN "validate" ELSE "run"
<1> DEFINE hit == Recipe(cli, world)
           out == Main(cli, world)
           o == Outcome(cli, world)
           wrong == cli.recipe = "" \/ (cli.launcher # "" /\ ~StartsWith(cli.launcher, "/"))
           run == ExecuteRecipe(cli, world, hit)
<1>1. Exit.badArgs = 4 /\ Exit.notFound = 3 /\ Exit.parse = 2
  BY DEF Exit
<1>2. \A c, d : Ends(c, d).did = d
  BY DEF Ends
<1>3. out = IF cli.capabilities THEN Ends(IF cli.alone THEN 0 ELSE 2, "capabilities")
            ELSE IF cli.command = "update" THEN Ends(Either(world.updates), "update")
            ELSE IF cli.command = "list" THEN Ends(Exit.success, "list")
            ELSE IF wrong THEN Ends(Exit.badArgs, "nothing")
            ELSE IF ~hit.found THEN Ends(Exit.notFound, "nothing")
            ELSE IF hit.file \in world.broken THEN Ends(Exit.parse, "nothing")
            ELSE IF cli.explain THEN Ends(Exit.success, "explain")
            ELSE IF GoneOnRereading(cli, world) THEN Ends(Exit.parse, "nothing")
            ELSE IF cli.validateOnly THEN Ends(Exit.success, "validate")
            ELSE run
  BY Zenon DEF Main, RunRecipe
<1>4. o = IF wrong THEN "bad" ELSE IF ~hit.found THEN "missing"
          ELSE IF hit.file \in world.broken THEN "broken" ELSE "good"
  BY Zenon DEF Outcome
<1>5. run.did = "run"
  BY <1>2, Zenon DEF ExecuteRecipe
<1> HIDE DEF hit, out, o, wrong, run
<1>6. IF cli.capabilities THEN out.did = "capabilities"
      ELSE IF cli.command = "update" THEN out.did = "update"
      ELSE IF cli.command = "list" THEN out.did = "list"
      ELSE IF o = "bad" THEN out = Ends(4, "nothing")
      ELSE IF o = "missing" THEN out = Ends(3, "nothing")
      ELSE IF o = "broken" THEN out = Ends(2, "nothing")
      ELSE /\ o = "good" /\ hit.found
           /\ IF cli.explain THEN out.did = "explain" ELSE IF GoneOnRereading(cli, world) THEN out = Ends(2, "nothing")
              ELSE out.did = IF cli.validateOnly THEN "validate" ELSE "run"
  BY <1>1, <1>2, <1>3, <1>4, <1>5
<1> QED
  BY <1>6, Zenon DEF hit, out, o

\* What is looked at tells how a run would start: --explain and --validate-only run no
\* step, and end with 0 exactly if a run with the same arguments gets to its recipe, with
\* the code of that run otherwise. Whatever is found by name without the default search
\* lies in a directory that was given, and with it at least in a default one (run).
THEOREM LinesAreObeyed ==
  ASSUME NEW cli, Options(cli), NEW world, Surroundings(world)
  PROVE  CommandLineIsObeyed(cli, world)
<1> DEFINE bare == [cli EXCEPT !.explain = FALSE, !.validateOnly = FALSE]
           out == Main(cli, world)
           ran == Main(bare, world)
           hit == Recipe(cli, world)
           named == {h \in {Parent(cli, world), Child(cli, world, hit)} : h.found}
           given == Range(cli.dirs)
           agents == {h \in {Agent(cli, world)} : h.found}
           near == {hit.file.dir} \cup Range(world.ancestors) \cup {Bundle(d) : d \in Range(world.ancestors)}
           Lies(f, dirs) == \E d \in dirs : Inside(f, <<d>>)
           o == Outcome(cli, world)
<1>1. /\ bare.capabilities = cli.capabilities /\ bare.command = cli.command /\ bare.recipe = cli.recipe
      /\ bare.dirs = cli.dirs /\ bare.noDefault = cli.noDefault /\ bare.launcher = cli.launcher
      /\ bare.explain = FALSE /\ bare.validateOnly = FALSE
  BY DEF Options
<1>2. /\ cli.capabilities \in BOOLEAN /\ cli.explain \in BOOLEAN /\ cli.validateOnly \in BOOLEAN
      /\ cli.noDefault \in BOOLEAN /\ cli.command \in {"", "list", "update"}
      /\ cli.dirs \in Seq(STRING) /\ cli.agentDirs \in Seq(STRING)
  BY DEF Options
<1>3. /\ IsFiniteSet(world.disk) /\ OneFileEach(world.disk) /\ Alphabetical(world.disk)
      /\ \A f \in world.disk : f.dir \in STRING
      /\ world.defaults \in Seq(STRING) /\ world.agentDefaults \in Seq(STRING)
      /\ world.ancestors \in Seq(STRING) /\ world.ancestors # <<>>
  BY Zenon DEF Surroundings
<1> HIDE DEF bare
<1>4. Recipe(bare, world) = hit /\ Outcome(bare, world) = o
  <2> DEFINE Chosen(name, dirs) ==
               LET set == {f \in world.disk : FileAt(f) = name}
               IN  IF set # {} THEN Hit(CHOOSE f \in set : TRUE) ELSE FindRecipe(world.disk, name, dirs)
  <2>0. /\ Recipe(bare, world) = Chosen(bare.recipe, NamedDirs(bare, world))
        /\ hit = Chosen(cli.recipe, NamedDirs(cli, world))
    BY Zenon DEF Recipe
  <2>1. Recipe(bare, world) = hit
    <3> HIDE DEF Chosen, hit
    <3>1. NamedDirs(bare, world) = NamedDirs(cli, world)
      BY <1>1, Zenon DEF NamedDirs
    <3> QED
      BY <1>1, <2>0, <3>1, Zenon
  <2> QED
    BY <1>1, <2>1, Zenon DEF Outcome
<1>5. IF cli.capabilities THEN out.did = "capabilities"
      ELSE IF cli.command = "update" THEN out.did = "update"
      ELSE IF cli.command = "list" THEN out.did = "list"
      ELSE IF o = "bad" THEN out = Ends(4, "nothing")
      ELSE IF o = "missing" THEN out = Ends(3, "nothing")
      ELSE IF o = "broken" THEN out = Ends(2, "nothing")
      ELSE /\ o = "good" /\ hit.found
           /\ IF cli.explain THEN out.did = "explain" ELSE IF GoneOnRereading(cli, world) THEN out = Ends(2, "nothing")
              ELSE out.did = IF cli.validateOnly THEN "validate" ELSE "run"
  BY MainEnds, Zenon
<1>6. IF cli.capabilities THEN ran.did = "capabilities"
      ELSE IF cli.command = "update" THEN ran.did = "update"
      ELSE IF cli.command = "list" THEN ran.did = "list"
      ELSE IF o = "bad" THEN ran = Ends(4, "nothing")
      ELSE IF o = "missing" THEN ran = Ends(3, "nothing")
      ELSE IF o = "broken" THEN ran = Ends(2, "nothing")
      ELSE o = "good" /\ hit.found /\ ran.did = "run"
  <2>1. IF bare.capabilities THEN ran.did = "capabilities"
        ELSE IF bare.command = "update" THEN ran.did = "update"
        ELSE IF bare.command = "list" THEN ran.did = "list"
        ELSE IF o = "bad" THEN ran = Ends(4, "nothing")
        ELSE IF o = "missing" THEN ran = Ends(3, "nothing")
        ELSE IF o = "broken" THEN ran = Ends(2, "nothing")
        ELSE /\ o = "good" /\ hit.found
             /\ IF bare.explain THEN ran.did = "explain" ELSE IF GoneOnRereading(bare, world) THEN ran = Ends(2, "nothing")
                ELSE ran.did = IF bare.validateOnly THEN "validate" ELSE "run"
    BY <1>4, MainEnds, Zenon
  <2>2. ~GoneOnRereading(bare, world)
    BY <1>1 DEF GoneOnRereading
  <2> HIDE DEF ran, o, hit
  <2> QED
    BY <1>1, <2>1, <2>2
<1>7. \A c, d : Ends(c, d).did = d /\ Ends(c, d).exit = c
  BY DEF Ends
<1>8. /\ out.did = "run" => ~cli.explain /\ ~cli.validateOnly /\ cli.command = "" /\ ~cli.capabilities
      /\ out.did \in {"explain", "validate"} <=>
           ran.did = "run" /\ (cli.explain \/ cli.validateOnly) /\ ~GoneOnRereading(cli, world)
      /\ out.did = "nothing" => out.exit > 1 /\ (out = ran \/ GoneOnRereading(cli, world))
      /\ ran.did = "run" => hit.found
  <2>1. /\ Ends(4, "nothing").did = "nothing" /\ Ends(4, "nothing").exit = 4
        /\ Ends(3, "nothing").did = "nothing" /\ Ends(3, "nothing").exit = 3
        /\ Ends(2, "nothing").did = "nothing" /\ Ends(2, "nothing").exit = 2
    BY <1>7, Zenon
  <2>2. /\ cli.capabilities \in BOOLEAN /\ cli.explain \in BOOLEAN /\ cli.validateOnly \in BOOLEAN
        /\ cli.command \in {"", "list", "update"}
    BY <1>2
  <2> HIDE DEF out, ran, o, hit
  <2>3. CASE cli.capabilities \/ cli.command \in {"update", "list"}
    BY <1>5, <1>6, <2>2, <2>3
  <2>4. CASE ~cli.capabilities /\ cli.command = "" /\ o \in {"bad", "missing", "broken"}
    <3>1. out = ran /\ (out = Ends(4, "nothing") \/ out = Ends(3, "nothing") \/ out = Ends(2, "nothing"))
      BY <1>5, <1>6, <2>4
    <3>2. out = ran /\ out.did = "nothing" /\ out.exit \in {2, 3, 4}
      BY <2>1, <3>1, Zenon
    <3>3. out.exit > 1
      BY <3>2
    <3>4. out.did # "run" /\ out.did \notin {"explain", "validate"} /\ ran.did # "run"
      <4>1. out.did = "nothing" /\ ran.did = "nothing"
        BY <3>2
      <4> QED
        BY <4>1
    <3> QED
      BY <3>2, <3>3, <3>4, Zenon
  <2>5. CASE ~cli.capabilities /\ cli.command = "" /\ o \notin {"bad", "missing", "broken"}
    <3> DEFINE gone == GoneOnRereading(cli, world)
    <3>1. /\ hit.found /\ ran.did = "run"
          /\ IF cli.explain THEN out.did = "explain" ELSE IF gone THEN out = Ends(2, "nothing")
             ELSE out.did = IF cli.validateOnly THEN "validate" ELSE "run"
      BY <1>5, <1>6, <2>5
    <3>2. gone \in BOOLEAN /\ (gone => cli.validateOnly /\ ~cli.explain)
      BY <2>2 DEF GoneOnRereading, Options, Surroundings
    <3> HIDE DEF gone
    <3>3. CASE gone
      <4>1. out.did = "nothing" /\ out.exit = 2
        BY <2>1, <3>1, <3>2, <3>3
      <4> QED
        BY <3>1, <3>3, <4>1 DEF gone
    <3>4. CASE ~gone
      <4>1. /\ out.did = "run" => ~cli.explain /\ ~cli.validateOnly
            /\ out.did \in {"explain", "validate"} <=> cli.explain \/ cli.validateOnly
            /\ out.did # "nothing"
        BY <2>2, <3>1, <3>4
      <4> QED
        BY <2>5, <3>1, <3>4, <4>1 DEF gone
    <3> QED
      BY <3>2, <3>3, <3>4
  <2> QED
    BY <2>2, <2>3, <2>4, <2>5
<1>9. cli.noDefault => \A f \in ListedRecipes(cli, world) : f.dir \in given
  <2> SUFFICES ASSUME cli.noDefault PROVE \A f \in ListedRecipes(cli, world) : f.dir \in given
    OBVIOUS
  <2>1. NamedDirs(cli, world) = cli.dirs
    BY Zenon DEF NamedDirs
  <2> DEFINE found == DiscoverRecipes(world.disk, cli.dirs)
  <2>2. ListedRecipes(cli, world) = {found[n] : n \in DOMAIN found}
    BY <2>1, Zenon DEF ListedRecipes
  <2>3. \A n \in DOMAIN found : found[n].dir \in given
    BY <1>2, <1>3, ListedSomewhere, Zenon
  <2> HIDE DEF found, given
  <2> QED
    BY <2>2, <2>3
<1>10. NamedDirs(cli, world) \in Seq(STRING) /\ (cli.noDefault => NamedDirs(cli, world) = cli.dirs)
  BY <1>2, <1>3, Zenon DEF NamedDirs
<1>11. ASSUME hit.found
       PROVE  /\ hit.file.dir \in STRING
              /\ cli.noDefault /\ FileAt(hit.file) # cli.recipe => hit.file.dir \in given
  <2>1. hit.file \in world.disk
        /\ (FileAt(hit.file) = cli.recipe \/ hit.file.dir \in Range(NamedDirs(cli, world)))
    BY <1>10, <1>11, RecipeSomewhere, Zenon
  <2> HIDE DEF hit
  <2> QED
    BY <1>3, <1>10, <2>1, Zenon
<1> DEFINE allowed == given \cup IF cli.noDefault THEN {} ELSE Range(world.defaults) \cup near
<1>12. ASSUME hit.found, NEW h \in named PROVE h.file.dir \in allowed
  <2>1. h.found /\ (h = Parent(cli, world) \/ h = Child(cli, world, hit))
    BY <1>12, Zenon
  <2>2. CASE h = Parent(cli, world)
    <3>1. h = FindRecipe(world.disk, world.extends, cli.dirs)
      BY <2>2, Zenon DEF Parent
    <3>2. h.file.dir \in given
      BY <1>2, <2>1, <3>1, FoundSomewhere, Zenon
    <3> QED
      BY <3>2, Zenon
  <2>3. CASE h = Child(cli, world, hit)
    <3> DEFINE s == Search(cli, world, hit)
    <3>1. h = FindRecipePath(world.disk, world.child, s)
      BY <2>3, Zenon DEF Child
    <3>2. /\ s.given = cli.dirs /\ s.origin = <<hit.file.dir>> /\ s.ancestors = world.ancestors
          /\ s.defaults = world.defaults /\ s.defaultSearch = ~cli.noDefault
      <4> HIDE DEF hit
      <4> QED
        BY DEF Search
    <3>3. s.origin \in Seq(STRING) /\ Range(s.origin) = {hit.file.dir}
      <4> DEFINE d == hit.file.dir
      <4>1. d \in STRING
        BY <1>11, <1>12
      <4> HIDE DEF d
      <4>2. <<d>> \in Seq(STRING) /\ Range(<<d>>) = {d}
        BY <4>1 DEF Range
      <4> HIDE DEF s
      <4> QED
        BY <3>2, <4>2, Zenon DEF d
    <3> HIDE DEF s, hit
    <3>4. \/ h.file.dir \in Range(s.given)
          \/ s.defaultSearch /\ h.file.dir \in Near(s.origin, s.ancestors) \cup Range(s.defaults)
      <4>1. /\ s.given \in Seq(STRING) /\ s.defaults \in Seq(STRING)
            /\ s.ancestors \in Seq(STRING) /\ s.ancestors # <<>>
        BY <1>2, <1>3, <3>2
      <4> QED
        BY <2>1, <3>1, <3>3, <4>1, ChildSomewhere, Zenon
    <3>5. Near(s.origin, s.ancestors) = near
      BY <3>2, <3>3, Zenon DEF Near
    <3> HIDE DEF near, given
    <3> QED
      BY <3>2, <3>4, <3>5 DEF given
  <2> HIDE DEF allowed
  <2> QED
    BY <2>1, <2>2, <2>3
<1> DEFINE places == Range(cli.agentDirs) \cup IF cli.noDefault THEN {} ELSE Range(world.agentDefaults)
<1>13. ASSUME NEW h \in agents PROVE Lies(h.file, places)
  <2> DEFINE bases == AgentPlaces(cli, world)
  <2>1. bases \in Seq(STRING) /\ Range(bases) = places
    <3> DEFINE rest == IF cli.noDefault THEN <<>> ELSE world.agentDefaults
    <3>1. rest \in Seq(STRING) /\ Range(rest) = IF cli.noDefault THEN {} ELSE Range(world.agentDefaults)
      <4>1. Range(<<>>) = {} /\ <<>> \in Seq(STRING)
        BY DEF Range
      <4>2. CASE cli.noDefault
        BY <4>1, <4>2, Zenon
      <4>3. CASE ~cli.noDefault
        BY <1>3, <4>3, Zenon
      <4> QED
        BY <4>2, <4>3
    <3>2. bases = cli.agentDirs \o rest
      BY Zenon DEF AgentPlaces
    <3> HIDE DEF rest, bases
    <3>3. cli.agentDirs \o rest \in Seq(STRING) /\ Range(cli.agentDirs \o rest) = Range(cli.agentDirs) \cup Range(rest)
      <4> DEFINE p == cli.agentDirs
      <4>1. p \in Seq(STRING) /\ rest \in Seq(STRING)
        BY <1>2, <3>1
      <4> HIDE DEF p
      <4>2. p \o rest \in Seq(STRING) /\ Range(p \o rest) = Range(p) \cup Range(rest)
        BY <4>1, RangesJoin, Zenon
      <4> QED
        BY <4>2 DEF p
    <3> QED
      BY <3>1, <3>2, <3>3
  <2>2. h = ResolveAgent(world.disk, world.agent, bases) /\ h.found
    BY <1>13, Zenon DEF Agent
  <2> HIDE DEF bases, places
  <2>3. AgentWithinRoots(world.disk, world.agent, bases)
    BY <2>1, AgentsAreWithinRoots, Zenon
  <2>4. \E b \in Range(bases) : Inside(h.file, <<b>>)
    BY <2>2, <2>3, Zenon DEF AgentWithinRoots
  <2> QED
    BY <2>1, <2>4, Zenon
<1>14. ran.did = "run" =>
         /\ cli.noDefault /\ FileAt(hit.file) # cli.recipe => hit.file.dir \in given
         /\ \A h \in named : h.file.dir \in allowed
         /\ \A h \in agents : Lies(h.file, places)
  <2> HIDE DEF out, ran, hit, given, named, agents, allowed, places, Lies
  <2> QED
    BY <1>8, <1>11, <1>12, <1>13
<1> QED
  BY <1>8, <1>9, <1>14, Zenon DEF CommandLineIsObeyed, bare

-----------------------------------------------------------------------------
(* Coercions: how a condition compares two values, whatever their types.     *)

\* What reads as a number is one.
Numerals(T) == \A s \in T : IsDecimal(Trim(s)) => Tenths(Trim(s)) \in Int

\* The values whose texts are in T, with any collections.
Tagged(a, T) ==
  \/ a.t = "null" /\ a = Null
  \/ a.t = "bool" /\ a.b \in BOOLEAN /\ a = Bool(a.b)
  \/ a.t = "num" /\ a.n \in Int
  \/ a.t = "str" /\ a.s \in T /\ a = Str(a.s)
  \/ a.t \in {"arr", "obj"}

\* Order tells apart exactly what is different, and is the opposite the other way round.
LEMMA OrderFlips ==
  ASSUME NEW T, Spelled(T), NEW s \in T, NEW u \in T
  PROVE  Order(u, s) = Flip(Order(s, u)) /\ (Order(s, u) = 0 <=> s = u) /\ Order(s, u) # Incomparable
<1>1. \A x, y : Order(x, y) \in {-1, 0, 1} /\ (Order(x, y) = 0 <=> x = y)
  <2> TAKE x, y
  <2>1. \E c : Order(x, y) = IF x = y THEN 0 ELSE IF c THEN -1 ELSE 1
    BY Zenon DEF Order
  <2> QED
    BY <2>1
<1>2. /\ s # u => (Order(s, u) = -1 \/ Order(u, s) = -1)
      /\ Order(s, u) = -1 => Order(u, s) # -1
  BY TextsInOrder, Zenon
<1> QED
  BY <1>1, <1>2 DEF Flip, Incomparable

\* So do numbers.
LEMMA CmpFlips ==
  ASSUME NEW m \in Int, NEW n \in Int
  PROVE  /\ Cmp(n, m) = Flip(Cmp(m, n)) /\ Cmp(m, n) # Incomparable /\ (Cmp(m, n) = 0 <=> m = n)
         /\ Cmp(m, n) \in {-1, 0, 1}
  BY DEF Cmp, Flip, Incomparable

LEMMA FlipTwice ==
  ASSUME NEW c \in {-1, 0, 1, Incomparable}
  PROVE  /\ Flip(Flip(c)) = c /\ Flip(c) \in {-1, 0, 1, Incomparable}
         /\ (Flip(c) = 0 <=> c = 0) /\ (Flip(c) = Incomparable <=> c = Incomparable)
  BY DEF Flip, Incomparable

\* How two values are compared, by their types.
LEMMA ComparisonSpelledOut ==
  ASSUME NEW a, NEW b
  PROVE  /\ a.t = "num" /\ b.t = "num" => CompareValues(a, b) = Cmp(a.n, b.n)
         /\ a.t = "str" /\ b.t = "str" => CompareValues(a, b) = Order(a.s, b.s)
         /\ a.t = "bool" /\ b.t = "bool" => CompareValues(a, b) = Cmp(BoolNum(a.b), BoolNum(b.b))
         /\ a.t = "num" /\ b.t = "str" => CompareValues(a, b) = NumStr(a.n, b.s)
         /\ a.t = "str" /\ b.t = "num" => CompareValues(a, b) = Flip(NumStr(b.n, a.s))
         /\ a.t = "bool" /\ b.t = "str" => CompareValues(a, b) = Order(BoolText(a.b), b.s)
         /\ a.t = "str" /\ b.t = "bool" => CompareValues(a, b) = Order(a.s, BoolText(b.b))
         /\ a.t = "bool" /\ b.t = "num" => CompareValues(a, b) = Cmp(BoolNum(a.b), b.n)
         /\ a.t = "num" /\ b.t = "bool" => CompareValues(a, b) = Cmp(a.n, BoolNum(b.b))
         /\ ~(a.t \in {"num", "str", "bool"} /\ b.t \in {"num", "str", "bool"}) =>
              CompareValues(a, b) = Incomparable
  BY DEF CompareValues

\* When two values are equal, by their types.
LEMMA Equated ==
  ASSUME NEW a, NEW b
  PROVE  /\ a.t = "num" /\ b.t = "num" => ValuesEqual(a, b) = (a.n = b.n)
         /\ a.t = "str" /\ b.t = "num" => ValuesEqual(a, b) = (CompareValues(a, b) = 0)
         /\ a.t = "num" /\ b.t = "str" => ValuesEqual(a, b) = (CompareValues(a, b) = 0)
         /\ a.t = "bool" /\ b.t = "str" => ValuesEqual(a, b) = BoolIs(a.b, b.s)
         /\ a.t = "str" /\ b.t = "bool" => ValuesEqual(a, b) = BoolIs(b.b, a.s)
         /\ ~(a.t = "num" /\ b.t \in {"num", "str"}) /\ ~(a.t = "str" /\ b.t \in {"num", "bool"})
              /\ ~(a.t = "bool" /\ b.t = "str") => ValuesEqual(a, b) = (a = b)
<1>1. \A x, y : {x, y} = {"num"} <=> x = "num" /\ y = "num"
  OBVIOUS
<1>2. \A x, y : {x, y} = {"str", "num"} <=> (x = "str" /\ y = "num") \/ (x = "num" /\ y = "str")
  OBVIOUS
<1>3. ValuesEqual(a, b) =
        CASE a.t = "num" /\ b.t = "num" -> a.n = b.n
          [] (a.t = "str" /\ b.t = "num") \/ (a.t = "num" /\ b.t = "str") -> CompareValues(a, b) = 0
          [] a.t = "bool" /\ b.t = "str" -> BoolIs(a.b, b.s)
          [] a.t = "str" /\ b.t = "bool" -> BoolIs(b.b, a.s)
          [] OTHER -> a = b
  BY <1>1, <1>2 DEF ValuesEqual
<1> QED
  BY <1>3

\* The two coercions of a condition agree: a comparison the other way round is the opposite,
\* equality is symmetric, and what can be ordered is equal exactly when neither comes first,
\* but for the exceptions stated there (compare_values, values_equal).
THEOREM CoercionsAreOne ==
  ASSUME NEW T, Spelled(T), Numerals(T), "true" \in T, "false" \in T,
         NEW a, NEW b, Tagged(a, T), Tagged(b, T)
  PROVE  CoercionsAgree(a, b)
<1> DEFINE c == CompareValues(a, b)
           back == CompareValues(b, a)
           Excepted == \/ c = Incomparable
                       \/ {a.t, b.t} = {"bool", "num"}
                       \/ {a.t, b.t} = {"bool", "str"} /\ {a, b} \cap {Str("True"), Str("False")} # {}
           Goal == back = Flip(c) /\ ValuesEqual(a, b) = ValuesEqual(b, a)
                     /\ (Excepted \/ (ValuesEqual(a, b) <=> c = 0))
<1>0. Goal => CoercionsAgree(a, b)
  BY Zenon DEF CoercionsAgree
<1>1. \A x \in BOOLEAN : BoolNum(x) \in Int /\ BoolText(x) \in T
  BY DEF BoolNum, BoolText
<1>2. \A x, y \in BOOLEAN : (BoolNum(x) = BoolNum(y) <=> x = y) /\ (BoolText(x) = BoolText(y) <=> x = y)
  BY DEF BoolNum, BoolText
<1>3. \A n \in Int, s \in T : NumStr(n, s) \in {-1, 0, 1, Incomparable}
  BY CmpFlips DEF NumStr, Numerals
<1>4. CASE a.t = "num" /\ b.t = "num"
  <2>1. a.n \in Int /\ b.n \in Int
    BY <1>4 DEF Tagged
  <2>2. c = Cmp(a.n, b.n) /\ back = Cmp(b.n, a.n)
    BY <1>4, ComparisonSpelledOut
  <2>3. ValuesEqual(a, b) = (a.n = b.n) /\ ValuesEqual(b, a) = (b.n = a.n)
    BY <1>4, Equated
  <2>4. Cmp(b.n, a.n) = Flip(Cmp(a.n, b.n)) /\ (Cmp(a.n, b.n) = 0 <=> a.n = b.n)
    BY <2>1, CmpFlips
  <2> HIDE DEF Excepted, c, back
  <2>5. back = Flip(c) /\ (c = 0 <=> a.n = b.n)
    BY <2>2, <2>4
  <2> QED
    BY <1>0, <2>3, <2>5
<1>5. CASE a.t = "str" /\ b.t = "str"
  <2>1. a.s \in T /\ b.s \in T /\ (a = b <=> a.s = b.s)
    BY <1>5 DEF Tagged
  <2>2. c = Order(a.s, b.s) /\ back = Order(b.s, a.s)
    BY <1>5, ComparisonSpelledOut
  <2>3. ValuesEqual(a, b) = (a = b) /\ ValuesEqual(b, a) = (b = a)
    BY <1>5, Equated
  <2>4. /\ Order(b.s, a.s) = Flip(Order(a.s, b.s))
        /\ Order(a.s, b.s) = 0 <=> a.s = b.s
    <3>1. \A s, u \in T : Order(u, s) = Flip(Order(s, u)) /\ (Order(s, u) = 0 <=> s = u)
      BY OrderFlips
    <3> QED
      BY <2>1, <3>1, Zenon
  <2> QED
    BY <1>0, <2>1, <2>2, <2>3, <2>4
<1>6. CASE a.t = "bool" /\ b.t = "bool"
  <2>1. a.b \in BOOLEAN /\ b.b \in BOOLEAN /\ (a = b <=> a.b = b.b)
    BY <1>6 DEF Tagged
  <2>2. c = Cmp(BoolNum(a.b), BoolNum(b.b)) /\ back = Cmp(BoolNum(b.b), BoolNum(a.b))
    BY <1>6, ComparisonSpelledOut
  <2>3. ValuesEqual(a, b) = (a = b) /\ ValuesEqual(b, a) = (b = a)
    BY <1>6, Equated
  <2>4. BoolNum(a.b) \in Int /\ BoolNum(b.b) \in Int /\ (BoolNum(a.b) = BoolNum(b.b) <=> a.b = b.b)
    BY <1>1, <1>2, <2>1
  <2>5. /\ Cmp(BoolNum(b.b), BoolNum(a.b)) = Flip(Cmp(BoolNum(a.b), BoolNum(b.b)))
        /\ Cmp(BoolNum(a.b), BoolNum(b.b)) = 0 <=> BoolNum(a.b) = BoolNum(b.b)
    BY <2>4, CmpFlips
  <2> HIDE DEF Excepted, c, back
  <2>6. back = Flip(c) /\ (c = 0 <=> a = b)
    BY <2>1, <2>2, <2>4, <2>5
  <2> QED
    BY <1>0, <2>3, <2>6
<1>7. ASSUME NEW x, NEW y, Tagged(x, T), Tagged(y, T), x.t = "num", y.t = "str"
      PROVE  /\ CompareValues(y, x) = Flip(CompareValues(x, y)) /\ CompareValues(x, y) = Flip(CompareValues(y, x))
             /\ ValuesEqual(x, y) = (CompareValues(x, y) = 0) /\ ValuesEqual(y, x) = (CompareValues(y, x) = 0)
             /\ CompareValues(x, y) = 0 <=> CompareValues(y, x) = 0
  <2>1. x.n \in Int /\ y.s \in T
    BY <1>7 DEF Tagged
  <2>2. CompareValues(x, y) = NumStr(x.n, y.s) /\ CompareValues(y, x) = Flip(NumStr(x.n, y.s))
    BY <1>7, ComparisonSpelledOut
  <2>3. ValuesEqual(x, y) = (CompareValues(x, y) = 0) /\ ValuesEqual(y, x) = (CompareValues(y, x) = 0)
    BY <1>7, Equated
  <2>4. NumStr(x.n, y.s) \in {-1, 0, 1, Incomparable}
    BY <1>3, <2>1
  <2> QED
    BY <2>2, <2>3, <2>4, FlipTwice
<1>8. CASE (a.t = "num" /\ b.t = "str") \/ (a.t = "str" /\ b.t = "num")
  <2>1. back = Flip(c) /\ ValuesEqual(a, b) = (c = 0) /\ ValuesEqual(b, a) = (back = 0) /\ (c = 0 <=> back = 0)
    <3>1. CASE a.t = "num" /\ b.t = "str"
      BY <1>7, <3>1
    <3>2. CASE a.t = "str" /\ b.t = "num"
      BY <1>7, <3>2
    <3> QED
      BY <1>8, <3>1, <3>2
  <2> HIDE DEF Excepted, c, back
  <2> QED
    BY <1>0, <2>1
<1>9. ASSUME NEW x, NEW y, Tagged(x, T), Tagged(y, T), x.t = "bool", y.t = "str"
      PROVE  /\ CompareValues(y, x) = Flip(CompareValues(x, y)) /\ CompareValues(x, y) = Flip(CompareValues(y, x))
             /\ ValuesEqual(x, y) = BoolIs(x.b, y.s) /\ ValuesEqual(y, x) = BoolIs(x.b, y.s)
             /\ y \notin {Str("True"), Str("False")} =>
                  /\ BoolIs(x.b, y.s) <=> CompareValues(x, y) = 0
                  /\ BoolIs(x.b, y.s) <=> CompareValues(y, x) = 0
  <2>1. x.b \in BOOLEAN /\ y.s \in T /\ y = Str(y.s) /\ BoolText(x.b) \in T
    BY <1>1, <1>9 DEF Tagged
  <2>2. CompareValues(x, y) = Order(BoolText(x.b), y.s) /\ CompareValues(y, x) = Order(y.s, BoolText(x.b))
    BY <1>9, ComparisonSpelledOut
  <2>3. ValuesEqual(x, y) = BoolIs(x.b, y.s) /\ ValuesEqual(y, x) = BoolIs(x.b, y.s)
    BY <1>9, Equated
  <2>4. /\ Order(y.s, BoolText(x.b)) = Flip(Order(BoolText(x.b), y.s))
        /\ Order(BoolText(x.b), y.s) = Flip(Order(y.s, BoolText(x.b)))
        /\ Order(BoolText(x.b), y.s) = 0 <=> BoolText(x.b) = y.s
        /\ Order(y.s, BoolText(x.b)) = 0 <=> BoolText(x.b) = y.s
    <3> DEFINE u == BoolText(x.b)
    <3>1. u \in T /\ y.s \in T
      BY <2>1
    <3> HIDE DEF u
    <3>2. Order(y.s, u) = Flip(Order(u, y.s)) /\ (Order(u, y.s) = 0 <=> u = y.s)
      BY <3>1, OrderFlips, Zenon
    <3>3. Order(u, y.s) = Flip(Order(y.s, u)) /\ (Order(y.s, u) = 0 <=> y.s = u)
      BY <3>1, OrderFlips, Zenon
    <3>4. (Order(u, y.s) = 0 <=> u = y.s) /\ (Order(y.s, u) = 0 <=> u = y.s)
      BY <3>2, <3>3, Zenon
    <3> QED
      BY <3>2, <3>3, <3>4 DEF u
  <2>5. y \notin {Str("True"), Str("False")} => (BoolIs(x.b, y.s) <=> BoolText(x.b) = y.s)
    <3> SUFFICES ASSUME y \notin {Str("True"), Str("False")} PROVE BoolIs(x.b, y.s) <=> BoolText(x.b) = y.s
      OBVIOUS
    <3>1. y.s # "True" /\ y.s # "False"
      BY <2>1, Zenon
    <3> QED
      BY <2>1, <3>1 DEF BoolIs, BoolText
  <2> QED
    BY <2>2, <2>3, <2>4, <2>5
<1>10. CASE (a.t = "bool" /\ b.t = "str") \/ (a.t = "str" /\ b.t = "bool")
  <2>1. {a.t, b.t} = {"bool", "str"}
    BY <1>10
  <2>2. ~Excepted => a \notin {Str("True"), Str("False")} /\ b \notin {Str("True"), Str("False")}
    BY <2>1, Zenon
  <2> HIDE DEF Excepted
  <2> QED
    BY <1>0, <1>9, <1>10, <2>2
<1>11. ASSUME NEW x, NEW y, Tagged(x, T), Tagged(y, T), x.t = "bool", y.t = "num"
       PROVE  /\ CompareValues(y, x) = Flip(CompareValues(x, y)) /\ CompareValues(x, y) = Flip(CompareValues(y, x))
              /\ ValuesEqual(x, y) = (x = y) /\ ValuesEqual(y, x) = (y = x)
  <2>1. x.b \in BOOLEAN /\ y.n \in Int /\ BoolNum(x.b) \in Int
    BY <1>1, <1>11 DEF Tagged
  <2>2. CompareValues(x, y) = Cmp(BoolNum(x.b), y.n) /\ CompareValues(y, x) = Cmp(y.n, BoolNum(x.b))
    BY <1>11, ComparisonSpelledOut
  <2>3. ValuesEqual(x, y) = (x = y) /\ ValuesEqual(y, x) = (y = x)
    BY <1>11, Equated
  <2> QED
    BY <2>1, <2>2, <2>3, CmpFlips
<1>12. CASE (a.t = "bool" /\ b.t = "num") \/ (a.t = "num" /\ b.t = "bool")
  <2>1. {a.t, b.t} = {"bool", "num"}
    BY <1>12
  <2> QED
    BY <1>0, <1>11, <1>12, <2>1
<1>13. CASE ~(a.t \in {"num", "str", "bool"} /\ b.t \in {"num", "str", "bool"})
  <2>1. c = Incomparable /\ back = Incomparable /\ Flip(Incomparable) = Incomparable
    BY <1>13, ComparisonSpelledOut DEF Flip
  <2>2. ValuesEqual(a, b) = (a = b) /\ ValuesEqual(b, a) = (b = a)
    BY <1>13, Equated
  <2> QED
    BY <1>0, <2>1, <2>2
<1> QED
  BY <1>4, <1>5, <1>6, <1>8, <1>10, <1>12, <1>13
-----------------------------------------------------------------------------
(* All that is looked up.                                                     *)

\* A question as there may be one, and what there is to find: a library is finite, and its
\* documents are records that have names; on a disk no two files have one path, and the
\* names are in the order of their codes; a file with the same digest is the same file; and
\* directories are texts, in sequences.
SomeQuestion(q) ==
  /\ q.of = "library" => Readable(q.library, q.doc) /\ \E S : StepsAre(q.library, q.doc, S)
  /\ q.of = "places" => /\ q.s.given \in Seq(STRING) /\ q.s.anchored \in Seq(STRING) /\ q.s.defaultSearch \in BOOLEAN
                        /\ Split(q.env.recipeDirs, ":") \in Seq(STRING)
  /\ q.of = "upstream" => q.asked # ""
  /\ q.of = "disk" => IsFiniteSet(q.held) /\ OneFileEach(q.held) /\ Alphabetical(q.held) /\ q.dirs \in Seq(STRING)
  /\ q.of = "roots" => q.s.given \in Seq(STRING) /\ q.s.defaults \in Seq(STRING)
  /\ q.of = "agents" => q.bases \in Seq(STRING)
  /\ q.of = "cache" => /\ Len(q.ops) \in Nat \ {0} /\ q.ttl \in Int
                       /\ \E T : {} \in T /\ \A i \in 1..Len(q.ops) : Happens(q.ops[i], T)
  /\ q.of = "folders" => OneFileEach(q.before) /\ OneFileEach(q.after) /\ SameText(q.before, q.after)
  /\ q.of = "command line" => Options(q.cli) /\ Surroundings(q.world)

\* Whatever the library and the chain of ancestors, a recipe is laid over them or refused,
\* and keeps what the parser demands of its steps (resolve_extends, validate).
THEOREM InheritanceAlwaysSound == ASSUME SomeQuestion(case) PROVE InheritanceIsSound
<1>1. ASSUME case.of = "library"
      PROVE  ExtendsLaysOver(case.library, case.doc) /\ MergedRecipeIsSound(case.library, case.doc)
  <2>1. Readable(case.library, case.doc) /\ \E S : StepsAre(case.library, case.doc, S)
    BY <1>1, Zenon DEF SomeQuestion
  <2>2. PICK S : StepsAre(case.library, case.doc, S)
    BY <2>1, Zenon
  <2> QED
    BY <2>1, <2>2, ExtendsLays, MergedRecipesAreSound, Zenon
<1> QED
  BY <1>1, Zenon DEF InheritanceIsSound

\* Whatever the disk, the directories, the environment and the repository, finding and
\* listing recipes agree, what is found lies inside its roots, the cache and the manifest
\* tell what the directories held, and a failed search and a comparison tell what they
\* looked at (find_recipe, discover_recipes, find_recipe_path, AgentResolver::resolve,
\* get_or_discover, check_upstream_changes, sub_recipe_search_diagnostic, sync_upstream).
THEOREM DiscoveryAlwaysConsistent == ASSUME SomeQuestion(case) PROVE DiscoveryIsConsistent
<1>1. ASSUME case.of = "places" PROVE DiagnosticTellsTheSearch(case.s, case.env, case.home)
  <2>1. /\ case.s.given \in Seq(STRING) /\ case.s.anchored \in Seq(STRING) /\ case.s.defaultSearch \in BOOLEAN
        /\ Split(case.env.recipeDirs, ":") \in Seq(STRING)
    BY <1>1, Zenon DEF SomeQuestion
  <2> QED
    BY <2>1, DiagnosticTells, Zenon
<1>2. ASSUME case.of = "upstream" PROVE SyncTellsTheDifference(case.git, case.env, case.asked)
  <2>1. case.asked # ""
    BY <1>2, Zenon DEF SomeQuestion
  <2> QED
    BY <2>1, SyncTells, Zenon
<1>3. ASSUME case.of = "disk" PROVE FindAndListAgree(case.held, case.dirs)
  <2>1. IsFiniteSet(case.held) /\ OneFileEach(case.held) /\ Alphabetical(case.held) /\ case.dirs \in Seq(STRING)
    BY <1>3, Zenon DEF SomeQuestion
  <2> QED
    BY <2>1, FoundIsListed, Zenon
<1>4. ASSUME case.of = "roots" PROVE FoundWithinRoots(case.held, case.name, case.s)
  <2>1. case.s.given \in Seq(STRING) /\ case.s.defaults \in Seq(STRING)
    BY <1>4, Zenon DEF SomeQuestion
  <2> QED
    BY <2>1, RecipesAreWithinRoots, Zenon
<1>5. ASSUME case.of = "agents" PROVE AgentWithinRoots(case.held, case.ref, case.bases)
  <2>1. case.bases \in Seq(STRING)
    BY <1>5, Zenon DEF SomeQuestion
  <2> QED
    BY <2>1, AgentsAreWithinRoots, Zenon
<1>6. ASSUME case.of = "cache" PROVE CacheIsRecent(case.ops, case.ttl)
  <2>1. /\ Len(case.ops) \in Nat \ {0} /\ case.ttl \in Int
        /\ \E T : {} \in T /\ \A i \in 1..Len(case.ops) : Happens(case.ops[i], T)
    BY <1>6, Zenon DEF SomeQuestion
  <2>2. PICK T : {} \in T /\ \A i \in 1..Len(case.ops) : Happens(case.ops[i], T)
    BY <2>1, Zenon
  <2> QED
    BY <2>1, <2>2, CacheAnswersAreRecent, Zenon
<1>7. ASSUME case.of = "folders" PROVE ManifestTellsTheDifference(case.before, case.after, case.dir)
  <2>1. OneFileEach(case.before) /\ OneFileEach(case.after) /\ SameText(case.before, case.after)
    BY <1>7, Zenon DEF SomeQuestion
  <2> QED
    BY <2>1, ManifestTells, Zenon
<1> QED
  BY <1>1, <1>2, <1>3, <1>4, <1>5, <1>6, <1>7, Zenon DEF DiscoveryIsConsistent

\* Whatever the arguments, the disk and what the recipe names, --explain and --validate-only
\* tell how a run would start, and what is found by name lies where it was to be searched
\* for (main, run).
THEOREM CommandLinesAlwaysObeyed == ASSUME SomeQuestion(case) PROVE CommandLinesAreObeyed
<1>1. ASSUME case.of = "command line" PROVE CommandLineIsObeyed(case.cli, case.world)
  <2>1. Options(case.cli) /\ Surroundings(case.world)
    BY <1>1, Zenon DEF SomeQuestion
  <2> QED
    BY <2>1, LinesAreObeyed, Zenon
<1> QED
  BY <1>1, Zenon DEF CommandLinesAreObeyed
=============================================================================
