----------------------------- MODULE RunContract -----------------------------
(***************************************************************************)
(* What a caller of RecipeRunner::execute may rely on while a run goes on, *)
(* as one sequential machine without threads, hooks, audit logs or limits: *)
(* steps are started, report once and in order, and the run ends.          *)
(***************************************************************************)
EXTENDS Integers

CONSTANTS N, Keys, NoKey, Groups, NoGroup

VARIABLES
  steps,    \* the recipe
  started,  \* the steps something was started for: a hook, a call or a worker
  latched,  \* a typed failure was observed
  late,     \* how many starts came after that
  reports,  \* step_results: the status reported for each step
  ctx,      \* the step that last wrote each output variable, 0 for none
  outcome   \* what the run has come to

cvars == <<steps, started, latched, late, reports, ctx, outcome>>

Pos      == 1..N
Statuses == {"completed", "degraded", "skipped", "failed"}
None     == "none"

Init ==
  /\ started = {} /\ latched = FALSE /\ late = 0
  /\ reports = [i \in Pos |-> None]
  /\ ctx = [k \in Keys |-> 0]
  /\ outcome = "running"

Together(j, i) == steps[i].group # NoGroup /\ \A k \in j..i : steps[k].group = steps[i].group
Passed(i) == reports[i] # None /\ (reports[i] = "failed" => steps[i].nonfatal)
\* It is the turn of step i: what comes before its unit is reported and lets the run go on.
Turn(i) == \A j \in 1..(i - 1) : Together(j, i) \/ Passed(j)
Written(i) == [k \in Keys |-> IF steps[i].out = k THEN i ELSE ctx[k]]

Latch ==
  /\ latched' = TRUE
  /\ UNCHANGED <<started, late, reports, ctx, outcome>>

\* At most one thing is started after a typed failure, and it may observe another.
Start(i) ==
  /\ Turn(i)
  /\ late' = IF latched THEN late + 1 ELSE late
  /\ late' <= 1
  /\ started' = started \cup {i}
  /\ latched' \in {latched, TRUE}
  /\ UNCHANGED <<reports, ctx, outcome>>

\* A step outside of groups stores its output before it reports.
Store(i) ==
  /\ Turn(i) /\ reports[i] = None /\ ~latched /\ steps[i].group = NoGroup
  /\ ctx' = Written(i)
  /\ UNCHANGED <<started, latched, late, reports, outcome>>

\* Each step reports at most once, in the order of the recipe, and as done only what was
\* started; a step of a group stores its output now, if it did not fail. A group that is
\* entered just as a typed failure is observed elsewhere reports nothing at all.
Silent(j) == latched /\ reports[j] = None /\ steps[j].group # NoGroup
Report(i, r) ==
  /\ \A j \in 1..(i - 1) : Together(j, i) \/ Passed(j) \/ Silent(j)
  /\ \A j \in i..N : reports[j] = None
  /\ r \in {"completed", "degraded"} => i \in started
  /\ reports' = [reports EXCEPT ![i] = r]
  /\ ctx' = IF steps[i].group # NoGroup /\ r # "failed" THEN Written(i) ELSE ctx
  /\ UNCHANGED <<started, latched, late, outcome>>

\* A run succeeds only if every step passed and no typed failure was observed, and
\* fails only for a typed failure, a failed step, or before its first step.
Succeed == outcome' = "success" /\ ~latched /\ \A i \in Pos : Passed(i)
Fail ==
  /\ outcome' = "failure"
  /\ latched \/ (\E i \in Pos : reports[i] = "failed") \/ started = {}
Finish ==
  /\ Succeed \/ Fail
  /\ UNCHANGED <<started, latched, late, reports, ctx>>

Next ==
  /\ outcome = "running"
  /\ UNCHANGED steps
  /\ \/ Latch
     \/ \E i \in Pos : Start(i) \/ Store(i) \/ \E r \in Statuses : Report(i, r)
     \/ Finish

Spec == Init /\ [][Next]_cvars
=============================================================================
