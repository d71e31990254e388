------------------------------ MODULE RecipeRun ------------------------------
(***************************************************************************)
(* One invocation of RecipeRunner::run_steps (src/runner/mod.rs): the      *)
(* owner thread walks the steps of a recipe, serially or one parallel      *)
(* group at a time; a group's bash steps run on scoped worker threads.     *)
(* The threads share the terminal latch (src/runner/terminal.rs): the set  *)
(* of typed interruption and cleanup failures, published by any of them    *)
(* and read by all, without a lock held between a read and what follows.   *)
(*                                                                         *)
(* Every read of the latch and every act that depends on it are separate   *)
(* actions.  A call to the adapter is one action, taken when it starts:    *)
(* what other threads publish while it runs commutes with it, because the  *)
(* caller reads nothing before the call returns.                           *)
(*                                                                         *)
(* Names, outputs and diagnostics are abstracted to the position of the    *)
(* step in the recipe; a condition, an adapter call and an audit write     *)
(* have every outcome the code distinguishes.  Steps that run a sub-recipe *)
(* are not part of this module.                                            *)
(***************************************************************************)
EXTENDS Integers, FiniteSets

CONSTANTS
  N,              \* number of steps of the recipe
  StepDefs,       \* the steps a recipe may contain
  Options,        \* the runner configurations
  Keys,           \* output variables of the context
  NoKey,          \* "the step has no output variable"
  Groups,         \* names of parallel groups
  NoGroup,        \* "the step belongs to no parallel group"
  MaxWorkers,     \* MAX_PARALLEL_STEPS
  MaxTotalSteps   \* recursion.max_total_steps

Pos      == 1..N
Kinds    == {"interruption", "cleanup"}
Statuses == {"completed", "degraded", "skipped", "failed"}
None     == "none"

StepType == [kind     : {"bash", "agent"},
             group    : Groups \cup {NoGroup},
             nonfatal : BOOLEAN,                        \* is_nonfatal()
             cond     : BOOLEAN,                        \* has a condition
             json     : {"no", "optional", "required"}, \* parse_json(_required)
             out      : Keys \cup {NoKey},
             excluded : BOOLEAN,                        \* should_skip_by_tags()
             resumed  : BOOLEAN]                        \* in resume_completed

OptionType == [dryRun       : BOOLEAN,
               auditDir     : BOOLEAN,
               requireAudit : BOOLEAN,
               preHook      : BOOLEAN,
               postHook     : BOOLEAN,
               errHook      : BOOLEAN,
               checkpoints  : BOOLEAN,
               strictAgents : BOOLEAN,   \* default search is off
               codex        : BOOLEAN,   \* the adapter is the Codex adapter
               outer        : BOOLEAN,   \* runs inside a group of another recipe
               carried      : Nat]       \* total_steps when the run begins

ASSUME ConstantsAssumption ==
  /\ N \in Nat
  /\ StepDefs \subseteq StepType
  /\ Options \subseteq OptionType
  /\ MaxWorkers \in Nat
  /\ MaxTotalSteps \in Nat
  /\ NoGroup \notin Groups
  /\ NoKey \notin Keys

VARIABLES
  recipe,      \* the steps, fixed
  opts,        \* the configuration, fixed
  phase,       \* where the owner thread is
  mode,        \* how the current step runs: "serial", "group", "prefail"
  lo, hi,      \* first and last step of the unit (step or group) at hand
  cur,         \* the step the owner is working on
  worker,      \* what the worker thread of each step is doing
  failure,     \* the classified failure a worker holds
  result,      \* the status of a step, before hooks and audit settle it
  final,       \* step_results: the status reported for each step
  terminal,    \* the latch: failures, each with the step that observed it
  total,       \* total_steps
  ctx,         \* the step that last wrote each output variable, 0 for none
  success,     \* the local flag, then the success of the RecipeResult
  tb,          \* terminal_before_hook
  halt,        \* this step alone makes its unit fail
  unitFailed,  \* group_failed
  auditOpen,   \* the audit log is open
  audit,       \* the status each audit entry shows
  listener,    \* the last notification sent for each step
  ckpt,        \* completed_steps of the last checkpoint saved
  late,        \* history: admissions by the owner after the latch closed
  touched      \* history: steps a hook, call or worker was started for

rigid   == <<recipe, opts>>
threads == <<worker, failure>>
report  == <<final, audit, listener, ctx, ckpt>>
flags   == <<success, tb, halt, unitFailed, auditOpen>>
history == <<late, touched>>
unit    == <<mode, lo, hi>>
vars    == <<recipe, opts, phase, mode, lo, hi, cur, worker, failure, result,
             final, terminal, total, ctx, success, tb, halt, unitFailed,
             auditOpen, audit, listener, ckpt, late, touched>>

IsTerminal == terminal # {}

Init ==
  /\ recipe \in [Pos -> StepDefs]
  /\ opts \in Options
  /\ phase = "open" /\ mode = "serial" /\ lo = 1 /\ hi = 0 /\ cur = 0
  /\ worker = [i \in Pos |-> "idle"]
  /\ failure = [i \in Pos |-> None]
  /\ result = [i \in Pos |-> None]
  /\ final = [i \in Pos |-> None]
  /\ terminal = {}
  /\ total = opts.carried
  /\ ctx = [k \in Keys |-> 0]
  /\ success = TRUE /\ tb = FALSE /\ halt = FALSE /\ unitFailed = FALSE
  /\ auditOpen = FALSE
  /\ audit = [i \in Pos |-> None]
  /\ listener = [i \in Pos |-> "quiet"]
  /\ ckpt = {}
  /\ late = 0 /\ touched = {}

-----------------------------------------------------------------------------
(* Building blocks *)

\* The owner starts a hook, a call or a worker for the step at hand, which
\* another thread may have vetoed since the owner last read the latch.
Admit ==
  /\ late' = IF IsTerminal THEN late + 1 ELSE late
  /\ touched' = touched \cup {cur}

\* TerminalState::observe: only a typed failure is latched.
Observe(o) == terminal' = IF o \in Kinds THEN terminal \cup {<<o, cur>>}
                                         ELSE terminal

\* A unit is one step without a group, or a maximal run of steps of one group;
\* it ends where the name of the group changes.
IsUnitAcrossNames(p, q) ==
  IF recipe[p].group = NoGroup
  THEN q = p
  ELSE /\ \A k \in p..q : recipe[k].group # NoGroup
       /\ q < N => recipe[q + 1].group = NoGroup

IsUnit(p, q) ==
  IF recipe[p].group = NoGroup
  THEN q = p
  ELSE /\ \A k \in p..q : recipe[k].group = recipe[p].group
       /\ q < N => recipe[q + 1].group # recipe[p].group

Writes(i) == [k \in Keys |-> IF recipe[i].out = k THEN i ELSE ctx[k]]

\* execute_step returns: a serial step goes on to its hooks, a step the owner
\* runs inside a group hands over to the next iteration of the spawn loop.
Finish(r) ==
  /\ result' = [result EXCEPT ![cur] = r]
  /\ IF mode = "group" THEN phase' = "spawn" /\ cur' = cur + 1
                       ELSE phase' = "post" /\ cur' = cur

Return == phase' = "return" /\ success' = FALSE

\* Each helper below is a decision of the code; the operator before it, where
\* there is one, is the mistake a run of MCRecipeRun must notice.

\* The limit is looked at before a unit, never inside one.
BudgetSpentLate == total > MaxTotalSteps
BudgetSpent     == total >= MaxTotalSteps

HookIgnoresLatch(present) == present /\ ~opts.dryRun
HookMayRun(present)       == present /\ ~IsTerminal /\ ~opts.dryRun

\* After the spawn loop every handle is joined, also when the latch ended it.
ReturnUnjoined == IF IsTerminal THEN "pick" ELSE "join"
AfterSpawning  == "join"

\* join() returns when the thread has ended, by returning or by a panic.
JoinableUnlessPanicked == worker[cur] \in {"idle", "finished"}
Joinable               == worker[cur] \in {"idle", "finished", "panicked"}

\* A group settles all its results, whatever the status of the first ones.
SettleUntilFailure == IF halt THEN hi + 1 ELSE cur + 1
NextToSettle       == cur + 1

\* A latch closed before the hook is not held against a group's step.
TerminalBeforeHook       == mode # "serial" /\ IsTerminal

\* What creating the log and appending an entry can come to.
AuditOpens  == {opts.auditDir, FALSE}
AuditWrites == {TRUE, ~auditOpen}

\* TerminalState::apply
EffectiveUnapplied == result[cur]
Effective          == IF ~tb /\ IsTerminal THEN "failed" ELSE result[cur]

\* A group's output reaches the context when its step settles.
GroupStores(r)       == mode # "serial" /\ r # "failed"

\* The step_results a checkpoint takes over.
CompletedOrNot == {i \in Pos : final[i] # None}
Completed      == {i \in Pos : final[i] = "completed"}

\* The step alone ends its unit: a required audit entry is missing, or it
\* failed and is not nonfatal.
StopsOnAudit(auditFailed, r) == auditFailed
Stops(auditFailed, r) == auditFailed \/ (r = "failed" /\ ~recipe[cur].nonfatal)

\* A typed failure ends the run whatever the step at hand may ignore.
UnitStopsUnlatched == halt
UnitStops          == halt \/ IsTerminal

-----------------------------------------------------------------------------
(* The walk over the steps *)

OpenAudit ==
  /\ phase = "open"
  /\ \E opened \in AuditOpens :
       /\ auditOpen' = opened
       /\ IF opts.requireAudit /\ ~opened
          THEN phase' = "done" /\ success' = FALSE
          ELSE phase' = "loop" /\ success' = success
  /\ UNCHANGED <<rigid, unit, cur, threads, result, report, terminal, total,
                 tb, halt, unitFailed, history>>

LastStepDone ==
  /\ phase = "loop" /\ lo > N
  /\ phase' = "return"
  /\ UNCHANGED <<rigid, unit, cur, threads, result, report, terminal, total,
                 flags, history>>

LimitReached ==
  /\ phase = "loop" /\ lo <= N /\ BudgetSpent
  /\ final' = [final EXCEPT ![lo] = "failed"]
  /\ Return
  /\ UNCHANGED <<rigid, unit, cur, threads, result, audit, listener, ctx, ckpt,
                 terminal, total, tb, halt, unitFailed, auditOpen, history>>

SkipStep ==
  /\ phase = "loop" /\ lo <= N /\ ~BudgetSpent
  /\ recipe[lo].group = NoGroup
  /\ recipe[lo].excluded \/ recipe[lo].resumed
  /\ final' = [final EXCEPT ![lo] = "skipped"]
  /\ lo' = lo + 1
  /\ UNCHANGED <<rigid, phase, mode, hi, cur, threads, result, audit, listener,
                 ctx, ckpt, terminal, total, flags, history>>

BeginUnit ==
  /\ phase = "loop" /\ lo <= N /\ ~BudgetSpent
  /\ IF recipe[lo].group = NoGroup
     THEN ~recipe[lo].excluded /\ ~recipe[lo].resumed /\ mode' = "serial"
     ELSE mode' = "group"
  /\ \E q \in lo..N : IsUnit(lo, q) /\ hi' = q
  /\ cur' = lo
  /\ listener' = [listener EXCEPT ![lo] = "started"]
  /\ unitFailed' = FALSE
  /\ phase' = "pre"
  /\ UNCHANGED <<rigid, lo, threads, result, final, audit, ctx, ckpt, terminal,
                 total, success, tb, halt, auditOpen, history>>

ReturnResult ==
  /\ phase = "return"
  /\ success' = (success /\ ~IsTerminal)
  /\ phase' = "done"
  /\ UNCHANGED <<rigid, unit, cur, threads, result, report, terminal, total,
                 tb, halt, unitFailed, auditOpen, history>>

-----------------------------------------------------------------------------
(* Hooks: run_hook reads the latch, then calls the adapter *)

CheckPreHook ==
  /\ phase = "pre"
  /\ phase' = IF HookMayRun(opts.preHook) THEN "preHook" ELSE "ready"
  /\ UNCHANGED <<rigid, unit, cur, threads, result, report, terminal, total,
                 flags, history>>

CheckPostHook ==
  /\ phase = "hook"
  /\ phase' = IF HookMayRun(IF result[cur] = "failed" THEN opts.errHook
                                                      ELSE opts.postHook)
              THEN "postHook" ELSE "apply"
  /\ UNCHANGED <<rigid, unit, cur, threads, result, report, terminal, total,
                 flags, history>>

RunHook ==
  /\ phase \in {"preHook", "postHook"}
  /\ \E o \in {"ok", "error"} \cup Kinds : Observe(o)
  /\ Admit
  /\ phase' = IF phase = "preHook" THEN "ready" ELSE "apply"
  /\ UNCHANGED <<rigid, unit, cur, threads, result, report, total, flags>>

\* After the pre hook: the step itself, the next pre hook of the group, or the
\* one execute_step call that reports the latch when a pre hook closed it.
PreHookDone ==
  /\ phase = "ready"
  /\ \/ /\ mode = "serial"
        /\ phase' = "enter"
        /\ UNCHANGED <<mode, cur, listener>>
     \/ /\ mode = "group" /\ IsTerminal
        /\ mode' = "prefail" /\ phase' = "enter"
        /\ UNCHANGED <<cur, listener>>
     \/ /\ mode = "group" /\ ~IsTerminal /\ cur < hi
        /\ cur' = cur + 1
        /\ listener' = [listener EXCEPT ![cur + 1] = "started"]
        /\ phase' = "pre"
        /\ UNCHANGED mode
     \/ /\ mode = "group" /\ ~IsTerminal /\ cur = hi
        /\ phase' = "group"
        /\ UNCHANGED <<mode, cur, listener>>
  /\ UNCHANGED <<rigid, lo, hi, threads, result, final, audit, ctx, ckpt,
                 terminal, total, flags, history>>

-----------------------------------------------------------------------------
(* execute_step and dispatch_step, on the owner thread *)

StepVetoed ==
  /\ phase \in {"enter", "dispatch", "answered", "answeredRaw",
                "repaired", "unrepaired"}
  /\ IsTerminal
  /\ Finish("failed")
  /\ UNCHANGED <<rigid, unit, threads, report, terminal, total, flags, history>>

\* A dry run writes a placeholder to the context, here and nowhere else.
StepDryRun ==
  /\ phase = "enter" /\ ~IsTerminal /\ opts.dryRun
  /\ Finish("skipped")
  /\ ctx' = IF mode = "serial" THEN Writes(cur) ELSE ctx
  /\ UNCHANGED <<rigid, unit, threads, final, audit, listener, ckpt, terminal,
                 total, flags, history>>

StepCondition ==
  /\ phase = "enter" /\ ~IsTerminal /\ ~opts.dryRun
  /\ \/ phase' = "dispatch" /\ UNCHANGED <<result, cur>>
     \/ recipe[cur].cond /\ \E r \in {"skipped", "failed"} : Finish(r)
  /\ UNCHANGED <<rigid, unit, threads, report, terminal, total, flags, history>>

Dispatch ==
  /\ phase = "dispatch" /\ ~IsTerminal
  /\ \/ phase' = "armed" /\ UNCHANGED <<result, cur>>
     \/ /\ recipe[cur].kind = "agent" /\ opts.strictAgents
        /\ Finish("failed")             \* the agent reference is not resolved
  /\ UNCHANGED <<rigid, unit, threads, report, terminal, total, flags, history>>

\* The outcomes of a primary call: an answer, parseable if JSON is asked for,
\* an answer that is not JSON, an error, a typed failure, and for a Codex agent
\* an answer over the size limit.
Outcomes(s) == {"answer", "error"} \cup Kinds
               \cup {o \in {"raw"} : s.json # "no"}
               \cup {o \in {"oversize"} : s.kind = "agent" /\ opts.codex}

Call ==
  /\ phase = "armed"
  /\ Admit
  /\ \E o \in Outcomes(recipe[cur]) :
       /\ Observe(o)
       /\ CASE o = "answer" -> phase' = "answered" /\ UNCHANGED <<result, cur>>
            [] o = "raw"    -> phase' = "answeredRaw" /\ UNCHANGED <<result, cur>>
            [] OTHER        -> Finish("failed")
  /\ UNCHANGED <<rigid, unit, threads, report, total, flags>>

StoreOutput(status) ==
  /\ Finish(status)
  /\ ctx' = IF mode = "serial" THEN Writes(cur) ELSE ctx

StepAnswered ==
  /\ phase = "answered" /\ ~IsTerminal
  /\ StoreOutput("completed")
  /\ UNCHANGED <<rigid, unit, threads, final, audit, listener, ckpt, terminal,
                 total, flags, history>>

\* retry_for_json: only an agent step is asked again, and only while the latch
\* is open when it looks.
StartRepair ==
  /\ phase = "answeredRaw" /\ ~IsTerminal
  /\ phase' = "repair"
  /\ UNCHANGED <<rigid, unit, cur, threads, result, report, terminal, total,
                 flags, history>>

CheckRepair ==
  /\ phase = "repair"
  /\ phase' = IF recipe[cur].kind = "agent" /\ ~IsTerminal
              THEN IF opts.codex THEN "redispatch" ELSE "repairCall"
              ELSE "unrepaired"
  /\ UNCHANGED <<rigid, unit, cur, threads, result, report, terminal, total,
                 flags, history>>

\* With Codex the repair goes through dispatch_step, which looks again.
Redispatch ==
  /\ phase = "redispatch"
  /\ phase' \in (IF IsTerminal THEN {"unrepaired"}
                 ELSE IF opts.strictAgents THEN {"repairCall", "unrepaired"}
                 ELSE {"repairCall"})
  /\ UNCHANGED <<rigid, unit, cur, threads, result, report, terminal, total,
                 flags, history>>

RepairCall ==
  /\ phase = "repairCall"
  /\ Admit
  /\ \E o \in {"answer", "raw", "error"} \cup Kinds :
       /\ Observe(o)
       /\ phase' = IF o = "answer" THEN "repaired" ELSE "unrepaired"
  /\ UNCHANGED <<rigid, unit, cur, threads, result, report, total, flags>>

StepRepaired ==
  /\ phase = "repaired" /\ ~IsTerminal
  /\ StoreOutput("completed")
  /\ UNCHANGED <<rigid, unit, threads, final, audit, listener, ckpt, terminal,
                 total, flags, history>>

StepUnrepaired ==
  /\ phase = "unrepaired" /\ ~IsTerminal
  /\ IF recipe[cur].json = "required"
     THEN Finish("failed") /\ ctx' = ctx
     ELSE StoreOutput("degraded")
  /\ UNCHANGED <<rigid, unit, threads, final, audit, listener, ckpt, terminal,
                 total, flags, history>>

-----------------------------------------------------------------------------
(* execute_parallel_group: spawn loop, joins in order, then settlement *)

EnterGroup ==
  /\ phase = "group"
  /\ cur' = lo
  /\ IF IsTerminal THEN mode' = "prefail" /\ phase' = "enter"
                   ELSE mode' = mode /\ phase' = "spawn"
  /\ UNCHANGED <<rigid, lo, hi, threads, result, report, terminal, total, flags,
                 history>>

SpawnLoop ==
  /\ phase = "spawn"
  /\ IF cur > hi \/ IsTerminal THEN phase' = AfterSpawning /\ cur' = lo
                               ELSE phase' = "place" /\ cur' = cur
  /\ UNCHANGED <<rigid, unit, threads, result, report, terminal, total, flags,
                 history>>

PlaceStep ==
  LET handles == {i \in lo..hi : worker[i] # "idle"}
      spawns  == recipe[cur].kind = "bash" /\ Cardinality(handles) < MaxWorkers
  IN
  /\ phase = "place"
  /\ \/ /\ recipe[cur].excluded
        /\ Finish("skipped")
        /\ UNCHANGED <<worker, late, touched>>
     \/ /\ ~recipe[cur].excluded /\ spawns
        /\ worker' = [worker EXCEPT ![cur] = "running"]
        /\ Admit
        /\ phase' = "spawn" /\ cur' = cur + 1
        /\ UNCHANGED result
     \/ /\ ~recipe[cur].excluded /\ ~spawns
        /\ phase' = "enter"
        /\ UNCHANGED <<worker, late, touched, cur, result>>
  /\ UNCHANGED <<rigid, unit, failure, report, terminal, total, flags>>

Join ==
  /\ phase = "join" /\ cur <= hi
  /\ Joinable
  /\ terminal' = IF worker[cur] = "finished" /\ failure[cur] # None
                 THEN terminal \cup {<<failure[cur], cur>>} ELSE terminal
  /\ result' = IF worker[cur] = "panicked"
               THEN [result EXCEPT ![cur] = "failed"] ELSE result
  /\ worker' = IF worker[cur] = "idle" THEN worker
               ELSE [worker EXCEPT ![cur] = "joined"]
  /\ cur' = cur + 1
  /\ UNCHANGED <<rigid, unit, phase, failure, report, total, flags, history>>

AllJoined ==
  /\ phase = "join" /\ cur > hi
  /\ phase' = "pick" /\ cur' = lo
  /\ UNCHANGED <<rigid, unit, threads, result, report, terminal, total, flags,
                 history>>

PickResult ==
  /\ phase = "pick" /\ cur <= hi
  /\ IF result[cur] = None THEN phase' = "pick" /\ cur' = cur + 1
                           ELSE phase' = "post" /\ cur' = cur
  /\ UNCHANGED <<rigid, unit, threads, result, report, terminal, total, flags,
                 history>>

GroupDone ==
  /\ phase = "pick" /\ cur > hi
  /\ IF unitFailed THEN Return /\ lo' = lo
                   ELSE phase' = "loop" /\ success' = success /\ lo' = hi + 1
  /\ UNCHANGED <<rigid, mode, hi, cur, threads, result, report, terminal, total,
                 tb, halt, unitFailed, auditOpen, history>>

-----------------------------------------------------------------------------
(* Settling a step: counter, hook, latch, audit, listener, context, checkpoint *)

CountStep ==
  /\ phase = "post"
  /\ total' = total + 1
  /\ tb' = TerminalBeforeHook
  /\ phase' = "hook"
  /\ UNCHANGED <<rigid, unit, cur, threads, result, report, terminal, success,
                 halt, unitFailed, auditOpen, history>>

ApplyTerminal ==
  /\ phase = "apply"
  /\ result' = [result EXCEPT ![cur] = Effective]
  /\ phase' = "settle"
  /\ UNCHANGED <<rigid, unit, cur, threads, report, terminal, total, flags,
                 history>>

Settle ==
  /\ phase = "settle"
  /\ \E written \in AuditWrites :
       LET auditFailed == ~written /\ opts.requireAudit
           r == IF auditFailed THEN "failed" ELSE result[cur]
       IN
       /\ audit' = IF auditOpen /\ written
                   THEN [audit EXCEPT ![cur] = result[cur]] ELSE audit
       /\ final' = [final EXCEPT ![cur] = r]
       /\ ctx' = IF GroupStores(r) THEN Writes(cur) ELSE ctx
       /\ ckpt' = IF mode = "serial" /\ opts.checkpoints /\ r # "failed"
                  THEN Completed \cup {cur} ELSE ckpt
       /\ halt' = Stops(auditFailed, r)
  /\ listener' = [listener EXCEPT ![cur] = "completed"]
  /\ phase' = "decide"
  /\ UNCHANGED <<rigid, unit, cur, threads, result, terminal, total, success, tb,
                 unitFailed, auditOpen, history>>

Decide ==
  /\ phase = "decide"
  /\ IF mode = "serial"
     THEN /\ IF UnitStops
             THEN Return /\ lo' = lo
             ELSE phase' = "loop" /\ lo' = lo + 1 /\ success' = success
          /\ UNCHANGED <<cur, unitFailed>>
     ELSE /\ unitFailed' = (unitFailed \/ UnitStops)
          /\ phase' = "pick" /\ cur' = NextToSettle
          /\ UNCHANGED <<lo, success>>
  /\ UNCHANGED <<rigid, mode, hi, threads, result, report, terminal, total, tb,
                 halt, auditOpen, history>>

-----------------------------------------------------------------------------
(* execute_bash_step_parallel, on the worker thread of step i *)

WorkerSkips(i) ==
  /\ worker[i] = "running"
  /\ \E r \in {"skipped", "failed"} :
       /\ IF opts.dryRun THEN r = "skipped" ELSE recipe[i].cond
       /\ result' = [result EXCEPT ![i] = r]
  /\ worker' = [worker EXCEPT ![i] = "finished"]
  /\ UNCHANGED <<rigid, phase, unit, cur, failure, report, terminal, total,
                 flags, history>>

WorkerAnswers(i) ==
  /\ worker[i] = "running" /\ ~opts.dryRun
  /\ \E r \in CASE recipe[i].json = "no"       -> {"completed"}
                [] recipe[i].json = "optional" -> {"completed", "degraded"}
                [] recipe[i].json = "required" -> {"completed", "failed"} :
       result' = [result EXCEPT ![i] = r]
  /\ worker' = [worker EXCEPT ![i] = "finished"]
  /\ UNCHANGED <<rigid, phase, unit, cur, failure, report, terminal, total,
                 flags, late, touched>>

WorkerErrs(i) ==
  /\ worker[i] = "running" /\ ~opts.dryRun
  /\ \E f \in Kinds \cup {None} : failure' = [failure EXCEPT ![i] = f]
  /\ worker' = [worker EXCEPT ![i] = "failing"]
  /\ UNCHANGED <<rigid, phase, unit, cur, result, report, terminal, total, flags,
                 late, touched>>

WorkerPanics(i) ==
  /\ worker[i] = "running" /\ ~opts.dryRun
  /\ worker' = [worker EXCEPT ![i] = "panicked"]
  /\ UNCHANGED <<rigid, phase, unit, cur, failure, result, report, terminal,
                 total, flags, history>>

\* The failure is published before the thread ends, hence before its join.
WorkerPublishes(i) ==
  /\ worker[i] = "failing"
  /\ terminal' = IF failure[i] = None THEN terminal
                 ELSE terminal \cup {<<failure[i], i>>}
  /\ result' = [result EXCEPT ![i] = "failed"]
  /\ worker' = [worker EXCEPT ![i] = "finished"]
  /\ UNCHANGED <<rigid, phase, unit, cur, failure, report, total, flags, history>>

\* A worker of an enclosing recipe's group closes the latch: the latch belongs
\* to the runner, and this run is a step the enclosing owner executes.
OuterPublishes ==
  /\ opts.outer /\ phase # "done"
  /\ \E k \in Kinds : terminal' = terminal \cup {<<k, 0>>}
  /\ UNCHANGED <<rigid, phase, unit, cur, threads, result, report, total, flags,
                 history>>

Terminated == phase = "done" /\ UNCHANGED vars

-----------------------------------------------------------------------------

Owner ==
  \/ OpenAudit \/ LastStepDone \/ LimitReached \/ SkipStep \/ BeginUnit
  \/ ReturnResult
  \/ CheckPreHook \/ CheckPostHook \/ RunHook \/ PreHookDone
  \/ StepVetoed \/ StepDryRun \/ StepCondition \/ Dispatch \/ Call
  \/ StepAnswered \/ StartRepair \/ CheckRepair \/ Redispatch \/ RepairCall
  \/ StepRepaired \/ StepUnrepaired
  \/ EnterGroup \/ SpawnLoop \/ PlaceStep \/ Join \/ AllJoined \/ PickResult
  \/ GroupDone
  \/ CountStep \/ ApplyTerminal \/ Settle \/ Decide

Worker(i) ==
  \/ WorkerSkips(i) \/ WorkerAnswers(i) \/ WorkerErrs(i) \/ WorkerPanics(i)
  \/ WorkerPublishes(i)

Next == Owner \/ (\E i \in Pos : Worker(i)) \/ OuterPublishes \/ Terminated

Spec == Init /\ [][Next]_vars

\* Threads are scheduled and every admitted adapter call returns; nothing obliges
\* an enclosing group to fail.
FairSpec == Spec /\ WF_vars(Owner) /\ \A i \in Pos : WF_vars(Worker(i))

-----------------------------------------------------------------------------
(* What a run promises *)

TypeOK ==
  /\ recipe \in [Pos -> StepType] /\ opts \in OptionType
  /\ phase \in {"open", "loop", "return", "done", "pre", "preHook", "ready",
                "enter", "dispatch", "armed", "answered", "answeredRaw",
                "repair", "redispatch", "repairCall", "repaired", "unrepaired",
                "group", "spawn", "place", "join", "pick", "post", "hook", "postHook",
                "apply", "settle", "decide"}
  /\ mode \in {"serial", "group", "prefail"}
  /\ lo \in 1..N + 1 /\ hi \in 0..N /\ cur \in 0..N + 1
  /\ worker \in [Pos -> {"idle", "running", "failing", "panicked", "finished",
                         "joined"}]
  /\ failure \in [Pos -> Kinds \cup {None}]
  /\ result \in [Pos -> Statuses \cup {None}]
  /\ final \in [Pos -> Statuses \cup {None}]
  /\ terminal \in SUBSET (Kinds \X (Pos \cup {0}))
  /\ total \in Nat /\ late \in Nat
  /\ ctx \in [Keys -> Pos \cup {0}]
  /\ success \in BOOLEAN /\ tb \in BOOLEAN /\ halt \in BOOLEAN
  /\ unitFailed \in BOOLEAN /\ auditOpen \in BOOLEAN
  /\ audit \in [Pos -> Statuses \cup {None}]
  /\ listener \in [Pos -> {"quiet", "started", "completed"}]
  /\ ckpt \in SUBSET Pos /\ touched \in SUBSET Pos

\* The step is settled and lets the run go on.
Passed(i) == final[i] # None /\ (final[i] = "failed" => recipe[i].nonfatal)

\* The owner checks the latch before everything it starts and starts at most
\* one thing per check, so however the publications of the workers fall, at
\* most one hook, worker, step call, JSON repair is admitted after the latch
\* closed.
AtMostOneLateAdmission == late <= 1

\* A successful result means that no typed failure was latched, that every step
\* was settled and none failed except nonfatal ones, and, when an audit log is
\* required, that every step that ran has an entry showing its reported status.
SuccessIsComplete ==
  phase = "done" /\ success =>
    /\ ~IsTerminal
    /\ \A i \in Pos :
         /\ Passed(i)
         /\ opts.requireAudit /\ listener[i] # "quiet" => audit[i] = final[i]

\* A typed failure stays with the step that observed it, in its call or in one
\* of its hooks: when the run is over that step is reported as failed and no
\* audit entry shows it otherwise.
FailuresAreReported ==
  phase = "done" =>
    \A f \in terminal : f[2] # 0 =>
      final[f[2]] = "failed" /\ audit[f[2]] \in {"failed", None}

\* What a caller reads from a finished run: success only of a run in which every step
\* passed as audited, and every typed failure at the step that observed it.
OutcomesAreReported == SuccessIsComplete /\ FailuresAreReported

\* Between units no worker thread is alive: every worker a group started is
\* joined before its results are settled.
WorkersContained ==
  phase \in {"loop", "pre", "pick", "post", "hook", "settle", "decide",
            "return", "done"} =>
    \A i \in Pos : worker[i] \in {"idle", "joined"}

\* A step that begins sees in the context only what steps that did not fail
\* wrote: a failure found after the output was stored (in a hook, the latch, the
\* audit log) ends the run before anyone reads it.
ContextFromSuccess ==
  phase = "loop" =>
    \A k \in Keys : ctx[k] # 0 => final[ctx[k]] \notin {"failed", None}

\* Unless a typed failure cut the run short, each step announced as started was
\* announced as completed.
PairedNotifications ==
  phase = "done" /\ ~IsTerminal => \A i \in Pos : listener[i] # "started"

\* A checkpoint names only steps reported as not failed: a resumed run never
\* skips work that failed.
CheckpointIsSound == \A i \in ckpt : final[i] \notin {"failed", None}

\* The step counter passes the limit by less than the size of one parallel
\* group, and not at all if the recipe has none.
BudgetOvershoot ==
  \/ total <= MaxTotalSteps
  \/ total = opts.carried
  \/ \E p \in Pos : \E q \in p..N : IsUnit(p, q) /\ total <= MaxTotalSteps + (q - p)

\* Whatever fails, the run returns a result.
RunReturns == <>(phase = "done")
=============================================================================
