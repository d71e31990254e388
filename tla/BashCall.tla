------------------------------- MODULE BashCall -------------------------------
(***************************************************************************)
(* execute_bash_step of src/adapters/cli_subprocess.rs with the spill of   *)
(* src/adapters/env_spill.rs: the interpreter, the child's environment,    *)
(* the files for what does not fit in it, the child with its descendants,  *)
(* the thread that waits for it, the deadline and the cleanup.             *)
(*                                                                         *)
(* An environment maps every name to the bytes of its KEY=value string, 0  *)
(* when the name is absent and 1 when its value is empty.                  *)
(***************************************************************************)
EXTENDS Naturals, FiniteSetsExt, EnvBudget

CONSTANTS
  Names,
  Protected,   \* is_env_protected
  Spillable,   \* is_spillable_name
  Own,         \* variables the runner sets itself, of one byte unit each
  Fallbacks,   \* HOME and PATH: set when missing or empty
  Rank,        \* [Names -> Nat]: the order of names
  Allowed,     \* env_allow, or Names
  Parents,     \* environments the runner may have inherited
  Steps,       \* environments a step may ask for
  Limit, Cap,     \* MAX_ARG_STRLEN, PER_VALUE_ENV_CAP
  ArgMax, Stack,  \* what the kernel says of its limits
  Modes        \* what is done about the deadline: "kill", "report", "none"

ASSUME EnvironmentAssumption ==
  /\ IsFiniteSet(Names)
  /\ Protected \cup Spillable \cup Own \cup Fallbacks \cup Allowed \subseteq Names
  /\ Rank \in [Names -> Nat]
  /\ \A m, n \in Names : Rank[m] = Rank[n] => m = n
  /\ Parents \cup Steps \subseteq [Names -> Nat]
  /\ Limit \in Nat /\ Cap \in 0..Limit /\ 2 <= Limit
  /\ ArgMax \in Int /\ Stack \in Nat /\ Floor \in Nat /\ Reserve \in Nat
  /\ Modes \subseteq {"kill", "report", "none"}

VARIABLES
  pc,        \* where the call is
  mode,      \* of this call
  extra,     \* extra_env: the step's variables
  env,       \* child_env, later what bounded_env left of it
  spilled,   \* names planned for files
  written,   \* those whose file is written
  spillDir,  \* the directory of the spill: "none", "there", "left" (not removable)
  script,    \* the command was moved to a file that exists
  child,     \* "none", "running", "ok", "failed"
  pipes,     \* who holds the child's stdout or stderr
  waiter,    \* output_reporting_overrun's thread: "none", "waits", "sent", "gone"
  late,      \* the deadline has passed
  traps,     \* the command goes on when it gets the signal TERM
  reports,   \* overruns reported
  killed,    \* the timeout utility sent its signal
  result     \* "none", "ok", "failed", "error"

vars == <<pc, mode, extra, env, spilled, written, spillDir, script, child, pipes,
          waiter, late, traps, reports, killed, result>>
OfChild == <<child, pipes, waiter, late, traps, reports, killed>>
OfFiles == <<spilled, written, spillDir, script>>

Budget == EnvByteBudget(ArgMax, Stack)

Bytes(e, S) == MapThenSumSet(LAMBDA n : e[n], S)
Present(e)  == {n \in Names : e[n] > 0}
Cost(e)     == Bytes(e, Present(e))

\* exec_file_rejection: a regular file that may be executed, or a reason.
ExecFile(entry) == entry.file = "executable"

\* validate_amplihack_bash, and the first absolute entry of PATH with a bash.
PinAccepted(pin) == pin.absolute /\ ExecFile(pin)
OnPath(path)     == \E i \in DOMAIN path : path[i].absolute /\ ExecFile(path[i])

\* resolve_bash_interpreter: a pin is used or refused, never bypassed; without one
\* PATH decides, then the last resort.
Interpreter(pin, path) ==
  IF pin.value \in {"unset", "empty"}
  THEN (IF OnPath(path) THEN "path" ELSE "default")
  ELSE (IF pin.value = "text" /\ PinAccepted(pin) THEN "pinned" ELSE "refused")

Files == {"executable", "missing", "directory", "plain", "forbidden"}
Pins  == [value : {"unset", "empty", "notUnicode", "text"}, absolute : BOOLEAN, file : Files]
Entry == [absolute : BOOLEAN, file : Files]

\* filter_inherited_env, restrict_to_allowlist and the runner's own variables.
Inherit(parent)    == {n \in Allowed : parent[n] <= Limit}
ChildEnv(parent, step) ==
  [n \in Names |->
     IF step[n] > 0 THEN step[n]
     ELSE IF n \in Own THEN 2
     ELSE IF n \in Fallbacks /\ (n \notin Inherit(parent) \/ parent[n] <= 1) THEN 2
     ELSE IF n \in Inherit(parent) THEN parent[n] ELSE 0]

\* plan_env_spill.  Over the cap a value leaves, into a file or, if no shell could
\* assign it, for good; then the largest leave until the rest fits.
Candidates == {n \in Names : extra[n] > 0 /\ env[n] > 1}
Over       == {n \in Candidates : env[n] > Cap}
Kept       == {n \in Candidates \ Over : n \in Spillable}
Before(m, n) == env[m] > env[n] \/ (env[m] = env[n] /\ Rank[m] < Rank[n])
LeftWhenReached(n) ==
  Cost(env) - Bytes(env, Over) - Bytes(env, {m \in Kept : Before(m, n)})
FitsAtOnce == {}
OverBudget == {n \in Kept : LeftWhenReached(n) > Budget}
Spill      == (Over \cap Spillable) \cup OverBudget
Unassignable == Over \ Spillable
Without(e, S) == [n \in Names |-> IF n \in S THEN 0 ELSE e[n]]

\* bounded_env: what is protected stays; of the rest the smallest are kept while
\* they fit, in no particular order among equals.
Droppable == Present(env) \ Protected
Bounded(kept) ==
  LET used == Bytes(env, Present(env) \cap Protected) + Bytes(env, kept) IN
  /\ used <= Budget
  /\ \A d \in Droppable \ kept :
       /\ used + env[d] > Budget
       /\ \A k \in kept : env[k] <= env[d]

\* bash_command_argv: the timeout utility is put before any of the shapes.
WrappedInline == mode = "kill" /\ ~script
Wrapped       == mode = "kill"

\* The child is over when it was reaped and nobody can write into its pipes.
ChildOver == child \in {"ok", "failed"} /\ pipes = {}

\* The guards of the spill and the script go when the call returns, on every path;
\* a spill directory that cannot be removed is logged.
RemoveFiles ==
  /\ script' = FALSE
  /\ spillDir' \in IF spillDir = "there" THEN {"none", "left"} ELSE {spillDir}

Init ==
  /\ pc = "resolve" /\ mode \in Modes /\ extra \in Steps
  /\ env = [n \in Names |-> 0]
  /\ spilled = {} /\ written = {} /\ spillDir = "none" /\ script = FALSE
  /\ child = "none" /\ pipes = {} /\ waiter = "none"
  /\ late = FALSE /\ traps = FALSE /\ reports = 0 /\ killed = FALSE /\ result = "none"

-----------------------------------------------------------------------------

Fail ==
  /\ result' = "error" /\ pc' = "done" /\ RemoveFiles
  /\ UNCHANGED <<mode, extra, env, spilled, written, OfChild>>

Resolve ==
  /\ pc = "resolve"
  /\ \E pin \in Pins, path \in {<<>>} \cup {<<e>> : e \in Entry} :
       IF Interpreter(pin, path) = "refused" THEN Fail
       ELSE /\ \E parent \in Parents : env' = ChildEnv(parent, extra)
            /\ pc' = "plan"
            /\ UNCHANGED <<mode, extra, OfFiles, OfChild, result>>

\* spill_for_bash: plan, refuse a value with a NUL in it, take the values out.
Plan ==
  /\ pc = "plan"
  /\ spilled' = Spill
  /\ env' = Without(env, Spill \cup Unassignable)
  /\ IF Spill = {} THEN pc' = "bound" /\ UNCHANGED spillDir
                   ELSE pc' = "write" /\ spillDir' = "there"
  /\ UNCHANGED <<mode, extra, written, script, OfChild, result>>

SpillFails == pc = "plan" /\ Spill # {} /\ Fail

WriteValue ==
  /\ pc = "write"
  /\ \E n \in spilled \ written :
       /\ written' = written \cup {n}
       /\ pc' = IF written' = spilled THEN "bound" ELSE "write"
  /\ UNCHANGED <<mode, extra, env, spilled, spillDir, script, OfChild, result>>

WriteFails == pc = "write" /\ Fail

Bound ==
  /\ pc = "bound"
  /\ \E kept \in SUBSET Droppable :
       /\ Bounded(kept)
       /\ env' = Without(env, Droppable \ kept)
  /\ pc' = "script"
  /\ UNCHANGED <<mode, extra, OfFiles, OfChild, result>>

\* EnvBudgetError: what is protected does not fit.
BoundRefuses ==
  /\ pc = "bound" /\ Bytes(env, Present(env) \cap Protected) > Budget
  /\ Fail

\* A long command moves to a file.
WriteScript ==
  /\ pc = "script"
  /\ script' \in BOOLEAN /\ pc' = "spawn"
  /\ UNCHANGED <<mode, extra, env, spilled, written, spillDir, OfChild, result>>

ScriptFails == pc = "script" /\ Fail

Spawn ==
  /\ pc = "spawn"
  /\ child' = "running" /\ pipes' = {"child"} /\ traps' \in BOOLEAN
  /\ waiter' = IF mode = "report" THEN "waits" ELSE "none"
  /\ pc' = IF mode = "report" THEN "timed" ELSE "output"
  /\ UNCHANGED <<mode, extra, env, OfFiles, late, reports, killed, result>>

SpawnFails == pc = "spawn" /\ Fail

\* A child may leave a descendant that holds its pipes.
Fork ==
  /\ child = "running" /\ pipes' = pipes \cup {"descendant"}
  /\ UNCHANGED <<pc, mode, extra, env, OfFiles, child, waiter, late, traps, reports, killed,
                 result>>

Exit ==
  /\ child = "running" /\ child' \in (IF killed THEN {"failed"} ELSE {"ok", "failed"})
  /\ pipes' = pipes \ {"child"}
  /\ UNCHANGED <<pc, mode, extra, env, OfFiles, waiter, late, traps, reports, killed, result>>

DescendantEnds ==
  /\ "descendant" \in pipes /\ pipes' = pipes \ {"descendant"}
  /\ UNCHANGED <<pc, mode, extra, env, OfFiles, child, waiter, late, traps, reports, killed,
                 result>>

Deadline ==
  /\ pc \in {"timed", "output"} /\ mode # "none" /\ ~late /\ late' = TRUE
  /\ UNCHANGED <<pc, mode, extra, env, OfFiles, child, pipes, waiter, traps, reports, killed,
                 result>>

\* The timeout utility is the command's parent.  Without -k it sends TERM, once, and
\* waits on: a command that ignores or traps the signal ends when it likes to.
Kill ==
  /\ Wrapped /\ late /\ child = "running" /\ ~killed /\ killed' = TRUE
  /\ IF traps THEN UNCHANGED <<child, pipes>>
              ELSE child' = "failed" /\ pipes' = pipes \ {"child"}
  /\ UNCHANGED <<pc, mode, extra, env, OfFiles, waiter, late, traps, reports, result>>

\* wait_with_output in its thread: it sends the output, or the thread panics and
\* the channel is disconnected.
Send ==
  /\ waiter = "waits" /\ ChildOver /\ waiter' = "sent"
  /\ UNCHANGED <<pc, mode, extra, env, OfFiles, child, pipes, late, traps, reports, killed,
                 result>>

WaiterPanics ==
  /\ waiter = "waits" /\ waiter' = "gone"
  /\ UNCHANGED <<pc, mode, extra, env, OfFiles, child, pipes, late, traps, reports, killed,
                 result>>

\* recv_timeout runs out: the overrun is reported and the call waits on.
OverrunAgain == waiter = "waits" /\ late
Overrun      == waiter = "waits" /\ late /\ pc = "timed"
Report ==
  /\ pc \in {"timed", "patient"} /\ Overrun
  /\ reports' = reports + 1 /\ pc' = "patient"
  /\ UNCHANGED <<mode, extra, env, OfFiles, child, pipes, waiter, late, traps, killed, result>>

Collect ==
  /\ \/ pc \in {"timed", "patient"} /\ waiter = "sent"
     \/ pc = "output" /\ ChildOver
  /\ RemoveFiles
  /\ pc' = "settle"
  /\ UNCHANGED <<mode, extra, env, spilled, written, OfChild, result>>

EndedEarly == pc \in {"timed", "patient"} /\ waiter = "gone" /\ Fail

\* The exit status decides; a failed command's stdout is retained or the reason why
\* not is noted, and neither changes the result.
Settle ==
  /\ pc = "settle" /\ pc' = "done" /\ result' = child
  /\ UNCHANGED <<mode, extra, env, OfFiles, OfChild>>

Terminated == pc = "done" /\ UNCHANGED vars

Prepare == \/ Resolve \/ Plan \/ WriteValue \/ Bound \/ WriteScript \/ Spawn
           \/ SpillFails \/ WriteFails \/ BoundRefuses \/ ScriptFails \/ SpawnFails
Await   == Send \/ Report \/ Collect \/ EndedEarly \/ Settle

Next == \/ Prepare \/ Await \/ Fork \/ Exit \/ DescendantEnds \/ Deadline \/ Kill
        \/ WaiterPanics \/ Terminated

Spec == Init /\ [][Next]_vars

\* The runner runs, time passes, the timeout utility sends its signal.  A child may
\* hang, but without a killing deadline it ends; a descendant lets go of the pipes
\* sometime.
FairSpec ==
  /\ Spec
  /\ WF_vars(Prepare) /\ WF_vars(Await) /\ WF_vars(Deadline) /\ WF_vars(Kill)
  /\ WF_vars(mode # "kill" /\ Exit)
  /\ WF_vars(child # "running" /\ DescendantEnds)

-----------------------------------------------------------------------------

TypeOK ==
  /\ pc \in {"resolve", "plan", "write", "bound", "script", "spawn", "timed",
             "patient", "output", "settle", "done"}
  /\ mode \in Modes /\ extra \in Steps /\ env \in [Names -> Nat]
  /\ written \subseteq spilled /\ spilled \subseteq Names
  /\ spillDir \in {"none", "there", "left"} /\ script \in BOOLEAN
  /\ child \in {"none", "running", "ok", "failed"}
  /\ pipes \subseteq {"child", "descendant"}
  /\ waiter \in {"none", "waits", "sent", "gone"}
  /\ late \in BOOLEAN /\ traps \in BOOLEAN /\ reports \in Nat /\ killed \in BOOLEAN
  /\ result \in {"none", "ok", "failed", "error"}

\* However large the step's and the inherited variables are, no child is started
\* with an environment the kernel must refuse, a command of the reserved size included,
\* unless the kernel's limits are below the floor.
NeverTooBig ==
  child # "none" =>
    /\ Ceiling(ArgMax, Stack) >= Floor + Reserve => Cost(env) + Reserve <= Ceiling(ArgMax, Stack)
    /\ \A n \in Names : env[n] <= Limit

\* A variable of the step reaches the child with the step's value, in its
\* environment or in a file that is complete, if bash can assign it or it is
\* protected and fits the kernel's limit for one string.
StepValuesArrive ==
  child # "none" =>
    \A n \in Spillable \cup {m \in Protected : extra[m] <= Cap} :
      extra[n] > 1 => env[n] = extra[n] \/ n \in written

\* The spill files and the script are there as long as the child may read them, and
\* gone when the call returns, whichever step of it failed.
FilesLastAsLongAsTheCall ==
  /\ child = "running" /\ waiter # "gone" =>
       (spilled # {} => spillDir = "there") /\ pc \in {"timed", "patient", "output"}
  /\ pc = "done" => ~script /\ spillDir # "there"

\* The child is started with the variables its step has, within the kernel's limits,
\* and with the files that hold them for as long as it reads them.
EnvironmentArrives == NeverTooBig /\ StepValuesArrive /\ FilesLastAsLongAsTheCall

\* An overrun is reported at most once, and only in the mode that kills nothing.
OverrunReportedOnce ==
  /\ reports <= (IF late /\ mode = "report" THEN 1 ELSE 0)
  /\ reports > 0 => ~killed

\* A command that does not let TERM end it, and goes on.
Deaf == mode = "kill" /\ traps /\ child = "running"

\* The call returns, also when a child outlives its deadline, unless the command
\* ignores TERM and runs for ever: the code sends nothing stronger.
CallReturns == <>(pc = "done") \/ <>[]Deaf

=============================================================================
