------------------------------ MODULE AgentCall ------------------------------
(***************************************************************************)
(* One agent call of the CLI adapter                                       *)
(* (CLISubprocessAdapter::execute_agent_step_impl, for every agent but     *)
(* Codex): the calling thread starts the agent as a child process, polls   *)
(* it until it exits or its deadline passes, and starts it again while it  *)
(* is rate limited.  Beside it runs one heartbeat thread per attempt       *)
(* (run_heartbeat), which streams the child's output log and reports its   *)
(* exit; the two threads share the exit slot and the stop flag.            *)
(*                                                                         *)
(* A byte of output is its number; the text of an output is abstracted to  *)
(* whether it mentions a rate limit.  Time is abstracted to the one event  *)
(* that matters, the passing of the deadline: sleeps and ticks may take    *)
(* any time.                                                               *)
(***************************************************************************)
EXTENDS Integers

CONSTANTS
  Limits,       \* which of "none", "kill", "report" a step's timeout may mean
  MaxRetries,   \* RateLimitConfig.max_retries
  MaxOut        \* bound: bytes a child writes

ASSUME ConstantsAssumption ==
  /\ Limits \subseteq {"none", "kill", "report"}
  /\ MaxRetries \in Nat /\ MaxOut \in Nat

VARIABLES
  limit,     \* what the step's timeout does, fixed
  pc,        \* where the calling thread is
  attempt,   \* number of the attempt, from 1
  deadline,  \* "none", "armed", "expired"
  child,     \* "none", "running", "exited" (a zombie), "reaped"
  exit,      \* how the child ended
  written,   \* bytes in the output log
  slot,      \* ExitSlot: the exit published to the heartbeat
  stop,      \* the stop flag
  hb,        \* where the heartbeat thread is
  size,      \* last_size: the bytes the heartbeat takes as streamed
  seen,      \* the size of the log in the metadata it just read
  observed,  \* the exit it just read
  shown,     \* how often each byte was streamed
  lost,      \* history: bytes a failed read of the log kept from being streamed
  reported,  \* the exit the heartbeat reported
  result,    \* what the call returns
  killed,    \* history: the deadline killed the child
  overruns,  \* history: overrun reports of this attempt
  claims,    \* history: "working" lines printed after the exit was published
  succeeded  \* history: some child exited with success

None  == "none"
Bytes == 1..MaxOut

\* How a child ends, and whether its output mentions a rate limit: "mentions" is a
\* success whose output does, "limited" a failure whose output does.
Exits     == {"success", "mentions", "failure", "limited", "signal"}
Succeeded == {"success", "mentions"}
Limited   == {"mentions", "limited"}

caller    == <<pc, attempt, deadline, result>>
process   == <<child, exit, written>>
shared    == <<slot, stop>>
heartbeat == <<hb, size, seen, observed, shown, lost, reported>>
history   == <<killed, overruns, claims, succeeded>>
vars      == <<limit, pc, attempt, deadline, child, exit, written, slot, stop, hb,
               size, seen, observed, shown, lost, reported, result, killed, overruns,
               claims, succeeded>>

Init ==
  /\ limit \in Limits
  /\ pc = "spawn" /\ attempt = 1 /\ deadline = "none" /\ result = None
  /\ child = "none" /\ exit = None /\ written = 0
  /\ slot = None /\ stop = FALSE
  /\ hb = "none" /\ size = 0 /\ seen = 0 /\ observed = None
  /\ shown = [b \in Bytes |-> 0] /\ lost = {} /\ reported = None
  /\ killed = FALSE /\ overruns = 0 /\ claims = 0 /\ succeeded = FALSE

-----------------------------------------------------------------------------
(* Decisions of the code; the operator before one is the mistake a run must  *)
(* notice.                                                                   *)

KillsNever == FALSE
Kills      == limit = "kill"

\* A reported overrun is not reported again: the step then has no deadline.
DeadlineAfterReport == "none"

\* After a kill, too, the heartbeat is stopped and joined.
LeaveHeartbeat == "bail"
AfterKill      == "stop"

Total == MaxRetries + 1
MayRetry         == attempt < Total

\* Success is looked at first: a successful output may well mention a rate limit.
RetryOnMention == exit \in Limited
RateLimited    == exit \notin Succeeded /\ exit \in Limited

\* heartbeat_report: an observed exit comes before everything else.
IdleFirst(idle) == idle
ClaimsProgress(idle) == observed = None /\ idle

-----------------------------------------------------------------------------
(* The calling thread *)

Spawn ==
  /\ pc = "spawn"
  /\ \/ /\ pc' = "poll"
        /\ child' = "running" /\ exit' = None /\ written' = 0
        /\ deadline' = IF limit = "none" THEN "none" ELSE "armed"
        /\ slot' = None /\ stop' = FALSE
        /\ hb' = "stat" /\ size' = 0 /\ seen' = 0 /\ observed' = None
        /\ shown' = [b \in Bytes |-> 0] /\ lost' = {} /\ reported' = None
        /\ overruns' = 0 /\ claims' = 0
        /\ UNCHANGED result
     \/ /\ pc' = "done" /\ result' = "spawnError"
        /\ UNCHANGED <<deadline, process, shared, heartbeat, overruns, claims>>
  /\ UNCHANGED <<limit, attempt, killed, succeeded>>

\* try_wait: the exit is published by the thread that reaps the child.
PollExited ==
  /\ pc = "poll" /\ child = "exited"
  /\ child' = "reaped" /\ slot' = exit
  /\ pc' = "stop"
  /\ UNCHANGED <<limit, attempt, deadline, result, exit, written, stop, heartbeat,
                 history>>

PollRunning ==
  /\ pc = "poll" /\ child = "running"
  /\ pc' = "expiry"
  /\ UNCHANGED <<limit, attempt, deadline, result, process, shared, heartbeat,
                 history>>

\* The `?` on try_wait leaves the heartbeat and the child behind.
PollFails ==
  /\ pc = "poll"
  /\ pc' = "done" /\ result' = "waitError"
  /\ UNCHANGED <<limit, attempt, deadline, process, shared, heartbeat, history>>

NotExpired ==
  /\ pc = "expiry" /\ deadline # "expired"
  /\ pc' = "poll"
  /\ UNCHANGED <<limit, attempt, deadline, result, process, shared, heartbeat,
                 history>>

ReportOverrun ==
  /\ pc = "expiry" /\ deadline = "expired" /\ ~Kills
  /\ deadline' = DeadlineAfterReport
  /\ overruns' = IF overruns < 2 THEN overruns + 1 ELSE overruns
  /\ pc' = "poll"
  /\ UNCHANGED <<limit, attempt, result, process, shared, heartbeat, killed, claims,
                 succeeded>>

\* The child may have exited since try_wait: it then keeps its own exit status.
Kill ==
  /\ pc = "expiry" /\ deadline = "expired" /\ Kills
  /\ child' = "exited"
  /\ exit' = IF child = "running" THEN "signal" ELSE exit
  /\ killed' = TRUE
  /\ pc' = "reap"
  /\ UNCHANGED <<limit, attempt, deadline, result, written, shared, heartbeat,
                 overruns, claims, succeeded>>

ReapKilled ==
  /\ pc = "reap"
  /\ \/ child' = "reaped" /\ slot' = exit
     \/ UNCHANGED <<child, slot>>            \* wait reports an error
  /\ pc' = AfterKill
  /\ UNCHANGED <<limit, attempt, deadline, result, exit, written, stop, heartbeat,
                 history>>

Stop ==
  /\ pc = "stop"
  /\ stop' = TRUE
  /\ pc' = "join"
  /\ UNCHANGED <<limit, attempt, deadline, result, process, slot, heartbeat, history>>

Join ==
  /\ pc = "join" /\ hb = "done"
  /\ pc' = IF killed THEN "bail" ELSE "classify"
  /\ UNCHANGED <<limit, attempt, deadline, result, process, shared, heartbeat,
                 history>>

TimedOut ==
  /\ pc = "bail"
  /\ pc' = "done" /\ result' = "timeout"
  /\ UNCHANGED <<limit, attempt, deadline, process, shared, heartbeat, history>>

\* Success returns the output, a rate limit is retried after a pause while
\* attempts are left, everything else fails at once.
Retry ==
  /\ pc = "classify" /\ RateLimited /\ MayRetry
  /\ attempt' = attempt + 1
  /\ pc' = "spawn"
  /\ UNCHANGED <<limit, deadline, result, process, shared, heartbeat, history>>

Return ==
  /\ pc = "classify" /\ ~(RateLimited /\ MayRetry)
  /\ pc' = "done"
  /\ result' = IF exit \in Succeeded THEN "ok"
                ELSE IF RateLimited THEN "exhausted" ELSE "failed"
  /\ UNCHANGED <<limit, attempt, deadline, process, shared, heartbeat, history>>

-----------------------------------------------------------------------------
(* The child process and the clock *)

ChildWrites ==
  /\ child = "running" /\ written < MaxOut
  /\ written' = written + 1
  /\ UNCHANGED <<limit, caller, child, exit, shared, heartbeat, history>>

ChildExits ==
  /\ child = "running"
  /\ child' = "exited"
  /\ exit' \in Exits
  /\ succeeded' = (succeeded \/ exit' \in Succeeded)
  /\ UNCHANGED <<limit, caller, written, shared, heartbeat, killed, overruns, claims>>

DeadlinePasses ==
  /\ deadline = "armed"
  /\ deadline' = "expired"
  /\ UNCHANGED <<limit, pc, attempt, result, process, shared, heartbeat, history>>

-----------------------------------------------------------------------------
(* The heartbeat thread *)

\* drain_new_output: first the metadata of the log, if it can be had ...
Stat ==
  /\ hb = "stat"
  /\ \/ seen' = written /\ hb' = IF written > size THEN "read" ELSE "slot"
     \/ seen' = seen /\ hb' = "slot"
  /\ UNCHANGED <<limit, caller, process, shared, size, observed, shown, lost, reported,
                 history>>

\* ... then the log, to its end as it is by now.  The read stops before the end when
\* the file cannot be opened, sought or read, and at once when it holds bytes that are
\* no text, as those of a character cut in two.  The size that was looked at counts as
\* streamed all the same.
TakenAgain == size
Taken      == seen
Read ==
  /\ hb = "read"
  /\ \E end \in size..written :
       /\ shown' = [b \in Bytes |-> IF b \in size + 1..end /\ shown[b] < 3
                                    THEN shown[b] + 1 ELSE shown[b]]
       /\ lost' = lost \cup {b \in end + 1..seen : shown[b] = 0}
  /\ size' = Taken
  /\ hb' = "slot"
  /\ UNCHANGED <<limit, caller, process, shared, seen, observed, reported, history>>

ReadSlot ==
  /\ hb = "slot"
  /\ observed' = slot
  /\ hb' = "report"
  /\ UNCHANGED <<limit, caller, process, shared, size, seen, shown, lost, reported,
                 history>>

Report ==
  /\ hb = "report"
  /\ \E idle \in BOOLEAN :
       LET claim == ClaimsProgress(idle) IN
       /\ claims' = IF claim /\ slot # None /\ claims < 2 THEN claims + 1 ELSE claims
       /\ reported' = IF claim THEN reported ELSE observed
  /\ hb' = IF observed # None THEN "done" ELSE "stop"
  /\ UNCHANGED <<limit, caller, process, shared, size, seen, observed, shown, lost,
                 killed, overruns, succeeded>>

CheckStop ==
  /\ hb = "stop"
  /\ hb' = IF stop THEN "done" ELSE "stat"
  /\ UNCHANGED <<limit, caller, process, shared, size, seen, observed, shown, lost,
                 reported, history>>

-----------------------------------------------------------------------------

Caller ==
  \/ Spawn \/ PollExited \/ PollRunning \/ PollFails \/ NotExpired \/ ReportOverrun
  \/ Kill \/ ReapKilled \/ Stop \/ Join \/ TimedOut \/ Retry \/ Return

Heartbeat == Stat \/ Read \/ ReadSlot \/ Report \/ CheckStop

Terminated == pc = "done" /\ UNCHANGED vars

Next ==
  \/ Caller \/ Heartbeat \/ ChildWrites \/ ChildExits \/ DeadlinePasses \/ Terminated

Spec == Init /\ [][Next]_vars

\* Threads are scheduled and time passes.  A child ends by itself only where
\* nothing would end it: without a deadline that kills.
FairSpec ==
  /\ Spec
  /\ WF_vars(Caller) /\ WF_vars(Heartbeat) /\ WF_vars(DeadlinePasses)
  /\ WF_vars(ChildExits /\ limit # "kill")

-----------------------------------------------------------------------------
(* What a call promises *)

TypeOK ==
  /\ limit \in {"none", "kill", "report"}
  /\ pc \in {"spawn", "poll", "expiry", "reap", "stop", "join", "bail", "classify",
             "done"}
  /\ attempt \in 1..Total
  /\ deadline \in {"none", "armed", "expired"}
  /\ child \in {"none", "running", "exited", "reaped"}
  /\ exit \in Exits \cup {None} /\ slot \in Exits \cup {None}
  /\ observed \in Exits \cup {None} /\ reported \in Exits \cup {None}
  /\ written \in 0..MaxOut /\ size \in 0..MaxOut /\ seen \in 0..MaxOut
  /\ stop \in BOOLEAN /\ killed \in BOOLEAN /\ succeeded \in BOOLEAN
  /\ hb \in {"none", "stat", "read", "slot", "report", "stop", "done"}
  /\ shown \in [Bytes -> 0..3] /\ lost \subseteq Bytes /\ overruns \in 0..2 /\ claims \in 0..2
  /\ result \in {None, "ok", "failed", "exhausted", "timeout", "spawnError",
                 "waitError"}

\* An attempt leaves nothing behind: when the next one starts, or the call
\* returns, its heartbeat thread has ended and the child is reaped.  The code
\* makes two exceptions: the early return on an error of try_wait, and a child
\* that was killed but could not be waited for.
AttemptContained ==
  pc \in {"spawn", "done"} /\ result # "waitError" =>
    /\ hb \in {"none", "done"}
    /\ child \in {"none", "reaped"} \/ (child = "exited" /\ result = "timeout")

\* What the child appends between a tick's look at the size and its read is streamed
\* again by the next tick, but by no other; and of the output that counts as streamed
\* exactly those bytes never were, and never will be, that a failed read did not come to
\* (drain_new_output).
StreamedAtMostTwice ==
  \A b \in Bytes : shown[b] <= 2 /\ (b \in lost <=> b <= size /\ shown[b] = 0)

\* Once the exit is published, the heartbeat may print one more "working" line,
\* for the slot it had already read, but never a second one.
AtMostOneStaleClaim == claims <= 1

\* What the child and the clock did decides what becomes of a call: an agent that
\* succeeded is never started again, and its success is what the call returns unless the
\* deadline overtook it; only a deadline that kills ends the child, and an overrun is
\* reported at most once per attempt.
OutcomeIsEarned ==
  /\ succeeded => pc # "spawn" /\ (pc = "done" => result \in {"ok", "timeout", "waitError"})
  /\ killed => limit = "kill"
  /\ overruns <= (IF limit = "report" THEN 1 ELSE 0)

\* The agent is started at most 1 + max_retries times, and the call reports a
\* persisting rate limit only after it used all of them.
RetriesBounded ==
  /\ attempt <= MaxRetries + 1
  /\ result = "exhausted" => attempt = MaxRetries + 1

\* The call returns, even if a child with a deadline never exits by itself.
CallReturns == <>(pc = "done")
=============================================================================
