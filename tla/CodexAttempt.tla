----------------------------- MODULE CodexAttempt -----------------------------
(***************************************************************************)
(* One Codex call: the retry loop of execute_agent_step_impl               *)
(* (src/adapters/cli_subprocess.rs) around codex_exec::execute.  Each      *)
(* attempt starts a launcher in a process group of its own, forks an       *)
(* anchor process into that group, delivers the instructions, waits, tears *)
(* the group down and combines what went wrong.  The anchor is a child     *)
(* that does nothing: as long as it is not reaped the number of the group  *)
(* cannot be given to processes of somebody else, so the group may still   *)
(* be signalled after the launcher was reaped.                             *)
(*                                                                         *)
(* Actors: the calling thread, the launcher, its descendants, the anchor,  *)
(* two reader threads, the user's signals, and the rest of the program,    *)
(* which may change the reaping policy or reap a child that is not its     *)
(* own.  The look at a child and the signal it permits are two actions:    *)
(* the others may step between them, as they may during every wait.  Each  *)
(* bounded wait may end by its deadline at any time.  An error is the set  *)
(* of typed markers it carries.                                            *)
(***************************************************************************)
EXTENDS Naturals

CONSTANT MaxRetries  \* RateLimitConfig.max_retries
ASSUME MaxRetriesAssumption == MaxRetries \in Nat

VARIABLES
  pc,         \* where the calling thread is
  attempt,    \* retries made
  result,     \* what the attempt, then the call, comes to
  cancelled,  \* a signal arrived in this epoch (check_cancellation)
  policy,     \* SIGCHLD is as validate_reaper wants it
  launcher, exit,        \* the launcher and how it ended
  anchor, joined, end,   \* the anchor, whether it joined the group, how it ended
  control,    \* the control pipe to the anchor is open
  fallback,   \* the one direct kill of retire: "no", "armed" (permitted), "used"
  desc,       \* descendants of the launcher in the group
  delivered,  \* the whole envelope was written to stdin
  stop,       \* the stop flag of the readers
  reader,     \* the two reader threads
  failures,   \* shutdown or join_readers recorded a failure
  dirty,      \* history: something failed to be cleaned up in this call
  meddled,    \* history: the rest of the program interfered since the last check
  wild        \* history: a signal went to an identity that was not held, although
              \* nobody interfered since it was checked

owner     == <<pc, attempt, result>>
process   == <<launcher, exit, desc>>
anchoring == <<anchor, joined, end, control, fallback>>
reading   == <<stop, reader>>
books     == <<failures, dirty>>
signals   == <<meddled, wild>>
vars == <<owner, cancelled, policy, process, anchoring, delivered,
          reading, books, signals>>

Readers  == {"stdout", "stderr"}
Marks    == {"interruption", "cleanup", "rate"}
Ok       == [ok |-> TRUE, marks |-> {}]
Err(m)   == [ok |-> FALSE, marks |-> m]
Results  == [ok : BOOLEAN, marks : SUBSET Marks]

Unreaped == {"running", "doomed", "zombie"}
\* The group is the launcher's: somebody unreaped or alive is in it.
Held      == launcher \in Unreaped \/ (joined /\ anchor \in Unreaped) \/ desc # "none"
GroupLive == \/ launcher \in {"running", "doomed"}
             \/ joined /\ anchor \in {"running", "doomed"}
             \/ desc # "none"
Checked   == IF cancelled THEN Err({"interruption"}) ELSE Ok
Mishap(b) == failures' = (failures \/ b) /\ dirty' = (dirty \/ b)

\* Where a signal is about to be sent because of a check made before.
Relying == \/ pc \in {"startupTerm", "startupKill", "startupLast", "launcherTerm",
                      "termGrace", "launcherKill", "termSend", "killSend"}
           \/ fallback = "armed"
SentTo(held) == wild' = (wild \/ (~held /\ ~meddled))

\* The mistakes that a run must notice stand before the decisions they concern.

CombineFirst(r, c) == IF r.ok THEN c ELSE r
Combine(r, c) ==
  IF c.ok THEN r
  ELSE IF r.ok
  THEN IF "interruption" \in c.marks THEN c ELSE Err(c.marks \cup {"cleanup"})
  ELSE IF "interruption" \notin c.marks THEN Err(r.marks \cup {"cleanup"})
  ELSE LET typed == IF "interruption" \in r.marks THEN r.marks ELSE c.marks
       IN  Err(typed \cup ((r.marks \cup c.marks) \cap {"cleanup"}))

Retryable(r)    == ~r.ok /\ r.marks \cap Marks = {"rate"}

\* GroupAnchor::state: the identity of the anchor, and with it of the group, is held.
AuthorityByPolicy == policy
Authority         == policy /\ anchor \in Unreaped
\* startup_failure: validate_reaper and retained_launcher
StartupAuthority       == policy /\ launcher \in Unreaped

\* GroupAnchor::retire waits for the anchor, and no longer than its deadline.
RetirementOverWhenDead == anchor \in {"zombie", "lost"}
RetirementOver         == anchor \in {"zombie", "lost"} \/ fallback = "used"
RetirementFailed       == anchor # "zombie" \/ end = "other"

ReadersFailedStderr == reader["stderr"] # "ended"
ReadersFailed       == \E r \in Readers : reader[r] # "ended"

RetriesLeft      == attempt < MaxRetries

Init ==
  /\ pc = "begin" /\ attempt = 0 /\ result = Ok
  /\ cancelled = FALSE /\ policy = TRUE
  /\ launcher = "none" /\ exit = "zero" /\ desc = "none"
  /\ anchor = "none" /\ joined = FALSE /\ end = "due"
  /\ control = FALSE /\ fallback = "no"
  /\ delivered = FALSE /\ stop = FALSE
  /\ reader = [r \in Readers |-> "none"]
  /\ failures = FALSE /\ dirty = FALSE /\ meddled = FALSE /\ wild = FALSE

-----------------------------------------------------------------------------
(* Start: spawn_with_timeout, GroupAnchor::establish, startup_failure *)

Refuse ==
  /\ pc = "begin"
  /\ \/ result' = Err({}) /\ pc' \in {"close", "finish"}
     \/ ~policy /\ result' = Err({"cleanup"}) /\ pc' = "finish"
     \/ cancelled /\ result' = Err({"interruption"}) /\ pc' = "finish"
  /\ UNCHANGED <<attempt, cancelled, policy, process, anchoring,
                 delivered, reading, books, signals>>

Spawn ==
  /\ pc = "begin" /\ policy /\ ~cancelled
  /\ launcher' = "running" /\ exit' = "zero" /\ desc' = "none"
  /\ anchor' = "none" /\ joined' = FALSE /\ end' = "due"
  /\ control' = FALSE /\ fallback' = "no"
  /\ delivered' = FALSE /\ stop' = FALSE /\ failures' = FALSE
  /\ reader' = [r \in Readers |-> "none"]
  /\ pc' = "anchor"
  /\ UNCHANGED <<attempt, result, cancelled, policy, dirty, signals>>

StartAnchor ==
  /\ pc = "anchor"
  /\ \/ policy /\ anchor' = "running" /\ control' = TRUE /\ pc' = "ack"
     \/ pc' = "startup" /\ UNCHANGED <<anchor, control>>
  /\ UNCHANGED <<attempt, result, cancelled, policy, process, joined, end,
                 fallback, delivered, reading, books, signals>>

AnchorReady ==
  /\ pc = "ack" /\ joined /\ ~cancelled
  /\ policy /\ anchor \in {"running", "doomed"}
  /\ pc' = "run" /\ reader' = [r \in Readers |-> "reading"]
  /\ UNCHANGED <<attempt, result, cancelled, policy, process, anchoring,
                 delivered, stop, books, signals>>

AnchorUnready ==
  /\ pc = "ack"
  /\ cancelled \/ ~policy \/ anchor \in {"zombie", "lost"}
  /\ control' = FALSE /\ pc' = "unready"
  /\ UNCHANGED <<attempt, result, cancelled, policy, process, anchor,
                 joined, end, fallback, delivered, reading, books, signals>>

\* signal_group(SIGKILL): TERM changes no more than what processes may do anyhow, as do
\* descendants that were killed.
KillGroup ==
  /\ launcher' = IF launcher = "running" THEN "doomed" ELSE launcher
  /\ anchor' = IF joined /\ anchor = "running" THEN "doomed" ELSE anchor
  /\ SentTo(Held)

\* Is the launcher there, and did nobody reap it?
StartupUnwind ==
  /\ pc = "startup"
  /\ dirty' = TRUE /\ meddled' = FALSE
  /\ pc' = IF StartupAuthority THEN "startupTerm" ELSE "startupReap"
  /\ UNCHANGED <<attempt, result, cancelled, policy, process, anchoring, delivered,
                 reading, failures, wild>>

\* Then TERM and KILL to its group, either of which the system may refuse, ...
StartupTerm ==
  /\ pc = "startupTerm"
  /\ SentTo(Held) /\ pc' = "startupKill"
  /\ UNCHANGED <<attempt, result, cancelled, policy, process, anchoring, delivered,
                 reading, books, meddled>>

StartupKill ==
  /\ pc = "startupKill"
  /\ \/ KillGroup
     \/ UNCHANGED <<launcher, anchor, wild>>
  /\ pc' = "startupLook"
  /\ UNCHANGED <<attempt, result, cancelled, policy, exit, desc, joined, end, control,
                 fallback, delivered, reading, books, meddled>>

\* ... and reap_launcher, which looks again before it kills the launcher itself.
StartupLook ==
  /\ pc = "startupLook"
  /\ meddled' = FALSE
  /\ pc' = IF policy /\ launcher \in {"running", "doomed"}
           THEN "startupLast" ELSE "startupReap"
  /\ UNCHANGED <<attempt, result, cancelled, policy, process, anchoring, delivered,
                 reading, books, wild>>

StartupLast ==
  /\ pc = "startupLast"
  /\ \/ launcher' = (IF launcher = "running" THEN "doomed" ELSE launcher)
        /\ SentTo(launcher \in Unreaped)
     \/ UNCHANGED <<launcher, wild>>
  /\ meddled' = FALSE /\ pc' = "startupReap"
  /\ UNCHANGED <<attempt, result, cancelled, policy, exit, desc, anchoring, delivered,
                 reading, books>>

\* Whatever started the unwind, its text remains and its type does not.
StartupReaped ==
  /\ pc = "startupReap"
  /\ launcher' = IF launcher = "zombie" THEN "waited" ELSE launcher
  /\ result' = Err({"cleanup"}) /\ pc' = "finish"
  /\ UNCHANGED <<attempt, cancelled, policy, exit, desc, anchoring,
                 delivered, reading, books, signals>>

-----------------------------------------------------------------------------
(* deliver_and_wait *)

Deliver ==
  /\ pc = "run" /\ ~delivered
  /\ delivered' = TRUE
  /\ UNCHANGED <<owner, cancelled, policy, process, anchoring, reading,
                 books, signals>>

RunFails ==
  /\ pc = "run"
  /\ \/ cancelled /\ result' = Checked
     \/ /\ ~policy \/ anchor \notin {"running", "doomed"} \/ launcher = "lost"
        /\ result' = Err({"cleanup"})
     \/ (stop \/ ~delivered) /\ result' = Err({})
  /\ pc' = "shutdown"
  /\ UNCHANGED <<attempt, cancelled, policy, process, anchoring,
                 delivered, reading, books, signals>>

\* The deadline of the attempt, if it has one: before the anchor is ready, or while
\* the launcher runs.
TimeOut ==
  /\ \/ pc = "ack" /\ pc' = "unready" /\ control' = FALSE /\ result' = result
     \/ pc = "run" /\ pc' = "shutdown" /\ control' = control /\ result' = Err({})
  /\ UNCHANGED <<attempt, cancelled, policy, process, anchor, joined, end, fallback,
                 delivered, reading, books, signals>>

LauncherExited ==
  /\ pc = "run" /\ launcher = "zombie"
  /\ launcher' = "waited"
  /\ result' = IF delivered THEN Ok ELSE Err({})
  /\ pc' = "shutdown"
  /\ UNCHANGED <<attempt, cancelled, policy, exit, desc, anchoring,
                 delivered, reading, books, signals>>

-----------------------------------------------------------------------------
(* shutdown: retire_launcher, then shutdown_bounded *)

\* validate_reaper and try_wait; a launcher still there gets TERM, which the system may
\* refuse, and 100 ms.
RetireLauncher ==
  /\ pc = "shutdown"
  /\ IF policy /\ launcher \in {"running", "doomed"}
     THEN pc' = "launcherTerm" /\ UNCHANGED <<launcher, books>>
     ELSE /\ pc' = "term"
          /\ launcher' = IF policy /\ launcher = "zombie" THEN "waited" ELSE launcher
          /\ Mishap(~policy \/ launcher = "lost")
  /\ meddled' = FALSE
  /\ UNCHANGED <<attempt, result, cancelled, policy, exit, desc, anchoring,
                 delivered, reading, wild>>

LauncherTerm ==
  /\ pc = "launcherTerm"
  /\ SentTo(launcher \in Unreaped)
  /\ \E refused \in BOOLEAN : Mishap(refused)
  /\ pc' = "termGrace"
  /\ UNCHANGED <<attempt, result, cancelled, policy, process, anchoring,
                 delivered, reading, meddled>>

\* Does the launcher end by itself?
LauncherGrace ==
  /\ pc = "termGrace"
  /\ IF launcher \in {"running", "doomed"}
     THEN pc' = "launcherKill" /\ UNCHANGED <<launcher, books, meddled>>
     ELSE /\ pc' = "term" /\ launcher' = "waited" /\ Mishap(launcher = "lost")
          /\ meddled' = FALSE
  /\ UNCHANGED <<attempt, result, cancelled, policy, exit, desc, anchoring,
                 delivered, reading, wild>>

\* Child::kill looks at no policy: it relies on the check made before TERM.
LauncherKill ==
  /\ pc = "launcherKill"
  /\ \/ /\ launcher' = IF launcher = "running" THEN "doomed" ELSE launcher
        /\ SentTo(launcher \in Unreaped) /\ UNCHANGED books
     \/ UNCHANGED <<launcher, wild>> /\ Mishap(TRUE)
  /\ meddled' = FALSE /\ pc' = "killGrace"
  /\ UNCHANGED <<attempt, result, cancelled, policy, exit, desc, anchoring,
                 delivered, reading>>

LauncherReaped ==
  /\ pc = "killGrace"
  /\ launcher' = IF launcher = "zombie" THEN "waited" ELSE launcher
  /\ Mishap(launcher # "zombie")
  /\ pc' = "term"
  /\ UNCHANGED <<attempt, result, cancelled, policy, exit, desc, anchoring,
                 delivered, reading, signals>>

\* GroupAnchor::signal(SIGTERM): the look at the anchor, then the signal, if the system
\* permits it.
TermGroup ==
  /\ pc = "term"
  /\ Mishap(~Authority \/ anchor = "zombie")
  /\ meddled' = FALSE
  /\ pc' = IF Authority THEN "termSend" ELSE "grace"
  /\ UNCHANGED <<attempt, result, cancelled, policy, process, anchoring,
                 delivered, reading, wild>>

SendTerm ==
  /\ pc = "termSend"
  /\ SentTo(Held)
  /\ \E refused \in BOOLEAN : Mishap(refused)
  /\ meddled' = FALSE /\ pc' = "grace"
  /\ UNCHANGED <<attempt, result, cancelled, policy, process, anchoring,
                 delivered, reading>>

\* The group is gone, the grace period is over, or it cannot be observed.
EndGrace ==
  /\ pc = "grace"
  /\ \E unseen \in BOOLEAN : Mishap(unseen)
  /\ pc' = "kill"
  /\ UNCHANGED <<attempt, result, cancelled, policy, process, anchoring,
                 delivered, reading, signals>>

\* GroupAnchor::signal(SIGKILL): the same look and signal, which seal the anchor and
\* retire it: the control pipe is closed.
KillAndSeal ==
  /\ pc = "kill"
  /\ Mishap(~Authority \/ anchor = "zombie")
  /\ meddled' = FALSE
  /\ pc' = IF Authority THEN "killSend" ELSE "retire"
  /\ control' = (Authority /\ control)
  /\ UNCHANGED <<attempt, result, cancelled, policy, process, anchor, joined, end,
                 fallback, delivered, reading, wild>>

SendKill ==
  /\ pc = "killSend"
  /\ \/ KillGroup /\ UNCHANGED books
     \/ UNCHANGED <<launcher, anchor, wild>> /\ Mishap(TRUE)
  /\ meddled' = FALSE /\ control' = FALSE /\ pc' = "retire"
  /\ UNCHANGED <<attempt, result, cancelled, policy, exit, desc, joined, end,
                 fallback, delivered, reading>>

\* GroupAnchor::retire, from a failed start or from a shutdown: the look at an anchor
\* that is still there and at the policy, then its direct kill.
RetireLooks ==
  /\ pc \in {"unready", "retire"} /\ fallback = "no"
  /\ anchor \in {"running", "doomed"}
  /\ fallback' = IF policy THEN "armed" ELSE "used"
  /\ Mishap(~policy)
  /\ meddled' = FALSE
  /\ UNCHANGED <<owner, cancelled, policy, process, anchor, joined, end, control,
                 delivered, reading, wild>>

RetireKills ==
  /\ pc \in {"unready", "retire"} /\ fallback = "armed"
  /\ \/ /\ anchor' = IF anchor = "running" THEN "doomed" ELSE anchor
        /\ SentTo(anchor \in Unreaped) /\ UNCHANGED books
     \/ UNCHANGED <<anchor, wild>> /\ Mishap(TRUE)
  /\ fallback' = "used" /\ meddled' = FALSE
  /\ UNCHANGED <<owner, cancelled, policy, process, joined, end, control,
                 delivered, reading>>

\* Nobody asks again for the fallback, or how the anchor ended.
Retired ==
  /\ pc \in {"unready", "retire"} /\ fallback # "armed"
  /\ RetirementOver
  /\ anchor' = IF anchor = "zombie" THEN "waited" ELSE anchor
  /\ fallback' = "no" /\ end' = "due"
  /\ Mishap(RetirementFailed)
  /\ pc' = IF pc = "unready" THEN "startup" ELSE "confirm"
  /\ UNCHANGED <<attempt, result, cancelled, policy, process, joined, control,
                 delivered, reading, signals>>

\* Wait for the group to disappear, reap the launcher, look again.
Confirm ==
  /\ pc = "confirm"
  /\ \E unseen \in BOOLEAN : Mishap(GroupLive \/ unseen)
  /\ pc' = "observe"
  /\ UNCHANGED <<attempt, result, cancelled, policy, process, anchoring,
                 delivered, reading, signals>>

ObserveLauncher ==
  /\ pc = "observe"
  /\ launcher' = IF launcher = "zombie" THEN "waited" ELSE launcher
  /\ Mishap(launcher \notin {"zombie", "waited"})
  /\ pc' = "final"
  /\ UNCHANGED <<attempt, result, cancelled, policy, exit, desc, anchoring,
                 delivered, reading, signals>>

FinalLook ==
  /\ pc = "final"
  /\ \E unseen \in BOOLEAN : Mishap(GroupLive \/ unseen)
  /\ stop' = TRUE /\ pc' = "join"
  /\ UNCHANGED <<attempt, result, cancelled, policy, process, anchoring,
                 delivered, reader, signals>>

-----------------------------------------------------------------------------
(* What the attempt comes to, and whether there is another one *)

JoinReaders ==
  /\ pc = "join" /\ \A r \in Readers : reader[r] # "reading"
  /\ Mishap(ReadersFailed)
  /\ pc' = "classify"
  /\ UNCHANGED <<attempt, result, cancelled, policy, process, anchoring,
                 delivered, reading, signals>>

\* Only the tail of stderr, if it was drained, can show a rate limit.
Classify ==
  /\ pc = "classify"
  /\ \E marks \in IF reader["stderr"] = "ended" THEN {{}, {"rate"}} ELSE {{}},
       read \in {Ok, Err({})} :
       LET execution == IF result.ok /\ exit = "other" THEN Err(marks) ELSE result
           combined  == Combine(Combine(execution, Checked),
                                IF failures THEN Err({}) ELSE Ok)
       IN  result' = IF combined.ok THEN read ELSE combined
  /\ pc' = "finish"
  /\ UNCHANGED <<attempt, cancelled, policy, process, anchoring, delivered,
                 reading, books, signals>>

Finish ==
  /\ pc = "finish"
  /\ \E removed \in {Ok, Err({})} :
       LET r == Combine(Combine(result, removed), Checked)
       IN  /\ result' = r
           /\ Mishap(~removed.ok)
           /\ IF Retryable(r) /\ RetriesLeft
              THEN attempt' = attempt + 1 /\ pc' = "backoff"
              ELSE attempt' = attempt /\ pc' = "close"
  /\ UNCHANGED <<cancelled, policy, process, anchoring, delivered, reading,
                 signals>>

Backoff ==
  /\ pc = "backoff"
  /\ \/ cancelled /\ result' = Checked /\ pc' = "close"
     \/ result' = Ok /\ pc' = "begin"
  /\ UNCHANGED <<attempt, cancelled, policy, process, anchoring, delivered,
                 reading, books, signals>>

\* Cancellation::close: the last look and the restored signal dispositions.
Close ==
  /\ pc = "close"
  /\ \E restored \in {Ok, Err({})} :
       /\ result' = Combine(result, Combine(Checked, restored))
       /\ Mishap(~restored.ok)
  /\ pc' = "done"
  /\ UNCHANGED <<attempt, cancelled, policy, process, anchoring, delivered,
                 reading, signals>>

Terminated == pc = "done" /\ UNCHANGED vars

-----------------------------------------------------------------------------
(* The other actors *)

\* With another reaping policy the kernel reaps.
Corpse == IF policy THEN "zombie" ELSE "lost"

LauncherEnds ==
  /\ launcher \in {"running", "doomed"}
  /\ launcher' = Corpse
  /\ exit' \in IF launcher = "doomed" THEN {"other"} ELSE {"zero", "other"}
  /\ UNCHANGED <<owner, cancelled, policy, desc, anchoring, delivered,
                 reading, books, signals>>

Descend ==
  /\ \/ launcher = "running" /\ desc = "none" /\ desc' = "live"
     \/ desc # "none" /\ desc' = "none"
  /\ UNCHANGED <<owner, cancelled, policy, launcher, exit, anchoring,
                 delivered, reading, books, signals>>

\* The anchor joins the group and says so, if the group still exists.
AnchorJoins ==
  /\ anchor = "running" /\ ~joined /\ Held
  /\ joined' = TRUE
  /\ UNCHANGED <<owner, cancelled, policy, process, anchor, end, control,
                 fallback, delivered, reading, books, signals>>

\* Its own lifetime or a failed call (codes above 110), or what is due: end of file on
\* the control pipe (0), KILL.
AnchorEnds ==
  /\ anchor \in {"running", "doomed"}
  /\ anchor' = Corpse
  /\ end' \in {"other"} \cup {e \in {"due"} : ~control \/ anchor = "doomed"}
  /\ UNCHANGED <<owner, cancelled, policy, process, joined, control,
                 fallback, delivered, reading, books, signals>>

\* A reader ends when the pipe does, or when it is told to stop; one that fails
\* stops the other reader and the owner, one that panics stops nobody.
ReaderEnds(r) ==
  /\ reader[r] = "reading"
  /\ \/ reader' = [reader EXCEPT ![r] = "ended"] /\ stop' = stop
     \/ reader' = [reader EXCEPT ![r] = "broken"] /\ stop' \in {stop, TRUE}
  /\ UNCHANGED <<owner, cancelled, policy, process, anchoring, delivered,
                 books, signals>>

Interrupt ==
  /\ ~cancelled /\ pc # "done"
  /\ cancelled' = TRUE
  /\ UNCHANGED <<owner, policy, process, anchoring, delivered, reading,
                 books, signals>>

\* The rest of the program changes the policy or reaps somebody else's child; bound:
\* one such interference.
Interfere ==
  /\ pc # "done" /\ policy /\ launcher # "lost" /\ anchor # "lost"
  /\ \/ policy' = FALSE /\ UNCHANGED <<launcher, anchor>>
     \/ launcher = "zombie" /\ launcher' = "lost" /\ UNCHANGED <<policy, anchor>>
     \/ anchor = "zombie" /\ anchor' = "lost" /\ UNCHANGED <<policy, launcher>>
  /\ meddled' = (meddled \/ Relying)
  /\ UNCHANGED <<owner, cancelled, exit, desc, joined, end, control,
                 fallback, delivered, reading, books, wild>>

Owner ==
  \/ Refuse \/ Spawn \/ StartAnchor \/ AnchorReady \/ AnchorUnready \/ StartupUnwind
  \/ StartupTerm \/ StartupKill \/ StartupLook \/ StartupLast \/ StartupReaped
  \/ Deliver \/ RunFails \/ LauncherExited \/ RetireLauncher \/ LauncherTerm
  \/ LauncherGrace \/ LauncherKill \/ LauncherReaped \/ TermGroup \/ SendTerm
  \/ EndGrace \/ KillAndSeal \/ SendKill \/ RetireLooks \/ RetireKills \/ Retired
  \/ Confirm \/ ObserveLauncher \/ FinalLook \/ JoinReaders \/ Classify \/ Finish
  \/ Backoff \/ Close

Next ==
  \/ Owner \/ TimeOut \/ LauncherEnds \/ Descend \/ AnchorJoins \/ AnchorEnds
  \/ (\E r \in Readers : ReaderEnds(r)) \/ Interrupt \/ Interfere \/ Terminated

Spec == Init /\ [][Next]_vars

\* Threads are scheduled.  A reader ends because its pipe does or because it was
\* told to stop; nothing obliges a process of the group to end, and an attempt
\* without a timeout never times out.
FairSpec ==
  /\ Spec /\ WF_vars(Owner)
  /\ \A r \in Readers : WF_vars(stop /\ ReaderEnds(r))

-----------------------------------------------------------------------------

TypeOK ==
  /\ attempt \in 0..MaxRetries /\ result \in Results
  /\ pc \in {"begin", "anchor", "ack", "unready", "startup", "startupTerm",
             "startupKill", "startupLook", "startupLast", "startupReap", "run",
             "shutdown", "launcherTerm", "termGrace", "launcherKill", "killGrace",
             "term", "termSend", "grace", "kill", "killSend", "retire", "confirm",
             "observe", "final", "join", "classify", "finish", "backoff", "close",
             "done"}
  /\ cancelled \in BOOLEAN /\ policy \in BOOLEAN
  /\ launcher \in {"none", "running", "doomed", "zombie", "waited", "lost"}
  /\ exit \in {"zero", "other"} /\ desc \in {"none", "live"}
  /\ anchor \in {"none", "running", "doomed", "zombie", "waited", "lost"}
  /\ joined \in BOOLEAN /\ end \in {"due", "other"}
  /\ control \in BOOLEAN /\ fallback \in {"no", "armed", "used"} /\ delivered \in BOOLEAN
  /\ stop \in BOOLEAN /\ failures \in BOOLEAN /\ dirty \in BOOLEAN
  /\ meddled \in BOOLEAN /\ wild \in BOOLEAN
  /\ reader \in [Readers -> {"none", "reading", "ended", "broken"}]

NothingLeft ==
  /\ ~GroupLive
  /\ launcher \in {"none", "waited"} /\ anchor \in {"none", "waited"}

\* Every signal goes to a number that is held: that of a child nobody reaped, or of a
\* group in which a process lives or such a child was.  Whatever the launcher, the anchor,
\* their descendants and, before the check, the rest of the program did, only one thing
\* can lose the number: the rest of the program changes the reaping policy or reaps a child
\* that is not its own after the check that the signal relies on.
SignalsStayHome == ~wild

\* A call that leaves anything of a group alive or unreaped, or in which any part of
\* the cleanup failed, says so by a cleanup failure, whatever else went wrong.
LeakIsReported ==
  pc = "done" /\ (dirty \/ ~NothingLeft) => "cleanup" \in result.marks

\* An interruption that arrived before the call returned is in the error it returns,
\* also when it was first met where only its text is kept (startup_failure).
InterruptionIsReported ==
  pc = "done" /\ cancelled => ~result.ok /\ "interruption" \in result.marks

\* What went wrong beside the first error is in the result: what is left of a group,
\* and a signal that was met late.
FaultsAreReported == LeakIsReported /\ InterruptionIsReported

\* The final message is returned only if the launcher succeeded after it was given
\* all its instructions, both readers ended and nobody interrupted.
SuccessIsWhole ==
  pc = "done" /\ result.ok =>
    /\ delivered /\ launcher = "waited" /\ exit = "zero" /\ ~cancelled
    /\ \A r \in Readers : reader[r] = "ended"

\* A further attempt starts only when nothing of the last one is left and none of its
\* cleanup failed.
RetryIsClean == pc = "backoff" => NothingLeft /\ ~dirty

\* Neither a result nor a further attempt rests on an attempt that was cut short or
\* that left anything behind.
SuccessIsClean == SuccessIsWhole /\ RetryIsClean

\* Once a signal arrived the call returns, and a teardown that began comes to an end,
\* whatever the processes of the group do.
CallReturns ==
  /\ cancelled ~> pc = "done"
  /\ pc \in {"unready", "shutdown"} ~> pc = "finish"

=============================================================================
