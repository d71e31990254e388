---------------------------- MODULE SignalEpochs ----------------------------
(***************************************************************************)
(* Shared ownership of SIGINT and SIGTERM by the Codex calls of a process  *)
(* (src/adapters/codex_exec/cancellation.rs, signal_observations.rs).      *)
(*                                                                         *)
(* The first owner of an epoch installs handlers and saves the original    *)
(* dispositions; the last one puts them back.  A handler only adds one to  *)
(* a saturating counter of its signal, which nothing ever resets: an owner *)
(* learns of a signal by comparing two snapshots of the counters.          *)
(*                                                                         *)
(* Everything an owner does happens under one mutex, so at most one owner  *)
(* is inside it and its locals (task, step, at, snap) are kept once.  The  *)
(* system calls and the loads it makes there are separate actions, because *)
(* handlers run between them.  The mutex is never poisoned: nothing panics *)
(* while it is held.                                                       *)
(***************************************************************************)
EXTENDS Integers, FiniteSets

CONSTANTS
  Owners,     \* the threads that make Codex calls
  Cap,        \* usize::MAX, where a counter saturates
  MaxEntered  \* bound: handlers of one signal entered and not yet published

Nobody == "nobody"

ASSUME ConstantsAssumption ==
  /\ IsFiniteSet(Owners) /\ Nobody \notin Owners
  /\ Cap \in Nat \ {0} /\ MaxEntered \in Nat

VARIABLES
  count,     \* the counter of each signal
  disp,      \* the disposition of each signal: "original" or "ours"
  entered,   \* handlers that the kernel started and that have not published
  live,      \* SIGNALS holds an epoch; its fields:
  owners,    \*   how many own it
  baseline,  \*   the counters when it began
  reported,  \*   the counters when it last reported, while it has no owners
  saved,     \*   the dispositions it replaced
  pending,   \*   the dispositions it has to restore
  holder,    \* who holds the mutex, or Nobody
  task,      \* what the holder is doing
  step, at,  \* which kind of system call comes next, and for which signal
  snap,      \* the snapshot the holder takes
  owns,      \* the threads between a successful install and their close
  told,      \* the interruptions reported to each thread by its last call
  owed,      \* history: signals published while the thread was an owner
  ours,      \* history: counter at the last publication before restoration
  covered    \* history: counters at the last snapshot that was reported

Signals == 1..2   \* SIGINT, SIGTERM, in the order the code visits them
Zero    == [s \in Signals |-> 0]

signals == <<count, disp, entered>>
epoch   == <<live, owners, baseline, reported, saved, pending>>
locals  == <<task, step, at, snap>>
members == <<owns, told>>
history == <<owed, ours, covered>>
vars    == <<count, disp, entered, live, owners, baseline, reported, saved, pending,
             holder, task, step, at, snap, owns, told, owed, ours, covered>>

Init ==
  /\ count = Zero
  /\ disp = [s \in Signals |-> "original"]
  /\ entered = Zero
  /\ live = FALSE /\ owners = 0 /\ baseline = Zero /\ reported = Zero
  /\ saved = [s \in Signals |-> "unset"] /\ pending = [s \in Signals |-> FALSE]
  /\ holder = Nobody /\ task = "begin" /\ step = "load" /\ at = 1
  /\ snap = Zero
  /\ owns = {}
  /\ told = [o \in Owners |-> {}]
  /\ owed = [o \in Owners |-> {}]
  /\ ours = Zero /\ covered = Zero

-----------------------------------------------------------------------------
(* Decisions of the code; the operator before one is the mistake a run must  *)
(* notice.                                                                   *)

Healthy(c) == \A s \in Signals : c[s] # Cap

Since(c, b) == {s \in Signals : c[s] # b[s]}

\* A handler counts up to Cap and stays there.
OneMore(n)          == IF n = Cap THEN n ELSE n + 1

Outstanding == \E s \in Signals : pending[s]

\* A joining owner shares the baseline of the epoch.
JoinRebased == owners' = owners + 1 /\ baseline' = count
               /\ UNCHANGED <<live, reported, saved, pending>>
Joins       == owners' = owners + 1
               /\ UNCHANGED <<live, baseline, reported, saved, pending>>

\* Only the last owner puts the dispositions back.
RestoreAlways == TRUE
MustRestore   == owners = 1

\* The epoch ends when nothing is left to restore.
Ends        == ~Outstanding

\* After reconciliation a new epoch is begun only if nothing was published
\* since the retained epoch last reported.
AdmitsAnyway == TRUE
Admits       == Since(snap, reported) = {} /\ Healthy(snap)

\* SIGNALS is emptied, or keeps an epoch that nobody owns and that has reported
\* what it saw.
Discard ==
  /\ live' = FALSE /\ owners' = 0 /\ baseline' = Zero /\ reported' = Zero
  /\ saved' = [s \in Signals |-> "unset"] /\ pending' = [s \in Signals |-> FALSE]

Retain == reported' = snap /\ UNCHANGED <<live, owners, baseline, saved, pending>>

-----------------------------------------------------------------------------
(* Cancellation::install *)

Goto(t, k) == task' = t /\ step' = k /\ at' = 1
Unlock     == holder' = Nobody /\ UNCHANGED <<task, step, at>>

Join(o) ==
  /\ holder = Nobody /\ o \notin owns
  /\ live /\ owners # 0
  /\ IF Healthy(count)
     THEN Joins /\ owns' = owns \cup {o}
     ELSE UNCHANGED <<epoch, owns>>
  /\ told' = [told EXCEPT ![o] = {}]
  /\ owed' = [owed EXCEPT ![o] = {}]
  /\ UNCHANGED <<signals, holder, locals, ours, covered>>

\* An epoch without owners is one whose restoration failed.
Install(o) ==
  /\ holder = Nobody /\ o \notin owns
  /\ owners = 0
  /\ holder' = o
  /\ IF live THEN Goto("reconcile", "restore") ELSE Goto("begin", "load")
  /\ told' = [told EXCEPT ![o] = {}]
  /\ owed' = [owed EXCEPT ![o] = {}]
  /\ UNCHANGED <<signals, epoch, snap, owns, ours, covered>>

Reconcile ==
  /\ holder # Nobody /\ task = "reconcile" /\ step = "finish"
  /\ IF Outstanding THEN Retain ELSE Discard
  /\ IF ~Outstanding /\ Admits
     THEN Goto("begin", "load") /\ UNCHANGED <<holder, told, covered>>
     ELSE /\ Unlock
          /\ told' = [told EXCEPT ![holder] = Since(snap, reported)]
          /\ covered' = snap
  /\ UNCHANGED <<signals, snap, owns, owed, ours>>

Begin ==
  /\ holder # Nobody /\ task = "begin" /\ step = "finish"
  /\ IF Healthy(snap)
     THEN /\ live' = TRUE /\ baseline' = snap /\ reported' = snap
          /\ Goto("begin", "register") /\ holder' = holder
     ELSE UNCHANGED <<live, baseline, reported>> /\ Unlock
  /\ UNCHANGED <<owners, saved, pending>>
  /\ UNCHANGED <<signals, snap, members, history>>

\* sigaction installs the handler and saves the disposition it replaces.
Register ==
  /\ holder # Nobody /\ step = "register"
  /\ disp' = [disp EXCEPT ![at] = "ours"]
  /\ saved' = [saved EXCEPT ![at] = disp[at]]
  /\ pending' = [pending EXCEPT ![at] = TRUE]
  /\ IF at = 2 THEN Unlock /\ owners' = 1 /\ owns' = owns \cup {holder}
               ELSE at' = 2 /\ UNCHANGED <<task, step, holder, owners, owns>>
  /\ UNCHANGED <<count, entered, live, baseline, reported, snap, told, history>>

RegisterFails ==
  /\ holder # Nobody /\ step = "register"
  /\ Goto("rollback", "restore")
  /\ UNCHANGED <<signals, epoch, holder, snap, members, history>>

Rollback ==
  /\ holder # Nobody /\ task = "rollback" /\ step = "finish"
  /\ told' = [told EXCEPT ![holder] = Since(snap, baseline)]
  /\ covered' = snap
  /\ IF Outstanding THEN Retain ELSE Discard
  /\ Unlock
  /\ UNCHANGED <<signals, snap, owns, owed, ours>>

-----------------------------------------------------------------------------
(* Epoch::restore and Snapshot::capture *)

Restore ==
  /\ holder # Nobody /\ step = "restore"
  /\ \/ /\ pending[at]
        /\ disp' = [disp EXCEPT ![at] = saved[at]]
        /\ pending' = [pending EXCEPT ![at] = FALSE]
     \/ UNCHANGED <<disp, pending>>    \* nothing to restore, or sigaction failed
  /\ IF at = 2 THEN step' = "load" /\ at' = 1 ELSE step' = step /\ at' = 2
  /\ UNCHANGED <<count, entered, live, owners, baseline, reported, saved, holder,
                 task, snap, members, history>>

Load ==
  /\ holder # Nobody /\ step = "load"
  /\ snap' = [snap EXCEPT ![at] = count[at]]
  /\ IF at = 2 THEN step' = "finish" /\ at' = at ELSE step' = step /\ at' = 2
  /\ UNCHANGED <<signals, epoch, holder, task, members, history>>

-----------------------------------------------------------------------------
(* check_cancellation and Cancellation::close *)

Check(o) ==
  /\ holder = Nobody /\ o \in owns
  /\ holder' = o /\ Goto("check", "load")
  /\ UNCHANGED <<signals, epoch, snap, members, history>>

Checked ==
  /\ holder # Nobody /\ task = "check" /\ step = "finish"
  /\ told' = [told EXCEPT ![holder] = @ \cup Since(snap, baseline)]
  /\ covered' = snap
  /\ Unlock
  /\ UNCHANGED <<signals, epoch, snap, owns, owed, ours>>

Close(o) ==
  /\ holder = Nobody /\ o \in owns
  /\ holder' = o
  /\ owners' = owners - 1
  /\ Goto("close", IF MustRestore THEN "restore" ELSE "load")
  /\ UNCHANGED <<signals, live, baseline, reported, saved, pending, snap, members,
                 history>>

Closed ==
  /\ holder # Nobody /\ task = "close" /\ step = "finish"
  /\ told' = [told EXCEPT ![holder] = @ \cup Since(snap, baseline)]
  /\ covered' = snap
  /\ owns' = owns \ {holder}
  /\ \/ owners # 0 /\ UNCHANGED epoch
     \/ owners = 0 /\ Ends /\ Discard
     \/ owners = 0 /\ ~Ends /\ Retain
  /\ Unlock
  /\ UNCHANGED <<signals, snap, owed, ours>>

-----------------------------------------------------------------------------
(* Signals: the kernel enters the handler that is installed; the handler      *)
(* publishes later, perhaps after it has been replaced.                       *)

Enter(s) ==
  /\ disp[s] = "ours" /\ entered[s] < MaxEntered
  /\ entered' = [entered EXCEPT ![s] = @ + 1]
  /\ UNCHANGED <<count, disp, epoch, holder, locals, members, history>>

\* The holder has read this counter for the result of its close.
Sampled(s) == task = "close" /\ (step = "finish" \/ (step = "load" /\ at > s))

Publish(s) ==
  /\ entered[s] > 0
  /\ entered' = [entered EXCEPT ![s] = @ - 1]
  /\ count' = [count EXCEPT ![s] = OneMore(@)]
  /\ owed' = [o \in Owners |-> IF o \in owns /\ ~(o = holder /\ Sampled(s))
                               THEN owed[o] \cup {s} ELSE owed[o]]
  /\ ours' = IF disp[s] = "ours" THEN [ours EXCEPT ![s] = count'[s]] ELSE ours
  /\ UNCHANGED <<disp, epoch, holder, locals, members, covered>>

-----------------------------------------------------------------------------

Next ==
  \/ \E o \in Owners : Join(o) \/ Install(o) \/ Check(o) \/ Close(o)
  \/ Reconcile \/ Begin \/ Register \/ RegisterFails \/ Rollback \/ Restore
  \/ Load  \/ Checked \/ Closed
  \/ \E s \in Signals : Enter(s) \/ Publish(s)

Spec == Init /\ [][Next]_vars

-----------------------------------------------------------------------------
(* What ownership promises *)

Counters == [Signals -> 0..Cap]

TypeOK ==
  /\ count \in Counters /\ snap \in Counters
  /\ ours \in Counters /\ covered \in Counters
  /\ disp \in [Signals -> {"original", "ours"}]
  /\ entered \in [Signals -> 0..MaxEntered]
  /\ live \in BOOLEAN /\ owners \in Nat
  /\ baseline \in Counters /\ reported \in Counters
  /\ saved \in [Signals -> {"original", "ours", "unset"}]
  /\ pending \in [Signals -> BOOLEAN]
  /\ holder \in Owners \cup {Nobody}
  /\ task \in {"begin", "reconcile", "rollback", "check", "close"}
  /\ step \in {"restore", "load", "register", "finish"} /\ at \in Signals
  /\ owns \subseteq Owners
  /\ told \in [Owners -> SUBSET Signals] /\ owed \in [Owners -> SUBSET Signals]

\* The handlers are installed while anyone owns them.  Once nobody does, each
\* signal has its original disposition back, or the epoch is kept and knows which
\* dispositions it still has to restore; what it would restore is an original.
DispositionsMatch ==
  /\ \A s \in Signals : pending[s] => saved[s] = "original"
  /\ \A s \in Signals : disp[s] = "ours" <=> pending[s]
  /\ holder = Nobody /\ owns # {} => \A s \in Signals : pending[s]

\* An owner is told of every signal that was published while it was an owner, be
\* it by a check or by the result of its close, whatever other owners did to the
\* epoch in between.
OwnersLearn == \A o \in Owners \ owns : owed[o] \subseteq told[o]

\* A publication made while a handler of ours was installed, also during or after
\* a failed restoration, is reported by some call before the epoch is forgotten.
NothingForgotten ==
  holder = Nobody /\ ~live => \A s \in Signals : ours[s] <= covered[s]

=============================================================================
