----------------------------- MODULE ProgressFile -----------------------------
(***************************************************************************)
(* The workstream sidecar of src/progress_validator.rs: several callers of *)
(* merge_workstream_state_into_progress read the progress file, fold their *)
(* own state file into it and replace it with atomic_write_json.  Callers  *)
(* may be threads of one process, which share a temporary name, or         *)
(* different processes; processes die between any two system calls, and    *)
(* their pids come back.                                                   *)
(*                                                                         *)
(* Files are inodes, so that a rename moves what a thread may still be     *)
(* writing.  A content is Torn when it does not parse: truncated, written  *)
(* in part, or a short text over a longer one.  Otherwise it maps every    *)
(* workstream to the version of its entry, 0 when it has none.             *)
(***************************************************************************)
EXTENDS Naturals, Sequences

CONSTANTS
  Callers,      \* threads that merge
  ProcessOf,    \* [Callers -> Processes]
  Processes,    \* by pid
  Streams,      \* workstream ids
  StateFile,    \* [Callers -> [Streams -> Nat]]: the entries a caller merges
  MaxMerges,    \* bound: merges begun
  MaxFaults     \* bound: system calls that fail, and processes that die

ASSUME CallersAssumption ==
  /\ ProcessOf \in [Callers -> Processes]
  /\ StateFile \in [Callers -> [Streams -> Nat]]
  /\ MaxMerges \in Nat /\ MaxFaults \in Nat

VARIABLES
  pc,        \* per caller: where it is in its merge
  fd,        \* per caller: the inode it has open
  merged,    \* per caller: the entries it is about to write
  files,     \* the contents of all inodes
  temp,      \* per process: the inode its temporary name denotes, 0 for none
  target,    \* the inode of the progress file, 0 for none
  merges, faults,
  stale,     \* history: callers whose merge overlapped somebody's publication
  cut,       \* history: an overwrite in place was cut short, or two met
  known      \* history: what the file said when it last was whole

vars == <<pc, fd, merged, files, temp, target, merges, faults, stale, cut, known>>

Contents == [torn : BOOLEAN, entries : [Streams -> Nat]]
Torn     == [torn |-> TRUE, entries |-> [s \in Streams |-> 0]]
Whole(e) == [torn |-> FALSE, entries |-> e]
Nothing  == [s \in Streams |-> 0]
Fresh    == Len(files) + 1
With(i, c) == IF i = Fresh THEN Append(files, c) ELSE [files EXCEPT ![i] = c]
Mine(w)  == ProcessOf[w]
To(w, label) == pc' = [pc EXCEPT ![w] = label]
Fault    == faults < MaxFaults /\ faults' = faults + 1

Init ==
  /\ pc = [w \in Callers |-> "idle"] /\ fd = [w \in Callers |-> 0]
  /\ merged = [w \in Callers |-> Nothing]
  /\ files = <<>>
  /\ temp = [p \in Processes |-> 0] /\ target = 0
  /\ merges = 0 /\ faults = 0 /\ stale = {} /\ cut = FALSE
  /\ known = Nothing

\* What the file says to a reader; one that does not parse says nothing.
Existing == IF target = 0 \/ files[target].torn THEN Nothing ELSE files[target].entries

\* Entries of the state file win, the others stay.
FoldReplacing(old, new) == new
Fold(old, new) == [s \in Streams |-> IF new[s] # 0 THEN new[s] ELSE old[s]]

\* The temporary name: of the process, next to the file.
TempOfAll(w) == temp[CHOOSE p \in Processes : TRUE]
TempOf(w)    == temp[Mine(w)]

\* Writing through fd: over an empty file the text is whole; over what another
\* thread wrote meanwhile the longer tail of that may remain.
Overlay(i, e) == IF files[i].torn THEN {Whole(e)} ELSE {Whole(e), Torn}

\* Everybody else who has read the file now holds an old copy.
Outdates(w) == stale' = stale \cup ({v \in Callers : pc[v] # "idle"} \ {w})

\* Where the file parses it is what is known from now on.
Remember == known' = IF target' = 0 \/ files'[target'].torn THEN known
                     ELSE files'[target'].entries

-----------------------------------------------------------------------------

\* The state file is empty, missing or broken: there is nothing to merge.
NothingToMerge(w) ==
  /\ pc[w] = "idle" /\ merges < MaxMerges
  /\ merges' = merges + 1
  /\ UNCHANGED <<pc, fd, merged, files, temp, target, faults, stale, cut, known>>

Read(w) ==
  /\ pc[w] = "idle" /\ merges < MaxMerges /\ StateFile[w] # Nothing
  /\ merges' = merges + 1
  /\ merged' = [merged EXCEPT ![w] = Fold(Existing, StateFile[w])]
  /\ stale' = IF \E v \in Callers : pc[v] = "direct" THEN stale \cup {w}
                                                   ELSE stale \ {w}
  /\ To(w, "open")
  /\ UNCHANGED <<fd, files, temp, target, faults, cut, known>>

OpenTemp(w) ==
  /\ pc[w] = "open"
  /\ \/ LET i == IF TempOf(w) = 0 THEN Fresh ELSE TempOf(w) IN
        /\ files' = With(i, Torn)
        /\ temp' = [temp EXCEPT ![Mine(w)] = i]
        /\ fd' = [fd EXCEPT ![w] = i]
        /\ To(w, "write") /\ UNCHANGED faults
     \/ Fault /\ To(w, "openDirect") /\ UNCHANGED <<files, temp, fd>>
  /\ UNCHANGED <<merged, target, merges, stale, cut, known>>

\* write_all and sync_all; when one fails the temporary file stays behind.
WriteTemp(w) ==
  /\ pc[w] = "write"
  /\ \E c \in Overlay(fd[w], merged[w]) : files' = With(fd[w], c)
  /\ \/ To(w, "rename") /\ UNCHANGED faults
     \/ Fault /\ To(w, "idle")
  /\ UNCHANGED <<fd, merged, temp, target, merges, stale, cut>>
  /\ Remember

\* The rename publishes whatever the name denotes by now.
Rename(w) ==
  /\ pc[w] = "rename" /\ TempOf(w) # 0
  /\ target' = TempOf(w)
  /\ temp' = [temp EXCEPT ![Mine(w)] = 0]
  /\ To(w, "idle") /\ Outdates(w)
  /\ UNCHANGED <<fd, merged, files, merges, faults, cut>>
  /\ Remember

RenameFails(w) ==
  /\ pc[w] = "rename"
  /\ IF TempOf(w) = 0 THEN UNCHANGED faults ELSE Fault
  /\ temp' = [temp EXCEPT ![Mine(w)] = 0]
  /\ To(w, "openDirect")
  /\ UNCHANGED <<fd, merged, files, target, merges, stale, cut, known>>

\* The fallback truncates the progress file and writes it in place.
OpenDirect(w) ==
  /\ pc[w] = "openDirect"
  /\ \/ LET i == IF target = 0 THEN Fresh ELSE target IN
        /\ files' = With(i, Torn) /\ target' = i
        /\ fd' = [fd EXCEPT ![w] = i]
        /\ To(w, "direct") /\ Outdates(w) /\ UNCHANGED faults
     \/ Fault /\ To(w, "idle") /\ UNCHANGED <<files, target, fd, stale>>
  /\ UNCHANGED <<merged, temp, merges, cut>>
  /\ Remember

WriteDirect(w) ==
  /\ pc[w] = "direct"
  /\ \/ \E c \in Overlay(fd[w], merged[w]) :
          /\ files' = With(fd[w], c)
          /\ cut' = (cut \/ c.torn)
          /\ UNCHANGED faults
     \/ files' = With(fd[w], Torn) /\ cut' = TRUE /\ Fault
  /\ Outdates(w) /\ To(w, "idle")
  /\ UNCHANGED <<fd, merged, temp, target, merges>>
  /\ Remember

\* The process dies: its threads stop where they are.
Die(p) ==
  /\ Fault
  /\ pc' = [w \in Callers |-> IF Mine(w) = p THEN "dead" ELSE pc[w]]
  /\ cut' = (cut \/ \E w \in Callers : Mine(w) = p /\ pc[w] = "direct")
  /\ UNCHANGED <<fd, merged, files, temp, target, merges, stale, known>>

\* A later process gets the pid, and finds what the first one left.
Restart(p) ==
  /\ \E w \in Callers : Mine(w) = p /\ pc[w] = "dead"
  /\ pc' = [w \in Callers |-> IF Mine(w) = p THEN "idle" ELSE pc[w]]
  /\ UNCHANGED <<fd, merged, files, temp, target, merges, faults, stale, cut, known>>

Step(w) ==
  \/ NothingToMerge(w) \/ Read(w) \/ OpenTemp(w) \/ WriteTemp(w) \/ Rename(w)
  \/ RenameFails(w) \/ OpenDirect(w) \/ WriteDirect(w)

Next ==
  \/ \E w \in Callers : Step(w)
  \/ \E p \in Processes : Die(p) \/ Restart(p)

Spec == Init /\ [][Next]_vars

-----------------------------------------------------------------------------

TypeOK ==
  /\ pc \in [Callers -> {"idle", "open", "write", "rename", "openDirect", "direct", "dead"}]
  /\ merged \in [Callers -> [Streams -> Nat]] /\ known \in [Streams -> Nat]
  /\ files \in Seq(Contents) /\ fd \in [Callers -> 0..Len(files)]
  /\ temp \in [Processes -> 0..Len(files)]
  /\ target \in 0..Len(files)
  /\ merges \in 0..MaxMerges /\ faults \in 0..MaxFaults
  /\ stale \subseteq Callers /\ cut \in BOOLEAN

\* Whoever writes, fails or dies when, a reader finds the progress file whole or
\* absent, except while it is overwritten in place or after that was cut short.
TornOnlyInPlace ==
  target # 0 /\ files[target].torn => cut \/ \E w \in Callers : pc[w] = "direct"

\* A merge that ends well while nobody else published since it read the file leaves
\* every entry the file had, and every entry of its state file.
Publishes(w) ==
  /\ pc[w] \in {"rename", "direct"} /\ pc'[w] = "idle" /\ faults' = faults
LoneMergeLosesNothing ==
  [][\A w \in Callers : Publishes(w) /\ w \notin stale /\ ~cut' =>
       \A s \in Streams : known[s] # 0 \/ StateFile[w][s] # 0 => Existing'[s] # 0]_vars

=============================================================================
