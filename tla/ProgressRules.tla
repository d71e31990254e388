--------------------------- MODULE ProgressRules ---------------------------
(***************************************************************************)
(* Which progress files are believed (src/progress_validator.rs): the name *)
(* a run gives its file, and the checks of a reader on name and payload.   *)
(*                                                                         *)
(* A file name amplihack-progress-STEM-PID.json is the record of its stem  *)
(* and its pid. Fields a payload may leave out are sets of at most one     *)
(* value. alive holds the processes that may be signalled, and groups the  *)
(* process groups.                                                         *)
(***************************************************************************)
EXTENDS Texts, FiniteSets

CONSTANTS MaxSafeName,  \* MAX_SAFE_NAME_LEN
          MaxStepName,  \* MAX_STEP_NAME_LEN
          MaxAge,       \* MAX_PROGRESS_AGE_SECS
          MaxDrift,     \* MAX_FUTURE_DRIFT_SECS
          PidBits       \* the width of a pid

\* --------------------------------------------------------------------- names

\* The last component of a path without its last extension, the path if it has none.
FileStem(name) ==
  LET parts == SelectSeq(Split(name, "/"), LAMBDA p : p \notin {"", "."})
      last == parts[Len(parts)]
      dots == Places(last, ".") \ {1}
  IN  IF parts = <<>> \/ last = ".." THEN name
      ELSE IF dots = {} THEN last
      ELSE UpTo(last, (CHOOSE i \in dots : \A j \in dots : j <= i) - 1)

Sanitized(s) == Join([i \in 1..Len(s) |-> IF IsWord(Char(s, i)) THEN Char(s, i) ELSE "_"], "")
SafeProgressName(name) ==
  LET s == Sanitized(FileStem(name)) IN IF Len(s) > MaxSafeName THEN UpTo(s, MaxSafeName) ELSE s

\* progress_file_path; the safe name holds no separator, so the path stays where it is.
ProgressFilePath(name, pid) == [stem |-> SafeProgressName(name), pid |-> pid]

\* -------------------------------------------------------------------- checks

ValidateFilename(file) ==
  /\ Len(file.stem) \in 1..MaxSafeName
  /\ \A i \in 1..Len(file.stem) : IsWord(Char(file.stem, i))
  /\ file.pid < 2^PidBits

Terminal == {"completed", "failed", "skipped"}
ValidTransitions(from) ==
  CASE from = "running" -> Terminal
    [] from = "unknown" -> Terminal \cup {"running"}
    [] OTHER -> {}
ValidateTransition(from, to) == from = to \/ to \in ValidTransitions(from)

\* kill(pid, 0) with the pid as a signed number: a negative one names a group, and 0
\* and -1 name many processes, of which there always is one.
Signed(pid) == IF pid >= 2^(PidBits - 1) THEN pid - 2^PidBits ELSE pid
IsPidAlive(pid, alive, groups) ==
  LET p == Signed(pid) IN p \in alive \cup {0, -1} \cup {-g : g \in groups}

\* The first check that a file fails, in the order of validate_progress_file.
ValidateProgressFile(file, payload, previous, now, alive, groups) ==
  LET Fails(i) ==
        CASE i = 1 -> ~ValidateFilename(file)
          [] i = 2 -> payload.stepLength > MaxStepName
          [] i = 3 -> payload.time <= 0
          [] i = 4 -> payload.pid \notin {{}, {file.pid}}
          [] i = 5 -> \E n \in payload.recipe : SafeProgressName(n) # file.stem
          [] i = 6 -> payload.time - now > MaxDrift
          [] i = 7 -> now - payload.time > MaxAge
          [] i = 8 -> ~IsPidAlive(file.pid, alive, groups)
          [] i = 9 -> \E s \in previous : ~ValidateTransition(s, payload.status)
      errors == <<"BadFilename", "StepNameTooLong", "MissingField", "PidMismatch", "BadFilename",
                  "FutureDated", "Stale", "PidNotAlive", "InvalidTransition">>
      failed == {i \in 1..9 : Fails(i)}
  IN  IF failed = {} THEN "" ELSE errors[CHOOSE i \in failed : \A j \in failed : i <= j]

ReadProgressFile(payload) ==
  payload.recipe # {} /\ payload.pid # {} /\ payload.currentStep # {}

\* ---------------------------------------------------------------- properties

\* A file is believed only if what it says may be true: it is named for its recipe and
\* its process, was written lately, follows from the status before it, and its process
\* is there, unless its pid is none: 0, or a number of the upper half, which kill reads
\* as a group.
BelievedFilesMayBeTrue(file, payload, previous, now, alive, groups) ==
  ValidateProgressFile(file, payload, previous, now, alive, groups) = "" =>
    /\ payload.pid \subseteq {file.pid}
    /\ \A n \in payload.recipe : ProgressFilePath(n, file.pid) = file
    /\ payload.time \in (now - MaxAge)..(now + MaxDrift)
    /\ previous \cap Terminal \subseteq {payload.status}
    /\ file.pid \in alive \/ file.pid = 0 \/ file.pid >= 2^(PidBits - 1)

\* The file a running run names and fills for itself is believed and read, whatever its
\* recipe is called, unless nothing is left of the name.
OwnFilesAreBelieved(name, pid, payload, now, alive, groups) ==
  LET own == [payload EXCEPT !.recipe = {name}, !.pid = {pid}, !.time = now, !.currentStep = {1}]
  IN  pid \in alive /\ own.stepLength <= MaxStepName /\ now > 0 =>
        /\ ReadProgressFile(own)
        /\ ValidateProgressFile(ProgressFilePath(name, pid), own, {"running"}, now, alive, groups) = ""
             <=> name # "" /\ own.status # "unknown"
=============================================================================
