----------------------------- MODULE SelfUpdate -----------------------------
(***************************************************************************)
(* The update of the runner by itself and its startup notice               *)
(* (src/update.rs). Processes started from one installed binary share      *)
(* three files: the binary, the temporary file beside it that every update *)
(* copies to, and the cache of the last check.                             *)
(*                                                                         *)
(* A binary is copied in two pieces. A file keeps its identity when it is  *)
(* renamed, and a process that has it open goes on writing to it.          *)
(***************************************************************************)
EXTENDS Integers, FiniteSets

CONSTANTS Procs,       \* processes of the runner
          MaxVersion,  \* bound: the last release
          MaxStarts,   \* bound: how many processes are started
          MaxTime,     \* bound: the clock
          Cooldown     \* UPDATE_CHECK_COOLDOWN_SECS, in units no process outlasts

ASSUME SelfUpdateAssumption ==
  /\ IsFiniteSet(Procs) /\ {"first", "nobody"} \cap Procs = {}
  /\ MaxVersion \in Nat \ {0} /\ MaxStarts \in Nat
  /\ MaxTime \in Nat /\ Cooldown \in Nat \ {0}

Versions == 1..MaxVersion
Nobody == "nobody"
NoCache == [some |-> FALSE]

VARIABLES
  latest,   \* the latest release of the project
  clock,
  files,    \* what is in the files open or linked: the pieces each holds
  exe,      \* current_exe(): the file it names
  tmp,      \* destination.with_extension("tmp"): the file it names, or Nobody
  cache,    \* UPDATE_CACHE_RELATIVE_PATH: version and time, or NoCache when absent or torn
  proc,     \* each process: where it is, its own version, the release it heard of
  starts,   \* how many processes were started
  \* history
  overlap,  \* two updates were at work at a time
  damage,   \* a damaged archive went through without a checksum
  releases, \* the time of each release
  notice    \* the last notice printed: its version and time, or NoCache

vars == <<latest, clock, files, exe, tmp, cache, proc, starts, overlap, damage, releases, notice>>
shared == <<latest, clock, files, exe, tmp, cache, starts, overlap, damage, releases, notice>>

\* A file: its two pieces, each the version it was copied from, 0 when missing, and
\* whether it may be executed. A piece of a damaged archive is marked.
Piece(v, good) == [v |-> v, good |-> good]
Missing == Piece(0, TRUE)
Whole(f) == f[1] = f[2] /\ f[1].v # 0
Installed == files[exe]
Idle == [pc |-> "off", own |-> 0, rel |-> 0, good |-> TRUE, fd |-> Nobody, at |-> 0]

\* Every file a process opens anew has an identity of its own: here, that of the process.
Ids == Procs \cup {"first"}

Init ==
  /\ latest = 1 /\ clock = 0
  /\ files = [i \in Ids |-> <<Piece(1, TRUE), Piece(1, TRUE)>>]
  /\ exe = "first" /\ tmp = Nobody /\ cache = NoCache
  /\ proc = [p \in Procs |-> Idle]
  /\ starts = 0 /\ overlap = FALSE /\ damage = FALSE
  /\ releases = [v \in Versions |-> IF v = 1 THEN 0 ELSE MaxTime + 1]
  /\ notice = NoCache

Goto(p, pc) == proc' = [proc EXCEPT ![p].pc = pc]
End(p) == proc' = [proc EXCEPT ![p] = Idle]
IsNewer(own, v) == v > own
Busy(p) == proc[p].pc \in {"fetch", "download", "open", "write1", "write2", "rename"}

\* --------------------------------------------------------------- environment

Publish ==
  /\ latest < MaxVersion
  /\ latest' = latest + 1
  /\ releases' = [releases EXCEPT ![latest + 1] = clock]
  /\ UNCHANGED <<clock, files, exe, tmp, cache, proc, starts, overlap, damage, notice>>

\* A cooldown is a day, and each answer of the network may take five seconds: what a
\* process has fetched it writes down before the clock moves twice.
Tick ==
  /\ clock < MaxTime
  /\ \A p \in Procs : proc[p].rel = 0 \/ proc[p].at = clock
  /\ clock' = clock + 1
  /\ UNCHANGED <<latest, files, exe, tmp, cache, proc, starts, overlap, damage, releases, notice>>

\* A process starts if the binary does: `update`, or any other command with its notice.
Start(p, pc) ==
  /\ proc[p].pc = "off" /\ starts < MaxStarts /\ Whole(Installed)
  /\ proc' = [proc EXCEPT ![p] = [Idle EXCEPT !.pc = pc, !.own = Installed[1].v]]
  /\ starts' = starts + 1
  /\ overlap' = (overlap \/ (pc = "fetch" /\ \E q \in Procs \ {p} : Busy(q)))
  /\ UNCHANGED <<latest, clock, files, exe, tmp, cache, damage, releases, notice>>

Crash(p) ==
  /\ proc[p].pc # "off"
  /\ End(p)
  /\ UNCHANGED shared

\* ------------------------------------------------------------ startup notice

Announce(v) == notice' = [some |-> TRUE, v |-> v, at |-> clock]

\* maybe_print_update_notice: the version of the cache while it is recent.
ReadCacheOfAnyAge(p) ==
  /\ proc[p].pc = "notice"
  /\ IF cache.some
       THEN /\ IF IsNewer(proc[p].own, cache.v) THEN Announce(cache.v) ELSE UNCHANGED notice
            /\ End(p)
       ELSE Goto(p, "ask") /\ UNCHANGED notice
  /\ UNCHANGED <<latest, clock, files, exe, tmp, cache, starts, overlap, damage, releases>>
ReadCache(p) ==
  /\ proc[p].pc = "notice"
  /\ IF cache.some /\ clock - cache.at < Cooldown
       THEN /\ IF IsNewer(proc[p].own, cache.v) THEN Announce(cache.v) ELSE UNCHANGED notice
            /\ End(p)
       ELSE Goto(p, "ask") /\ UNCHANGED notice
  /\ UNCHANGED <<latest, clock, files, exe, tmp, cache, starts, overlap, damage, releases>>

\* fetch_latest_release: the answer, or an error that ends the check.
Ask(p) ==
  /\ proc[p].pc = "ask"
  /\ \/ proc' = [proc EXCEPT ![p].pc = "tell", ![p].rel = latest, ![p].at = clock]
     \/ End(p)
  /\ UNCHANGED shared

\* write_cache of the startup check, then the notice; the file is emptied first.
EmptyCache(p) ==
  /\ proc[p].pc \in {"tell", "installed"}
  /\ cache' = NoCache
  /\ Goto(p, IF proc[p].pc = "tell" THEN "tell2" ELSE "installed2")
  /\ UNCHANGED <<latest, clock, files, exe, tmp, starts, overlap, damage, releases, notice>>
WriteCache(p) ==
  /\ proc[p].pc \in {"tell2", "installed2"}
  /\ cache' = [some |-> TRUE, v |-> proc[p].rel, at |-> clock]
  /\ IF proc[p].pc = "tell2" /\ IsNewer(proc[p].own, proc[p].rel) THEN Announce(proc[p].rel) ELSE UNCHANGED notice
  /\ End(p)
  /\ UNCHANGED <<latest, clock, files, exe, tmp, starts, overlap, damage, releases>>

\* --------------------------------------------------------------------- update

\* run_update: the latest release, if it is newer than the running binary.
FetchAnyway(p) ==
  /\ proc[p].pc = "fetch"
  /\ \/ proc' = [proc EXCEPT ![p].pc = "download", ![p].rel = latest, ![p].at = clock]
     \/ End(p)
  /\ UNCHANGED shared
Fetch(p) ==
  /\ proc[p].pc = "fetch"
  /\ \/ /\ IsNewer(proc[p].own, latest)
        /\ proc' = [proc EXCEPT ![p].pc = "download", ![p].rel = latest, ![p].at = clock]
     \/ End(p)
  /\ UNCHANGED shared

\* download_and_replace: a damaged archive is found out by its checksum when that can be
\* had and is not empty, and else perhaps by the extraction.
Download(p) ==
  /\ proc[p].pc = "download"
  /\ \/ \E good, checksum \in BOOLEAN :
          /\ checksum => good
          /\ proc' = [proc EXCEPT ![p].pc = "open", ![p].good = good]
          /\ damage' = (damage \/ ~good)
     \/ End(p) /\ UNCHANGED damage
  /\ UNCHANGED <<latest, clock, files, exe, tmp, cache, starts, overlap, releases, notice>>

\* install_binary_atomic: fs::copy opens and empties the temporary file, or makes one.
NewId(p) == CHOOSE i \in Ids : i # exe /\ \A q \in Procs : proc[q].fd # i
OpenTmp(p) ==
  LET id == IF tmp = Nobody THEN NewId(p) ELSE tmp
  IN  /\ proc[p].pc = "open"
      /\ files' = [files EXCEPT ![id] = <<Missing, Missing>>]
      /\ tmp' = id
      /\ proc' = [proc EXCEPT ![p].pc = "write1", ![p].fd = id]
      /\ UNCHANGED <<latest, clock, exe, cache, starts, overlap, damage, releases, notice>>
OpenExe(p) ==
  /\ proc[p].pc = "open"
  /\ files' = [files EXCEPT ![exe] = <<Missing, Missing>>]
  /\ tmp' = exe
  /\ proc' = [proc EXCEPT ![p].pc = "write1", ![p].fd = exe]
  /\ UNCHANGED <<latest, clock, exe, cache, starts, overlap, damage, releases, notice>>
Open(p) == OpenTmp(p)

WritePiece(p, n) ==
  /\ proc[p].pc = IF n = 1 THEN "write1" ELSE "write2"
  /\ files' = [files EXCEPT ![proc[p].fd][n] = Piece(proc[p].rel, proc[p].good)]
  /\ proc' = [proc EXCEPT ![p].pc = IF n = 1 THEN "write2" ELSE "rename",
                          ![p].fd = IF n = 1 THEN @ ELSE Nobody]
  /\ UNCHANGED <<latest, clock, exe, tmp, cache, starts, overlap, damage, releases, notice>>

\* The rename takes whatever the temporary name stands for, and fails if it is gone; so
\* does the change of its mode before it.
Rename(p) ==
  /\ proc[p].pc = "rename"
  /\ IF tmp = Nobody
       THEN End(p) /\ UNCHANGED <<exe, tmp>>
       ELSE exe' = tmp /\ tmp' = Nobody /\ Goto(p, "installed")
  /\ UNCHANGED <<latest, clock, files, cache, starts, overlap, damage, releases, notice>>

Step(p) ==
  \/ ReadCache(p) \/ Ask(p) \/ EmptyCache(p) \/ WriteCache(p)
  \/ Fetch(p) \/ Download(p) \/ Open(p) \/ WritePiece(p, 1) \/ WritePiece(p, 2) \/ Rename(p)

Next ==
  \/ Publish \/ Tick
  \/ \E p \in Procs : Start(p, "fetch") \/ Start(p, "notice") \/ Step(p) \/ Crash(p)

Spec == Init /\ [][Next]_vars

\* ----------------------------------------------------------------- properties

\* Whatever process dies at whatever point, the installed binary is whole and of one
\* release, unless two updates were at work at a time: they copy to one temporary file
\* (install_binary_atomic). It comes from a damaged archive only if that went through
\* without a checksum (download_and_replace).
InstalledIsWhole ==
  /\ overlap \/ Whole(Installed)
  /\ damage \/ overlap \/ Installed[1].good

\* The binary is replaced in one step, by a newer one, unless two updates were at work at a
\* time: an update compares with its own version only (run_update, is_newer).
OnlyForward ==
  [][overlap' \/ exe' = exe \/ IsNewer(files[exe][1].v, files'[exe'][1].v)]_vars

\* However checks and updates of several processes write over each other's cache, a notice
\* names a release that was the latest less than a cooldown before, or was when the check
\* that wrote it down asked (maybe_print_update_notice, read_cache, write_cache).
NoticeIsRecent ==
  notice.some /\ notice.v < MaxVersion => notice.at < releases[notice.v + 1] + Cooldown + 1
=============================================================================
