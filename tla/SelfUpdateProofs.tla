--------------------------- MODULE SelfUpdateProofs ---------------------------
(* Theorems about SelfUpdate, for any number of processes and releases, every *)
(* clock and every cooldown.                                                  *)
EXTENDS SelfUpdate, FiniteSetTheorems, TLAPS

-----------------------------------------------------------------------------
(* Type correctness.  It rests on a file the file system can make: a process   *)
(* about to open one has none open, so the others and the installed binary     *)
(* leave an identity free.                                                    *)

Writing == {"write1", "write2"}
Fetched == {"tell", "tell2", "download", "open", "rename", "installed", "installed2"} \cup Writing

PieceType == [v : 0..MaxVersion, good : BOOLEAN]
ProcType  == [pc : {"off", "notice", "ask", "fetch"} \cup Fetched, own : 0..MaxVersion,
              rel : 0..MaxVersion, good : BOOLEAN, fd : Ids \cup {Nobody}, at : Nat]
Told      == [some : {TRUE}, v : Versions, at : Nat]

ProcsOK ==
  \A p \in Procs : /\ proc[p].pc \in Fetched => proc[p].rel # 0
                   /\ proc[p].pc \in Writing <=> proc[p].fd # Nobody

TypeOK ==
  /\ latest \in Versions /\ clock \in 0..MaxTime
  /\ files \in [Ids -> PieceType \X PieceType]
  /\ exe \in Ids /\ tmp \in Ids \cup {Nobody}
  /\ cache \in Told \cup {NoCache} /\ notice \in Told \cup {NoCache}
  /\ proc \in [Procs -> ProcType] /\ starts \in Nat
  /\ overlap \in BOOLEAN /\ damage \in BOOLEAN
  /\ releases \in [Versions -> Nat]
  /\ ProcsOK

\* The system starts well typed.
LEMMA TypeInit == Init => TypeOK
<1> SUFFICES ASSUME Init PROVE TypeOK
  OBVIOUS
<1> USE SelfUpdateAssumption DEF Init, Versions
<1>1. 1 \in Versions /\ 1 \in 0..MaxVersion /\ 0 \in 0..MaxVersion /\ MaxTime + 1 \in Nat
  OBVIOUS
<1>2. files \in [Ids -> PieceType \X PieceType]
  BY <1>1 DEF Piece, PieceType
<1>3. Idle \in ProcType
  BY <1>1 DEF Idle, ProcType
<1>4. proc \in [Procs -> ProcType] /\ \A p \in Procs : proc[p] = Idle
  BY <1>3
<1>5. \A p \in Procs : proc[p].pc \notin Fetched /\ proc[p].fd = Nobody
  BY <1>4 DEF Idle, Fetched, Writing
<1>6. releases \in [Versions -> Nat]
  BY <1>1
<1>7. /\ latest \in Versions /\ clock \in 0..MaxTime /\ exe \in Ids /\ tmp \in Ids \cup {Nobody}
      /\ cache = NoCache /\ notice = NoCache /\ starts \in Nat
  BY <1>1 DEF Ids
<1>8. overlap \in BOOLEAN /\ damage \in BOOLEAN
  OBVIOUS
<1> HIDE DEF Init, Versions
<1> QED
  BY <1>2, <1>4, <1>5, <1>6, <1>7, <1>8 DEF TypeOK, ProcsOK, Fetched

\* A file that no process has open and that is not the installed binary.
LEMMA NewIdExists ==
  ASSUME TypeOK, NEW p \in Procs, proc[p].pc = "open"
  PROVE  NewId(p) \in Ids /\ NewId(p) # exe /\ \A q \in Procs : proc[q].fd # NewId(p)
<1> DEFINE Spare(i) == i # exe /\ \A q \in Procs : proc[q].fd # i
<1>1. SUFFICES ASSUME \A i \in Ids : ~Spare(i) PROVE FALSE
  BY DEF NewId
<1> DEFINE S == Ids \ {exe}
           T == Procs \ {p}
           f == [i \in S |-> CHOOSE q \in T : proc[q].fd = i]
<1>2. \A i \in S : \E q \in T : proc[q].fd = i
  <2>1. Nobody \notin Ids /\ proc[p].fd = Nobody
    BY SelfUpdateAssumption DEF TypeOK, ProcsOK, Writing, Ids, Nobody, ProcType
  <2> QED
    BY <1>1, <2>1
<1>3. \A i \in S : f[i] \in T /\ proc[f[i]].fd = i
  BY <1>2
<1>4. /\ IsFiniteSet(Ids) /\ IsFiniteSet(Procs) /\ Cardinality(Procs) \in Nat
      /\ Cardinality(Ids) = Cardinality(Procs) + 1
  BY SelfUpdateAssumption, FS_AddElement, FS_CardinalityType DEF Ids
<1>5. IsFiniteSet(S) /\ Cardinality(S) = Cardinality(Procs)
  <2>1. exe \in Ids
    BY DEF TypeOK
  <2>2. Cardinality(S) = Cardinality(Ids) - 1 /\ IsFiniteSet(S)
    BY <1>4, <2>1, FS_RemoveElement
  <2> QED
    BY <1>4, <2>2
<1>6. IsFiniteSet(T) /\ Cardinality(T) = Cardinality(Procs) - 1
  BY <1>4, FS_RemoveElement
<1>7. f \in [S -> T]
  BY <1>3
<1> HIDE DEF S, T, f
<1>8. \E x, y \in S : x # y /\ f[x] = f[y]
  BY <1>4, <1>5, <1>6, <1>7, FS_PigeonHole
<1> QED
  BY <1>3, <1>8

\* A process moves from one well-formed record to another.
LEMMA ProcStep ==
  ASSUME TypeOK, NEW p \in Procs, NEW r \in ProcType, proc' = [proc EXCEPT ![p] = r],
         r.pc \in Fetched => r.rel # 0, r.pc \in Writing <=> r.fd # Nobody
  PROVE  /\ proc' \in [Procs -> ProcType] /\ proc'[p] = r
         /\ \A q \in Procs : q # p => proc'[q] = proc[q]
         /\ ProcsOK'
<1>1. proc' \in [Procs -> ProcType] /\ proc'[p] = r /\ \A q \in Procs : q # p => proc'[q] = proc[q]
  BY DEF TypeOK
<1> QED
  BY <1>1 DEF TypeOK, ProcsOK

\* Every step keeps the types.
LEMMA TypeStep == TypeOK /\ [Next]_vars => TypeOK'
<1> SUFFICES ASSUME TypeOK, [Next]_vars PROVE TypeOK'
  OBVIOUS
<1>0. /\ 1 \in Versions /\ Versions \subseteq 0..MaxVersion /\ 0 \notin Versions
      /\ 0..MaxVersion \subseteq Versions \cup {0} /\ 0 \in 0..MaxVersion
      /\ clock \in Nat /\ Nobody \notin Ids /\ latest \in 0..MaxVersion /\ latest # 0
      /\ MaxTime \in Nat /\ MaxVersion \in Nat
  BY SelfUpdateAssumption DEF TypeOK, Versions, Ids, Nobody
<1>1. Idle \in ProcType /\ Idle.pc = "off" /\ Idle.fd = Nobody
  BY <1>0 DEF Idle, ProcType
<1>2. CASE Publish
  <2>1. latest' \in Versions /\ releases' \in [Versions -> Nat]
    BY <1>0, <1>2 DEF Publish, TypeOK, Versions
  <2> QED
    BY <1>2, <2>1 DEF Publish, TypeOK, ProcsOK
<1>3. CASE Tick \/ UNCHANGED vars
  <2>1. clock' \in 0..MaxTime
    BY <1>0, <1>3 DEF Tick, TypeOK, vars
  <2> QED
    BY <1>3, <2>1 DEF Tick, vars, TypeOK, ProcsOK
<1>4. ASSUME NEW p \in Procs, NEW c \in {"fetch", "notice"}, Start(p, c) PROVE TypeOK'
  <2> DEFINE r == [Idle EXCEPT !.pc = c, !.own = Installed[1].v]
  <2>1. Installed[1].v \in 0..MaxVersion
    BY DEF TypeOK, Installed, PieceType
  <2>2. r \in ProcType /\ r.pc = c /\ r.fd = Nobody
    BY <1>1, <2>1 DEF ProcType, Fetched
  <2>4. proc' = [proc EXCEPT ![p] = r] /\ starts' \in Nat /\ overlap' \in BOOLEAN
    BY <1>4 DEF Start, TypeOK
  <2> HIDE DEF r
  <2> QED
    BY <1>4, <2>2, <2>4, ProcStep DEF Start, TypeOK, Fetched, Writing
<1>5. ASSUME NEW p \in Procs, End(p) PROVE /\ proc' \in [Procs -> ProcType]
                                          /\ ProcsOK'
  BY <1>1, <1>5, ProcStep DEF End, Fetched, Writing, ProcsOK
<1>6. ASSUME NEW p \in Procs, Ask(p) \/ Fetch(p) \/ Crash(p) PROVE TypeOK'
  <2>1. UNCHANGED shared
    BY <1>6 DEF Ask, Fetch, Crash
  <2>2. proc' \in [Procs -> ProcType] /\ ProcsOK'
    <3> DEFINE r(c) == [pc |-> c, own |-> proc[p].own, rel |-> latest, good |-> proc[p].good,
                        fd |-> proc[p].fd, at |-> clock]
    <3>1. CASE End(p)
      BY <1>5, <3>1
    <3>2. CASE ~End(p)
      <4>1. PICK c \in {"tell", "download"} : proc' = [proc EXCEPT ![p] = r(c)]
        BY <1>6, <3>2 DEF Ask, Fetch, Crash, TypeOK, ProcType
      <4>2. proc[p] \in ProcType /\ proc[p].fd = Nobody
        BY <1>6, <3>2 DEF Ask, Fetch, Crash, TypeOK, ProcsOK, Writing
      <4>3. r(c) \in ProcType /\ r(c).rel # 0 /\ r(c).fd = Nobody /\ r(c).pc = c
        BY <1>0, <4>2 DEF ProcType, Fetched
      <4> HIDE DEF r
      <4> QED
        BY <4>1, <4>3, ProcStep DEF Fetched, Writing, ProcsOK
    <3> QED
      BY <3>1, <3>2
  <2> QED
    BY <2>1, <2>2 DEF shared, TypeOK
<1>7. ASSUME NEW p \in Procs, NEW c \in {"ask", "tell2", "installed", "installed2"},
             Goto(p, c), proc[p].fd = Nobody, c \in Fetched => proc[p].pc \in Fetched
      PROVE  proc' \in [Procs -> ProcType] /\ ProcsOK'
  <2> DEFINE r == [proc[p] EXCEPT !.pc = c]
  <2>1. proc' = [proc EXCEPT ![p] = r]
    BY <1>7 DEF Goto
  <2>2. r \in ProcType /\ r.pc = c /\ r.fd = Nobody /\ r.rel = proc[p].rel
    BY <1>7 DEF TypeOK, ProcType, Fetched
  <2>3. r.pc \in Fetched => r.rel # 0
    BY <1>7, <2>2 DEF TypeOK, ProcsOK
  <2> HIDE DEF r
  <2> QED
    BY <1>7, <2>1, <2>2, <2>3, ProcStep DEF Writing
<1>8. ASSUME NEW p \in Procs, ReadCache(p) \/ EmptyCache(p) \/ WriteCache(p) PROVE TypeOK'
  <2>1. /\ proc[p].fd = Nobody
        /\ proc[p].pc # "notice" => proc[p].rel \in Versions
        /\ proc[p].pc # "notice" => proc[p].pc \in Fetched
    BY <1>0, <1>8 DEF ReadCache, EmptyCache, WriteCache, TypeOK, ProcsOK, ProcType, Fetched, Writing
  <2>2. cache' \in Told \cup {NoCache} /\ notice' \in Told \cup {NoCache}
    <3>1. NoCache \in Told \cup {NoCache} /\ cache \in Told \cup {NoCache}
          /\ notice \in Told \cup {NoCache}
      BY DEF TypeOK
    <3>2. CASE ReadCache(p)
      <4>1. CASE cache = NoCache
        <5>1. ~cache.some
          BY <4>1 DEF NoCache
        <5> QED
          BY <3>1, <3>2, <5>1 DEF ReadCache
      <4>2. CASE cache \in Told
        <5>1. [some |-> TRUE, v |-> cache.v, at |-> clock] \in Told
          BY <1>0, <4>2 DEF Told
        <5> QED
          BY <3>1, <3>2, <5>1 DEF ReadCache, Announce
      <4> QED
        BY <3>1, <4>1, <4>2
    <3>3. CASE EmptyCache(p)
      BY <3>1, <3>3 DEF EmptyCache
    <3>4. CASE WriteCache(p)
      <4>1. proc[p].rel \in Versions
        BY <2>1, <3>4 DEF WriteCache
      <4>2. [some |-> TRUE, v |-> proc[p].rel, at |-> clock] \in Told
        BY <1>0, <4>1 DEF Told
      <4> QED
        BY <3>1, <3>4, <4>2 DEF WriteCache, Announce
    <3> QED
      BY <1>8, <3>2, <3>3, <3>4
  <2>3. End(p) \/ \E c \in {"ask", "tell2", "installed2"} :
                     Goto(p, c) /\ (c \in Fetched => proc[p].pc \in Fetched)
    BY <1>8, <2>1 DEF ReadCache, EmptyCache, WriteCache, Fetched, Writing
  <2>4. proc' \in [Procs -> ProcType] /\ ProcsOK'
    <3>1. CASE End(p)
      BY <1>5, <3>1
    <3>2. CASE ~End(p)
      <4>1. PICK c \in {"ask", "tell2", "installed2"} :
              Goto(p, c) /\ (c \in Fetched => proc[p].pc \in Fetched)
        BY <2>3, <3>2
      <4> QED
        BY <1>7, <2>1, <4>1
    <3> QED
      BY <3>1, <3>2
  <2> QED
    BY <1>8, <2>2, <2>4 DEF ReadCache, EmptyCache, WriteCache, TypeOK
<1>9. ASSUME NEW p \in Procs, Rename(p) PROVE TypeOK'
  <2>1. proc[p].fd = Nobody /\ proc[p].pc \in Fetched
    BY <1>9 DEF Rename, TypeOK, ProcsOK, Fetched, Writing
  <2>2. proc' \in [Procs -> ProcType] /\ ProcsOK'
    BY <1>5, <1>7, <1>9, <2>1 DEF Rename
  <2> QED
    BY <1>9, <2>2 DEF Rename, TypeOK
<1>10. ASSUME NEW p \in Procs, Download(p) PROVE TypeOK'
  <2>1. proc[p] \in ProcType /\ proc[p].fd = Nobody /\ proc[p].rel # 0
    BY <1>10 DEF Download, TypeOK, ProcsOK, Fetched, Writing
  <2>2. proc' \in [Procs -> ProcType] /\ ProcsOK'
    <3>1. CASE End(p)
      BY <1>5, <3>1
    <3>2. CASE ~End(p)
      <4>1. PICK good \in BOOLEAN : proc' = [proc EXCEPT ![p] = [proc[p] EXCEPT !.pc = "open", !.good = good]]
        BY <1>10, <3>2 DEF Download
      <4> DEFINE r == [proc[p] EXCEPT !.pc = "open", !.good = good]
      <4>2. r \in ProcType /\ r.fd = Nobody /\ r.rel # 0 /\ r.pc = "open"
        BY <2>1 DEF ProcType, Fetched
      <4> HIDE DEF r
      <4> QED
        BY <4>1, <4>2, ProcStep DEF Writing, r
    <3> QED
      BY <3>1, <3>2
  <2>3. damage' \in BOOLEAN
    BY <1>10 DEF Download, TypeOK
  <2> QED
    BY <1>10, <2>2, <2>3 DEF Download, TypeOK
<1>11. ASSUME NEW p \in Procs, Open(p) PROVE TypeOK'
  <2>1. PICK id \in Ids : /\ files' = [files EXCEPT ![id] = <<Missing, Missing>>] /\ tmp' = id
                          /\ proc' = [proc EXCEPT ![p] = [proc[p] EXCEPT !.pc = "write1", !.fd = id]]
    BY <1>11, NewIdExists DEF Open, OpenTmp, TypeOK
  <2> DEFINE r == [proc[p] EXCEPT !.pc = "write1", !.fd = id]
  <2>2. proc[p] \in ProcType /\ proc[p].rel # 0
    BY <1>11 DEF Open, OpenTmp, TypeOK, ProcsOK, Fetched
  <2>3. r \in ProcType /\ r.fd # Nobody /\ r.rel # 0 /\ r.pc = "write1"
    BY <1>0, <2>2 DEF ProcType, Fetched, Writing
  <2>4. Missing \in PieceType
    BY <1>0 DEF Missing, Piece, PieceType
  <2> HIDE DEF r
  <2>5. proc' \in [Procs -> ProcType] /\ ProcsOK'
    BY <2>1, <2>3, ProcStep DEF Writing, r
  <2> QED
    BY <1>11, <2>1, <2>4, <2>5 DEF Open, OpenTmp, TypeOK
<1>12. ASSUME NEW p \in Procs, NEW n \in {1, 2}, WritePiece(p, n) PROVE TypeOK'
  <2> DEFINE r == [proc[p] EXCEPT !.pc = IF n = 1 THEN "write2" ELSE "rename",
                                  !.fd = IF n = 1 THEN @ ELSE Nobody]
  <2>1. proc[p] \in ProcType /\ proc[p].rel # 0 /\ proc[p].fd # Nobody
    BY <1>12 DEF WritePiece, TypeOK, ProcsOK, Fetched, Writing
  <2>2. r \in ProcType /\ (r.fd # Nobody <=> r.pc \in Writing) /\ r.rel # 0
    BY <1>0, <2>1 DEF ProcType, Fetched, Writing
  <2>3. proc' = [proc EXCEPT ![p] = r]
    BY <1>12 DEF WritePiece
  <2> HIDE DEF r
  <2>4. proc' \in [Procs -> ProcType] /\ ProcsOK'
    BY <2>2, <2>3, ProcStep
  <2>5. Piece(proc[p].rel, proc[p].good) \in PieceType /\ proc[p].fd \in Ids
    BY <2>1 DEF Piece, PieceType, ProcType
  <2>6. files' \in [Ids -> PieceType \X PieceType]
    BY <1>12, <2>5 DEF WritePiece, TypeOK
  <2> QED
    BY <1>12, <2>4, <2>6 DEF WritePiece, TypeOK
<1> QED
  BY <1>2, <1>3, <1>4, <1>6, <1>8, <1>9, <1>10, <1>11, <1>12 DEF Next, Step

\* So they always hold.
LEMMA TypeAlways == Spec => []TypeOK
BY TypeInit, TypeStep, PTL DEF Spec

-----------------------------------------------------------------------------
(* The installed binary.  While no two updates were ever at work at a time,    *)
(* the one at work knows the version it replaces, owns the temporary file, and *)
(* has written of it what its place in the copy says.                         *)

BusyOK(p) ==
  /\ proc[p].own = Installed[1].v
  /\ proc[p].pc # "fetch" => IsNewer(proc[p].own, proc[p].rel)
  /\ proc[p].pc \in {"open", "rename"} \cup Writing => proc[p].good \/ damage
  /\ proc[p].pc \in Writing => proc[p].fd = tmp
  /\ proc[p].pc \in {"write2", "rename"} =>
       tmp \in Ids /\ files[tmp][1] = Piece(proc[p].rel, proc[p].good)
  /\ proc[p].pc = "rename" => files[tmp][2] = Piece(proc[p].rel, proc[p].good)

UpdateInv ==
  ~overlap =>
    /\ \A p, q \in Procs : Busy(p) /\ Busy(q) => p = q
    /\ Whole(Installed) /\ tmp # exe
    /\ damage \/ Installed[1].good
    /\ \A p \in Procs : Busy(p) => BusyOK(p)

\* Nothing happened to the update at work, or it stopped.
LEMMA Bystand ==
  ASSUME TypeOK, UpdateInv, UNCHANGED <<files, exe, tmp, overlap, damage>>,
         \A p \in Procs : proc'[p] = proc[p] \/ ~Busy(p)'
  PROVE  UpdateInv'
<1>1. \A p \in Procs : Busy(p)' => proc'[p] = proc[p] /\ Busy(p)
  BY DEF Busy
<1>2. ASSUME ~overlap, NEW p \in Procs, Busy(p)' PROVE BusyOK(p)'
  <2>1. BusyOK(p) /\ proc'[p] = proc[p]
    BY <1>1, <1>2 DEF UpdateInv
  <2> QED
    BY <2>1 DEF BusyOK, Installed
<1>3. Whole(Installed)' = Whole(Installed) /\ Installed' = Installed
  BY DEF Whole, Installed
<1> QED
  BY <1>1, <1>2, <1>3 DEF UpdateInv

\* The update at work goes on by itself.
LEMMA GoesOn ==
  ASSUME TypeOK, UpdateInv, NEW p \in Procs, Busy(p), overlap' = overlap,
         \A q \in Procs : q # p => proc'[q] = proc[q],
         ~overlap => /\ Whole(Installed)' /\ tmp' # exe'
                     /\ damage' \/ (Installed[1].good)'
                     /\ Busy(p)' => BusyOK(p)'
  PROVE  UpdateInv'
<1>1. \A q \in Procs : q # p /\ Busy(q)' => Busy(q)
  BY DEF Busy
<1> QED
  BY <1>1 DEF UpdateInv

\* Every step keeps what is known of the update at work.
LEMMA UpdateStep == TypeOK /\ UpdateInv /\ [Next]_vars => UpdateInv'
<1> SUFFICES ASSUME TypeOK, UpdateInv, [Next]_vars PROVE UpdateInv'
  OBVIOUS
<1>0. /\ proc \in [Procs -> ProcType] /\ Nobody \notin Ids /\ exe \in Ids
      /\ files \in [Ids -> PieceType \X PieceType]
  BY SelfUpdateAssumption DEF TypeOK, Ids, Nobody
<1>1. CASE Publish \/ Tick \/ UNCHANGED vars
  BY <1>1, Bystand DEF Publish, Tick, vars
<1>2. ASSUME NEW p \in Procs, End(p) PROVE \A q \in Procs : proc'[q] = proc[q] \/ ~Busy(q)'
  BY <1>0, <1>2 DEF End, Busy, Idle
<1>3. ASSUME NEW p \in Procs, NEW c \in {"ask", "tell2", "installed", "installed2"}, Goto(p, c)
      PROVE  \A q \in Procs : proc'[q] = proc[q] \/ ~Busy(q)'
  <2>1. proc'[p].pc = c /\ \A q \in Procs : q # p => proc'[q] = proc[q]
    BY <1>0, <1>3 DEF Goto, ProcType
  <2> QED
    BY <2>1 DEF Busy
<1>4. ASSUME NEW p \in Procs, ReadCache(p) \/ EmptyCache(p) \/ WriteCache(p) \/ Crash(p)
      PROVE  UpdateInv'
  <2>1. UNCHANGED <<files, exe, tmp, overlap, damage>>
    BY <1>4 DEF ReadCache, EmptyCache, WriteCache, Crash, shared
  <2>2. End(p) \/ \E c \in {"ask", "tell2", "installed2"} : Goto(p, c)
    BY <1>4 DEF ReadCache, EmptyCache, WriteCache, Crash
  <2>3. \A q \in Procs : proc'[q] = proc[q] \/ ~Busy(q)'
    BY <1>2, <1>3, <2>2
  <2> QED
    BY <2>1, <2>3, Bystand
<1>5. ASSUME NEW p \in Procs, Ask(p) PROVE UpdateInv'
  <2>1. End(p) \/ (proc'[p].pc = "tell" /\ \A q \in Procs : q # p => proc'[q] = proc[q])
    BY <1>0, <1>5 DEF Ask, ProcType
  <2>2. \A q \in Procs : proc'[q] = proc[q] \/ ~Busy(q)'
    BY <1>2, <2>1 DEF Busy
  <2> QED
    BY <1>5, <2>2, Bystand DEF Ask, shared
<1>6. ASSUME NEW p \in Procs, Start(p, "notice") PROVE UpdateInv'
  <2>1. proc'[p].pc = "notice" /\ \A q \in Procs : q # p => proc'[q] = proc[q]
    BY <1>0, <1>6 DEF Start, Idle
  <2>2. overlap' = overlap /\ UNCHANGED <<files, exe, tmp, damage>>
    BY <1>6 DEF Start, TypeOK
  <2> QED
    BY <2>1, <2>2, Bystand DEF Busy
<1>7. ASSUME NEW p \in Procs, Start(p, "fetch") PROVE UpdateInv'
  <2>1. /\ proc'[p].pc = "fetch" /\ proc'[p].own = Installed[1].v /\ ~Busy(p)
        /\ \A q \in Procs : q # p => proc'[q] = proc[q]
    BY <1>0, <1>7 DEF Start, Idle, Busy
  <2>2. UNCHANGED <<files, exe, tmp, damage>>
    BY <1>7 DEF Start
  <2>3. ASSUME ~overlap' PROVE ~overlap /\ \A q \in Procs : q # p => ~Busy(q)'
    BY <1>7, <2>1, <2>3 DEF Start, Busy
  <2>4. BusyOK(p)'
    BY <2>1, <2>2 DEF BusyOK, Installed, Writing
  <2>5. Whole(Installed)' = Whole(Installed) /\ Installed' = Installed
    BY <2>2 DEF Whole, Installed
  <2> QED
    BY <2>2, <2>3, <2>4, <2>5 DEF UpdateInv
<1>8. ASSUME NEW p \in Procs, Fetch(p) PROVE UpdateInv'
  <2>1. UNCHANGED shared
    BY <1>8 DEF Fetch
  <2>2. CASE End(p)
    BY <1>2, <2>1, <2>2, Bystand DEF shared
  <2>3. CASE ~End(p)
    <3>1. /\ IsNewer(proc[p].own, latest) /\ proc[p].pc = "fetch"
          /\ proc'[p].pc = "download" /\ proc'[p].own = proc[p].own /\ proc'[p].rel = latest
          /\ \A q \in Procs : q # p => proc'[q] = proc[q]
      BY <1>0, <1>8, <2>3 DEF Fetch, ProcType
    <3>2. Busy(p)
      BY <3>1 DEF Busy
    <3>3. ASSUME ~overlap PROVE BusyOK(p)'
      <4>1. proc[p].own = Installed[1].v
        BY <3>2, <3>3 DEF UpdateInv, BusyOK
      <4> QED
        BY <2>1, <3>1, <4>1 DEF BusyOK, Installed, Writing, shared
    <3>4. Whole(Installed)' = Whole(Installed) /\ Installed' = Installed
      BY <2>1 DEF Whole, Installed, shared
    <3> QED
      BY <2>1, <3>1, <3>2, <3>3, <3>4, GoesOn DEF UpdateInv, shared
  <2> QED
    BY <2>2, <2>3
<1>9. ASSUME NEW p \in Procs, Download(p) PROVE UpdateInv'
  <2>1. UNCHANGED <<files, exe, tmp, overlap>> /\ proc[p].pc = "download"
    BY <1>9 DEF Download
  <2>2. CASE End(p) /\ UNCHANGED damage
    BY <1>2, <2>1, <2>2, Bystand
  <2>3. CASE ~(End(p) /\ UNCHANGED damage)
    <3>1. PICK good \in BOOLEAN :
            /\ proc' = [proc EXCEPT ![p].pc = "open", ![p].good = good]
            /\ damage' = (damage \/ ~good)
      BY <1>9, <2>3 DEF Download
    <3>2. /\ proc'[p].pc = "open" /\ proc'[p].own = proc[p].own /\ proc'[p].rel = proc[p].rel
          /\ proc'[p].good = good
          /\ \A q \in Procs : q # p => proc'[q] = proc[q]
      BY <1>0, <3>1 DEF ProcType
    <3>3. Busy(p) /\ damage \in BOOLEAN
      BY <2>1 DEF Busy, TypeOK
    <3>4. ASSUME ~overlap PROVE BusyOK(p)'
      <4>1. proc[p].own = Installed[1].v /\ IsNewer(proc[p].own, proc[p].rel)
        BY <2>1, <3>3, <3>4 DEF UpdateInv, BusyOK
      <4>2. good \/ damage'
        BY <3>1
      <4> QED
        BY <2>1, <3>2, <4>1, <4>2 DEF BusyOK, Installed, Writing
    <3>5. /\ Whole(Installed)' = Whole(Installed) /\ Installed' = Installed
          /\ damage => damage'
      BY <2>1, <3>1 DEF Whole, Installed
    <3> QED
      BY <2>1, <3>2, <3>3, <3>4, <3>5, GoesOn DEF UpdateInv
  <2> QED
    BY <2>2, <2>3
<1>10. ASSUME NEW p \in Procs, Open(p) PROVE UpdateInv'
  <2>1. PICK id \in Ids :
          /\ overlap \/ id # exe
          /\ files' = [files EXCEPT ![id] = <<Missing, Missing>>] /\ tmp' = id
          /\ proc' = [proc EXCEPT ![p].pc = "write1", ![p].fd = id]
    BY <1>10, NewIdExists DEF Open, OpenTmp, TypeOK, UpdateInv
  <2>2. /\ proc'[p].pc = "write1" /\ proc'[p].own = proc[p].own /\ proc'[p].rel = proc[p].rel
        /\ proc'[p].good = proc[p].good /\ proc'[p].fd = id
        /\ \A q \in Procs : q # p => proc'[q] = proc[q]
    BY <1>0, <2>1 DEF ProcType
  <2>3. proc[p].pc = "open" /\ Busy(p) /\ UNCHANGED <<exe, overlap, damage>>
    BY <1>10 DEF Open, OpenTmp, Busy
  <2>4. ASSUME ~overlap
        PROVE  /\ Installed' = Installed /\ Whole(Installed)' = Whole(Installed) /\ tmp' # exe'
               /\ BusyOK(p)'
    <3>1. Installed' = Installed /\ tmp' # exe'
      BY <1>0, <2>1, <2>3, <2>4 DEF Installed
    <3>2. /\ proc[p].own = Installed[1].v /\ IsNewer(proc[p].own, proc[p].rel)
          /\ proc[p].good \/ damage
      BY <2>3, <2>4 DEF UpdateInv, BusyOK
    <3>3. BusyOK(p)'
      BY <2>1, <2>2, <2>3, <3>1, <3>2 DEF BusyOK, Writing
    <3> QED
      BY <3>1, <3>3 DEF Whole
  <2> QED
    BY <2>2, <2>3, <2>4, GoesOn DEF UpdateInv
<1>11. ASSUME NEW p \in Procs, WritePiece(p, 1) PROVE UpdateInv'
  <2>1. /\ proc'[p].pc = "write2" /\ proc'[p].own = proc[p].own /\ proc'[p].rel = proc[p].rel
        /\ proc'[p].good = proc[p].good /\ proc'[p].fd = proc[p].fd
        /\ \A q \in Procs : q # p => proc'[q] = proc[q]
    BY <1>0, <1>11 DEF WritePiece, ProcType
  <2>2. /\ proc[p].pc = "write1" /\ Busy(p) /\ UNCHANGED <<exe, tmp, overlap, damage>>
        /\ proc[p].fd \in Ids
    BY <1>0, <1>11 DEF WritePiece, Busy, TypeOK, ProcsOK, Writing, ProcType
  <2>3. ASSUME ~overlap
        PROVE  /\ Installed' = Installed /\ Whole(Installed)' = Whole(Installed) /\ tmp' # exe'
               /\ BusyOK(p)'
    <3>1. /\ proc[p].own = Installed[1].v /\ IsNewer(proc[p].own, proc[p].rel)
          /\ proc[p].good \/ damage
          /\ proc[p].fd = tmp /\ tmp # exe
      BY <2>2, <2>3 DEF UpdateInv, BusyOK, Writing
    <3>2. files' = [files EXCEPT ![tmp][1] = Piece(proc[p].rel, proc[p].good)]
      BY <1>11, <3>1 DEF WritePiece
    <3>3. /\ Installed' = Installed /\ tmp' # exe'
          /\ files'[tmp][1] = Piece(proc[p].rel, proc[p].good)
      BY <1>0, <2>2, <3>1, <3>2 DEF Installed
    <3>4. BusyOK(p)'
      BY <2>1, <2>2, <3>1, <3>3 DEF BusyOK, Writing
    <3> QED
      BY <3>3, <3>4 DEF Whole
  <2> QED
    BY <2>1, <2>2, <2>3, GoesOn DEF UpdateInv
<1>12. ASSUME NEW p \in Procs, WritePiece(p, 2) PROVE UpdateInv'
  <2>1. /\ proc'[p].pc = "rename" /\ proc'[p].own = proc[p].own /\ proc'[p].rel = proc[p].rel
        /\ proc'[p].good = proc[p].good
        /\ \A q \in Procs : q # p => proc'[q] = proc[q]
    BY <1>0, <1>12 DEF WritePiece, ProcType
  <2>2. /\ proc[p].pc = "write2" /\ Busy(p) /\ UNCHANGED <<exe, tmp, overlap, damage>>
    BY <1>0, <1>12 DEF WritePiece, Busy
  <2>3. ASSUME ~overlap
        PROVE  /\ Installed' = Installed /\ Whole(Installed)' = Whole(Installed) /\ tmp' # exe'
               /\ BusyOK(p)'
    <3>1. /\ proc[p].own = Installed[1].v /\ IsNewer(proc[p].own, proc[p].rel)
          /\ proc[p].good \/ damage
          /\ proc[p].fd = tmp /\ tmp # exe /\ tmp \in Ids
          /\ files[tmp][1] = Piece(proc[p].rel, proc[p].good)
      BY <2>2, <2>3 DEF UpdateInv, BusyOK, Writing
    <3>2. files' = [files EXCEPT ![tmp][2] = Piece(proc[p].rel, proc[p].good)]
      BY <1>12, <3>1 DEF WritePiece
    <3>3. /\ Installed' = Installed /\ tmp' # exe'
          /\ files'[tmp][1] = Piece(proc[p].rel, proc[p].good)
          /\ files'[tmp][2] = Piece(proc[p].rel, proc[p].good)
      BY <1>0, <2>2, <3>1, <3>2 DEF Installed
    <3>4. BusyOK(p)'
      BY <2>1, <2>2, <3>1, <3>3 DEF BusyOK, Writing
    <3> QED
      BY <3>3, <3>4 DEF Whole
  <2> QED
    BY <2>1, <2>2, <2>3, GoesOn DEF UpdateInv
<1>13. ASSUME NEW p \in Procs, Rename(p) PROVE UpdateInv'
  <2>1. proc[p].pc = "rename" /\ Busy(p) /\ UNCHANGED <<files, overlap, damage>>
    BY <1>13 DEF Rename, Busy
  <2>2. ~Busy(p)' /\ \A q \in Procs : q # p => proc'[q] = proc[q]
    BY <1>0, <1>13 DEF Rename, End, Goto, Idle, Busy, ProcType
  <2>3. ASSUME ~overlap
        PROVE  Whole(Installed)' /\ tmp' # exe' /\ (damage \/ (Installed[1].good)')
    <3>1. /\ files[tmp] = <<Piece(proc[p].rel, proc[p].good), Piece(proc[p].rel, proc[p].good)>>
          /\ tmp \in Ids /\ IsNewer(proc[p].own, proc[p].rel) /\ (proc[p].good \/ damage)
      BY <1>0, <2>1, <2>3 DEF UpdateInv, BusyOK
    <3>2. exe' = tmp /\ tmp' = Nobody /\ Installed' = files[tmp]
      BY <1>0, <1>13, <2>1, <3>1 DEF Rename, Installed
    <3>3. proc[p].own \in Nat /\ proc[p].rel \in Nat
      BY <1>0, SelfUpdateAssumption DEF ProcType
    <3> QED
      BY <1>0, <3>1, <3>2, <3>3 DEF Whole, Piece, IsNewer
  <2> QED
    BY <2>1, <2>2, <2>3, GoesOn
<1> QED
  BY <1>1, <1>4, <1>5, <1>6, <1>7, <1>8, <1>9, <1>10, <1>11, <1>12, <1>13 DEF Next, Step

\* So it is always known.
LEMMA UpdateAlways == Spec => [](TypeOK /\ UpdateInv)
<1>1. Init => UpdateInv
  <2> SUFFICES ASSUME Init PROVE UpdateInv
    OBVIOUS
  <2>1. /\ exe = "first" /\ tmp = Nobody /\ \A p \in Procs : ~Busy(p)
        /\ Installed = <<Piece(1, TRUE), Piece(1, TRUE)>>
    BY DEF Init, Installed, Ids, Busy, Idle
  <2> QED
    BY <2>1 DEF UpdateInv, Whole, Piece, Nobody
<1> QED
  BY <1>1, TypeAlways, UpdateStep, PTL DEF Spec

\* Whatever process dies at whatever point, current_exe() names a whole binary of one
\* release, unless two updates were at work at a time and shared the temporary file
\* (install_binary_atomic), and no damaged one unless an archive went through
\* download_and_replace without a checksum.
THEOREM InstalledAlwaysWhole == Spec => []InstalledIsWhole
<1>1. UpdateInv => InstalledIsWhole
  BY DEF UpdateInv, InstalledIsWhole
<1> QED
  BY <1>1, UpdateAlways, PTL

\* The binary is only ever replaced by a newer one, in the one step of the rename: the
\* update at work compared the release with the version that is still installed
\* (run_update, is_newer).
THEOREM UpdatesGoForward == Spec => OnlyForward
<1>1. ASSUME TypeOK, UpdateInv, [Next]_vars, ~overlap', exe' # exe
      PROVE  IsNewer(files[exe][1].v, files'[exe'][1].v)
  <2>1. PICK p \in Procs : Rename(p)
    <3>1. CASE Publish \/ Tick \/ UNCHANGED vars
      BY <1>1, <3>1 DEF Publish, Tick, vars
    <3>2. ASSUME NEW p \in Procs, NEW c \in {"fetch", "notice"}, Start(p, c) PROVE FALSE
      BY <1>1, <3>2 DEF Start
    <3>3. ASSUME NEW p \in Procs, \/ ReadCache(p) \/ Ask(p) \/ EmptyCache(p) \/ WriteCache(p)
                                  \/ Fetch(p) \/ Crash(p)
          PROVE  FALSE
      BY <1>1, <3>3 DEF ReadCache, Ask, EmptyCache, WriteCache, Fetch, Crash, shared
    <3>4. ASSUME NEW p \in Procs, NEW n \in {1, 2}, Download(p) \/ Open(p) \/ WritePiece(p, n)
          PROVE  FALSE
      BY <1>1, <3>4 DEF Download, Open, OpenTmp, WritePiece
    <3> QED
      BY <1>1, <3>1, <3>2, <3>3, <3>4 DEF Next, Step
  <2>2. /\ proc[p].pc = "rename" /\ Busy(p) /\ exe' = tmp /\ files' = files /\ overlap' = overlap
    BY <1>1, <2>1 DEF Rename, Busy
  <2>3. /\ proc[p].own = files[exe][1].v /\ IsNewer(proc[p].own, proc[p].rel)
        /\ files[tmp][1] = Piece(proc[p].rel, proc[p].good)
    BY <1>1, <2>2 DEF UpdateInv, BusyOK, Installed
  <2> QED
    BY <2>2, <2>3 DEF Piece
<1>2. TypeOK /\ UpdateInv /\ [Next]_vars
        => [overlap' \/ exe' = exe \/ IsNewer(files[exe][1].v, files'[exe'][1].v)]_vars
  BY <1>1
<1> QED
  BY <1>2, UpdateAlways, PTL DEF Spec, OnlyForward

-----------------------------------------------------------------------------
(* The notice.  What a process heard was the latest release when it asked, at  *)
(* most one unit of time ago; so what the cache names was still the latest     *)
(* one unit before its time, whoever wrote it last.                           *)

Until(v, t) == v < MaxVersion => t <= releases[v + 1]

NewsInv ==
  /\ \A v \in Versions : v > latest => releases[v] = MaxTime + 1
  /\ \A p \in Procs : proc[p].rel # 0 =>
       /\ proc[p].at <= clock /\ clock <= proc[p].at + 1
       /\ Until(proc[p].rel, proc[p].at)
  /\ cache.some => cache.at <= clock /\ Until(cache.v, cache.at - 1)
  /\ notice.some => notice.at <= clock /\ Until(notice.v, notice.at - Cooldown)

\* Every step keeps what is known of releases, cache and notice.
LEMMA NewsStep == TypeOK /\ NewsInv /\ [Next]_vars => NewsInv'
<1> SUFFICES ASSUME TypeOK, NewsInv, [Next]_vars PROVE NewsInv'
  OBVIOUS
<1>0. /\ proc \in [Procs -> ProcType] /\ clock \in Nat /\ MaxTime \in Nat /\ clock <= MaxTime
      /\ latest \in Versions /\ releases \in [Versions -> Nat] /\ MaxVersion \in Nat
      /\ Versions = 1..MaxVersion /\ Cooldown \in Nat /\ Cooldown > 0
      /\ \A p \in Procs : proc[p].at \in Nat /\ proc[p].rel \in 0..MaxVersion
      /\ \A p \in Procs : proc[p].rel # 0 => proc[p].rel \in Versions
      /\ Idle.rel = 0
  BY SelfUpdateAssumption DEF TypeOK, Versions, ProcType, Idle
<1>1. /\ cache.some => cache.v \in Versions /\ cache.at \in Nat
      /\ notice.some => notice.v \in Versions /\ notice.at \in Nat
  <2>1. ~NoCache.some
    BY DEF NoCache
  <2> QED
    BY <2>1 DEF TypeOK, Told
\* No process hears anything new; some may forget.
<1>2. ASSUME \A p \in Procs : proc'[p].rel = 0 \/ (proc'[p].rel = proc[p].rel /\ proc'[p].at = proc[p].at),
             UNCHANGED <<latest, clock, releases, cache, notice>>
      PROVE  NewsInv'
  BY <1>0, <1>2 DEF NewsInv, Until
<1>3. ASSUME NEW p \in Procs, End(p)
      PROVE  \A q \in Procs : proc'[q].rel = 0 \/ (proc'[q].rel = proc[q].rel /\ proc'[q].at = proc[q].at)
  BY <1>0, <1>3 DEF End
<1>4. ASSUME NEW p \in Procs, NEW c, Goto(p, c)
      PROVE  \A q \in Procs : proc'[q].rel = proc[q].rel /\ proc'[q].at = proc[q].at
  BY <1>0, <1>4 DEF Goto, ProcType
<1>5. CASE Publish
  <2>1. /\ latest + 1 \in Versions /\ latest' = latest + 1
        /\ releases' = [releases EXCEPT ![latest + 1] = clock]
        /\ UNCHANGED <<clock, proc, cache, notice>>
    BY <1>0, <1>5 DEF Publish
  <2>2. ASSUME NEW v \in Versions, NEW t \in Int, Until(v, t), t <= clock PROVE Until(v, t)'
    BY <1>0, <2>1, <2>2 DEF Until
  <2>3. \A v \in Versions : v > latest' => releases'[v] = MaxTime + 1
    BY <1>0, <2>1 DEF NewsInv
  <2>4. ASSUME NEW p \in Procs, proc[p].rel # 0 PROVE Until(proc[p].rel, proc[p].at)'
    BY <1>0, <2>1, <2>2, <2>4 DEF NewsInv
  <2>5. cache.some => Until(cache.v, cache.at - 1)'
    BY <1>0, <1>1, <2>1, <2>2 DEF NewsInv
  <2>6. notice.some => Until(notice.v, notice.at - Cooldown)'
    BY <1>0, <1>1, <2>1, <2>2 DEF NewsInv
  <2> QED
    BY <2>1, <2>3, <2>4, <2>5, <2>6 DEF NewsInv
<1>6. CASE Tick
  <2>1. /\ clock' = clock + 1 /\ UNCHANGED <<latest, releases, proc, cache, notice>>
        /\ \A p \in Procs : proc[p].rel = 0 \/ proc[p].at = clock
    BY <1>6 DEF Tick
  <2> QED
    BY <1>0, <1>1, <2>1 DEF NewsInv, Until
<1>7. CASE UNCHANGED vars
  BY <1>2, <1>7 DEF vars
<1>8. ASSUME NEW p \in Procs, NEW c \in {"fetch", "notice"}, Start(p, c) PROVE NewsInv'
  <2>1. proc'[p].rel = 0 /\ \A q \in Procs : q # p => proc'[q] = proc[q]
    BY <1>0, <1>8 DEF Start, Idle
  <2> QED
    BY <1>2, <1>8, <2>1 DEF Start
<1>9. ASSUME NEW p \in Procs, Crash(p) \/ Rename(p) PROVE NewsInv'
  <2>1. UNCHANGED <<latest, clock, releases, cache, notice>> /\ (End(p) \/ Goto(p, "installed"))
    BY <1>9 DEF Crash, Rename, shared
  <2> QED
    BY <1>2, <1>3, <1>4, <2>1
<1>10. ASSUME NEW p \in Procs, NEW n \in {1, 2}, Open(p) \/ WritePiece(p, n) PROVE NewsInv'
  <2>1. UNCHANGED <<latest, clock, releases, cache, notice>>
    BY <1>10 DEF Open, OpenTmp, WritePiece
  <2>2. \A q \in Procs : proc'[q].rel = proc[q].rel /\ proc'[q].at = proc[q].at
    <3>1. CASE Open(p)
      <4>1. PICK id : proc' = [proc EXCEPT ![p].pc = "write1", ![p].fd = id]
        BY <3>1 DEF Open, OpenTmp
      <4> QED
        BY <1>0, <4>1 DEF ProcType
    <3>2. CASE WritePiece(p, n)
      <4>1. PICK c, id : proc' = [proc EXCEPT ![p].pc = c, ![p].fd = id]
        BY <3>2 DEF WritePiece
      <4> QED
        BY <1>0, <4>1 DEF ProcType
    <3> QED
      BY <1>10, <3>1, <3>2
  <2> QED
    BY <1>2, <2>1, <2>2
<1>11. ASSUME NEW p \in Procs, Download(p) PROVE NewsInv'
  <2>1. UNCHANGED <<latest, clock, releases, cache, notice>>
    BY <1>11 DEF Download
  <2>2. End(p) \/ \A q \in Procs : proc'[q].rel = proc[q].rel /\ proc'[q].at = proc[q].at
    <3>1. End(p) \/ \E good \in BOOLEAN : proc' = [proc EXCEPT ![p].pc = "open", ![p].good = good]
      BY <1>11 DEF Download
    <3>2. CASE ~End(p)
      <4>1. PICK good \in BOOLEAN : proc' = [proc EXCEPT ![p].pc = "open", ![p].good = good]
        BY <3>1, <3>2
      <4> QED
        BY <1>0, <4>1 DEF ProcType
    <3> QED
      BY <3>2
  <2> QED
    BY <1>2, <1>3, <2>1, <2>2
<1>12. ASSUME NEW p \in Procs, Ask(p) \/ Fetch(p) PROVE NewsInv'
  <2>1. UNCHANGED <<latest, clock, releases, cache, notice>>
    BY <1>12 DEF Ask, Fetch, shared
  <2>2. CASE End(p)
    BY <1>2, <1>3, <2>1, <2>2
  <2>3. CASE ~End(p)
    <3>1. /\ proc'[p].rel = latest /\ proc'[p].at = clock
          /\ \A q \in Procs : q # p => proc'[q] = proc[q]
      BY <1>0, <1>12, <2>3 DEF Ask, Fetch, ProcType
    <3>2. Until(latest, clock)
      BY <1>0 DEF NewsInv, Until
    <3>3. ASSUME NEW q \in Procs, proc'[q].rel # 0
          PROVE  /\ proc'[q].at <= clock' /\ clock' <= proc'[q].at + 1
                 /\ Until(proc[q].rel, proc[q].at)'
      <4>1. CASE q = p
        BY <1>0, <2>1, <3>1, <3>2, <4>1 DEF Until
      <4>2. CASE q # p
        BY <2>1, <3>1, <3>3, <4>2 DEF NewsInv, Until
      <4> QED
        BY <4>1, <4>2
    <3> QED
      BY <2>1, <3>3 DEF NewsInv, Until
  <2> QED
    BY <2>2, <2>3
<1>13. ASSUME NEW p \in Procs, ReadCache(p) PROVE NewsInv'
  <2>1. UNCHANGED <<latest, clock, releases, cache>>
    BY <1>13 DEF ReadCache
  <2>2. \A q \in Procs : proc'[q].rel = 0 \/ (proc'[q].rel = proc[q].rel /\ proc'[q].at = proc[q].at)
    BY <1>3, <1>4, <1>13 DEF ReadCache
  <2>3. CASE UNCHANGED notice
    BY <1>2, <2>1, <2>2, <2>3
  <2>4. CASE notice' # notice
    <3>1. cache.some /\ clock - cache.at < Cooldown
          /\ notice' = [some |-> TRUE, v |-> cache.v, at |-> clock]
      BY <1>13, <2>4 DEF ReadCache, Announce
    <3>2. notice'.v = cache.v /\ notice'.at = clock
      BY <3>1
    <3>3. Until(cache.v, cache.at - 1)
      BY <3>1 DEF NewsInv
    <3>4. Until(cache.v, clock - Cooldown)
      <4> SUFFICES ASSUME cache.v < MaxVersion PROVE clock - Cooldown <= releases[cache.v + 1]
        BY DEF Until
      <4>0. cache.at \in Nat /\ cache.v \in Versions
        BY <1>1, <3>1
      <4>1. cache.at \in Nat /\ cache.v + 1 \in Versions /\ cache.at - 1 <= releases[cache.v + 1]
        BY <1>0, <3>3, <4>0 DEF Until
      <4>2. releases[cache.v + 1] \in Nat
        BY <1>0, <4>1
      <4> QED
        BY <1>0, <3>1, <4>1, <4>2
    <3>5. Until(notice.v, notice.at - Cooldown)'
      BY <2>1, <3>2, <3>4 DEF Until
    <3>6. \A q \in Procs : proc'[q].rel # 0 =>
            /\ proc'[q].at <= clock' /\ clock' <= proc'[q].at + 1
            /\ Until(proc[q].rel, proc[q].at)'
      BY <2>1, <2>2 DEF NewsInv, Until
    <3>7. cache'.some => cache'.at <= clock' /\ Until(cache.v, cache.at - 1)'
      BY <2>1 DEF NewsInv, Until
    <3>8. notice'.at <= clock'
      BY <1>0, <2>1, <3>2
    <3> QED
      BY <2>1, <3>5, <3>6, <3>7, <3>8 DEF NewsInv
  <2> QED
    BY <2>3, <2>4
<1>14. ASSUME NEW p \in Procs, EmptyCache(p) PROVE NewsInv'
  <2>1. UNCHANGED <<latest, clock, releases, notice>> /\ cache' = NoCache /\ ~NoCache.some
    BY <1>14 DEF EmptyCache, NoCache
  <2>2. \A q \in Procs : proc'[q].rel = proc[q].rel /\ proc'[q].at = proc[q].at
    BY <1>4, <1>14 DEF EmptyCache
  <2> QED
    BY <1>0, <2>1, <2>2 DEF NewsInv, Until
<1>15. ASSUME NEW p \in Procs, WriteCache(p) PROVE NewsInv'
  <2>1. UNCHANGED <<latest, clock, releases>> /\ End(p)
        /\ cache' = [some |-> TRUE, v |-> proc[p].rel, at |-> clock]
        /\ proc[p].pc \in {"tell2", "installed2"}
    BY <1>15 DEF WriteCache
  <2>2. proc[p].rel # 0
    BY <2>1 DEF TypeOK, ProcsOK, Fetched
  <2>3. Until(proc[p].rel, clock - 1)
    <3>1. clock <= proc[p].at + 1 /\ Until(proc[p].rel, proc[p].at)
      BY <2>2 DEF NewsInv
    <3>2. proc[p].rel \in 0..MaxVersion /\ proc[p].at \in Nat
      BY <1>0 DEF ProcType
    <3> SUFFICES ASSUME proc[p].rel < MaxVersion PROVE clock - 1 <= releases[proc[p].rel + 1]
      BY DEF Until
    <3>3. proc[p].rel + 1 \in Versions /\ proc[p].at <= releases[proc[p].rel + 1]
      BY <1>0, <2>2, <3>1, <3>2 DEF Until
    <3>4. releases[proc[p].rel + 1] \in Nat
      BY <1>0, <3>3
    <3> QED
      BY <1>0, <3>1, <3>2, <3>3, <3>4
  <2>4. cache'.v = proc[p].rel /\ cache'.at = clock
    BY <2>1
  <2>5. cache'.at <= clock' /\ Until(cache.v, cache.at - 1)'
    BY <1>0, <2>1, <2>3, <2>4 DEF Until
  <2>6. \/ notice' = notice
        \/ notice' = [some |-> TRUE, v |-> proc[p].rel, at |-> clock]
    BY <1>15 DEF WriteCache, Announce
  <2>7. notice'.some => notice'.at <= clock' /\ Until(notice.v, notice.at - Cooldown)'
    <3>1. CASE notice' = notice
      BY <2>1, <3>1 DEF NewsInv, Until
    <3>2. CASE notice' = [some |-> TRUE, v |-> proc[p].rel, at |-> clock]
      <4>1. notice'.v = proc[p].rel /\ notice'.at = clock
        BY <3>2
      <4>2. Until(proc[p].rel, clock - Cooldown)
        BY <1>0, <2>2, <2>3 DEF Until
      <4> QED
        BY <1>0, <2>1, <4>1, <4>2 DEF Until
    <3> QED
      BY <2>6, <3>1, <3>2
  <2>8. \A q \in Procs : proc'[q].rel = 0 \/ (proc'[q].rel = proc[q].rel /\ proc'[q].at = proc[q].at)
    BY <1>3, <2>1
  <2>9. \A q \in Procs : proc'[q].rel # 0 =>
          /\ proc'[q].at <= clock' /\ clock' <= proc'[q].at + 1
          /\ Until(proc[q].rel, proc[q].at)'
    BY <2>1, <2>8 DEF NewsInv, Until
  <2> QED
    BY <2>1, <2>5, <2>7, <2>9 DEF NewsInv
<1> QED
  BY <1>5, <1>6, <1>7, <1>8, <1>9, <1>10, <1>11, <1>12, <1>13, <1>14, <1>15 DEF Next, Step

\* However checks and updates write over each other's cache, a notice names a release that
\* was the latest less than a cooldown before, or when the check asked that wrote it down
\* (maybe_print_update_notice, read_cache, write_cache).
THEOREM NoticesAreRecent == Spec => []NoticeIsRecent
<1>1. Init => NewsInv
  <2> SUFFICES ASSUME Init PROVE NewsInv
    OBVIOUS
  <2>1. cache = NoCache /\ notice = NoCache /\ ~NoCache.some /\ latest = 1
        /\ \A p \in Procs : proc[p].rel = 0
    BY DEF Init, NoCache, Idle
  <2>2. \A v \in Versions : v > 1 => releases[v] = MaxTime + 1
    BY DEF Init
  <2> QED
    BY <2>1, <2>2 DEF NewsInv
<1>2. TypeOK /\ NewsInv => NoticeIsRecent
  <2> SUFFICES ASSUME TypeOK, NewsInv, notice.some, notice.v < MaxVersion
               PROVE  notice.at < releases[notice.v + 1] + Cooldown + 1
    BY DEF NoticeIsRecent
  <2>1. notice \in Told
    <3>1. ~NoCache.some
      BY DEF NoCache
    <3> QED
      BY <3>1 DEF TypeOK
  <2>2. /\ notice.at \in Nat /\ notice.v + 1 \in Versions /\ Cooldown \in Nat
        /\ releases[notice.v + 1] \in Nat
    BY <2>1, SelfUpdateAssumption DEF Told, TypeOK, Versions
  <2>3. notice.at - Cooldown <= releases[notice.v + 1]
    BY DEF NewsInv, Until
  <2> QED
    BY <2>2, <2>3
<1> QED
  BY <1>1, <1>2, NewsStep, TypeAlways, PTL DEF Spec
=============================================================================
