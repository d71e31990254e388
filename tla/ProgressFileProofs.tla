-------------------------- MODULE ProgressFileProofs --------------------------
(***************************************************************************)
(* The replacement of the sidecar, for any number of processes and         *)
(* workstreams: where no two threads of one process merge, a reader finds  *)
(* the file torn only during or after an overwrite in place. And what is   *)
(* believed of progress files and read from recipe texts, for every file.  *)
(***************************************************************************)
EXTENDS ProgressFile, FileReading, SequenceTheorems, WellFoundedInduction, TLAPS

\* Temporary names are told apart by the process alone.
OneCallerEach == \A v, w \in Callers : ProcessOf[v] = ProcessOf[w] => v = w

\* No inode has two names, and the one a thread replaces in place has at most the
\* name of the progress file.
NamesApart ==
  /\ \A p \in Processes : temp[p] # 0 => temp[p] # target
  /\ \A p, q \in Processes : temp[p] # 0 /\ temp[p] = temp[q] => p = q
  /\ \A w \in Callers, p \in Processes : pc[w] = "direct" => fd[w] # temp[p]

\* A thread writes the file its process' temporary name denotes, and renames it only
\* when it is whole.
Owns(w) ==
  /\ pc[w] \in {"write", "rename"} => fd[w] # 0 /\ fd[w] = TempOf(w)
  /\ pc[w] = "write" => files[fd[w]].torn
  /\ pc[w] = "rename" => ~files[fd[w]].torn
  /\ pc[w] = "direct" => fd[w] # 0
Owned == \A w \in Callers : Owns(w)

\* Only a thread that has the progress file open leaves it torn.
BeingReplaced ==
  target # 0 /\ files[target].torn =>
    cut \/ \E w \in Callers : pc[w] = "direct" /\ fd[w] = target

Inv == TypeOK /\ NamesApart /\ Owned /\ BeingReplaced

\* What is written are contents.
LEMMA ContentsTyped ==
  /\ Torn \in Contents /\ Torn.torn
  /\ \A e \in [Streams -> Nat] : Whole(e) \in Contents /\ ~Whole(e).torn
  BY DEF Contents, Torn, Whole

\* With changes one inode and no other.
LEMMA OneInode ==
  ASSUME files \in Seq(Contents), NEW i \in 1..Fresh, NEW c \in Contents
  PROVE  /\ With(i, c) \in Seq(Contents)
         /\ Len(With(i, c)) \in Nat
         /\ Len(files) <= Len(With(i, c)) /\ i <= Len(With(i, c))
         /\ With(i, c)[i] = c
         /\ \A j \in 1..Len(files) : j # i => With(i, c)[j] = files[j]
<1>1. CASE i = Fresh
  BY <1>1 DEF With, Fresh
<1>2. CASE i # Fresh
  BY <1>2 DEF With, Fresh
<1> QED
  BY <1>1, <1>2

\* What is remembered is a content.
LEMMA RememberTyped ==
  ASSUME known \in [Streams -> Nat], files' \in Seq(Contents), target' \in 0..Len(files'),
         Remember
  PROVE  known' \in [Streams -> Nat]
<1>1. CASE target' = 0 \/ files'[target'].torn
  BY <1>1 DEF Remember
<1>2. CASE target' # 0 /\ ~files'[target'].torn
  <2>1. files'[target'] \in Contents
    BY <1>2
  <2> QED
    BY <1>2, <2>1 DEF Remember, Contents
<1> QED
  BY <1>1, <1>2

\* Entries laid over entries are entries.
LEMMA FoldTyped ==
  ASSUME NEW old \in [Streams -> Nat], NEW new \in [Streams -> Nat]
  PROVE  Fold(old, new) \in [Streams -> Nat]
  BY DEF Fold

\* What a merge reads are entries, whatever it finds.
LEMMA ExistingTyped ==
  ASSUME files \in Seq(Contents), target \in 0..Len(files)
  PROVE  Existing \in [Streams -> Nat]
<1>1. CASE target = 0 \/ files[target].torn
  BY <1>1 DEF Existing, Nothing
<1>2. CASE target # 0 /\ ~files[target].torn
  <2>1. files[target] \in Contents
    BY <1>2
  <2> QED
    BY <1>2, <2>1 DEF Existing, Contents
<1> QED
  BY <1>1, <1>2

\* The type invariant without its truth value, which Zenon is better at.
Typed ==
  /\ pc \in [Callers -> {"idle", "open", "write", "rename", "openDirect", "direct", "dead"}]
  /\ merged \in [Callers -> [Streams -> Nat]] /\ known \in [Streams -> Nat]
  /\ files \in Seq(Contents) /\ fd \in [Callers -> 0..Len(files)]
  /\ temp \in [Processes -> 0..Len(files)]
  /\ target \in 0..Len(files)
  /\ merges \in 0..MaxMerges /\ faults \in 0..MaxFaults
  /\ stale \subseteq Callers

\* The two parts are the type invariant.
LEMMA TypeInParts == TypeOK <=> Typed /\ cut \in BOOLEAN
  BY Zenon DEF TypeOK, Typed

\* The system starts in the invariant.
LEMMA InitEstablishes == Init => Inv
<1> SUFFICES ASSUME Init PROVE Inv
  OBVIOUS
<1>1. Typed
  BY CallersAssumption DEF Init, Typed, Nothing
<1>2. NamesApart /\ Owned /\ BeingReplaced
  BY DEF Init, NamesApart, Owned, Owns, BeingReplaced
<1>3. cut \in BOOLEAN
  BY Zenon DEF Init
<1> QED
  BY <1>1, <1>2, <1>3, TypeInParts DEF Inv

\* A truth value stays one.
LEMMA CutKept == cut \in BOOLEAN /\ [Next]_vars => cut' \in BOOLEAN
  BY Zenon DEF Next, Step, vars, NothingToMerge, Read, OpenTemp, WriteTemp, Rename,
     RenameFails, OpenDirect, WriteDirect, Die, Restart

\* An inode number stays one when inodes are added.
LEMMA MoreInodes ==
  ASSUME NEW S, NEW m \in Nat, NEW n \in Nat, m <= n, NEW f \in [S -> 0..m]
  PROVE  f \in [S -> 0..n]
  OBVIOUS

\* Every step keeps the types.
LEMMA TypedKept == Typed /\ Owned /\ [Next]_vars => Typed'
<1> SUFFICES ASSUME Typed, Owned, [Next]_vars PROVE Typed'
  OBVIOUS
<1> USE CallersAssumption
<1>0. Len(files) \in Nat
  BY DEF Typed
<1> USE <1>0
<1>1. ASSUME NEW w \in Callers, NothingToMerge(w) PROVE Typed'
  BY <1>1 DEF Typed, NothingToMerge
<1>2. ASSUME NEW w \in Callers, Read(w) PROVE Typed'
  <2>1. Fold(Existing, StateFile[w]) \in [Streams -> Nat]
    BY ExistingTyped, FoldTyped DEF Typed
  <2> QED
    BY <1>2, <2>1 DEF Typed, Read, To
<1>3. ASSUME NEW w \in Callers, OpenTemp(w) PROVE Typed'
  <2> DEFINE i == IF TempOf(w) = 0 THEN Fresh ELSE TempOf(w)
  <2>1. i \in 1..Fresh /\ Mine(w) \in Processes
    BY DEF Typed, TempOf, Mine, Fresh
  <2>2. CASE /\ files' = With(i, Torn) /\ temp' = [temp EXCEPT ![Mine(w)] = i]
             /\ fd' = [fd EXCEPT ![w] = i] /\ To(w, "write") /\ UNCHANGED faults
    <3>1. files' \in Seq(Contents) /\ Len(files') \in Nat
          /\ Len(files) <= Len(files') /\ i <= Len(files')
      BY <2>1, <2>2, OneInode, ContentsTyped DEF Typed
    <3>2. fd \in [Callers -> 0..Len(files')] /\ temp \in [Processes -> 0..Len(files')]
      BY <3>1, MoreInodes DEF Typed
    <3> QED
      BY <1>3, <2>1, <2>2, <3>1, <3>2 DEF Typed, OpenTemp, To
  <2>3. CASE Fault /\ To(w, "openDirect") /\ UNCHANGED <<files, temp, fd>>
    BY <1>3, <2>3 DEF Typed, OpenTemp, To, Fault
  <2> QED
    BY <1>3, <2>2, <2>3 DEF OpenTemp
<1>4. ASSUME NEW w \in Callers, WriteTemp(w) PROVE Typed'
  <2>1. PICK c \in Overlay(fd[w], merged[w]) : files' = With(fd[w], c)
    BY <1>4 DEF WriteTemp
  <2>2. c \in Contents /\ fd[w] \in 1..Fresh /\ fd[w] <= Len(files)
    BY <1>4, ContentsTyped DEF WriteTemp, Overlay, Typed, Owned, Owns, Fresh
  <2>3. files' \in Seq(Contents) /\ Len(files') \in Nat /\ Len(files) <= Len(files')
    BY <2>1, <2>2, OneInode DEF Typed
  <2>4. known' \in [Streams -> Nat]
    BY <1>4, <2>3, RememberTyped DEF WriteTemp, Typed
  <2>5. fd' \in [Callers -> 0..Len(files')] /\ temp' \in [Processes -> 0..Len(files')]
    BY <1>4, <2>3, MoreInodes DEF Typed, WriteTemp
  <2>6. faults' \in 0..MaxFaults
    BY <1>4 DEF Typed, WriteTemp, Fault
  <2>7. pc' \in [Callers -> {"idle", "open", "write", "rename", "openDirect", "direct", "dead"}]
    BY <1>4 DEF Typed, WriteTemp, To
  <2>8. UNCHANGED <<merged, target, merges, stale>>
    BY <1>4 DEF WriteTemp
  <2> QED
    BY <1>4, <2>3, <2>4, <2>5, <2>6, <2>7, <2>8 DEF Typed
<1>5. ASSUME NEW w \in Callers, Rename(w) PROVE Typed'
  <2>1. target' \in 0..Len(files') /\ files' \in Seq(Contents)
    BY <1>5 DEF Typed, Rename, TempOf, Mine
  <2>2. known' \in [Streams -> Nat]
    BY <1>5, <2>1, RememberTyped DEF Rename, Typed
  <2> QED
    BY <1>5, <2>1, <2>2 DEF Typed, Rename, To, Outdates, Mine
<1>6. ASSUME NEW w \in Callers, RenameFails(w) PROVE Typed'
  BY <1>6 DEF Typed, RenameFails, To, Fault, Mine
<1>7. ASSUME NEW w \in Callers, OpenDirect(w) PROVE Typed'
  <2> DEFINE i == IF target = 0 THEN Fresh ELSE target
  <2>1. i \in 1..Fresh
    BY DEF Typed, Fresh
  <2>2. CASE /\ files' = With(i, Torn) /\ target' = i /\ fd' = [fd EXCEPT ![w] = i]
             /\ To(w, "direct") /\ Outdates(w) /\ UNCHANGED faults
    <3>1. files' \in Seq(Contents) /\ Len(files') \in Nat
          /\ Len(files) <= Len(files') /\ i <= Len(files')
      BY <2>1, <2>2, OneInode, ContentsTyped DEF Typed
    <3>2. fd \in [Callers -> 0..Len(files')] /\ temp' \in [Processes -> 0..Len(files')]
      BY <1>7, <3>1, MoreInodes DEF Typed, OpenDirect
    <3>3. target' \in 0..Len(files')
      BY <2>1, <2>2, <3>1
    <3>4. known' \in [Streams -> Nat]
      BY <1>7, <3>1, <3>3, RememberTyped DEF OpenDirect, Typed
    <3> QED
      BY <1>7, <2>1, <2>2, <3>1, <3>2, <3>3, <3>4 DEF Typed, OpenDirect, To, Outdates
  <2>3. CASE Fault /\ To(w, "idle") /\ UNCHANGED <<files, target, fd, stale>>
    <3>1. known' \in [Streams -> Nat]
      BY <1>7, <2>3, RememberTyped DEF OpenDirect, Typed
    <3> QED
      BY <1>7, <2>3, <3>1 DEF Typed, OpenDirect, To, Fault
  <2> QED
    BY <1>7, <2>2, <2>3 DEF OpenDirect
<1>8. ASSUME NEW w \in Callers, WriteDirect(w) PROVE Typed'
  <2>1. PICK c \in Overlay(fd[w], merged[w]) \cup {Torn} :
          files' = With(fd[w], c) /\ (UNCHANGED faults \/ Fault)
    BY <1>8, ContentsTyped DEF WriteDirect, Typed, Overlay, Contents
  <2>2. c \in Contents /\ fd[w] \in 1..Fresh /\ fd[w] <= Len(files)
    BY <1>8, ContentsTyped DEF WriteDirect, Overlay, Typed, Owned, Owns, Fresh
  <2>3. files' \in Seq(Contents) /\ Len(files') \in Nat /\ Len(files) <= Len(files')
    BY <2>1, <2>2, OneInode DEF Typed
  <2>4. known' \in [Streams -> Nat]
    BY <1>8, <2>3, RememberTyped DEF WriteDirect, Typed
  <2>5. fd' \in [Callers -> 0..Len(files')] /\ temp' \in [Processes -> 0..Len(files')]
    BY <1>8, <2>3, MoreInodes DEF Typed, WriteDirect
  <2> QED
    BY <1>8, <2>1, <2>3, <2>4, <2>5 DEF Typed, WriteDirect, To, Fault, Outdates
<1>9. ASSUME NEW p \in Processes, Die(p) \/ Restart(p) PROVE Typed'
  BY <1>9 DEF Typed, Die, Restart, Fault
<1>10. CASE UNCHANGED vars
  BY <1>10 DEF Typed, vars
<1> QED
  BY <1>1, <1>2, <1>3, <1>4, <1>5, <1>6, <1>7, <1>8, <1>9, <1>10 DEF Next, Step

\* The step that preserves the rest, one fact for each kind of step.
LEMMA NamesKept ==
  OneCallerEach /\ Typed /\ NamesApart /\ Owned /\ [Next]_vars => NamesApart'
<1> SUFFICES ASSUME OneCallerEach, Typed, NamesApart, Owned, [Next]_vars PROVE NamesApart'
  OBVIOUS
<1> USE CallersAssumption
<1>0. /\ Len(files) \in Nat
      /\ \A w \in Callers : Mine(w) \in Processes /\ TempOf(w) \in 0..Len(files)
      /\ \A w \in Callers : fd[w] \in 0..Len(files)
      /\ \A p \in Processes : temp[p] \in 0..Len(files)
      /\ target \in 0..Len(files)
  BY DEF Typed, Mine, TempOf
<1>1. ASSUME NEW w \in Callers, OpenTemp(w) PROVE NamesApart'
  <2>1. CASE fd' = [fd EXCEPT ![w] = temp[Mine(w)]] /\ temp' = temp /\ To(w, "write")
    BY <1>0, <1>1, <2>1 DEF NamesApart, OpenTemp, To, Typed
  <2>2. CASE temp' = [temp EXCEPT ![Mine(w)] = Fresh] /\ fd' = [fd EXCEPT ![w] = Fresh]
             /\ To(w, "write")
    <3>1. \A p \in Processes : temp'[p] = IF p = Mine(w) THEN Fresh ELSE temp[p]
      BY <1>0, <2>2 DEF Typed
    <3>2. \A v \in Callers : pc'[v] = "direct" => pc[v] = "direct" /\ fd'[v] = fd[v]
      BY <2>2 DEF Typed, To
    <3>3. target' = target /\ \A p \in Processes : temp[p] # Fresh /\ target # Fresh
      BY <1>0, <1>1 DEF OpenTemp, Fresh
    <3>4. \A p \in Processes : temp'[p] # 0 => temp'[p] # target'
      BY <3>1, <3>3 DEF NamesApart
    <3>5. \A p, q \in Processes : temp'[p] # 0 /\ temp'[p] = temp'[q] => p = q
      BY <3>1, <3>3 DEF NamesApart
    <3>6. ASSUME NEW v \in Callers, NEW p \in Processes, pc'[v] = "direct"
          PROVE  fd'[v] # temp'[p]
      <4>1. fd'[v] = fd[v] /\ fd[v] # temp[p]
        BY <3>2, <3>6 DEF NamesApart
      <4>2. fd[v] # Fresh
        BY <1>0 DEF Fresh
      <4> QED
        BY <3>1, <4>1, <4>2
    <3> QED
      BY <3>6, <3>4, <3>5 DEF NamesApart
  <2>3. CASE To(w, "openDirect") /\ UNCHANGED <<files, temp, fd>>
    BY <1>1, <2>3 DEF NamesApart, OpenTemp, To, Typed
  <2>4. TempOf(w) # 0 => [temp EXCEPT ![Mine(w)] = TempOf(w)] = temp
    BY <1>0 DEF TempOf, Typed
  <2> QED
    BY <1>1, <2>1, <2>2, <2>3, <2>4 DEF OpenTemp, TempOf
<1>2. ASSUME NEW w \in Callers, Rename(w) PROVE NamesApart'
  <2>1. \A p \in Processes : temp'[p] = IF p = Mine(w) THEN 0 ELSE temp[p]
    BY <1>0, <1>2 DEF Rename, Typed
  <2>2. \A v \in Callers : pc'[v] = "direct" => pc[v] = "direct" /\ fd'[v] = fd[v] /\ fd[v] # 0
    BY <1>2 DEF Rename, To, Typed, Owned, Owns
  <2> QED
    BY <1>0, <1>2, <2>1, <2>2 DEF NamesApart, Rename, TempOf
<1>3. ASSUME NEW w \in Callers, RenameFails(w) PROVE NamesApart'
  <2>1. \A p \in Processes : temp'[p] = IF p = Mine(w) THEN 0 ELSE temp[p]
    BY <1>0, <1>3 DEF RenameFails, Typed
  <2>2. \A v \in Callers : pc'[v] = "direct" => pc[v] = "direct" /\ fd'[v] = fd[v] /\ fd[v] # 0
    BY <1>3 DEF RenameFails, To, Typed, Owned, Owns
  <2> QED
    BY <1>0, <1>3, <2>1, <2>2 DEF NamesApart, RenameFails
<1>4. ASSUME NEW w \in Callers, OpenDirect(w) PROVE NamesApart'
  <2>1. temp' = temp
    BY <1>4 DEF OpenDirect
  <2>2. CASE target' = (IF target = 0 THEN Fresh ELSE target)
             /\ fd' = [fd EXCEPT ![w] = target'] /\ To(w, "direct")
    <3>1. \A p \in Processes : temp[p] # target'
      BY <1>0, <2>2 DEF NamesApart, Fresh
    <3>2. \A v \in Callers : pc'[v] = "direct" =>
            IF v = w THEN fd'[v] = target' ELSE pc[v] = "direct" /\ fd'[v] = fd[v]
      BY <2>2 DEF To, Typed
    <3> QED
      BY <2>1, <3>1, <3>2 DEF NamesApart
  <2>3. CASE To(w, "idle") /\ UNCHANGED <<target, fd>>
    BY <2>1, <2>3 DEF NamesApart, To, Typed
  <2> QED
    BY <1>4, <2>2, <2>3 DEF OpenDirect
<1>5. ASSUME NEW w \in Callers,
             NothingToMerge(w) \/ Read(w) \/ WriteTemp(w) \/ WriteDirect(w)
      PROVE  NamesApart'
  <2>1. UNCHANGED <<temp, target, fd>>
    BY <1>5 DEF NothingToMerge, Read, WriteTemp, WriteDirect
  <2>2. \A v \in Callers : pc'[v] = "direct" => pc[v] = "direct"
    BY <1>5 DEF NothingToMerge, Read, WriteTemp, WriteDirect, To, Typed
  <2> QED
    BY <2>1, <2>2 DEF NamesApart
<1>6. ASSUME NEW p \in Processes, Die(p) \/ Restart(p) PROVE NamesApart'
  BY <1>6 DEF NamesApart, Die, Restart, Typed
<1>7. CASE UNCHANGED vars
  BY <1>7 DEF NamesApart, vars
<1> QED
  BY <1>1, <1>2, <1>3, <1>4, <1>5, <1>6, <1>7 DEF Next, Step

\* A thread owns what it owned if neither its place nor its file changed.
LEMMA StillOwns ==
  ASSUME NEW v \in Callers, Owns(v), pc'[v] = pc[v], fd'[v] = fd[v],
         temp'[Mine(v)] = temp[Mine(v)],
         pc[v] \in {"write", "rename"} => files'[fd[v]] = files[fd[v]]
  PROVE  Owns(v)'
  BY DEF Owns, TempOf, Mine

\* Every step keeps the ownership of files.
LEMMA OwnedKept ==
  OneCallerEach /\ Typed /\ NamesApart /\ Owned /\ [Next]_vars => Owned'
<1> SUFFICES ASSUME OneCallerEach, Typed, NamesApart, Owned, [Next]_vars PROVE Owned'
  OBVIOUS
<1> USE CallersAssumption
<1>0. /\ Len(files) \in Nat /\ files \in Seq(Contents)
      /\ \A w \in Callers : Mine(w) \in Processes /\ temp[Mine(w)] \in 0..Len(files)
      /\ \A w \in Callers : fd[w] \in 0..Len(files) /\ Owns(w)
      /\ target \in 0..Len(files)
      /\ \A v, w \in Callers : Mine(v) = Mine(w) => v = w
  BY DEF Typed, Mine, Owned, OneCallerEach
\* What a writing thread has is neither the progress file nor another thread's.
<1>1. ASSUME NEW v \in Callers, pc[v] \in {"write", "rename"}
      PROVE  /\ fd[v] \in 1..Len(files) /\ fd[v] # target
             /\ \A w \in Callers \ {v} : fd[v] # temp[Mine(w)]
             /\ \A w \in Callers \ {v} : pc[w] = "direct" => fd[v] # fd[w]
  BY <1>0, <1>1 DEF Owns, NamesApart, TempOf
<1>2. ASSUME NEW w \in Callers, OpenTemp(w) PROVE Owned'
  <2> DEFINE i == IF TempOf(w) = 0 THEN Fresh ELSE TempOf(w)
  <2>1. CASE /\ files' = With(i, Torn) /\ temp' = [temp EXCEPT ![Mine(w)] = i]
             /\ fd' = [fd EXCEPT ![w] = i] /\ To(w, "write")
    <3>1. i \in 1..Fresh
      BY <1>0 DEF TempOf, Fresh
    <3>2. files'[i].torn /\ \A j \in 1..Len(files) : j # i => files'[j] = files[j]
      BY <1>0, <2>1, <3>1, OneInode, ContentsTyped
    <3>3. Owns(w)'
      BY <1>0, <2>1, <3>1, <3>2 DEF Owns, To, Typed, TempOf, Mine
    <3>4. ASSUME NEW v \in Callers \ {w} PROVE Owns(v)'
      <4>1. pc'[v] = pc[v] /\ fd'[v] = fd[v] /\ temp'[Mine(v)] = temp[Mine(v)]
        BY <1>0, <2>1 DEF To, Typed
      <4>2. pc[v] \in {"write", "rename"} => fd[v] # i
        BY <1>0, <1>1 DEF TempOf, Fresh
      <4> QED
        BY <1>0, <1>1, <3>2, <4>1, <4>2, StillOwns
    <3> QED
      BY <3>3, <3>4 DEF Owned
  <2>2. CASE To(w, "openDirect") /\ UNCHANGED <<files, temp, fd>>
    BY <1>0, <2>2 DEF Owned, Owns, To, Typed, TempOf, Mine
  <2> QED
    BY <1>2, <2>1, <2>2 DEF OpenTemp
<1>3. ASSUME NEW w \in Callers, WriteTemp(w) PROVE Owned'
  <2>1. fd[w] \in 1..Fresh /\ files[fd[w]].torn
    BY <1>0, <1>3 DEF WriteTemp, Owns, Fresh
  <2>2. PICK c \in Overlay(fd[w], merged[w]) : files' = With(fd[w], c)
    BY <1>3 DEF WriteTemp
  <2>3. c \in Contents /\ ~c.torn
    BY <2>1, <2>2, ContentsTyped DEF Overlay, Typed
  <2>4. ~files'[fd[w]].torn /\ \A j \in 1..Len(files) : j # fd[w] => files'[j] = files[j]
    BY <1>0, <2>1, <2>2, <2>3, OneInode
  <2>5. UNCHANGED <<fd, temp>> /\ fd[w] # 0 /\ fd[w] = temp[Mine(w)]
    BY <1>0, <1>3 DEF WriteTemp, Owns, TempOf
  <2>6. Owns(w)'
    BY <1>3, <2>4, <2>5 DEF WriteTemp, To, Typed, Owns, TempOf, Mine
  <2>7. ASSUME NEW v \in Callers \ {w} PROVE Owns(v)'
    <3>1. pc'[v] = pc[v]
      BY <1>3 DEF WriteTemp, To, Typed
    <3>2. pc[v] \in {"write", "rename"} => fd[v] # fd[w]
      BY <1>1, <2>5
    <3> QED
      BY <1>0, <1>1, <2>4, <2>5, <3>1, <3>2, StillOwns
  <2> QED
    BY <2>6, <2>7 DEF Owned
<1>4. ASSUME NEW w \in Callers, Rename(w) \/ RenameFails(w) PROVE Owned'
  <2>1. /\ temp' = [temp EXCEPT ![Mine(w)] = 0] /\ UNCHANGED <<fd, files>>
        /\ pc'[w] \in {"idle", "openDirect"} /\ \A v \in Callers \ {w} : pc'[v] = pc[v]
    BY <1>4 DEF Rename, RenameFails, To, Typed
  <2>2. Owns(w)'
    BY <2>1 DEF Owns
  <2>3. ASSUME NEW v \in Callers \ {w} PROVE Owns(v)'
    <3>1. temp'[Mine(v)] = temp[Mine(v)]
      BY <1>0, <2>1 DEF Typed
    <3> QED
      BY <1>0, <2>1, <3>1, StillOwns
  <2> QED
    BY <2>2, <2>3 DEF Owned
<1>5. ASSUME NEW w \in Callers, OpenDirect(w) PROVE Owned'
  <2> DEFINE i == IF target = 0 THEN Fresh ELSE target
  <2>1. CASE files' = With(i, Torn) /\ fd' = [fd EXCEPT ![w] = i] /\ To(w, "direct")
    <3>1. i \in 1..Fresh
      BY <1>0 DEF Fresh
    <3>2. \A j \in 1..Len(files) : j # i => files'[j] = files[j]
      BY <1>0, <2>1, <3>1, OneInode, ContentsTyped
    <3>3. Owns(w)'
      BY <2>1, <3>1 DEF Owns, To, Typed
    <3>4. ASSUME NEW v \in Callers \ {w} PROVE Owns(v)'
      <4>1. pc'[v] = pc[v] /\ fd'[v] = fd[v] /\ temp' = temp
        BY <1>5, <2>1 DEF OpenDirect, To, Typed
      <4>2. pc[v] \in {"write", "rename"} => fd[v] # i
        BY <1>0, <1>1 DEF Fresh
      <4> QED
        BY <1>0, <1>1, <3>2, <4>1, <4>2, StillOwns
    <3> QED
      BY <3>3, <3>4 DEF Owned
  <2>2. CASE To(w, "idle") /\ UNCHANGED <<files, fd>>
    BY <1>0, <1>5, <2>2 DEF OpenDirect, Owned, Owns, To, Typed, TempOf, Mine
  <2> QED
    BY <1>5, <2>1, <2>2 DEF OpenDirect
<1>6. ASSUME NEW w \in Callers, WriteDirect(w) PROVE Owned'
  <2>1. PICK c \in Overlay(fd[w], merged[w]) \cup {Torn} : files' = With(fd[w], c)
    BY <1>6 DEF WriteDirect
  <2>2. c \in Contents /\ fd[w] \in 1..Fresh
    BY <1>0, <1>6, <2>1, ContentsTyped DEF WriteDirect, Overlay, Typed, Owns, Fresh
  <2>3. \A j \in 1..Len(files) : j # fd[w] => files'[j] = files[j]
    BY <1>0, <2>1, <2>2, OneInode
  <2>4. UNCHANGED <<fd, temp>> /\ pc[w] = "direct" /\ To(w, "idle")
    BY <1>6 DEF WriteDirect
  <2>5. Owns(w)'
    BY <2>4 DEF To, Typed, Owns
  <2>6. ASSUME NEW v \in Callers \ {w} PROVE Owns(v)'
    <3>1. pc'[v] = pc[v]
      BY <2>4 DEF To, Typed
    <3>2. pc[v] \in {"write", "rename"} => fd[v] # fd[w]
      BY <1>1, <2>4
    <3> QED
      BY <1>0, <1>1, <2>3, <2>4, <3>1, <3>2, StillOwns
  <2> QED
    BY <2>5, <2>6 DEF Owned
<1>7. ASSUME NEW w \in Callers, NothingToMerge(w) \/ Read(w) PROVE Owned'
  BY <1>0, <1>7 DEF NothingToMerge, Read, Owned, Owns, To, Typed, TempOf, Mine
<1>8. ASSUME NEW p \in Processes, Die(p) \/ Restart(p) PROVE Owned'
  BY <1>0, <1>8 DEF Die, Restart, Owned, Owns, Typed, TempOf, Mine
<1>9. CASE UNCHANGED vars
  BY <1>0, <1>9 DEF vars, Owned, Owns, TempOf, Mine
<1> QED
  BY <1>2, <1>3, <1>4, <1>5, <1>6, <1>7, <1>8, <1>9 DEF Next, Step

\* Where the progress file and the threads that replace it stay, so does the fact.
LEMMA StillReplaced ==
  ASSUME BeingReplaced, target' = target, cut => cut',
         target # 0 => files'[target] = files[target],
         \A v \in Callers : pc[v] = "direct" /\ fd[v] = target =>
           cut' \/ (pc'[v] = "direct" /\ fd'[v] = fd[v])
  PROVE  BeingReplaced'
  BY DEF BeingReplaced

\* Every step keeps the cause of a torn file.
LEMMA ReplacedKept ==
  OneCallerEach /\ Typed /\ NamesApart /\ Owned /\ BeingReplaced /\ [Next]_vars => BeingReplaced'
<1> SUFFICES ASSUME OneCallerEach, Typed, NamesApart, Owned, BeingReplaced, [Next]_vars
             PROVE  BeingReplaced'
  OBVIOUS
<1> USE CallersAssumption
<1>0. /\ Len(files) \in Nat /\ files \in Seq(Contents)
      /\ \A w \in Callers : Mine(w) \in Processes /\ TempOf(w) \in 0..Len(files)
      /\ \A w \in Callers : TempOf(w) # 0 => TempOf(w) # target
      /\ \A w \in Callers : fd[w] \in 0..Len(files) /\ Owns(w)
      /\ target \in 0..Len(files)
  BY DEF Typed, Mine, TempOf, Owned, NamesApart
<1>1. ASSUME NEW w \in Callers, OpenTemp(w) PROVE BeingReplaced'
  <2> DEFINE i == IF TempOf(w) = 0 THEN Fresh ELSE TempOf(w)
  <2>1. \A v \in Callers : pc[v] = "direct" => pc'[v] = "direct" /\ fd'[v] = fd[v]
    BY <1>1 DEF OpenTemp, To, Typed
  <2>2. target # 0 => files'[target] = files[target]
    <3>1. CASE files' = With(i, Torn)
      <4>1. i \in 1..Fresh /\ (target # 0 => i # target)
        BY <1>0 DEF Fresh
      <4>2. \A j \in 1..Len(files) : j # i => files'[j] = files[j]
        BY <1>0, <3>1, <4>1, OneInode, ContentsTyped
      <4> QED
        BY <1>0, <4>1, <4>2
    <3>2. CASE UNCHANGED files
      BY <3>2
    <3> QED
      BY <1>1, <3>1, <3>2 DEF OpenTemp
  <2>3. target' = target /\ cut' = cut
    BY <1>1 DEF OpenTemp
  <2> QED
    BY <2>1, <2>2, <2>3, StillReplaced
<1>2. ASSUME NEW w \in Callers, WriteTemp(w) PROVE BeingReplaced'
  <2>1. PICK c \in Overlay(fd[w], merged[w]) : files' = With(fd[w], c)
    BY <1>2 DEF WriteTemp
  <2>2. c \in Contents /\ fd[w] \in 1..Fresh /\ fd[w] # target
    BY <1>0, <1>2, ContentsTyped DEF WriteTemp, Overlay, Typed, Owns, Fresh
  <2>3. target # 0 => files'[target] = files[target]
    <3>1. \A j \in 1..Len(files) : j # fd[w] => files'[j] = files[j]
      <4>1. files \in Seq(Contents)
        BY <1>0 DEF Typed
      <4> QED
        BY <2>1, <2>2, <4>1, OneInode
    <3> QED
      BY <1>0, <2>2, <3>1
  <2>4. \A v \in Callers : pc[v] = "direct" => pc'[v] = "direct" /\ fd'[v] = fd[v]
    BY <1>2 DEF WriteTemp, To, Typed
  <2>5. target' = target /\ cut' = cut
    BY <1>2 DEF WriteTemp
  <2> QED
    BY <2>3, <2>4, <2>5, StillReplaced
<1>3. ASSUME NEW w \in Callers, Rename(w) PROVE BeingReplaced'
  BY <1>0, <1>3 DEF Rename, Owns, BeingReplaced
<1>4. ASSUME NEW w \in Callers, OpenDirect(w) PROVE BeingReplaced'
  <2>1. CASE fd' = [fd EXCEPT ![w] = target'] /\ To(w, "direct")
    BY <2>1 DEF BeingReplaced, To, Typed
  <2>2. CASE To(w, "idle") /\ UNCHANGED <<files, target, fd>>
    <3>1. \A v \in Callers : pc[v] = "direct" => pc'[v] = "direct"
      BY <1>4, <2>2 DEF OpenDirect, To, Typed
    <3>2. cut' = cut
      BY <1>4 DEF OpenDirect
    <3> QED
      BY <2>2, <3>1, <3>2, StillReplaced
  <2> QED
    BY <1>4, <2>1, <2>2 DEF OpenDirect
<1>5. ASSUME NEW w \in Callers, WriteDirect(w) PROVE BeingReplaced'
  <2>1. PICK c \in Overlay(fd[w], merged[w]) \cup {Torn} :
          files' = With(fd[w], c) /\ (c.torn \/ cut => cut')
    BY <1>5, ContentsTyped DEF WriteDirect
  <2>2. c \in Contents /\ fd[w] \in 1..Fresh
    BY <1>0, <1>5, <2>1, ContentsTyped DEF WriteDirect, Overlay, Typed, Owns, Fresh
  <2>3. files'[fd[w]] = c /\ \A j \in 1..Len(files) : j # fd[w] => files'[j] = files[j]
    BY <1>0, <2>1, <2>2, OneInode
  <2>4. target' = target /\ fd' = fd /\ To(w, "idle")
    BY <1>5 DEF WriteDirect
  <2>5. CASE fd[w] = target
    BY <2>1, <2>3, <2>4, <2>5 DEF BeingReplaced
  <2>6. CASE fd[w] # target
    <3>1. \A v \in Callers : pc[v] = "direct" /\ fd[v] = target => pc'[v] = "direct"
      BY <2>4, <2>6 DEF To, Typed
    <3> QED
      BY <1>0, <2>1, <2>3, <2>4, <2>6, <3>1, StillReplaced
  <2> QED
    BY <2>5, <2>6
<1>6. ASSUME NEW w \in Callers, NothingToMerge(w) \/ Read(w) \/ RenameFails(w)
      PROVE  BeingReplaced'
  <2>1. UNCHANGED <<files, target, fd, cut>>
    BY <1>6 DEF NothingToMerge, Read, RenameFails
  <2>2. \A v \in Callers : pc[v] = "direct" => pc'[v] = "direct"
    BY <1>6 DEF NothingToMerge, Read, RenameFails, To, Typed
  <2> QED
    BY <2>1, <2>2, StillReplaced
<1>7. ASSUME NEW p \in Processes, Die(p) PROVE BeingReplaced'
  <2>1. UNCHANGED <<files, target, fd>> /\ (cut => cut')
    BY <1>7 DEF Die
  <2>2. \A v \in Callers : pc[v] = "direct" => cut' \/ pc'[v] = "direct"
    BY <1>7 DEF Die
  <2> QED
    BY <2>1, <2>2, StillReplaced
<1>8. ASSUME NEW p \in Processes, Restart(p) PROVE BeingReplaced'
  <2>1. UNCHANGED <<files, target, fd, cut>>
    BY <1>8 DEF Restart
  <2>2. \A v \in Callers : pc[v] = "direct" => pc'[v] = "direct"
    BY <1>8, OneCallerEach DEF Restart, OneCallerEach, Mine
  <2> QED
    BY <2>1, <2>2, StillReplaced
<1>9. CASE UNCHANGED vars
  BY <1>9 DEF vars, BeingReplaced
<1> QED
  BY <1>1, <1>2, <1>3, <1>4, <1>5, <1>6, <1>7, <1>8, <1>9 DEF Next, Step

\* The invariant holds throughout where every process merges in one thread.
THEOREM Inductive ==
  ASSUME OneCallerEach PROVE Spec => []Inv
<1>1. Init => Inv
  BY InitEstablishes
<1>2. Inv /\ [Next]_vars => Inv'
  <2> SUFFICES ASSUME Inv, [Next]_vars PROVE Inv'
    OBVIOUS
  <2>1. Typed /\ cut \in BOOLEAN
    BY TypeInParts DEF Inv
  <2>2. Typed' /\ cut' \in BOOLEAN
    BY <2>1, TypedKept, CutKept DEF Inv
  <2>3. TypeOK'
    BY <2>2, Zenon DEF TypeOK, Typed
  <2> QED
    BY <2>1, <2>3, OneCallerEach, NamesKept, OwnedKept, ReplacedKept DEF Inv
<1> QED
  BY <1>1, <1>2, PTL DEF Spec

\* A reader finds the progress file whole or absent, except while it is overwritten in
\* place or after that was cut short (atomic_write_json).
THEOREM TornFilesAreAccountedFor ==
  ASSUME OneCallerEach PROVE Spec => []TornOnlyInPlace
<1>1. Inv => TornOnlyInPlace
  BY DEF Inv, BeingReplaced, TornOnlyInPlace
<1> QED
  BY <1>1, Inductive, PTL

-----------------------------------------------------------------------------
(* A merge that nobody else's publication overlapped loses nothing. *)

Merging == {"open", "write", "rename", "openDirect", "direct"}

\* The file says what is known, if it is there and parses; nothing was known before.
Remembered ==
  /\ target = 0 => known = Nothing
  /\ target # 0 /\ ~files[target].torn => known = files[target].entries

\* What a thread renames is its merge; and until somebody publishes, or cuts the file
\* short, that is its state file laid over what is known.
UpToDate(w) ==
  /\ pc[w] = "rename" => files[fd[w]] = Whole(merged[w])
  /\ pc[w] \in Merging /\ w \notin stale /\ ~cut =>
       /\ merged[w] = Fold(known, StateFile[w])
       /\ pc[w] = "direct" => fd[w] = target /\ files[target].torn
AllUpToDate == \A w \in Callers : UpToDate(w)

MergeInv == Remembered /\ AllUpToDate

\* The files a step may change, by the thread that takes it.
LEMMA ChangesOneFile ==
  ASSUME OneCallerEach, Typed, NamesApart, Owned, NEW w \in Callers, Step(w)
  PROVE  /\ \A v \in Callers \ {w} : pc'[v] = pc[v] /\ fd'[v] = fd[v] /\ merged'[v] = merged[v]
         /\ \A v \in Callers \ {w} : pc[v] = "rename" => files'[fd[v]] = files[fd[v]]
         /\ target # 0 /\ pc[w] \notin {"openDirect", "direct"} => files'[target] = files[target]
         /\ target # 0 => target' # 0
         /\ pc[w] \notin {"rename", "openDirect"} => target' = target
         /\ cut => cut'
<1> USE CallersAssumption
<1>0. /\ Len(files) \in Nat /\ files \in Seq(Contents)
      /\ \A v \in Callers : Mine(v) \in Processes /\ temp[Mine(v)] \in 0..Len(files)
      /\ \A v \in Callers : fd[v] \in 0..Len(files) /\ Owns(v)
      /\ target \in 0..Len(files)
      /\ \A u, v \in Callers : Mine(u) = Mine(v) => u = v
  BY DEF Typed, Mine, Owned, OneCallerEach
<1>1. ASSUME NEW v \in Callers, pc[v] \in {"write", "rename"}
      PROVE  /\ fd[v] \in 1..Len(files) /\ fd[v] # target /\ temp[Mine(v)] = fd[v]
             /\ \A u \in Callers \ {v} : fd[v] # temp[Mine(u)]
             /\ \A u \in Callers \ {v} : pc[u] = "direct" => fd[v] # fd[u]
  BY <1>0, <1>1 DEF Owns, NamesApart, TempOf
<1>2. \A v \in Callers \ {w} : pc'[v] = pc[v] /\ fd'[v] = fd[v] /\ merged'[v] = merged[v]
  BY DEF Step, NothingToMerge, Read, OpenTemp, WriteTemp, Rename, RenameFails, OpenDirect,
     WriteDirect, To, Typed
<1>3. cut => cut'
  BY DEF Step, NothingToMerge, Read, OpenTemp, WriteTemp, Rename, RenameFails, OpenDirect,
     WriteDirect
<1>4. /\ pc[w] \notin {"rename", "openDirect"} => target' = target
      /\ target # 0 => target' # 0
  BY DEF Step, NothingToMerge, Read, OpenTemp, WriteTemp, Rename, RenameFails, OpenDirect,
     WriteDirect
<1>5. \/ files' = files
      \/ \E i \in 1..Fresh, c \in Contents :
           /\ files' = With(i, c)
           /\ pc[w] \notin {"openDirect", "direct"} => i # target
           /\ \A v \in Callers \ {w} : pc[v] = "rename" => fd[v] # i
  <2>1. CASE OpenTemp(w)
    <3> DEFINE i == IF TempOf(w) = 0 THEN Fresh ELSE TempOf(w)
    <3>1. i \in 1..Fresh /\ i # target
      BY <1>0 DEF TempOf, Fresh, NamesApart
    <3>2. \A v \in Callers \ {w} : pc[v] = "rename" => fd[v] # i
      BY <1>0, <1>1 DEF TempOf, Fresh
    <3>3. files' = files \/ files' = With(i, Torn)
      BY <2>1 DEF OpenTemp
    <3> HIDE DEF i
    <3> QED
      BY <3>1, <3>2, <3>3, ContentsTyped
  <2>2. CASE WriteTemp(w)
    <3>1. PICK c \in Overlay(fd[w], merged[w]) : files' = With(fd[w], c)
      BY <2>2 DEF WriteTemp
    <3>2. c \in Contents
      BY ContentsTyped DEF Overlay, Typed
    <3>3. pc[w] = "write"
      BY <2>2 DEF WriteTemp
    <3>4. fd[w] \in 1..Fresh /\ fd[w] # target
      BY <1>0, <1>1, <3>3 DEF Fresh
    <3>5. \A v \in Callers \ {w} : pc[v] = "rename" => fd[v] # fd[w]
      BY <1>1, <3>3
    <3> QED
      BY <3>1, <3>2, <3>4, <3>5
  <2>3. CASE OpenDirect(w)
    <3> DEFINE i == IF target = 0 THEN Fresh ELSE target
    <3>1. i \in 1..Fresh /\ pc[w] = "openDirect"
      BY <1>0, <2>3 DEF Fresh, OpenDirect
    <3>2. \A v \in Callers \ {w} : pc[v] = "rename" => fd[v] # i
      BY <1>0, <1>1 DEF Fresh
    <3>3. files' = files \/ files' = With(i, Torn)
      BY <2>3 DEF OpenDirect
    <3> HIDE DEF i
    <3> QED
      BY <3>1, <3>2, <3>3, ContentsTyped
  <2>4. CASE WriteDirect(w)
    <3>1. PICK c \in Overlay(fd[w], merged[w]) \cup {Torn} : files' = With(fd[w], c)
      BY <2>4 DEF WriteDirect
    <3>2. c \in Contents
      BY ContentsTyped DEF Overlay, Typed
    <3>3. pc[w] = "direct"
      BY <2>4 DEF WriteDirect
    <3>4. fd[w] \in 1..Fresh
      BY <1>0, <3>3 DEF Fresh, Owns
    <3>5. \A v \in Callers \ {w} : pc[v] = "rename" => fd[v] # fd[w]
      BY <1>1, <3>3
    <3> QED
      BY <3>1, <3>2, <3>3, <3>4, <3>5
  <2>5. CASE NothingToMerge(w) \/ Read(w) \/ Rename(w) \/ RenameFails(w)
    BY <2>5 DEF NothingToMerge, Read, Rename, RenameFails
  <2> QED
    BY <2>1, <2>2, <2>3, <2>4, <2>5 DEF Step
<1>6. /\ \A v \in Callers \ {w} : pc[v] = "rename" => files'[fd[v]] = files[fd[v]]
      /\ target # 0 /\ pc[w] \notin {"openDirect", "direct"} => files'[target] = files[target]
  <2>1. CASE files' = files
    BY <2>1
  <2>2. CASE files' # files
    <3>1. PICK i \in 1..Fresh, c \in Contents :
             /\ files' = With(i, c)
             /\ pc[w] \notin {"openDirect", "direct"} => i # target
             /\ \A v \in Callers \ {w} : pc[v] = "rename" => fd[v] # i
      BY <1>5, <2>2
    <3>2. \A j \in 1..Len(files) : j # i => files'[j] = files[j]
      BY <1>0, <3>1, OneInode
    <3>3. \A v \in Callers \ {w} : pc[v] = "rename" => fd[v] \in 1..Len(files) /\ fd[v] # i
      BY <1>1, <3>1
    <3>4. target # 0 => target \in 1..Len(files)
      BY <1>0
    <3> QED
      BY <3>1, <3>2, <3>3, <3>4
  <2> QED
    BY <2>1, <2>2
<1> QED
  BY <1>2, <1>3, <1>4, <1>6

\* Every step keeps the file and what is known of it in agreement.
LEMMA RememberedKept ==
  OneCallerEach /\ Typed /\ NamesApart /\ Owned /\ Remembered /\ [Next]_vars => Remembered'
<1> SUFFICES ASSUME OneCallerEach, Typed, NamesApart, Owned, Remembered, [Next]_vars
             PROVE  Remembered'
  OBVIOUS
<1>1. ASSUME NEW w \in Callers, Step(w) PROVE Remembered'
  <2>1. target # 0 => target' # 0
    BY <1>1, ChangesOneFile
  <2>2. CASE Remember
    BY <2>1, <2>2 DEF Remembered, Remember
  <2>3. CASE NothingToMerge(w) \/ Read(w) \/ OpenTemp(w) \/ RenameFails(w)
    <3>1. /\ pc[w] \in {"idle", "open", "rename"} /\ target' = target /\ known' = known
      BY <2>3 DEF NothingToMerge, Read, OpenTemp, RenameFails
    <3>2. target # 0 => files'[target] = files[target]
      BY <1>1, <3>1, ChangesOneFile
    <3> QED
      BY <3>1, <3>2 DEF Remembered
  <2> QED
    BY <1>1, <2>2, <2>3 DEF Step, WriteTemp, Rename, OpenDirect, WriteDirect
<1>2. ASSUME NEW p \in Processes, Die(p) \/ Restart(p) PROVE Remembered'
  BY <1>2 DEF Die, Restart, Remembered
<1>3. CASE UNCHANGED vars
  BY <1>3 DEF vars, Remembered
<1> QED
  BY <1>1, <1>2, <1>3 DEF Next

\* What another thread's step leaves as it is.
LEMMA OthersUpToDate ==
  ASSUME OneCallerEach, Typed, NamesApart, Owned, MergeInv, NEW w \in Callers, Step(w),
         NEW v \in Callers \ {w}
  PROVE  UpToDate(v)'
<1>1. /\ pc'[v] = pc[v] /\ fd'[v] = fd[v] /\ merged'[v] = merged[v]
      /\ pc[v] = "rename" => files'[fd[v]] = files[fd[v]]
      /\ cut => cut'
      /\ UpToDate(v)
  BY ChangesOneFile DEF MergeInv, AllUpToDate
<1>2. pc[v] = "rename" => files'[fd[v]] = Whole(merged[v])
  BY <1>1 DEF UpToDate
<1>3. ASSUME pc[v] \in Merging, v \notin stale', ~cut'
      PROVE  /\ merged[v] = Fold(known', StateFile[v])
             /\ pc[v] = "direct" => fd[v] = target' /\ files'[target'].torn
  <2>1. CASE Outdates(w)
    BY <1>3, <2>1 DEF Outdates, Merging
  <2>2. CASE ~Outdates(w)
    <3>1. v \notin stale /\ (pc[w] \notin {"rename", "openDirect", "direct"} \/ target' = target)
      BY <1>3, <2>2 DEF Step, NothingToMerge, Read, OpenTemp, WriteTemp, Rename, RenameFails,
         OpenDirect, WriteDirect
    <3>2. target' = target /\ (target # 0 => files'[target] = files[target])
      <4>1. CASE pc[w] \in {"openDirect", "direct"}
        BY <2>2, <4>1 DEF Step, NothingToMerge, Read, OpenTemp, WriteTemp, Rename,
           RenameFails, OpenDirect, WriteDirect
      <4>2. CASE pc[w] \notin {"openDirect", "direct"}
        BY <3>1, <4>2, ChangesOneFile
      <4> QED
        BY <4>1, <4>2
    <3>3. known' = known
      <4>1. CASE Remember
        BY <3>2, <4>1 DEF Remember, MergeInv, Remembered
      <4>2. CASE UNCHANGED known
        BY <4>2
      <4> QED
        BY <4>1, <4>2 DEF Step, NothingToMerge, Read, OpenTemp, WriteTemp, Rename,
           RenameFails, OpenDirect, WriteDirect
    <3>4. /\ merged[v] = Fold(known, StateFile[v])
          /\ pc[v] = "direct" => fd[v] = target /\ files[target].torn
      BY <1>1, <1>3, <3>1 DEF UpToDate
    <3>5. pc[v] = "direct" => target # 0
      BY <3>4 DEF Owned, Owns
    <3> QED
      BY <3>2, <3>3, <3>4, <3>5
  <2> QED
    BY <2>1, <2>2
<1> QED
  BY <1>1, <1>2, <1>3 DEF UpToDate

\* What a thread's own step makes of its merge.
LEMMA OwnUpToDate ==
  ASSUME OneCallerEach, Typed, NamesApart, Owned, BeingReplaced, MergeInv,
         NEW w \in Callers, Step(w)
  PROVE  UpToDate(w)'
<1> USE CallersAssumption
<1>0. /\ Len(files) \in Nat /\ files \in Seq(Contents)
      /\ fd[w] \in 0..Len(files) /\ target \in 0..Len(files) /\ Owns(w) /\ UpToDate(w)
  BY DEF Typed, Owned, MergeInv, AllUpToDate
<1>1. CASE NothingToMerge(w)
  BY <1>1 DEF NothingToMerge, UpToDate, Merging
<1>2. CASE Read(w)
  <2>1. /\ pc'[w] = "open" /\ merged'[w] = Fold(Existing, StateFile[w])
        /\ known' = known /\ cut' = cut
        /\ w \notin stale' => \A v \in Callers : pc[v] # "direct"
    BY <1>2 DEF Read, To, Typed
  <2>2. w \notin stale' /\ ~cut' => Existing = known
    BY <2>1 DEF Existing, BeingReplaced, MergeInv, Remembered
  <2> QED
    BY <2>1, <2>2 DEF UpToDate
<1>3. CASE OpenTemp(w)
  <2>1. /\ pc[w] = "open" /\ pc'[w] \in {"write", "openDirect"}
        /\ merged' = merged /\ known' = known /\ cut' = cut /\ stale' = stale
    BY <1>3 DEF OpenTemp, To, Typed
  <2> QED
    BY <1>0, <2>1 DEF UpToDate, Merging
<1>4. CASE WriteTemp(w)
  <2>1. PICK c \in Overlay(fd[w], merged[w]) : files' = With(fd[w], c)
    BY <1>4 DEF WriteTemp
  <2>2. fd[w] \in 1..Fresh /\ files[fd[w]].torn
    BY <1>0, <1>4 DEF WriteTemp, Owns, Fresh
  <2>3. c = Whole(merged[w]) /\ c \in Contents
    BY <2>1, <2>2, ContentsTyped DEF Overlay, Typed
  <2>4. files'[fd[w]] = Whole(merged[w])
    BY <1>0, <2>1, <2>2, <2>3, OneInode
  <2>5. /\ pc[w] = "write" /\ pc'[w] \in {"rename", "idle"} /\ fd' = fd
        /\ merged' = merged /\ cut' = cut /\ stale' = stale /\ target' = target /\ Remember
    BY <1>4 DEF WriteTemp, To, Typed
  <2>6. target # 0 => files'[target] = files[target]
    BY <2>5, ChangesOneFile
  <2>7. known' = known
    BY <2>5, <2>6 DEF Remember, MergeInv, Remembered
  <2> QED
    BY <1>0, <2>4, <2>5, <2>7 DEF UpToDate, Merging
<1>5. CASE Rename(w) \/ WriteDirect(w)
  <2>1. pc'[w] = "idle"
    BY <1>5 DEF Rename, WriteDirect, To, Typed
  <2> QED
    BY <2>1 DEF UpToDate, Merging
<1>6. CASE RenameFails(w)
  <2>1. /\ pc[w] = "rename" /\ pc'[w] = "openDirect"
        /\ merged' = merged /\ known' = known /\ cut' = cut /\ stale' = stale
    BY <1>6 DEF RenameFails, To, Typed
  <2> QED
    BY <1>0, <2>1 DEF UpToDate, Merging
<1>7. CASE OpenDirect(w)
  <2> DEFINE i == IF target = 0 THEN Fresh ELSE target
  <2>1. CASE /\ files' = With(i, Torn) /\ target' = i /\ fd' = [fd EXCEPT ![w] = i]
             /\ To(w, "direct") /\ Outdates(w)
    <3>1. i \in 1..Fresh
      BY <1>0 DEF Fresh
    <3>2. files'[i] = Torn
      BY <1>0, <2>1, <3>1, OneInode, ContentsTyped
    <3>3. files'[target'].torn /\ fd'[w] = target'
      BY <2>1, <3>2, ContentsTyped DEF Typed
    <3>4. /\ pc[w] = "openDirect" /\ pc'[w] = "direct" /\ merged' = merged /\ cut' = cut
          /\ (w \notin stale' => w \notin stale) /\ Remember
      BY <1>7, <2>1 DEF OpenDirect, To, Typed, Outdates
    <3>5. known' = known
      BY <3>3, <3>4 DEF Remember
    <3> QED
      BY <1>0, <3>3, <3>4, <3>5 DEF UpToDate, Merging
  <2>2. CASE To(w, "idle")
    <3>1. pc'[w] = "idle"
      BY <2>2 DEF To, Typed
    <3> QED
      BY <3>1 DEF UpToDate, Merging
  <2> QED
    BY <1>7, <2>1, <2>2 DEF OpenDirect
<1> QED
  BY <1>1, <1>2, <1>3, <1>4, <1>5, <1>6, <1>7 DEF Step

\* Every step keeps both parts.
LEMMA MergeKept ==
  OneCallerEach /\ Inv /\ MergeInv /\ [Next]_vars => MergeInv'
<1> SUFFICES ASSUME OneCallerEach, Inv, MergeInv, [Next]_vars PROVE MergeInv'
  OBVIOUS
<1>0. Typed /\ NamesApart /\ Owned /\ BeingReplaced
  BY TypeInParts DEF Inv
<1>1. Remembered'
  BY <1>0, RememberedKept DEF MergeInv
<1>2. ASSUME NEW w \in Callers, Step(w) PROVE AllUpToDate'
  <2>1. ASSUME NEW v \in Callers PROVE UpToDate(v)'
    BY <1>0, <1>2, OthersUpToDate, OwnUpToDate
  <2> QED
    BY <2>1 DEF AllUpToDate
<1>3. ASSUME NEW p \in Processes, Die(p) \/ Restart(p) PROVE AllUpToDate'
  <2>1. /\ UNCHANGED <<files, fd, merged, target, stale, known>> /\ (cut => cut')
        /\ \A v \in Callers : pc'[v] \in {pc[v], "dead", "idle"}
    <3>1. CASE Die(p)
      BY <3>1 DEF Die
    <3>2. CASE Restart(p)
      BY <3>2 DEF Restart
    <3> QED
      BY <1>3, <3>1, <3>2
  <2>2. ASSUME NEW v \in Callers PROVE UpToDate(v)'
    <3>1. UpToDate(v)
      BY DEF MergeInv, AllUpToDate
    <3>2. pc'[v] \in {pc[v], "dead", "idle"}
      BY <2>1
    <3> QED
      BY <2>1, <3>1, <3>2 DEF UpToDate, Merging
  <2> QED
    BY <2>2 DEF AllUpToDate
<1>4. ASSUME UNCHANGED vars PROVE AllUpToDate'
  <2>1. ASSUME NEW v \in Callers PROVE UpToDate(v)'
    <3>1. UpToDate(v)
      BY DEF MergeInv, AllUpToDate
    <3> QED
      BY <1>4, <3>1 DEF vars, UpToDate
  <2> QED
    BY <2>1 DEF AllUpToDate
<1>5. AllUpToDate'
  <2>1. CASE \E w \in Callers : Step(w)
    BY <1>2, <2>1
  <2>2. CASE \E p \in Processes : Die(p) \/ Restart(p)
    BY <1>3, <2>2
  <2> QED
    BY <1>4, <2>1, <2>2 DEF Next
<1> QED
  BY <1>1, <1>5 DEF MergeInv

\* The file after a publication is the publisher's merge.
LEMMA PublishedIsMerged ==
  ASSUME OneCallerEach, Inv, MergeInv, [Next]_vars, NEW w \in Callers, Publishes(w),
         w \notin stale, ~cut'
  PROVE  Existing' = Fold(known, StateFile[w])
<1>0. /\ Typed /\ NamesApart /\ Owned /\ Owns(w) /\ UpToDate(w)
      /\ faults \in Nat /\ Len(files) \in Nat /\ files \in Seq(Contents)
      /\ fd[w] \in 0..Len(files)
  BY TypeInParts, CallersAssumption DEF Inv, Owned, MergeInv, AllUpToDate, Typed
<1>1. pc[w] \in {"rename", "direct"} /\ pc'[w] = "idle" /\ faults' = faults
  BY DEF Publishes
<1>2. Step(w)
  <2>1. ~ UNCHANGED vars
    BY <1>1 DEF vars
  <2>2. \A p \in Processes : ~Die(p) /\ ~Restart(p)
    <3>1. ~Fault
      BY <1>0, <1>1 DEF Fault
    <3>2. ASSUME NEW p \in Processes, Restart(p) PROVE FALSE
      <4>1. Mine(w) = p
        BY <1>1, <3>2 DEF Restart
      <4>2. PICK v \in Callers : Mine(v) = p /\ pc[v] = "dead"
        BY <3>2 DEF Restart
      <4>3. v = w
        BY <4>1, <4>2, OneCallerEach DEF OneCallerEach, Mine
      <4> QED
        BY <1>1, <4>2, <4>3
    <3> QED
      BY <3>1, <3>2 DEF Die
  <2>3. PICK v \in Callers : Step(v)
    BY <2>1, <2>2 DEF Next
  <2>4. v # w => pc'[w] = pc[w]
    BY <1>0, <2>3, ChangesOneFile, OneCallerEach
  <2> QED
    BY <1>1, <2>3, <2>4
<1>3. cut => cut'
  BY <1>0, <1>2, ChangesOneFile, OneCallerEach
<1>4. /\ merged[w] = Fold(known, StateFile[w])
      /\ pc[w] = "rename" => files[fd[w]] = Whole(merged[w])
      /\ pc[w] = "direct" => fd[w] = target /\ files[target].torn
  BY <1>0, <1>1, <1>3 DEF UpToDate, Merging
<1>5. target' # 0 /\ files'[target'] = Whole(merged[w])
  <2>1. CASE pc[w] = "rename"
    <3>1. Rename(w)
      BY <1>1, <1>2, <2>1, <1>0 DEF Step, NothingToMerge, Read, OpenTemp, WriteTemp,
         RenameFails, OpenDirect, WriteDirect, To, Typed
    <3>2. target' = fd[w] /\ fd[w] # 0 /\ files' = files
      BY <1>0, <2>1, <3>1 DEF Rename, Owns
    <3> QED
      BY <1>4, <2>1, <3>2
  <2>2. CASE pc[w] = "direct"
    <3>1. WriteDirect(w)
      BY <1>2, <2>2 DEF Step, NothingToMerge, Read, OpenTemp, WriteTemp, Rename,
         RenameFails, OpenDirect
    <3>2. ~Fault
      BY <1>0, <1>1 DEF Fault
    <3>3. PICK c \in Overlay(fd[w], merged[w]) : files' = With(fd[w], c) /\ target' = target
      BY <3>1, <3>2 DEF WriteDirect
    <3>4. c = Whole(merged[w]) /\ c \in Contents
      BY <1>0, <1>4, <2>2, <3>3, ContentsTyped DEF Overlay, Typed
    <3>5. fd[w] \in 1..Fresh
      BY <1>0, <2>2 DEF Owns, Fresh
    <3>6. files'[fd[w]] = Whole(merged[w])
      BY <1>0, <3>3, <3>4, <3>5, OneInode
    <3> QED
      BY <1>4, <2>2, <3>3, <3>5, <3>6 DEF Fresh
  <2> QED
    BY <1>1, <2>1, <2>2
<1>6. Existing' = merged[w]
  BY <1>5 DEF Existing, Whole
<1> QED
  BY <1>4, <1>6

\* A merge that no publication overlapped and that ends well leaves every entry the
\* file had and every entry of its state file (merge_workstream_state_into_progress).
THEOREM LoneMergesLoseNothing ==
  ASSUME OneCallerEach PROVE Spec => LoneMergeLosesNothing
<1> DEFINE Kept == \A w \in Callers : Publishes(w) /\ w \notin stale /\ ~cut' =>
                     \A s \in Streams : known[s] # 0 \/ StateFile[w][s] # 0 => Existing'[s] # 0
<1>1. Init => MergeInv
  BY DEF Init, MergeInv, Remembered, AllUpToDate, UpToDate, Merging
<1>2. Inv /\ MergeInv /\ [Next]_vars => MergeInv'
  BY MergeKept, OneCallerEach
<1>3. Inv /\ MergeInv /\ [Next]_vars => [Kept]_vars
  <2> SUFFICES ASSUME Inv, MergeInv, [Next]_vars, NEW w \in Callers, Publishes(w),
                      w \notin stale, ~cut', NEW s \in Streams,
                      known[s] # 0 \/ StateFile[w][s] # 0
               PROVE  Existing'[s] # 0
    OBVIOUS
  <2>1. Existing' = Fold(known, StateFile[w])
    BY PublishedIsMerged, OneCallerEach
  <2> QED
    BY <2>1 DEF Fold
<1>4. (Spec => [][Kept]_vars) => (Spec => LoneMergeLosesNothing)
  BY DEF LoneMergeLosesNothing
<1> HIDE DEF Kept
<1> QED
  BY <1>1, <1>2, <1>3, <1>4, Inductive, OneCallerEach, PTL DEF Spec

-----------------------------------------------------------------------------
(* The files a reader believes.                                                *)

\* The checks are made in order, so there is a first one of those that fail.
LEMMA FirstOfNine ==
  ASSUME NEW I, I \subseteq 1..9, I # {}
  PROVE  (CHOOSE i \in I : \A j \in I : i <= j) \in 1..9
<1>1. \E i \in I : \A j \in I : i <= j
  <2>1. CASE 1 \in I
    BY <2>1
  <2>2. CASE 1 \notin I /\ 2 \in I
    BY <2>2
  <2>3. CASE I \cap {1, 2} = {} /\ 3 \in I
    BY <2>3
  <2>4. CASE I \cap 1..3 = {} /\ 4 \in I
    BY <2>4
  <2>5. CASE I \cap 1..4 = {} /\ 5 \in I
    BY <2>5
  <2>6. CASE I \cap 1..5 = {} /\ I \cap 6..9 # {}
    <3>1. CASE 6 \in I
      BY <2>6, <3>1
    <3>2. CASE 6 \notin I /\ 7 \in I
      BY <2>6, <3>2
    <3>3. CASE 6 \notin I /\ 7 \notin I /\ 8 \in I
      BY <2>6, <3>3
    <3>4. CASE I \cap 6..8 = {} /\ 9 \in I
      BY <2>6, <3>4
    <3> QED
      BY <2>6, <3>1, <3>2, <3>3, <3>4
  <2>7. PICK k \in I : k \in 1..9
    OBVIOUS
  <2>8. k \in {1, 2, 3, 4, 5} \/ k \in 6..9
    BY <2>7
  <2> QED
    BY <2>1, <2>2, <2>3, <2>4, <2>5, <2>6, <2>8
<1> QED
  BY <1>1

\* A progress file is believed only if what it says may be true (validate_progress_file):
\* whatever its name, its payload, the status before it, the clock and the processes of
\* the machine, it is named for its recipe and its process, was written lately, follows
\* from the status before it, and its process is there, but for the pids kill reads as
\* none or as a group. Process numbers are natural ones, and groups are not numbered 0.
THEOREM BelievedFilesAreTrue ==
  ASSUME NEW stem, NEW pid \in Nat, NEW payload, payload.time \in Int, NEW previous, NEW now \in Int,
         MaxAge \in Nat, MaxDrift \in Nat,
         NEW alive \in SUBSET Nat, NEW groups \in SUBSET (Nat \ {0})
  PROVE  Rules!BelievedFilesMayBeTrue([stem |-> stem, pid |-> pid], payload, previous, now, alive, groups)
<1> DEFINE file == [stem |-> stem, pid |-> pid]
           Fails(i) ==
             CASE i = 1 -> ~Rules!ValidateFilename(file)
               [] i = 2 -> payload.stepLength > MaxStepName
               [] i = 3 -> payload.time <= 0
               [] i = 4 -> payload.pid \notin {{}, {file.pid}}
               [] i = 5 -> \E n \in payload.recipe : Rules!SafeProgressName(n) # file.stem
               [] i = 6 -> payload.time - now > MaxDrift
               [] i = 7 -> now - payload.time > MaxAge
               [] i = 8 -> ~Rules!IsPidAlive(file.pid, alive, groups)
               [] i = 9 -> \E s \in previous : ~Rules!ValidateTransition(s, payload.status)
           failed == {i \in 1..9 : Fails(i)}
           first == CHOOSE i \in failed : \A j \in failed : i <= j
           errors == <<"BadFilename", "StepNameTooLong", "MissingField", "PidMismatch", "BadFilename",
                       "FutureDated", "Stale", "PidNotAlive", "InvalidTransition">>
           out == Rules!ValidateProgressFile(file, payload, previous, now, alive, groups)
<1>1. out = IF failed = {} THEN "" ELSE errors[first]
  BY Zenon DEF Rules!ValidateProgressFile
<1>2. SUFFICES ASSUME out = ""
      PROVE  /\ payload.pid \subseteq {file.pid}
             /\ \A n \in payload.recipe : Rules!ProgressFilePath(n, file.pid) = file
             /\ payload.time \in (now - MaxAge)..(now + MaxDrift)
             /\ previous \cap Rules!Terminal \subseteq {payload.status}
             /\ file.pid \in alive \/ file.pid = 0 \/ file.pid >= 2^(PidBits - 1)
  BY Zenon DEF Rules!BelievedFilesMayBeTrue
<1>3. failed = {}
  <2> SUFFICES ASSUME failed # {} PROVE FALSE
    OBVIOUS
  <2>1. first \in 1..9
    <3>1. failed \subseteq 1..9
      OBVIOUS
    <3> HIDE DEF failed
    <3> QED
      BY <3>1, FirstOfNine
  <2>2. errors[first] = ""
    BY <1>1, <1>2
  <2> HIDE DEF failed, first, out
  <2>3. \A i \in 1..9 : errors[i] # ""
    <3> SUFFICES ASSUME NEW i \in 1..9 PROVE errors[i] # ""
      OBVIOUS
    <3>1. i \in {1, 2, 3, 4, 5, 6, 7, 8, 9}
      OBVIOUS
    <3>2. /\ errors[1] # "" /\ errors[2] # "" /\ errors[3] # "" /\ errors[4] # "" /\ errors[5] # ""
          /\ errors[6] # "" /\ errors[7] # "" /\ errors[8] # "" /\ errors[9] # ""
      OBVIOUS
    <3> HIDE DEF errors
    <3> QED
      BY <3>1, <3>2
  <2> QED
    BY <2>1, <2>2, <2>3
<1>4. \A i \in 1..9 : ~Fails(i)
  <2> HIDE DEF Fails
  <2> QED
    BY <1>3
<1>5. payload.pid \in {{}, {file.pid}}
  BY <1>4
<1>6. \A n \in payload.recipe : Rules!SafeProgressName(n) = file.stem
  BY <1>4
<1>7. payload.time - now <= MaxDrift /\ now - payload.time <= MaxAge
  BY <1>4
<1>8. Rules!IsPidAlive(file.pid, alive, groups)
  BY <1>4
<1>9. \A s \in previous : Rules!ValidateTransition(s, payload.status)
  BY <1>4
<1> HIDE DEF Fails, failed, first, errors, out
<1>10. \A n \in payload.recipe : Rules!ProgressFilePath(n, file.pid) = file
  BY <1>6 DEF Rules!ProgressFilePath
<1>11. payload.time \in (now - MaxAge)..(now + MaxDrift)
  BY <1>7
<1>12. previous \cap Rules!Terminal \subseteq {payload.status}
  BY <1>9 DEF Rules!ValidateTransition, Rules!ValidTransitions, Rules!Terminal
<1>13. file.pid \in alive \/ file.pid = 0 \/ file.pid >= 2^(PidBits - 1)
  <2>1. SUFFICES ASSUME ~(file.pid >= 2^(PidBits - 1)) PROVE pid \in alive \/ pid = 0
    OBVIOUS
  <2>2. Rules!Signed(file.pid) = pid
    BY <2>1, Zenon DEF Rules!Signed
  <2>3. pid \in alive \cup {0, -1} \cup {-g : g \in groups}
    BY <1>8, <2>2, Zenon DEF Rules!IsPidAlive
  <2> QED
    BY <2>3
<1> QED
  BY <1>5, <1>10, <1>11, <1>12, <1>13
-----------------------------------------------------------------------------
(* Recipe texts: how the string of a recipe is decoded. The decoders look    *)
(* ahead, so their functions go from the end of the text to its start.       *)

\* A set of natural numbers that is not empty has a least one.
LEMMA Smallest ==
  ASSUME NEW T, T \subseteq Nat, T # {}
  PROVE  \E x \in T : \A y \in T : x <= y
<1> DEFINE R == {ss \in Nat \X Nat : ss[1] < ss[2]}
<1>1. IsWellFoundedOn(R, Nat)
  BY NatLessThanWellFounded, Zenon DEF OpToRel
<1>2. PICK x \in T : \A y \in T : <<y, x>> \notin R
  <2> HIDE DEF R
  <2> QED
    BY <1>1, WFMin
<1>3. ASSUME NEW y \in T PROVE x <= y
  <2>1. <<y, x>> \in Nat \X Nat
    OBVIOUS
  <2> QED
    BY <1>2, <2>1
<1> QED
  BY <1>3

\* The places of a text and those behind its end that a decoder looks at.
Places6(t) == 1..(Len(t) + 6)

\* A function each of whose values follows from the later ones.
Backward(f, G, m, V) == f \in [1..m -> V] /\ \A n \in 1..m : f[n] = G[n][f]

\* There is one.
LEMMA BackwardExists ==
  ASSUME NEW V, V # {}, NEW m \in Nat, NEW G \in [1..m -> [[1..m -> V] -> V]],
         \A n \in 1..m, f, g \in [1..m -> V] :
           (\A k \in (n + 1)..m : f[k] = g[k]) => G[n][f] = G[n][g]
  PROVE  \E f : Backward(f, G, m, V)
<1> DEFINE F == [1..m -> V]
           Upto(k, f) == f \in F /\ \A n \in 1..m : n > m - k => f[n] = G[n][f]
           T == {k \in Nat : k <= m /\ ~ \E f : Upto(k, f)}
<1>1. T = {}
  <2> SUFFICES ASSUME T # {} PROVE FALSE
    OBVIOUS
  <2>1. PICK k \in T : \A y \in T : k <= y
    <3>1. T \subseteq Nat
      OBVIOUS
    <3> HIDE DEF T
    <3> QED
      BY <3>1, Smallest
  <2>2. k # 0
    <3>1. PICK v : v \in V
      OBVIOUS
    <3>2. [n \in 1..m |-> v] \in F
      BY <3>1
    <3>3. \A n \in 1..m : ~(n > m - 0)
      OBVIOUS
    <3>4. Upto(0, [n \in 1..m |-> v])
      BY <3>2, <3>3, Zenon
    <3>5. 0 \notin T
      BY <3>4
    <3> QED
      BY <2>1, <3>5, Zenon
  <2>3. k - 1 \in Nat /\ k - 1 <= m /\ k - 1 \notin T
    <3>1. k \in Nat /\ k <= m
      <4> HIDE DEF Upto
      <4> QED
        BY <2>1
    <3>2. k - 1 \in Nat /\ k - 1 <= m /\ ~(k <= k - 1)
      BY <2>2, <3>1
    <3> HIDE DEF T
    <3> QED
      BY <2>1, <3>2
  <2>4. PICK f : Upto(k - 1, f)
    <3> HIDE DEF Upto
    <3> QED
      BY <2>3
  <2> DEFINE n == m - k + 1
             g == [f EXCEPT ![n] = G[n][f]]
  <2>5. n \in 1..m /\ k \in Nat
    BY <2>1, <2>2
  <2>6. G[n][f] \in V /\ f \in F
    BY <2>4, <2>5
  <2>7. g \in F /\ g[n] = G[n][f] /\ \A i \in 1..m : i # n => g[i] = f[i]
    BY <2>5, <2>6
  <2> HIDE DEF g
  <2>8. ASSUME NEW i \in 1..m, i > m - k PROVE g[i] = G[i][g]
    <3>1. \A j \in (i + 1)..m : f[j] = g[j]
      BY <2>5, <2>7, <2>8
    <3>2. G[i][f] = G[i][g]
      BY <2>6, <2>7, <3>1
    <3>3. CASE i = n
      BY <2>7, <3>2, <3>3
    <3>4. CASE i # n
      <4>1. i > m - (k - 1)
        BY <2>5, <2>8, <3>4
      <4>2. f[i] = G[i][f]
        BY <2>4, <4>1
      <4> QED
        BY <2>7, <3>2, <3>4, <4>2
    <3> QED
      BY <3>3, <3>4
  <2>9. Upto(k, g)
    BY <2>7, <2>8
  <2> QED
    BY <2>1, <2>9
<1>2. PICK f : Upto(m, f)
  <2>1. m \notin T
    BY <1>1
  <2> HIDE DEF Upto
  <2> QED
    BY <2>1
<1>3. Backward(f, G, m, V)
  BY <1>2 DEF Backward
<1> QED
  BY <1>3

\* A claim that holds behind the end of a text, and at each place if it holds at all later
\* ones, holds everywhere. X are the places where it does not hold.
LEMMA NoLastPlace ==
  ASSUME NEW m \in Nat, NEW X, X \subseteq 1..m,
         \A n \in X : \E k \in X : k > n
  PROVE  X = {}
<1> SUFFICES ASSUME X # {} PROVE FALSE
  OBVIOUS
<1> DEFINE T == {m - n : n \in X}
<1>1. PICK x \in T : \A y \in T : x <= y
  <2>1. T \subseteq Nat /\ T # {}
    <3>1. \A n \in X : m - n \in Nat
      OBVIOUS
    <3> QED
      BY <3>1
  <2> HIDE DEF T
  <2> QED
    BY <2>1, Smallest
<1>2. PICK n \in X : x = m - n
  OBVIOUS
<1>3. PICK k \in X : k > n
  OBVIOUS
<1>4. m - k \in T /\ m - k < m - n
  BY <1>2, <1>3
<1> HIDE DEF T
<1> QED
  BY <1>1, <1>2, <1>3, <1>4

\* The symbols a decoder writes, and what it makes of a text.
Written(S) == S \cup {"escaped", "plain", "pair", "\\", "n", "u", ""}
Readings(S) == [ok : {TRUE}, s : Seq(Written(S))] \cup {Doc!Failed}

\* What one place makes of what the later ones make.
YamlAt(t, y, n) ==
  LET e == Doc!Symbol(t, n + 1)
  IN  IF n > Len(t) THEN Doc!Chars(<<>>)
      ELSE IF t[n] # "\\" THEN Doc!Then(<<t[n]>>, y[n + 1])
      ELSE IF e \in {"\\", "n"} THEN Doc!Then(<<"escaped", e>>, y[n + 2])
      ELSE IF Doc!Plain(t, n) THEN Doc!Then(<<"plain">>, y[n + 3]) ELSE Doc!Failed
JsonAt(t, j, n) ==
  LET e == Doc!Symbol(t, n + 1)
  IN  IF n > Len(t) THEN Doc!Chars(<<>>)
      ELSE IF t[n] # "\\" THEN Doc!Then(<<t[n]>>, j[n + 1])
      ELSE IF e \in {"\\", "n"} THEN Doc!Then(<<"escaped", e>>, j[n + 2])
      ELSE IF Doc!Plain(t, n) THEN Doc!Then(<<"plain">>, j[n + 3])
      ELSE IF Doc!Pair(t, n) THEN Doc!Then(<<"pair">>, j[n + 6]) ELSE Doc!Failed
Utf8At(t, p, n) ==
  IF n > Len(t) THEN <<>>
  ELSE IF t[n] # "\\" THEN <<t[n]>> \o p[n + 1]
  ELSE IF Doc!Escape(t, n, "HIGH") THEN <<"pair">> \o p[n + 6]
  ELSE <<t[n], Doc!Symbol(t, n + 1)>> \o p[n + 2]

YamlOf(t, S, y) == y \in [Places6(t) -> Readings(S)] /\ \A n \in Places6(t) : y[n] = YamlAt(t, y, n)
JsonOf(t, S, j) == j \in [Places6(t) -> Readings(S)] /\ \A n \in Places6(t) : j[n] = JsonAt(t, j, n)
Utf8Of(t, S, p) == p \in [Places6(t) -> Seq(Written(S))] /\ \A n \in Places6(t) : p[n] = Utf8At(t, p, n)

LEMMA ThenReads ==
  ASSUME NEW S, NEW s \in Seq(Written(S)), NEW d \in Readings(S)
  PROVE  Doc!Then(s, d) \in Readings(S) /\ Doc!Failed \in Readings(S) /\ Doc!Chars(<<>>) \in Readings(S)
<1>1. d.ok => d.s \in Seq(Written(S))
  <2>1. CASE d = Doc!Failed
    BY <2>1 DEF Doc!Failed
  <2>2. CASE d \in [ok : {TRUE}, s : Seq(Written(S))]
    BY <2>2
  <2> QED
    BY <2>1, <2>2 DEF Readings
<1>2. d.ok => s \o d.s \in Seq(Written(S))
  BY <1>1
<1>3. \A u \in Seq(Written(S)) : Doc!Chars(u) \in Readings(S)
  BY DEF Readings, Doc!Chars
<1>4. <<>> \in Seq(Written(S))
  OBVIOUS
<1> QED
  BY <1>2, <1>3, <1>4, Zenon DEF Doc!Then, Readings

\* What a place writes is written.
LEMMA Symbols ==
  ASSUME NEW S, NEW t \in Seq(S), NEW n \in 1..Len(t)
  PROVE  /\ <<t[n]>> \in Seq(Written(S)) /\ <<"plain">> \in Seq(Written(S)) /\ <<"pair">> \in Seq(Written(S))
         /\ <<t[n], Doc!Symbol(t, n + 1)>> \in Seq(Written(S))
         /\ Doc!Symbol(t, n + 1) \in {"\\", "n"} => <<"escaped", Doc!Symbol(t, n + 1)>> \in Seq(Written(S))
<1> DEFINE W == Written(S)
<1>1. t[n] \in W /\ "plain" \in W /\ "pair" \in W /\ "escaped" \in W /\ "\\" \in W /\ "n" \in W
  <2>1. t[n] \in S
    OBVIOUS
  <2> QED
    BY <2>1, Zenon DEF Written
<1>2. Doc!Symbol(t, n + 1) \in W
  <2>1. Doc!Symbol(t, n + 1) = IF n + 1 \in 1..Len(t) THEN t[n + 1] ELSE ""
    BY Zenon DEF Doc!Symbol
  <2>2. n + 1 \in 1..Len(t) => t[n + 1] \in S
    OBVIOUS
  <2>3. "" \in W /\ S \subseteq W
    BY DEF Written
  <2> QED
    BY <2>1, <2>2, <2>3, Zenon
<1> HIDE DEF W
<1>3. \A x, y \in W : <<x>> \in Seq(W) /\ <<x, y>> \in Seq(W)
  OBVIOUS
<1> QED
  BY <1>1, <1>2, <1>3, Zenon DEF W

LEMMA YamlExists ==
  ASSUME NEW S, NEW t \in Seq(S)
  PROVE  \E y : YamlOf(t, S, y) /\ Doc!YamlString(t) = y[1]
<1> DEFINE m == Len(t) + 6
           V == Readings(S)
           F == [1..m -> V]
           G == [n \in 1..m |-> [f \in F |-> YamlAt(t, f, n)]]
           Is(f) == f = [n \in 1..m |-> YamlAt(t, f, n)]
<1>0. m \in Nat /\ Len(t) \in Nat /\ V # {}
  <2>1. Doc!Failed \in V
    BY Zenon DEF Readings
  <2> QED
    BY <2>1
<1>1. ASSUME NEW n \in 1..m, NEW f, \A k \in (n + 1)..m : f[k] \in V PROVE YamlAt(t, f, n) \in V
  <2>1. CASE n > Len(t)
    <3>1. YamlAt(t, f, n) = Doc!Chars(<<>>)
      BY <2>1 DEF YamlAt
    <3> QED
      BY <3>1, ThenReads DEF Readings, Doc!Chars
  <2>2. CASE ~(n > Len(t))
    <3>0. n \in 1..Len(t) /\ n + 1 \in (n + 1)..m /\ n + 2 \in (n + 1)..m /\ n + 3 \in (n + 1)..m
      BY <1>0, <2>2
    <3>1. f[n + 1] \in V /\ f[n + 2] \in V /\ f[n + 3] \in V
      BY <1>1, <3>0, Zenon
    <3> HIDE DEF V, m
    <3>2. \A s \in Seq(Written(S)), v \in V : Doc!Then(s, v) \in V /\ Doc!Failed \in V
      BY ThenReads, Zenon DEF V
    <3> QED
      BY <2>2, <3>0, <3>1, <3>2, Symbols, Zenon DEF YamlAt
  <2> QED
    BY <2>1, <2>2
<1>2. ASSUME NEW n \in 1..m, NEW f \in F, NEW g \in F, \A k \in (n + 1)..m : f[k] = g[k]
      PROVE  YamlAt(t, f, n) = YamlAt(t, g, n)
  <2>1. CASE n > Len(t)
    BY <2>1, Zenon DEF YamlAt
  <2>2. CASE ~(n > Len(t))
    <3>1. n + 1 \in (n + 1)..m /\ n + 2 \in (n + 1)..m /\ n + 3 \in (n + 1)..m
      BY <1>0, <2>2
    <3>2. f[n + 1] = g[n + 1] /\ f[n + 2] = g[n + 2] /\ f[n + 3] = g[n + 3]
      BY <1>2, <3>1, Zenon
    <3> QED
      BY <3>2, Zenon DEF YamlAt
  <2> QED
    BY <2>1, <2>2
<1>3. PICK f : Backward(f, G, m, V)
  <2>1. G \in [1..m -> [F -> V]]
    <3>1. ASSUME NEW n \in 1..m, NEW f \in F PROVE YamlAt(t, f, n) \in V
      <4>1. \A k \in (n + 1)..m : f[k] \in V
        BY <1>0
      <4> QED
        BY <1>1, <4>1, Zenon
    <3> HIDE DEF m, V, F
    <3> QED
      BY <3>1, Zenon
  <2>2. \A n \in 1..m, f, g \in F : (\A k \in (n + 1)..m : f[k] = g[k]) => G[n][f] = G[n][g]
    BY <1>2, Zenon
  <2> HIDE DEF G, m, V
  <2> QED
    BY <1>0, <2>1, <2>2, BackwardExists, Zenon
<1>4. f \in F /\ \A n \in 1..m : f[n] = YamlAt(t, f, n)
  BY <1>3, Zenon DEF Backward
<1>5. Is(f)
  <2> HIDE DEF m, V
  <2> QED
    BY <1>4, Zenon
<1> DEFINE g == CHOOSE g : Is(g)
<1>6. Is(g) /\ Doc!YamlString(t) = g[1]
  BY <1>5, Zenon DEF Doc!YamlString, YamlAt
<1> HIDE DEF g
<1>7. \A n \in 1..m : g[n] = YamlAt(t, g, n)
  BY <1>6, Zenon
<1>8. \A n \in 1..m : g[n] \in V
  <2> DEFINE X == {n \in 1..m : g[n] \notin V}
  <2>1. ASSUME NEW n \in X PROVE \E k \in X : k > n
    <3> SUFFICES ASSUME \A k \in X : ~(k > n) PROVE FALSE
      BY Zenon
    <3>1. n \in 1..m /\ \A k \in (n + 1)..m : k \in 1..m /\ k > n
      BY <1>0
    <3>2. \A k \in (n + 1)..m : g[k] \in V
      BY <3>1, Zenon
    <3>3. g[n] \in V
      BY <1>1, <1>7, <3>1, <3>2, Zenon
    <3> QED
      BY <3>3
  <2>2. X \subseteq 1..m
    OBVIOUS
  <2>3. X = {}
    <3> HIDE DEF X, m
    <3> QED
      BY <1>0, <2>1, <2>2, NoLastPlace
  <2> QED
    BY <2>3, Zenon
<1>9. g \in F
  <2> HIDE DEF m, V
  <2> QED
    BY <1>6, <1>8, Zenon
<1> QED
  BY <1>6, <1>7, <1>9, Zenon DEF YamlOf, Places6

LEMMA JsonExists ==
  ASSUME NEW S, NEW t \in Seq(S)
  PROVE  \E j : JsonOf(t, S, j) /\ Doc!JsonString(t) = j[1]
<1> DEFINE m == Len(t) + 6
           V == Readings(S)
           F == [1..m -> V]
           G == [n \in 1..m |-> [f \in F |-> JsonAt(t, f, n)]]
           Is(f) == f = [n \in 1..m |-> JsonAt(t, f, n)]
<1>0. m \in Nat /\ Len(t) \in Nat /\ V # {}
  <2>1. Doc!Failed \in V
    BY Zenon DEF Readings
  <2> QED
    BY <2>1
<1>1. ASSUME NEW n \in 1..m, NEW f, \A k \in (n + 1)..m : f[k] \in V PROVE JsonAt(t, f, n) \in V
  <2>1. CASE n > Len(t)
    <3>1. JsonAt(t, f, n) = Doc!Chars(<<>>)
      BY <2>1 DEF JsonAt
    <3> QED
      BY <3>1, ThenReads DEF Readings, Doc!Chars
  <2>2. CASE ~(n > Len(t))
    <3>0. n \in 1..Len(t) /\ n + 1 \in (n + 1)..m /\ n + 2 \in (n + 1)..m /\ n + 3 \in (n + 1)..m /\ n + 6 \in (n + 1)..m
      BY <1>0, <2>2
    <3>1. f[n + 1] \in V /\ f[n + 2] \in V /\ f[n + 3] \in V /\ f[n + 6] \in V
      BY <1>1, <3>0, Zenon
    <3> HIDE DEF V, m
    <3>2. \A s \in Seq(Written(S)), v \in V : Doc!Then(s, v) \in V /\ Doc!Failed \in V
      BY ThenReads, Zenon DEF V
    <3> QED
      BY <2>2, <3>0, <3>1, <3>2, Symbols, Zenon DEF JsonAt
  <2> QED
    BY <2>1, <2>2
<1>2. ASSUME NEW n \in 1..m, NEW f \in F, NEW g \in F, \A k \in (n + 1)..m : f[k] = g[k]
      PROVE  JsonAt(t, f, n) = JsonAt(t, g, n)
  <2>1. CASE n > Len(t)
    BY <2>1, Zenon DEF JsonAt
  <2>2. CASE ~(n > Len(t))
    <3>1. n + 1 \in (n + 1)..m /\ n + 2 \in (n + 1)..m /\ n + 3 \in (n + 1)..m /\ n + 6 \in (n + 1)..m
      BY <1>0, <2>2
    <3>2. f[n + 1] = g[n + 1] /\ f[n + 2] = g[n + 2] /\ f[n + 3] = g[n + 3] /\ f[n + 6] = g[n + 6]
      BY <1>2, <3>1, Zenon
    <3> QED
      BY <3>2, Zenon DEF JsonAt
  <2> QED
    BY <2>1, <2>2
<1>3. PICK f : Backward(f, G, m, V)
  <2>1. G \in [1..m -> [F -> V]]
    <3>1. ASSUME NEW n \in 1..m, NEW f \in F PROVE JsonAt(t, f, n) \in V
      <4>1. \A k \in (n + 1)..m : f[k] \in V
        BY <1>0
      <4> QED
        BY <1>1, <4>1, Zenon
    <3> HIDE DEF m, V, F
    <3> QED
      BY <3>1, Zenon
  <2>2. \A n \in 1..m, f, g \in F : (\A k \in (n + 1)..m : f[k] = g[k]) => G[n][f] = G[n][g]
    BY <1>2, Zenon
  <2> HIDE DEF G, m, V
  <2> QED
    BY <1>0, <2>1, <2>2, BackwardExists, Zenon
<1>4. f \in F /\ \A n \in 1..m : f[n] = JsonAt(t, f, n)
  BY <1>3, Zenon DEF Backward
<1>5. Is(f)
  <2> HIDE DEF m, V
  <2> QED
    BY <1>4, Zenon
<1> DEFINE g == CHOOSE g : Is(g)
<1>6. Is(g) /\ Doc!JsonString(t) = g[1]
  BY <1>5, Zenon DEF Doc!JsonString, JsonAt
<1> HIDE DEF g
<1>7. \A n \in 1..m : g[n] = JsonAt(t, g, n)
  BY <1>6, Zenon
<1>8. \A n \in 1..m : g[n] \in V
  <2> DEFINE X == {n \in 1..m : g[n] \notin V}
  <2>1. ASSUME NEW n \in X PROVE \E k \in X : k > n
    <3> SUFFICES ASSUME \A k \in X : ~(k > n) PROVE FALSE
      BY Zenon
    <3>1. n \in 1..m /\ \A k \in (n + 1)..m : k \in 1..m /\ k > n
      BY <1>0
    <3>2. \A k \in (n + 1)..m : g[k] \in V
      BY <3>1, Zenon
    <3>3. g[n] \in V
      BY <1>1, <1>7, <3>1, <3>2, Zenon
    <3> QED
      BY <3>3
  <2>2. X \subseteq 1..m
    OBVIOUS
  <2>3. X = {}
    <3> HIDE DEF X, m
    <3> QED
      BY <1>0, <2>1, <2>2, NoLastPlace
  <2> QED
    BY <2>3, Zenon
<1>9. g \in F
  <2> HIDE DEF m, V
  <2> QED
    BY <1>6, <1>8, Zenon
<1> QED
  BY <1>6, <1>7, <1>9, Zenon DEF JsonOf, Places6

LEMMA Utf8Exists ==
  ASSUME NEW S, NEW t \in Seq(S)
  PROVE  \E p : Utf8Of(t, S, p) /\ Doc!Utf8(t) = p[1]
<1> DEFINE m == Len(t) + 6
           V == Seq(Written(S))
           F == [1..m -> V]
           G == [n \in 1..m |-> [f \in F |-> Utf8At(t, f, n)]]
           Is(f) == f = [n \in 1..m |-> Utf8At(t, f, n)]
<1>0. m \in Nat /\ Len(t) \in Nat /\ V # {}
  <2>1. <<>> \in V
    OBVIOUS
  <2>2. m \in Nat /\ Len(t) \in Nat
    OBVIOUS
  <2> HIDE DEF V, m
  <2> QED
    BY <2>1, <2>2
<1>1. ASSUME NEW n \in 1..m, NEW f, \A k \in (n + 1)..m : f[k] \in V PROVE Utf8At(t, f, n) \in V
  <2>1. CASE n > Len(t)
    <3>1. Utf8At(t, f, n) = <<>>
      BY <2>1 DEF Utf8At
    <3> QED
      BY <3>1
  <2>2. CASE ~(n > Len(t))
    <3>0. n \in 1..Len(t) /\ n + 1 \in (n + 1)..m /\ n + 2 \in (n + 1)..m /\ n + 3 \in (n + 1)..m /\ n + 6 \in (n + 1)..m
      BY <1>0, <2>2
    <3>1. f[n + 1] \in V /\ f[n + 2] \in V /\ f[n + 3] \in V /\ f[n + 6] \in V
      BY <1>1, <3>0, Zenon
    <3>2. \A s \in Seq(Written(S)), v \in V : s \o v \in V
      OBVIOUS
    <3> HIDE DEF m
    <3> QED
      BY <2>2, <3>0, <3>1, <3>2, Symbols, Zenon DEF Utf8At
  <2> QED
    BY <2>1, <2>2
<1>2. ASSUME NEW n \in 1..m, NEW f \in F, NEW g \in F, \A k \in (n + 1)..m : f[k] = g[k]
      PROVE  Utf8At(t, f, n) = Utf8At(t, g, n)
  <2>1. CASE n > Len(t)
    BY <2>1, Zenon DEF Utf8At
  <2>2. CASE ~(n > Len(t))
    <3>1. n + 1 \in (n + 1)..m /\ n + 2 \in (n + 1)..m /\ n + 3 \in (n + 1)..m /\ n + 6 \in (n + 1)..m
      BY <1>0, <2>2
    <3>2. f[n + 1] = g[n + 1] /\ f[n + 2] = g[n + 2] /\ f[n + 3] = g[n + 3] /\ f[n + 6] = g[n + 6]
      BY <1>2, <3>1, Zenon
    <3> QED
      BY <3>2, Zenon DEF Utf8At
  <2> QED
    BY <2>1, <2>2
<1>3. PICK f : Backward(f, G, m, V)
  <2>1. G \in [1..m -> [F -> V]]
    <3>1. ASSUME NEW n \in 1..m, NEW f \in F PROVE Utf8At(t, f, n) \in V
      <4>1. \A k \in (n + 1)..m : f[k] \in V
        BY <1>0
      <4> QED
        BY <1>1, <4>1, Zenon
    <3> HIDE DEF m, V, F
    <3> QED
      BY <3>1, Zenon
  <2>2. \A n \in 1..m, f, g \in F : (\A k \in (n + 1)..m : f[k] = g[k]) => G[n][f] = G[n][g]
    BY <1>2, Zenon
  <2> HIDE DEF G, m, V
  <2> QED
    BY <1>0, <2>1, <2>2, BackwardExists, Zenon
<1>4. f \in F /\ \A n \in 1..m : f[n] = Utf8At(t, f, n)
  BY <1>3, Zenon DEF Backward
<1>5. Is(f)
  <2> HIDE DEF m, V
  <2> QED
    BY <1>4, Zenon
<1> DEFINE g == CHOOSE g : Is(g)
<1>6. Is(g) /\ Doc!Utf8(t) = g[1]
  BY <1>5, Zenon DEF Doc!Utf8, Utf8At
<1> HIDE DEF g
<1>7. \A n \in 1..m : g[n] = Utf8At(t, g, n)
  BY <1>6, Zenon
<1>8. \A n \in 1..m : g[n] \in V
  <2> DEFINE X == {n \in 1..m : g[n] \notin V}
  <2>1. ASSUME NEW n \in X PROVE \E k \in X : k > n
    <3> SUFFICES ASSUME \A k \in X : ~(k > n) PROVE FALSE
      BY Zenon
    <3>1. n \in 1..m /\ \A k \in (n + 1)..m : k \in 1..m /\ k > n
      BY <1>0
    <3>2. \A k \in (n + 1)..m : g[k] \in V
      BY <3>1, Zenon
    <3>3. g[n] \in V
      BY <1>1, <1>7, <3>1, <3>2, Zenon
    <3> QED
      BY <3>3
  <2>2. X \subseteq 1..m
    OBVIOUS
  <2>3. X = {}
    <3> HIDE DEF X, m
    <3> QED
      BY <1>0, <2>1, <2>2, NoLastPlace
  <2> QED
    BY <2>3, Zenon
<1>9. g \in F
  <2> HIDE DEF m, V
  <2> QED
    BY <1>6, <1>8, Zenon
<1> QED
  BY <1>6, <1>7, <1>9, Zenon DEF Utf8Of, Places6

\* What a text is read as does not depend on what stands before it.
LEMMA YamlBehind ==
  ASSUME NEW S, NEW p \in Seq(S), NEW s \in Seq(S), NEW y, NEW z,
         YamlOf(p \o s, S, y), YamlOf(s, S, z)
  PROVE  y[Len(p) + 1] = z[1]
<1> DEFINE t == p \o s
           a == Len(p)
           m == Len(s) + 6
           X == {n \in 1..m : y[a + n] # z[n]}
<1>1. /\ t \in Seq(S) /\ Len(t) = a + Len(s) /\ a \in Nat /\ Len(s) \in Nat /\ m \in Nat
      /\ \A n \in 1..Len(s) : t[a + n] = s[n]
  OBVIOUS
<1> HIDE DEF t
<1>2. \A n \in 1..m : Doc!Symbol(t, a + n) = Doc!Symbol(s, n)
  <2> TAKE n \in 1..m
  <2>1. a + n \in 1..Len(t) <=> n \in 1..Len(s)
    BY <1>1
  <2>2. n \in 1..Len(s) => t[a + n] = s[n]
    BY <1>1
  <2> QED
    BY <2>1, <2>2, Zenon DEF Doc!Symbol
<1>3. ASSUME NEW n \in 1..m, n <= Len(s)
      PROVE  /\ Doc!Symbol(t, (a + n) + 1) = Doc!Symbol(s, n + 1)
             /\ Doc!Plain(t, a + n) <=> Doc!Plain(s, n)
  <2>1. /\ n + 1 \in 1..m /\ n + 2 \in 1..m
        /\ (a + n) + 1 = a + (n + 1) /\ (a + n) + 2 = a + (n + 2)
    BY <1>1, <1>3
  <2> HIDE DEF a, m
  <2>2. /\ Doc!Symbol(t, a + n) = Doc!Symbol(s, n) /\ Doc!Symbol(t, (a + n) + 1) = Doc!Symbol(s, n + 1)
        /\ Doc!Symbol(t, (a + n) + 2) = Doc!Symbol(s, n + 2)
    BY <1>2, <2>1
  <2> QED
    BY <2>2, Zenon DEF Doc!Plain, Doc!Escape
<1>4. ASSUME NEW n \in 1..m PROVE /\ y[a + n] = YamlAt(t, y, a + n) /\ z[n] = YamlAt(s, z, n)
                                  /\ a + n > Len(t) <=> n > Len(s)
  <2>1. a + n \in Places6(t) /\ n \in Places6(s)
    BY <1>1 DEF Places6
  <2>2. a + n > Len(t) <=> n > Len(s)
    BY <1>1
  <2> HIDE DEF a
  <2> QED
    BY <2>1, <2>2, Zenon DEF YamlOf, t
<1>5. ASSUME NEW n \in X PROVE \E k \in X : k > n
  <2> SUFFICES ASSUME \A k \in X : ~(k > n) PROVE FALSE
    BY Zenon
  <2>1. n \in 1..m /\ y[a + n] # z[n]
    OBVIOUS
  <2>2. \A k \in 1..m : k > n => y[a + k] = z[k]
    OBVIOUS
  <2> HIDE DEF X
  <2>3. CASE n > Len(s)
    <3>1. a + n > Len(t)
      BY <1>4, <2>1, <2>3
    <3>2. YamlAt(t, y, a + n) = Doc!Chars(<<>>) /\ YamlAt(s, z, n) = Doc!Chars(<<>>)
      BY <2>3, <3>1, Zenon DEF YamlAt
    <3> QED
      BY <1>4, <2>1, <3>2
  <2>4. CASE ~(n > Len(s))
    <3>1. ~(a + n > Len(t))
      BY <1>4, <2>1, <2>4
    <3>2. /\ n + 1 \in 1..m /\ n + 2 \in 1..m /\ n + 3 \in 1..m /\ n + 1 > n /\ n + 2 > n /\ n + 3 > n
          /\ a + (n + 1) = (a + n) + 1 /\ a + (n + 2) = (a + n) + 2 /\ a + (n + 3) = (a + n) + 3
          /\ n <= Len(s) /\ n \in 1..Len(s)
      BY <1>1, <2>1, <2>4
    <3>3. /\ y[(a + n) + 1] = z[n + 1] /\ y[(a + n) + 2] = z[n + 2] /\ y[(a + n) + 3] = z[n + 3]
      <4> HIDE DEF a, m
      <4> QED
        BY <2>2, <3>2
    <3>4. t[a + n] = s[n]
      BY <1>1, <3>2
    <3>5. /\ Doc!Symbol(t, (a + n) + 1) = Doc!Symbol(s, n + 1)
          /\ Doc!Plain(t, a + n) <=> Doc!Plain(s, n)
      BY <1>3, <2>1, <3>2
    <3>6. YamlAt(t, y, a + n) = YamlAt(s, z, n)
      <4> HIDE DEF a, m
      <4> QED
        BY <2>4, <3>1, <3>3, <3>4, <3>5, Zenon DEF YamlAt
    <3> QED
      BY <1>4, <2>1, <3>6
  <2> QED
    BY <2>3, <2>4
<1>6. X = {}
  <2>1. X \subseteq 1..m
    OBVIOUS
  <2> HIDE DEF X, m
  <2> QED
    BY <1>1, <1>5, <2>1, NoLastPlace
<1>7. 1 \in 1..m
  BY <1>1
<1> QED
  BY <1>6, <1>7

\* A text that begins with p is read from the place where p ends.
LEMMA YamlOfPrefixed ==
  ASSUME NEW S, NEW s \in Seq(S), NEW p \in Seq(S), Len(p) > 0
  PROVE  \E y : /\ y[Len(p) + 1] = Doc!YamlString(s)
               /\ Doc!YamlString(p \o s) = YamlAt(p \o s, y, 1)
<1>1. PICK z : YamlOf(s, S, z) /\ Doc!YamlString(s) = z[1]
  BY YamlExists, Zenon
<1> DEFINE t == p \o s
<1>2. t \in Seq(S)
  OBVIOUS
<1>3. PICK y : YamlOf(t, S, y) /\ Doc!YamlString(t) = y[1]
  <2> HIDE DEF t
  <2> QED
    BY <1>2, YamlExists, Zenon
<1>4. y[Len(p) + 1] = z[1]
  <2>1. YamlOf(p \o s, S, y)
    BY <1>3
  <2>2. YamlOf(s, S, z)
    BY <1>1
  <2> HIDE DEF t
  <2> QED
    BY <2>1, <2>2, YamlBehind
<1>5. 1 \in Places6(t)
  BY <1>2 DEF Places6
<1>6. y[1] = YamlAt(t, y, 1)
  BY <1>3, <1>5, Zenon DEF YamlOf
<1> QED
  BY <1>1, <1>3, <1>4, <1>6, Zenon

\* How a text goes on decides what it is read as with one more symbol or escape.
LEMMA YamlGoesOn ==
  ASSUME NEW S, NEW s \in Seq(S), NEW x \in S, NEW v \in S
  PROVE  /\ Doc!YamlString(<<>>) = Doc!Chars(<<>>)
         /\ x # "\\" => Doc!YamlString(<<x>> \o s) = Doc!Then(<<x>>, Doc!YamlString(s))
         /\ x = "\\" /\ v \in {"\\", "n"} =>
              Doc!YamlString(<<x, v>> \o s) = Doc!Then(<<"escaped", v>>, Doc!YamlString(s))
<1>1. Doc!YamlString(<<>>) = Doc!Chars(<<>>)
  <2>1. <<>> \in Seq(S) /\ Len(<<>>) = 0
    OBVIOUS
  <2>2. PICK y : YamlOf(<<>>, S, y) /\ Doc!YamlString(<<>>) = y[1]
    BY <2>1, YamlExists, Zenon
  <2>3. 1 \in Places6(<<>>) /\ 1 > Len(<<>>)
    BY DEF Places6
  <2>4. y[1] = YamlAt(<<>>, y, 1)
    BY <2>2, <2>3, Zenon DEF YamlOf
  <2> QED
    BY <2>2, <2>3, <2>4, Zenon DEF YamlAt
<1>2. x # "\\" => Doc!YamlString(<<x>> \o s) = Doc!Then(<<x>>, Doc!YamlString(s))
  <2> DEFINE p == <<x>>
             t == p \o s
  <2>1. p \in Seq(S) /\ Len(p) = 1 /\ Len(p) > 0 /\ t[1] = x /\ ~(1 > Len(t))
    OBVIOUS
  <2> HIDE DEF p
  <2>2. PICK y : y[1 + 1] = Doc!YamlString(s) /\ Doc!YamlString(t) = YamlAt(t, y, 1)
    BY <2>1, YamlOfPrefixed
  <2> HIDE DEF t
  <2>3. x # "\\" => YamlAt(t, y, 1) = Doc!Then(<<x>>, y[1 + 1])
    BY <2>1, Zenon DEF YamlAt
  <2>4. x # "\\" => Doc!YamlString(t) = Doc!Then(<<x>>, Doc!YamlString(s))
    BY <2>2, <2>3
  <2> QED
    BY <2>4 DEF t, p
<1>3. x = "\\" /\ v \in {"\\", "n"} =>
        Doc!YamlString(<<x, v>> \o s) = Doc!Then(<<"escaped", v>>, Doc!YamlString(s))
  <2> DEFINE p == <<x, v>>
             t == p \o s
  <2>1. p \in Seq(S) /\ Len(p) = 2 /\ Len(p) > 0 /\ t[1] = x /\ t[1 + 1] = v /\ ~(1 > Len(t)) /\ 1 + 1 \in 1..Len(t)
    OBVIOUS
  <2> HIDE DEF p
  <2>2. PICK y : y[2 + 1] = Doc!YamlString(s) /\ Doc!YamlString(t) = YamlAt(t, y, 1)
    BY <2>1, YamlOfPrefixed
  <2> HIDE DEF t
  <2>3. Doc!Symbol(t, 1 + 1) = v
    BY <2>1, Zenon DEF Doc!Symbol
  <2>4. x = "\\" /\ v \in {"\\", "n"} => YamlAt(t, y, 1) = Doc!Then(<<"escaped", v>>, y[1 + 2])
    BY <2>1, <2>3, Zenon DEF YamlAt
  <2>5. 1 + 2 = 2 + 1
    OBVIOUS
  <2>6. x = "\\" /\ v \in {"\\", "n"} => Doc!YamlString(t) = Doc!Then(<<"escaped", v>>, Doc!YamlString(s))
    BY <2>2, <2>4, <2>5, Zenon
  <2> QED
    BY <2>6 DEF t, p
<1> QED
  BY <1>1, <1>2, <1>3

LEMMA YamlGoesOnPlain ==
  ASSUME NEW S, NEW s \in Seq(S), NEW x \in S, NEW v \in S, NEW w \in S, x = "\\", v = "u", w = "PLAIN"
  PROVE  Doc!YamlString(<<x, v, w>> \o s) = Doc!Then(<<"plain">>, Doc!YamlString(s))
<1> DEFINE p == <<x, v, w>>
           t == p \o s
<1>1. /\ p \in Seq(S) /\ Len(p) = 3 /\ Len(p) > 0
      /\ t[1] = x /\ t[1 + 1] = v /\ t[1 + 2] = w /\ ~(1 > Len(t))
      /\ 1 \in 1..Len(t) /\ 1 + 1 \in 1..Len(t) /\ 1 + 2 \in 1..Len(t)
  OBVIOUS
<1> HIDE DEF p
<1>2. PICK y : y[3 + 1] = Doc!YamlString(s) /\ Doc!YamlString(t) = YamlAt(t, y, 1)
  BY <1>1, YamlOfPrefixed
<1> HIDE DEF t
<1>3. Doc!Symbol(t, 1) = "\\" /\ Doc!Symbol(t, 1 + 1) = "u" /\ Doc!Symbol(t, 1 + 2) = "PLAIN"
  BY <1>1, Zenon DEF Doc!Symbol
<1>4. Doc!Plain(t, 1)
  BY <1>3, Zenon DEF Doc!Plain, Doc!Escape
<1>5. Doc!Symbol(t, 1 + 1) \notin {"\\", "n"}
  BY <1>3
<1>6. YamlAt(t, y, 1) = Doc!Then(<<"plain">>, y[1 + 3])
  BY <1>1, <1>4, <1>5, Zenon DEF YamlAt
<1>7. 1 + 3 = 3 + 1
  OBVIOUS
<1>8. Doc!YamlString(t) = Doc!Then(<<"plain">>, Doc!YamlString(s))
  BY <1>2, <1>6, <1>7, Zenon
<1> QED
  BY <1>8 DEF t, p

\* The text with its pairs written out is read as YAML like the text is read as JSON.
LEMMA WrittenOutReads ==
  ASSUME NEW S, NEW t \in Seq(S), Doc!JsonString(t).ok
  PROVE  Doc!YamlString(Doc!Utf8(t)) = Doc!JsonString(t)
<1> DEFINE W == Written(S)
           m == Len(t) + 6
<1>1. PICK j : JsonOf(t, S, j) /\ Doc!JsonString(t) = j[1]
  BY JsonExists, Zenon
<1>2. PICK p : Utf8Of(t, S, p) /\ Doc!Utf8(t) = p[1]
  BY Utf8Exists, Zenon
<1>3. Len(t) \in Nat /\ m \in Nat
  OBVIOUS
<1> DEFINE Y(s) == Doc!YamlString(s)
           Good(n) == j[n].ok => Y(p[n]) = j[n]
           X == {n \in 1..m : ~Good(n)}
<1> HIDE DEF Y
<1>4. ASSUME NEW n \in 1..m
      PROVE  /\ p[n] \in Seq(W) /\ p[n] = Utf8At(t, p, n) /\ j[n] = JsonAt(t, j, n)
  BY <1>1, <1>2, <1>4, Zenon DEF Utf8Of, JsonOf, Places6
<1>5. \A s, d : Doc!Then(s, d).ok => d.ok
  BY DEF Doc!Then, Doc!Failed
<1>9. ASSUME NEW q \in Seq(W), NEW x \in W, NEW e \in W
      PROVE  /\ x # "\\" => Y(<<x>> \o q) = Doc!Then(<<x>>, Y(q))
             /\ x = "\\" /\ e \in {"\\", "n"} => Y(<<x, e>> \o q) = Doc!Then(<<"escaped", e>>, Y(q))
  <2> HIDE DEF W
  <2> QED
    BY YamlGoesOn DEF Y
<1>10. ASSUME NEW q \in Seq(W), NEW x \in W, NEW e \in W, NEW f \in W
       PROVE  x = "\\" /\ e = "u" /\ f = "PLAIN" => Y(<<x, e, f>> \o q) = Doc!Then(<<"plain">>, Y(q))
  <2> HIDE DEF W
  <2> QED
    BY YamlGoesOnPlain, Zenon DEF Y
<1>6. ASSUME NEW n \in X PROVE \E k \in X : k > n
  <2> SUFFICES ASSUME \A k \in X : ~(k > n) PROVE FALSE
    BY Zenon
  <2>1. n \in 1..m /\ ~Good(n)
    OBVIOUS
  <2>2. \A k \in 1..m : k > n => Good(k)
    OBVIOUS
  <2> HIDE DEF X
  <2>3. j[n].ok /\ Y(p[n]) # j[n]
    BY <2>1
  <2>4. CASE n > Len(t)
    <3>1. p[n] = <<>> /\ j[n] = Doc!Chars(<<>>)
      BY <1>4, <2>1, <2>4, Zenon DEF Utf8At, JsonAt
    <3>2. "" \in W /\ <<>> \in Seq(W)
      BY DEF Written
    <3>3. Y(<<>>) = Doc!Chars(<<>>)
      BY <3>2, YamlGoesOn, Zenon DEF Y
    <3> QED
      BY <2>3, <3>1, <3>3
  <2>5. CASE ~(n > Len(t))
    <3>1. /\ n \in 1..Len(t) /\ n + 1 \in 1..m /\ n + 2 \in 1..m /\ n + 3 \in 1..m /\ n + 6 \in 1..m
          /\ n + 1 > n /\ n + 2 > n /\ n + 3 > n /\ n + 6 > n
      BY <1>3, <2>1, <2>5
    <3> DEFINE x == t[n]
               e == Doc!Symbol(t, n + 1)
    <3>2. S \subseteq W /\ "" \in W /\ "pair" \in W /\ "PLAIN" \in W \cup {"PLAIN"} /\ "\\" \in W /\ "u" \in W /\ "n" \in W
      BY Zenon DEF Written
    <3>3. x \in W /\ e \in W
      <4>1. x \in S
        BY <3>1
      <4>2. e = IF n + 1 \in 1..Len(t) THEN t[n + 1] ELSE ""
        BY Zenon DEF Doc!Symbol
      <4>3. n + 1 \in 1..Len(t) => t[n + 1] \in S
        OBVIOUS
      <4> HIDE DEF W
      <4> QED
        BY <3>2, <4>1, <4>2, <4>3, Zenon
    <3>4. /\ p[n + 1] \in Seq(W) /\ p[n + 2] \in Seq(W) /\ p[n + 3] \in Seq(W) /\ p[n + 6] \in Seq(W)
          /\ Good(n + 1) /\ Good(n + 2) /\ Good(n + 3) /\ Good(n + 6)
      BY <1>4, <2>2, <3>1, Zenon
    <3>5. CASE x # "\\"
      <4>1. p[n] = <<x>> \o p[n + 1]
        BY <1>4, <2>1, <2>5, <3>5, Zenon DEF Utf8At
      <4>2. j[n] = Doc!Then(<<x>>, j[n + 1])
        BY <1>4, <2>1, <2>5, <3>5, Zenon DEF JsonAt
      <4>3. Y(<<x>> \o p[n + 1]) = Doc!Then(<<x>>, Y(p[n + 1]))
        BY <1>9, <3>3, <3>4, <3>5, Zenon
      <4>4. j[n + 1].ok
        BY <1>5, <2>3, <4>2, Zenon
      <4> QED
        BY <2>3, <3>4, <4>1, <4>2, <4>3, <4>4, Zenon
    <3>6. CASE x = "\\" /\ e \in {"\\", "n"}
      <4>1. ~Doc!Escape(t, n, "HIGH")
        BY <3>6 DEF Doc!Escape
      <4>2. p[n] = <<x, e>> \o p[n + 2]
        BY <1>4, <2>1, <2>5, <3>6, <4>1, Zenon DEF Utf8At
      <4>3. j[n] = Doc!Then(<<"escaped", e>>, j[n + 2])
        BY <1>4, <2>1, <2>5, <3>6, Zenon DEF JsonAt
      <4>4. Y(<<x, e>> \o p[n + 2]) = Doc!Then(<<"escaped", e>>, Y(p[n + 2]))
        BY <1>9, <3>3, <3>4, <3>6, Zenon
      <4>5. j[n + 2].ok
        BY <1>5, <2>3, <4>3, Zenon
      <4> QED
        BY <2>3, <3>4, <4>2, <4>3, <4>4, <4>5, Zenon
    <3>7. CASE x = "\\" /\ e \notin {"\\", "n"} /\ Doc!Plain(t, n)
      <4>1. e = "u" /\ Doc!Symbol(t, n + 2) = "PLAIN"
        BY <3>7, Zenon DEF Doc!Plain, Doc!Escape
      <4>2. ~Doc!Escape(t, n, "HIGH")
        BY <4>1 DEF Doc!Escape
      <4>3. p[n] = <<x, e>> \o p[n + 2]
        BY <1>4, <2>1, <2>5, <3>7, <4>2, Zenon DEF Utf8At
      <4>4. n + 2 \in 1..Len(t) /\ t[n + 2] = "PLAIN"
        BY <4>1 DEF Doc!Symbol
      <4>5. p[n + 2] = <<"PLAIN">> \o p[(n + 2) + 1]
        <5>1. n + 2 \in 1..m /\ ~(n + 2 > Len(t)) /\ t[n + 2] # "\\"
          BY <3>1, <4>4
        <5> QED
          BY <1>4, <4>4, <5>1, Zenon DEF Utf8At
      <4>6. (n + 2) + 1 = n + 3
        BY <3>1
      <4>7. "PLAIN" \in W
        <5>1. t[n + 2] \in S
          BY <4>4
        <5> QED
          BY <3>2, <4>4, <5>1, Zenon
      <4>8. p[n] = <<x, e, "PLAIN">> \o p[n + 3]
        <5> DEFINE q == p[n + 3]
        <5>1. q \in Seq(W) /\ p[n] = <<x, e>> \o (<<"PLAIN">> \o q)
          BY <3>4, <4>3, <4>5, <4>6
        <5> HIDE DEF q, W
        <5>2. <<x, e>> \o (<<"PLAIN">> \o q) = <<x, e, "PLAIN">> \o q
          <6> HIDE DEF x, e
          <6>1. \A a, b, c \in W : <<a, b>> \o (<<c>> \o q) = <<a, b, c>> \o q
            BY <5>1, SMTT(30)
          <6> QED
            BY <3>3, <4>7, <6>1
        <5> QED
          BY <5>1, <5>2 DEF q
      <4>9. j[n] = Doc!Then(<<"plain">>, j[n + 3])
        BY <1>4, <2>1, <2>5, <3>7, Zenon DEF JsonAt
      <4>10. Y(<<x, e, "PLAIN">> \o p[n + 3]) = Doc!Then(<<"plain">>, Y(p[n + 3]))
        BY <1>10, <3>3, <3>4, <3>7, <4>1, <4>7, Zenon
      <4>11. j[n + 3].ok
        BY <1>5, <2>3, <4>9, Zenon
      <4> QED
        BY <2>3, <3>4, <4>8, <4>9, <4>10, <4>11, Zenon
    <3>8. CASE x = "\\" /\ e \notin {"\\", "n"} /\ ~Doc!Plain(t, n)
      <4>1. Doc!Pair(t, n)
        <5>1. ~Doc!Pair(t, n) => j[n] = Doc!Failed
          BY <1>4, <2>1, <2>5, <3>8, Zenon DEF JsonAt
        <5> QED
          BY <2>3, <5>1 DEF Doc!Failed
      <4>2. Doc!Escape(t, n, "HIGH")
        BY <4>1, Zenon DEF Doc!Pair
      <4>3. p[n] = <<"pair">> \o p[n + 6]
        BY <1>4, <2>1, <2>5, <3>8, <4>2, Zenon DEF Utf8At
      <4>4. j[n] = Doc!Then(<<"pair">>, j[n + 6])
        BY <1>4, <2>1, <2>5, <3>8, <4>1, Zenon DEF JsonAt
      <4>5. "pair" # "\\"
        OBVIOUS
      <4>6. Y(<<"pair">> \o p[n + 6]) = Doc!Then(<<"pair">>, Y(p[n + 6]))
        BY <1>9, <3>2, <3>4, <4>5, Zenon
      <4>7. j[n + 6].ok
        BY <1>5, <2>3, <4>4, Zenon
      <4> QED
        BY <2>3, <3>4, <4>3, <4>4, <4>6, <4>7, Zenon
    <3> QED
      BY <3>5, <3>6, <3>7, <3>8
  <2> QED
    BY <2>4, <2>5
<1>7. X = {}
  <2>1. X \subseteq 1..m
    OBVIOUS
  <2> HIDE DEF X, m
  <2> QED
    BY <1>3, <1>6, <2>1, NoLastPlace
<1>8. Good(1)
  <2>1. 1 \in 1..m
    BY <1>3
  <2> QED
    BY <1>7, <2>1
<1> QED
  BY <1>1, <1>2, <1>8, Zenon DEF Y

\* What both decoders read they read alike.
LEMMA ReadAlike ==
  ASSUME NEW S, NEW t \in Seq(S), Doc!YamlString(t).ok, Doc!JsonString(t).ok
  PROVE  Doc!YamlString(t) = Doc!JsonString(t)
<1> DEFINE m == Len(t) + 6
<1>1. PICK j : JsonOf(t, S, j) /\ Doc!JsonString(t) = j[1]
  BY JsonExists, Zenon
<1>2. PICK y : YamlOf(t, S, y) /\ Doc!YamlString(t) = y[1]
  BY YamlExists, Zenon
<1>3. Len(t) \in Nat /\ m \in Nat
  OBVIOUS
<1> DEFINE X == {n \in 1..m : y[n].ok /\ j[n].ok /\ y[n] # j[n]}
<1>4. ASSUME NEW n \in 1..m PROVE y[n] = YamlAt(t, y, n) /\ j[n] = JsonAt(t, j, n)
  BY <1>1, <1>2, <1>4, Zenon DEF YamlOf, JsonOf, Places6
<1>5. \A s, d : Doc!Then(s, d).ok => d.ok
  BY DEF Doc!Then, Doc!Failed
<1>6. ~Doc!Failed.ok
  BY DEF Doc!Failed
<1>7. ASSUME NEW n \in X PROVE \E k \in X : k > n
  <2> SUFFICES ASSUME \A k \in X : ~(k > n) PROVE FALSE
    BY Zenon
  <2>1. n \in 1..m /\ y[n].ok /\ j[n].ok /\ y[n] # j[n]
    OBVIOUS
  <2>2. \A k \in 1..m : k > n /\ y[k].ok /\ j[k].ok => y[k] = j[k]
    OBVIOUS
  <2> HIDE DEF X
  <2>3. CASE n > Len(t)
    BY <1>4, <2>1, <2>3, Zenon DEF YamlAt, JsonAt
  <2>4. CASE ~(n > Len(t))
    <3>1. /\ n + 1 \in 1..m /\ n + 2 \in 1..m /\ n + 3 \in 1..m
          /\ n + 1 > n /\ n + 2 > n /\ n + 3 > n
      BY <1>3, <2>1, <2>4
    <3> DEFINE a == t[n] # "\\"
               b == Doc!Symbol(t, n + 1) \in {"\\", "n"}
               c == Doc!Plain(t, n)
               one == <<t[n]>>
               two == <<"escaped", Doc!Symbol(t, n + 1)>>
    <3>2. /\ y[n] = IF a THEN Doc!Then(one, y[n + 1]) ELSE IF b THEN Doc!Then(two, y[n + 2])
                    ELSE IF c THEN Doc!Then(<<"plain">>, y[n + 3]) ELSE Doc!Failed
          /\ a => j[n] = Doc!Then(one, j[n + 1])
          /\ ~a /\ b => j[n] = Doc!Then(two, j[n + 2])
          /\ ~a /\ ~b /\ c => j[n] = Doc!Then(<<"plain">>, j[n + 3])
      BY <1>4, <2>1, <2>4, Zenon DEF YamlAt, JsonAt
    <3> HIDE DEF a, b, c, one, two, m
    <3>3. CASE a
      <4>1. y[n] = Doc!Then(one, y[n + 1]) /\ j[n] = Doc!Then(one, j[n + 1])
        BY <3>2, <3>3, Zenon
      <4>2. y[n + 1].ok /\ j[n + 1].ok
        BY <1>5, <2>1, <4>1, Zenon
      <4>3. y[n + 1] = j[n + 1]
        BY <2>2, <3>1, <4>2, Zenon
      <4> QED
        BY <2>1, <4>1, <4>3, Zenon
    <3>4. CASE ~a /\ b
      <4>1. y[n] = Doc!Then(two, y[n + 2]) /\ j[n] = Doc!Then(two, j[n + 2])
        BY <3>2, <3>4, Zenon
      <4>2. y[n + 2].ok /\ j[n + 2].ok
        BY <1>5, <2>1, <4>1, Zenon
      <4>3. y[n + 2] = j[n + 2]
        BY <2>2, <3>1, <4>2, Zenon
      <4> QED
        BY <2>1, <4>1, <4>3, Zenon
    <3>5. CASE ~a /\ ~b /\ c
      <4>1. y[n] = Doc!Then(<<"plain">>, y[n + 3]) /\ j[n] = Doc!Then(<<"plain">>, j[n + 3])
        BY <3>2, <3>5, Zenon
      <4>2. y[n + 3].ok /\ j[n + 3].ok
        BY <1>5, <2>1, <4>1, Zenon
      <4>3. y[n + 3] = j[n + 3]
        BY <2>2, <3>1, <4>2, Zenon
      <4> QED
        BY <2>1, <4>1, <4>3, Zenon
    <3>6. CASE ~a /\ ~b /\ ~c
      BY <1>6, <2>1, <3>2, <3>6, Zenon
    <3> QED
      BY <3>3, <3>4, <3>5, <3>6
  <2> QED
    BY <2>3, <2>4
<1>8. X = {}
  <2>1. X \subseteq 1..m
    OBVIOUS
  <2> HIDE DEF X, m
  <2> QED
    BY <1>3, <1>7, <2>1, NoLastPlace
<1>9. 1 \in 1..m
  BY <1>3
<1> QED
  BY <1>1, <1>2, <1>8, <1>9

\* The texts of recipes: a string of symbols in brackets that go so deep.
RecipeTexts(S) == [string : Seq(S), depth : Nat, twice : BOOLEAN]

\* A recipe means the same read as YAML and as JSON: what decodes is what JSON makes of it
\* wherever JSON accepts it, and it decodes exactly if one of the two accepts it, JSON
\* within its limit of depth, and no key stands twice (decode_recipe_document).
THEOREM RecipesReadAlike ==
  ASSUME NEW S, NEW text \in RecipeTexts(S)
  PROVE  Doc!ReadsAlikeAsJson(text)
<1> DEFINE t == text.string
           other == [text EXCEPT !.string = Doc!Utf8(t)]
           d == Doc!DecodeRecipeDocument(text)
           json == Doc!JsonString(t)
           yaml == Doc!YamlString(t)
<1>1. t \in Seq(S) /\ text.twice \in BOOLEAN
  BY DEF RecipeTexts
<1>2. other.string = Doc!Utf8(t) /\ other.twice = text.twice
  BY DEF RecipeTexts
<1>3. Doc!Yaml(text) = (IF text.twice THEN Doc!Failed ELSE yaml)
  BY Zenon DEF Doc!Yaml
<1>4. Doc!Yaml(other) = IF text.twice THEN Doc!Failed ELSE Doc!YamlString(Doc!Utf8(t))
  <2> HIDE DEF other
  <2> QED
    BY <1>2, Zenon DEF Doc!Yaml
<1>5. d = IF Doc!Yaml(text).ok \/ ~(json.ok /\ text.depth < MaxDepth) THEN Doc!Yaml(text) ELSE Doc!Yaml(other)
  BY Zenon DEF Doc!DecodeRecipeDocument, Doc!ValidJsonDocument
<1>6. json.ok => Doc!YamlString(Doc!Utf8(t)) = json
  <2> HIDE DEF t
  <2> QED
    BY <1>1, WrittenOutReads, Zenon
<1>7. yaml.ok /\ json.ok => yaml = json
  <2> HIDE DEF t
  <2> QED
    BY <1>1, ReadAlike, Zenon
<1>8. ~Doc!Failed.ok
  BY DEF Doc!Failed
<1> HIDE DEF t, other, d, json, yaml
<1>9. /\ d.ok /\ json.ok => d.s = json.s
      /\ d.ok <=> ~text.twice /\ (yaml.ok \/ (json.ok /\ text.depth < MaxDepth))
  BY <1>3, <1>4, <1>5, <1>6, <1>7, <1>8
<1> QED
  BY <1>9, Zenon DEF Doc!ReadsAlikeAsJson, t, d, json, yaml
-----------------------------------------------------------------------------
(* Both kinds of files.                                                        *)

\* A file as there may be one: a progress file is named for natural numbers of processes,
\* has times that are whole seconds, and meets processes and groups with natural numbers,
\* of groups positive ones; a recipe's text is a sequence of whatever symbols.
SomeFile(q) ==
  /\ q.of = "progress" =>
       /\ \E stem, pid : pid \in Nat /\ q.file = [stem |-> stem, pid |-> pid]
       /\ q.p.time \in Int /\ q.now \in Int
       /\ q.alive \in SUBSET Nat /\ q.groups \in SUBSET (Nat \ {0})
  /\ q.of = "recipe text" => \E S : q.text \in RecipeTexts(S)

\* Whatever the file, a progress file is believed only if what it says may be true
\* (validate_progress_file), and a recipe means the same read as YAML and as JSON
\* (decode_recipe_document).
THEOREM FilesAlwaysReadAsMeant ==
  ASSUME MaxAge \in Nat, MaxDrift \in Nat, SomeFile(case)
  PROVE  FilesAreReadAsMeant
<1>1. ASSUME case.of = "progress"
      PROVE  Rules!BelievedFilesMayBeTrue(case.file, case.p, case.before, case.now, case.alive, case.groups)
  <2>1. PICK stem, pid : pid \in Nat /\ case.file = [stem |-> stem, pid |-> pid]
    BY <1>1, Zenon DEF SomeFile
  <2>2. /\ case.p.time \in Int /\ case.now \in Int
        /\ case.alive \in SUBSET Nat /\ case.groups \in SUBSET (Nat \ {0})
    BY <1>1, Zenon DEF SomeFile
  <2>3. Rules!BelievedFilesMayBeTrue([stem |-> stem, pid |-> pid], case.p, case.before, case.now, case.alive, case.groups)
    BY <2>1, <2>2, BelievedFilesAreTrue, Zenon
  <2> QED
    BY <2>1, <2>3, Zenon
<1>2. ASSUME case.of = "recipe text" PROVE Doc!ReadsAlikeAsJson(case.text)
  <2>1. PICK S : case.text \in RecipeTexts(S)
    BY <1>2, Zenon DEF SomeFile
  <2> QED
    BY <2>1, RecipesReadAlike, Zenon
<1> QED
  BY <1>1, <1>2, Zenon DEF FilesAreReadAsMeant
=============================================================================
