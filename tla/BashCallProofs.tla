---------------------------- MODULE BashCallProofs ----------------------------
(***************************************************************************)
(* A bash step, for every environment and every limit: the deadline is     *)
(* reported once and only where nothing is killed, and the files a child   *)
(* reads are there as long as it runs and gone when the call returns.      *)
(***************************************************************************)
EXTENDS BashCall, FiniteSetTheorems, WellFoundedInduction, TLAPS

Early   == {"resolve", "plan", "write", "bound", "script", "spawn"}
Waiting == {"timed", "patient", "output"}
Ended   == {"settle", "done"}

\* The type invariant in two parts, for the prover: truth values and the rest.
Flags == script \in BOOLEAN /\ late \in BOOLEAN /\ traps \in BOOLEAN /\ killed \in BOOLEAN
Places ==
  /\ pc \in Early \cup Waiting \cup Ended
  /\ mode \in Modes /\ extra \in Steps /\ env \in [Names -> Nat]
  /\ written \subseteq spilled /\ spilled \subseteq Names
  /\ spillDir \in {"none", "there", "left"}
  /\ child \in {"none", "running", "ok", "failed"}
  /\ pipes \subseteq {"child", "descendant"}
  /\ waiter \in {"none", "waits", "sent", "gone"}
  /\ reports \in Nat
  /\ result \in {"none", "ok", "failed", "error"}

\* No child before its time, none that runs after it unless its waiter is gone.
ChildInTime ==
  /\ pc \in Early => child = "none" /\ waiter = "none"
  /\ pc \in Waiting => child # "none"
  /\ waiter = "sent" => child \in {"ok", "failed"}
  /\ pc = "settle" => child \in {"ok", "failed"}
  /\ pc = "done" /\ child = "running" => waiter = "gone"

\* What was reported so far, and of what.
ReportedInTime ==
  /\ pc \in Early \cup {"timed"} => reports = 0
  /\ pc \in {"timed", "patient"} => mode = "report"
  /\ reports > 0 => reports = 1 /\ mode = "report" /\ late
  /\ killed => mode = "kill"

\* The spill directory is there from the plan to the cleanup, if it is needed.
FilesInTime ==
  /\ pc \in {"resolve", "plan"} => spilled = {}
  /\ pc \in Early \cup Waiting /\ spilled # {} => spillDir = "there"
  /\ pc \in Ended => ~script /\ spillDir # "there"

Inv == TypeOK /\ ChildInTime /\ ReportedInTime /\ FilesInTime

\* The two parts are the type invariant.
LEMMA TypeInParts == TypeOK <=> Flags /\ Places
  BY DEF TypeOK, Flags, Places, Early, Waiting, Ended

\* A call starts in the invariant.
LEMMA InitEstablishes == Init => Inv
<1> SUFFICES ASSUME Init PROVE Inv
  OBVIOUS
<1>1. Flags
  BY Zenon DEF Init, Flags
<1>2. Places
  BY EnvironmentAssumption DEF Init, Places, Early
<1>3. ChildInTime /\ ReportedInTime /\ FilesInTime
  BY DEF Init, ChildInTime, ReportedInTime, FilesInTime, Early, Waiting, Ended
<1> QED
  BY <1>1, <1>2, <1>3, TypeInParts DEF Inv

\* Truth values stay truth values.
LEMMA FlagsKept == Flags /\ [Next]_vars => Flags'
  BY Zenon DEF Flags, Next, Prepare, Await, vars, Fail, RemoveFiles, OfChild, OfFiles,
     Resolve, Plan, WriteValue, Bound, WriteScript, Spawn, SpillFails, WriteFails,
     BoundRefuses, ScriptFails, SpawnFails, Send, Report, Collect, EndedEarly, Settle,
     Fork, Exit, DescendantEnds, Deadline, Kill, WaiterPanics, Terminated

\* The environments a step can have.
LEMMA EnvironmentTyped ==
  ASSUME NEW parent \in Parents, extra \in Steps
  PROVE  ChildEnv(parent, extra) \in [Names -> Nat]
  BY EnvironmentAssumption DEF ChildEnv

\* An environment without some names is an environment.
LEMMA WithoutTyped ==
  ASSUME NEW e \in [Names -> Nat], NEW S
  PROVE  Without(e, S) \in [Names -> Nat]
  BY DEF Without

\* What is planned for files are names.
LEMMA SpillIsOfNames == Spill \subseteq Names
  BY DEF Spill, Over, OverBudget, Kept, Candidates

\* A step that fails ends the call; its files go.
LEMMA FailKeeps ==
  ASSUME Places, ChildInTime, ReportedInTime, FilesInTime, Fail,
         child # "running" \/ waiter = "gone"
  PROVE  Places' /\ ChildInTime' /\ ReportedInTime' /\ FilesInTime'
  BY DEF Fail, RemoveFiles, OfChild, Places, ChildInTime, ReportedInTime, FilesInTime,
     Early, Waiting, Ended

\* Every step keeps the other parts of the invariant.
LEMMA RestKept ==
  Places /\ ChildInTime /\ ReportedInTime /\ FilesInTime /\ [Next]_vars
    => Places' /\ ChildInTime' /\ ReportedInTime' /\ FilesInTime'
<1> SUFFICES ASSUME Places, ChildInTime, ReportedInTime, FilesInTime, [Next]_vars
             PROVE  Places' /\ ChildInTime' /\ ReportedInTime' /\ FilesInTime'
  OBVIOUS
<1> USE DEF Places, ChildInTime, ReportedInTime, FilesInTime, Early, Waiting, Ended,
        OfChild, OfFiles
<1>1. CASE Resolve
  <2>1. CASE Fail
    BY <1>1, <2>1, FailKeeps DEF Resolve
  <2>2. CASE /\ \E parent \in Parents : env' = ChildEnv(parent, extra)
             /\ pc' = "plan"
             /\ UNCHANGED <<mode, extra, OfFiles, OfChild, result>>
    BY <1>1, <2>2, EnvironmentTyped DEF Resolve
  <2> QED
    BY <1>1, <2>1, <2>2 DEF Resolve
<1>2. CASE Plan
  BY <1>2, SpillIsOfNames, WithoutTyped DEF Plan
<1>3. CASE WriteValue
  BY <1>3 DEF WriteValue
<1>4. CASE Bound
  BY <1>4, WithoutTyped DEF Bound
<1>5. CASE WriteScript
  BY <1>5 DEF WriteScript
<1>6. CASE Spawn
  BY <1>6 DEF Spawn
<1>7. CASE SpillFails
  BY <1>7, FailKeeps DEF SpillFails
<1>8. CASE WriteFails
  BY <1>8, FailKeeps DEF WriteFails
<1>9. CASE BoundRefuses
  BY <1>9, FailKeeps DEF BoundRefuses
<1>10. CASE ScriptFails
  BY <1>10, FailKeeps DEF ScriptFails
<1>11. CASE SpawnFails
  BY <1>11, FailKeeps DEF SpawnFails
<1>12. CASE Send
  BY <1>12 DEF Send, ChildOver
<1>13. CASE Report
  BY <1>13 DEF Report, Overrun
<1>14. CASE Collect
  BY <1>14 DEF Collect, RemoveFiles, ChildOver
<1>15. CASE EndedEarly
  BY <1>15, FailKeeps DEF EndedEarly
<1>16. CASE Settle
  BY <1>16 DEF Settle
<1>17. CASE Fork
  BY <1>17 DEF Fork
<1>18. CASE Exit
  BY <1>18 DEF Exit
<1>19. CASE DescendantEnds
  BY <1>19 DEF DescendantEnds
<1>20. CASE Deadline
  BY <1>20 DEF Deadline
<1>21. CASE Kill
  BY <1>21 DEF Kill, Wrapped
<1>22. CASE WaiterPanics
  BY <1>22 DEF WaiterPanics
<1>23. CASE Terminated
  BY <1>23 DEF Terminated, vars
<1>24. CASE UNCHANGED vars
  BY <1>24 DEF vars
<1> QED
  BY <1>1, <1>2, <1>3, <1>4, <1>5, <1>6, <1>7, <1>8, <1>9, <1>10, <1>11, <1>12,
     <1>13, <1>14, <1>15, <1>16, <1>17, <1>18, <1>19, <1>20, <1>21, <1>22, <1>23, <1>24
     DEF Next, Prepare, Await

\* The invariant holds throughout a bash step.
THEOREM Inductive == Spec => []Inv
<1>1. Init => Inv
  BY InitEstablishes
<1>2. Inv /\ [Next]_vars => Inv'
  <2> SUFFICES ASSUME Inv, [Next]_vars PROVE Inv'
    OBVIOUS
  <2>1. Flags /\ Places
    BY TypeInParts DEF Inv
  <2>2. Flags' /\ Places' /\ ChildInTime' /\ ReportedInTime' /\ FilesInTime'
    BY <2>1, FlagsKept, RestKept DEF Inv
  <2>3. TypeOK'
    BY <2>2 DEF TypeOK, Flags, Places, Early, Waiting, Ended
  <2> QED
    BY <2>2, <2>3 DEF Inv
<1> QED
  BY <1>1, <1>2, PTL DEF Spec

\* An overrun is reported once, and only where the timeout utility kills nothing
\* (output_reporting_overrun).
THEOREM OverrunIsReportedOnce == Spec => []OverrunReportedOnce
<1>1. Inv => OverrunReportedOnce
  BY DEF Inv, TypeOK, ReportedInTime, OverrunReportedOnce
<1> QED
  BY <1>1, Inductive, PTL

\* The spill files and the script outlive the child and not the call
\* (spill_for_bash, the guards of execute_bash_step).
THEOREM FilesOutliveTheChild == Spec => []FilesLastAsLongAsTheCall
<1>1. Inv => FilesLastAsLongAsTheCall
  BY DEF Inv, TypeOK, ChildInTime, FilesInTime, FilesLastAsLongAsTheCall,
     Early, Waiting, Ended
<1> QED
  BY <1>1, Inductive, PTL

-----------------------------------------------------------------------------
(* What a sum over a finite set is: the fold of the community modules, by   *)
(* induction over finite sets.                                              *)

\* What the fold of Bytes computes, on every subset of U.
Pick(s) == CHOOSE x \in s : TRUE
Adds(e, U, g) ==
  g = [s \in SUBSET U |-> IF s = {} THEN 0 ELSE e[Pick(s)] + g[s \ {Pick(s)}]]

\* A sum of bytes is the value some function with the property Adds gives.
LEMMA SumUnfolds ==
  ASSUME NEW e, NEW S
  PROVE  Bytes(e, S) = (CHOOSE g : Adds(e, S, g))[S]
BY DEF Bytes, MapThenSumSet, MapThenFoldSet, Adds, Pick

\* Of some subsets of a finite set one is minimal: induction over finite sets, as the
\* absence of a least counterexample.
LEMMA MinimalSubset ==
  ASSUME NEW U, IsFiniteSet(U), NEW T, T \subseteq SUBSET U, T # {}
  PROVE  \E x \in T : \A y \in T : y \subseteq x => y = x
<1>1. IsWellFoundedOn(StrictSubsetOrdering(U), SUBSET U)
  BY FS_StrictSubsetOrderingWellFounded, FS_FiniteSubsetsOfFinite
<1>2. PICK x \in T : \A y \in T : <<y, x>> \notin StrictSubsetOrdering(U)
  BY <1>1, WFMin
<1>3. ASSUME NEW y \in T, y \subseteq x PROVE y = x
  <2>1. <<y, x>> \in (SUBSET U) \X (SUBSET U)
    OBVIOUS
  <2> QED
    BY <1>2, <1>3, <2>1 DEF StrictSubsetOrdering
<1> QED
  BY <1>3

Follows(e, U, g) ==
  \A s \in SUBSET U : g[s] = IF s = {} THEN 0 ELSE e[Pick(s)] + g[s \ {Pick(s)}]

\* Such a function follows the recursion.
LEMMA AddsFollows ==
  ASSUME NEW e, NEW U, NEW g, Adds(e, U, g)
  PROVE  Follows(e, U, g)
BY Zenon DEF Adds, Follows

\* Two such functions agree where both are defined.
LEMMA AddsUnique ==
  ASSUME NEW e, NEW U, IsFiniteSet(U), NEW W, NEW g, NEW h, Follows(e, U, g),
         Follows(e, W, h),
         NEW s \in SUBSET U, s \in SUBSET W
  PROVE  g[s] = h[s]
<1> DEFINE T == {t \in SUBSET U : t \in SUBSET W /\ g[t] # h[t]}
<1> SUFFICES ASSUME T # {} PROVE FALSE
  OBVIOUS
<1>0. T \subseteq SUBSET U
  OBVIOUS
<1>1. PICK t \in T : \A y \in T : y \subseteq t => y = t
  <2> HIDE DEF T
  <2> QED
    BY <1>0, MinimalSubset
<1>2. /\ t \in SUBSET U /\ t \in SUBSET W /\ g[t] # h[t]
      /\ g[t] = IF t = {} THEN 0 ELSE e[Pick(t)] + g[t \ {Pick(t)}]
      /\ h[t] = IF t = {} THEN 0 ELSE e[Pick(t)] + h[t \ {Pick(t)}]
  <2>1. t \in SUBSET U /\ t \in SUBSET W /\ g[t] # h[t]
    OBVIOUS
  <2> QED
    BY <2>1 DEF Follows
<1>3. t # {}
  BY <1>2
<1>4. Pick(t) \in t
  BY <1>3 DEF Pick
<1>5. t \ {Pick(t)} \notin T
  BY <1>1, <1>4
<1>6. g[t \ {Pick(t)}] = h[t \ {Pick(t)}]
  BY <1>5
<1> QED
  BY <1>2, <1>6

Total(e, U) == CHOOSE g : Adds(e, U, g)

\* There is one for every finite set.
LEMMA AddsExists ==
  ASSUME NEW e, NEW U, IsFiniteSet(U)
  PROVE  \E g : Adds(e, U, g)
<1> DEFINE T == {t \in SUBSET U : ~ \E g : Adds(e, t, g)}
<1> SUFFICES ASSUME T # {} PROVE FALSE
  OBVIOUS
<1>0. T \subseteq SUBSET U
  OBVIOUS
<1>1. PICK t \in T : \A y \in T : y \subseteq t => y = t
  <2> HIDE DEF T
  <2> QED
    BY <1>0, MinimalSubset
<1>2. ASSUME NEW s \in SUBSET t, s # t PROVE Follows(e, s, Total(e, s))
  <2>1. s \notin T
    BY <1>1, <1>2
  <2>2. \E g : Adds(e, s, g)
    BY <2>1
  <2>3. Adds(e, s, Total(e, s))
    BY <2>2, Zenon DEF Total
  <2> QED
    BY <2>3, AddsFollows
<1> DEFINE V(s) == IF s = {} THEN 0
                   ELSE e[Pick(s)] + Total(e, s \ {Pick(s)})[s \ {Pick(s)}]
           f == [s \in SUBSET t |-> V(s)]
<1>3. ASSUME NEW s \in SUBSET t, s # t PROVE Total(e, s)[s] = V(s)
  <2>1. Total(e, s)[s] = IF s = {} THEN 0 ELSE e[Pick(s)] + Total(e, s)[s \ {Pick(s)}]
    BY <1>2, <1>3 DEF Follows
  <2>2. CASE s = {}
    BY <2>1, <2>2
  <2>3. CASE s # {}
    <3> DEFINE r == s \ {Pick(s)}
    <3>1. Pick(s) \in s
      BY <2>3 DEF Pick
    <3>2. r \in SUBSET t /\ r # t /\ r \in SUBSET s /\ r \in SUBSET r
      BY <3>1
    <3>3. IsFiniteSet(s) /\ Follows(e, s, Total(e, s)) /\ Follows(e, r, Total(e, r))
      BY <1>2, <1>3, <3>2, FS_Subset
    <3> HIDE DEF r
    <3>4. Total(e, s)[r] = Total(e, r)[r]
      BY <3>2, <3>3, AddsUnique
    <3> QED
      BY <2>1, <2>3, <3>4 DEF r
  <2> QED
    BY <2>2, <2>3
<1>4. ASSUME NEW s \in SUBSET t
      PROVE  V(s) = IF s = {} THEN 0 ELSE e[Pick(s)] + f[s \ {Pick(s)}]
  <2>1. CASE s = {}
    BY <2>1
  <2>2. CASE s # {}
    <3> DEFINE r == s \ {Pick(s)}
    <3>1. Pick(s) \in s
      BY <2>2 DEF Pick
    <3>2. r \in SUBSET t /\ r # t
      BY <3>1
    <3>3. Total(e, r)[r] = f[r]
      BY <1>3, <3>2
    <3> QED
      BY <2>2, <3>3
  <2> QED
    BY <2>1, <2>2
<1>5. Adds(e, t, f)
  <2> DEFINE W(s) == IF s = {} THEN 0 ELSE e[Pick(s)] + f[s \ {Pick(s)}]
  <2>1. \A s \in SUBSET t : V(s) = W(s)
    BY <1>4
  <2>2. f = [s \in SUBSET t |-> V(s)]
    OBVIOUS
  <2> HIDE DEF V, W, f
  <2>3. f = [s \in SUBSET t |-> W(s)]
    BY <2>1, <2>2
  <2> QED
    BY <2>3, Zenon DEF Adds, W
<1> HIDE DEF f
<1> QED
  BY <1>5

\* So the one that is chosen follows the recursion.
LEMMA TotalFollows ==
  ASSUME NEW e, NEW U, IsFiniteSet(U)
  PROVE  Follows(e, U, Total(e, U)) /\ Bytes(e, U) = Total(e, U)[U]
<1>1. Adds(e, U, Total(e, U))
  BY AddsExists, Zenon DEF Total
<1> QED
  BY <1>1, AddsFollows, SumUnfolds DEF Total

\* The sum over nothing is 0, a sum over more is one element and the rest.
LEMMA SumOfNothing ==
  ASSUME NEW e
  PROVE  Bytes(e, {}) = 0
BY TotalFollows, FS_EmptySet DEF Follows

\* A sum is the picked value and the sum of the rest.
LEMMA SumOfPicked ==
  ASSUME NEW e, NEW S, IsFiniteSet(S), S # {}
  PROVE  /\ Pick(S) \in S
         /\ Bytes(e, S) = e[Pick(S)] + Bytes(e, S \ {Pick(S)})
<1> DEFINE r == S \ {Pick(S)}
<1>1. Pick(S) \in S
  BY DEF Pick
<1>2. IsFiniteSet(r) /\ r \in SUBSET S /\ r \in SUBSET r
  BY FS_Difference
<1>3. Total(e, S)[S] = e[Pick(S)] + Total(e, S)[r]
  BY TotalFollows DEF Follows
<1> HIDE DEF r
<1>4. Total(e, S)[r] = Total(e, r)[r]
  BY <1>2, TotalFollows, AddsUnique
<1>5. Bytes(e, S) = e[Pick(S)] + Bytes(e, r)
  BY <1>2, <1>3, <1>4, TotalFollows
<1> QED
  BY <1>1, <1>5 DEF r

\* Sums of natural numbers are natural numbers.
LEMMA SumIsNatural ==
  ASSUME NEW S, IsFiniteSet(S), NEW N, S \subseteq N, NEW e \in [N -> Nat]
  PROVE  Bytes(e, S) \in Nat
<1> DEFINE T == {t \in SUBSET S : Bytes(e, t) \notin Nat}
<1> SUFFICES ASSUME T # {} PROVE FALSE
  OBVIOUS
<1>0. T \subseteq SUBSET S
  OBVIOUS
<1>1. PICK t \in T : \A y \in T : y \subseteq t => y = t
  <2> HIDE DEF T
  <2> QED
    BY <1>0, MinimalSubset
<1>2. t # {} /\ IsFiniteSet(t)
  <2>1. t \in SUBSET S /\ Bytes(e, t) \notin Nat
    OBVIOUS
  <2> HIDE DEF T
  <2>2. t # {}
    BY <2>1, SumOfNothing
  <2> QED
    BY <2>1, <2>2, FS_Subset
<1>3. Pick(t) \in t /\ Bytes(e, t) = e[Pick(t)] + Bytes(e, t \ {Pick(t)})
  BY <1>2, SumOfPicked
<1>4. e[Pick(t)] \in Nat /\ t \ {Pick(t)} \in SUBSET S /\ t \ {Pick(t)} \notin T
  BY <1>1, <1>3
<1>5. Bytes(e, t \ {Pick(t)}) \in Nat
  BY <1>4
<1>6. Bytes(e, t) \notin Nat
  OBVIOUS
<1> HIDE DEF T
<1> QED
  BY <1>3, <1>4, <1>5, <1>6

\* Any element will do.
LEMMA SumOfOneMore ==
  ASSUME NEW S, IsFiniteSet(S), NEW N, S \subseteq N, NEW e \in [N -> Nat], NEW x \in S
  PROVE  Bytes(e, S) = e[x] + Bytes(e, S \ {x})
<1> DEFINE Whole(t, y) == Bytes(e, t) = e[y] + Bytes(e, t \ {y})
           T == {t \in SUBSET S : \E y \in t : ~Whole(t, y)}
<1> HIDE DEF Whole
<1>1. ASSUME T # {} PROVE FALSE
  <2>1. T \subseteq SUBSET S
    OBVIOUS
  <2>2. PICK t \in T : \A y \in T : y \subseteq t => y = t
    <3> HIDE DEF T
    <3> QED
      BY <1>1, <2>1, MinimalSubset
  <2>3. t \in SUBSET S /\ \E y \in t : ~Whole(t, y)
    OBVIOUS
  <2>4. PICK y \in t : ~Whole(t, y)
    BY <2>3
  <2>5. IsFiniteSet(t)
    BY <2>3, FS_Subset
  <2>6. PICK p \in t : Whole(t, p)
    BY <2>3, <2>5, SumOfPicked DEF Whole
  <2>7. p # y
    BY <2>4, <2>6
  <2>8. ASSUME NEW q \in t PROVE t \ {q} \in SUBSET S /\ t \ {q} \notin T
    BY <2>2, <2>3
  <2>9. Whole(t \ {p}, y) /\ Whole(t \ {y}, p)
    BY <2>7, <2>8
  <2> DEFINE both == t \ {p, y}
  <2>10. (t \ {p}) \ {y} = both /\ (t \ {y}) \ {p} = both
    OBVIOUS
  <2>11. /\ e[p] \in Nat /\ e[y] \in Nat /\ Bytes(e, both) \in Nat
    <3>1. IsFiniteSet(both) /\ both \subseteq N
      BY <2>3, FS_Subset
    <3> QED
      BY <2>3, <3>1, SumIsNatural
  <2> HIDE DEF both, T
  <2>12. /\ Bytes(e, t \ {p}) = e[y] + Bytes(e, both)
         /\ Bytes(e, t \ {y}) = e[p] + Bytes(e, both)
         /\ Bytes(e, t) = e[p] + Bytes(e, t \ {p})
    BY <2>6, <2>9, <2>10 DEF Whole
  <2>13. Bytes(e, t) = e[y] + Bytes(e, t \ {y})
    BY <2>11, <2>12
  <2> QED
    BY <2>4, <2>13 DEF Whole
<1>2. Whole(S, x)
  BY <1>1
<1> QED
  BY <1>2 DEF Whole

\* The sum over two sets that have nothing in common.
LEMMA SumOfBoth ==
  ASSUME NEW N, IsFiniteSet(N), NEW e \in [N -> Nat],
         NEW A \in SUBSET N, NEW B \in SUBSET N, A \cap B = {}
  PROVE  Bytes(e, A \cup B) = Bytes(e, A) + Bytes(e, B)
<1> DEFINE Split(t) == Bytes(e, t \cup B) = Bytes(e, t) + Bytes(e, B)
           T == {t \in SUBSET A : ~Split(t)}
<1> HIDE DEF Split
<1>1. ASSUME T # {} PROVE FALSE
  <2>1. T \subseteq SUBSET A
    OBVIOUS
  <2>2. PICK t \in T : \A y \in T : y \subseteq t => y = t
    <3>1. IsFiniteSet(A)
      BY FS_Subset
    <3> HIDE DEF T
    <3> QED
      BY <1>1, <2>1, <3>1, MinimalSubset
  <2>3. t \in SUBSET A /\ ~Split(t)
    OBVIOUS
  <2>4. IsFiniteSet(t) /\ IsFiniteSet(B) /\ IsFiniteSet(t \cup B)
    BY <2>3, FS_Subset
  <2>5. CASE t = {}
    <3>1. Bytes(e, t) = 0 /\ Bytes(e, B) \in Nat /\ t \cup B = B
      BY <2>4, <2>5, SumOfNothing, SumIsNatural
    <3> HIDE DEF T
    <3>2. Bytes(e, t \cup B) = Bytes(e, B)
      BY <3>1, Zenon
    <3>3. Bytes(e, t \cup B) = Bytes(e, t) + Bytes(e, B)
      BY <3>1, <3>2
    <3> QED
      BY <2>3, <3>3 DEF Split
  <2>6. CASE t # {}
    <3>1. PICK x : x \in t
      BY <2>6
    <3> DEFINE r == t \ {x}
    <3>2. Split(r)
      BY <2>2, <2>3, <3>1
    <3>3. (t \cup B) \ {x} = r \cup B
      BY <2>3, <3>1
    <3>4. Bytes(e, t) = e[x] + Bytes(e, r)
      BY <2>3, <2>4, <3>1, SumOfOneMore
    <3>5. Bytes(e, t \cup B) = e[x] + Bytes(e, r \cup B)
      <4>1. t \cup B \subseteq N /\ x \in t \cup B
        BY <2>3, <3>1
      <4> HIDE DEF r
      <4> QED
        BY <2>4, <3>3, <4>1, SumOfOneMore
    <3>6. e[x] \in Nat /\ Bytes(e, r) \in Nat /\ Bytes(e, B) \in Nat
      <4>1. IsFiniteSet(r) /\ r \subseteq N /\ x \in N
        BY <2>3, <2>4, <3>1, FS_Subset
      <4> HIDE DEF r
      <4> QED
        BY <2>4, <4>1, SumIsNatural
    <3> HIDE DEF r, T
    <3>7. Bytes(e, r \cup B) = Bytes(e, r) + Bytes(e, B)
      BY <3>2 DEF Split
    <3>8. Bytes(e, t \cup B) = Bytes(e, t) + Bytes(e, B)
      BY <3>4, <3>5, <3>6, <3>7
    <3> QED
      BY <2>3, <3>8 DEF Split
  <2> QED
    BY <2>5, <2>6
<1>2. Split(A)
  BY <1>1
<1> QED
  BY <1>2 DEF Split

\* A sum is that of its summands.
LEMMA SumOfSame ==
  ASSUME NEW S, IsFiniteSet(S), NEW e, NEW f, \A x \in S : e[x] = f[x]
  PROVE  Bytes(e, S) = Bytes(f, S)
<1> DEFINE T == {t \in SUBSET S : Bytes(e, t) # Bytes(f, t)}
<1>1. ASSUME T # {} PROVE FALSE
  <2>1. T \subseteq SUBSET S
    OBVIOUS
  <2>2. PICK t \in T : \A y \in T : y \subseteq t => y = t
    <3> HIDE DEF T
    <3> QED
      BY <1>1, <2>1, MinimalSubset
  <2>3. t \in SUBSET S /\ Bytes(e, t) # Bytes(f, t)
    OBVIOUS
  <2>4. t # {} /\ IsFiniteSet(t)
    <3>1. t # {}
      <4>1. Bytes(e, {}) = 0 /\ Bytes(f, {}) = 0
        BY SumOfNothing
      <4> QED
        BY <2>3, <4>1
    <3> QED
      BY <2>3, <3>1, FS_Subset
  <2> DEFINE p == Pick(t)
  <2>5. /\ p \in t
        /\ Bytes(e, t) = e[p] + Bytes(e, t \ {p})
        /\ Bytes(f, t) = f[p] + Bytes(f, t \ {p})
    BY <2>4, SumOfPicked
  <2>6. t \ {p} \in SUBSET S /\ t \ {p} \notin T
    BY <2>2, <2>5
  <2>7. Bytes(e, t \ {p}) = Bytes(f, t \ {p}) /\ e[p] = f[p]
    BY <2>3, <2>5, <2>6
  <2> HIDE DEF p, T
  <2> QED
    BY <2>3, <2>5, <2>7
<1> QED
  BY <1>1

\* A part sums to no more than the whole, and the rest to the difference.
LEMMA SumOfLess ==
  ASSUME NEW N, IsFiniteSet(N), NEW e \in [N -> Nat], NEW B \in SUBSET N, NEW A \in SUBSET B
  PROVE  /\ Bytes(e, A) \in Nat /\ Bytes(e, B) \in Nat /\ Bytes(e, A) <= Bytes(e, B)
         /\ Bytes(e, B \ A) \in Nat /\ Bytes(e, B) = Bytes(e, A) + Bytes(e, B \ A)
<1>1. A \in SUBSET N /\ B \ A \in SUBSET N /\ A \cap (B \ A) = {} /\ A \cup (B \ A) = B
  OBVIOUS
<1>2. IsFiniteSet(A) /\ IsFiniteSet(B) /\ IsFiniteSet(B \ A)
  BY <1>1, FS_Subset
<1>3. Bytes(e, A) \in Nat /\ Bytes(e, B) \in Nat /\ Bytes(e, B \ A) \in Nat
  BY <1>1, <1>2, SumIsNatural
<1> DEFINE D == B \ A
<1>4. Bytes(e, A \cup D) = Bytes(e, A) + Bytes(e, D)
  BY <1>1, SumOfBoth
<1>5. Bytes(e, B) = Bytes(e, A) + Bytes(e, D)
  BY <1>1, <1>4
<1> HIDE DEF D
<1>6. Bytes(e, A) <= Bytes(e, B)
  BY <1>3, <1>5 DEF D
<1> QED
  BY <1>3, <1>5, <1>6 DEF D

-----------------------------------------------------------------------------
(* The environment: its plan and its bound keep what the child was promised. *)

\* What bash can assign from a file, and what stays in the environment anyway.
Promised == Spillable \cup {m \in Protected : extra[m] <= Cap}

\* Fit for the child.
Ready ==
  /\ Cost(env) <= Budget
  /\ \A n \in Names : env[n] <= Limit
  /\ \A n \in Promised : extra[n] > 1 => env[n] = extra[n] \/ n \in written

\* Before the plan the step's values are there, whatever their size.  After it what is
\* not in a file is there, and either protected or not to be dropped, since all of it fits.
EnvironmentInTime ==
  /\ pc = "plan" =>
       \A n \in Names : IF extra[n] > 0 THEN env[n] = extra[n] ELSE env[n] <= Limit
  /\ pc \in {"write", "bound"} =>
       /\ \A n \in Names : env[n] <= Limit
       /\ \A n \in Promised : extra[n] > 1 =>
            n \in spilled \/ (env[n] = extra[n] /\ (n \in Protected \/ Cost(env) <= Budget))
  /\ pc = "bound" => written = spilled
  /\ pc \in {"script", "spawn"} \/ child # "none" => Ready

\* The budget is a number, perhaps a negative one.
LEMMA BudgetTyped == Budget \in Int
  BY EnvironmentAssumption DEF Budget, EnvByteBudget, Ceiling, Least

\* What an environment costs when variables leave it.
LEMMA CostWithout ==
  ASSUME NEW e \in [Names -> Nat], NEW S
  PROVE  /\ Cost(e) \in Nat
         /\ Cost(Without(e, S)) \in Nat
         /\ Cost(Without(e, S)) = Bytes(e, Present(e) \ S)
<1> DEFINE f == Without(e, S)
           P == Present(e) \ S
<1>1. f \in [Names -> Nat]
  BY WithoutTyped
<1>2. \A n \in Names : f[n] = IF n \in S THEN 0 ELSE e[n]
  BY DEF Without
<1>3. Present(f) = P
  BY <1>2 DEF Present
<1>4. Present(e) \subseteq Names /\ P \subseteq Names
  BY DEF Present
<1>5. IsFiniteSet(Present(e)) /\ IsFiniteSet(P)
  BY <1>4, EnvironmentAssumption, FS_Subset
<1>6. \A n \in P : f[n] = e[n]
  BY <1>2, <1>4
<1> HIDE DEF f, P
<1>7. Bytes(f, P) = Bytes(e, P)
  BY <1>5, <1>6, SumOfSame
<1>8. Bytes(f, P) \in Nat
  BY <1>1, <1>4, <1>5, SumIsNatural
<1>9. Bytes(e, Present(e)) \in Nat
  BY <1>4, <1>5, SumIsNatural
<1>10. Cost(f) = Bytes(e, P) /\ Cost(f) \in Nat
  BY <1>3, <1>7, <1>8 DEF Cost
<1> QED
  BY <1>9, <1>10 DEF Cost, f, P

\* Once a value may stay, all that is left fits: the first that may stay was reached
\* when no more than what left had left.
LEMMA PlanFits ==
  ASSUME env \in [Names -> Nat], Kept \ OverBudget # {}
  PROVE  Cost(Without(env, Spill \cup Unassignable)) <= Budget
<1> DEFINE Sooner(n) == {m \in Kept : Before(m, n)}
           T == {Sooner(n) : n \in Kept \ OverBudget}
<1>1. Kept \subseteq Names /\ Over \subseteq Names /\ Kept \cap Over = {}
      /\ Kept \subseteq Present(env) /\ Over \subseteq Present(env)
  BY DEF Kept, Over, Candidates, Present
<1>2. \A n \in Names : env[n] \in Nat /\ Rank[n] \in Nat
  BY EnvironmentAssumption
<1>3. PICK n \in Kept \ OverBudget :
        \A m \in Kept \ OverBudget : Sooner(m) \subseteq Sooner(n) => Sooner(m) = Sooner(n)
  <2>1. T # {} /\ T \subseteq SUBSET Kept
    <3>1. \A m \in Kept : Sooner(m) \in SUBSET Kept
      OBVIOUS
    <3> HIDE DEF Sooner
    <3>2. \A m \in Kept \ OverBudget : Sooner(m) \in T
      OBVIOUS
    <3>3. \A x \in T : \E m \in Kept : x = Sooner(m)
      OBVIOUS
    <3> HIDE DEF T
    <3> QED
      BY <3>1, <3>2, <3>3
  <2>2. IsFiniteSet(Kept)
    BY <1>1, EnvironmentAssumption, FS_Subset
  <2>3. PICK x \in T : \A y \in T : y \subseteq x => y = x
    <3> HIDE DEF T
    <3> QED
      BY <2>1, <2>2, MinimalSubset
  <2>4. PICK n \in Kept \ OverBudget : x = Sooner(n)
    BY <2>3
  <2>5. \A m \in Kept \ OverBudget : Sooner(m) \in T
    OBVIOUS
  <2> HIDE DEF Sooner, T
  <2>6. \A m \in Kept \ OverBudget : Sooner(m) \subseteq Sooner(n) => Sooner(m) = Sooner(n)
    BY <2>3, <2>4, <2>5
  <2> QED
    BY <2>6
<1>4. Sooner(n) \subseteq OverBudget
  <2> SUFFICES ASSUME NEW m \in Kept, Before(m, n), m \notin OverBudget PROVE FALSE
    OBVIOUS
  <2>1. n \in Names /\ m \in Names
    BY <1>1
  <2>2. \A k \in Names : Before(k, m) => Before(k, n)
    BY <1>2, <2>1 DEF Before
  <2>3. ~Before(m, m)
    BY <1>2, <2>1 DEF Before
  <2>4. Sooner(m) \subseteq Sooner(n)
    BY <1>1, <2>2
  <2>5. m \in Sooner(n) /\ m \notin Sooner(m)
    BY <2>3
  <2> QED
    BY <1>3, <2>4, <2>5
<1> DEFINE Gone == Spill \cup Unassignable
           First == Over \cup Sooner(n)
           P == Present(env)
<1>5. First \subseteq Gone
  BY <1>4 DEF Spill, Unassignable
<1>6. P \subseteq Names /\ Over \subseteq P /\ Sooner(n) \subseteq P
  BY <1>1 DEF Present
<1>7. Over \cap Sooner(n) = {}
  BY <1>1
<1>8. LeftWhenReached(n) <= Budget
  <2>1. LeftWhenReached(n) \in Int
    <3> DEFINE O == Over
               B == Sooner(n)
    <3>1. Bytes(env, O) \in Nat /\ Bytes(env, B) \in Nat /\ Cost(env) \in Nat
      BY <1>6, EnvironmentAssumption, SumOfLess, CostWithout
    <3>2. Cost(env) - Bytes(env, O) - Bytes(env, B) \in Int
      <4> HIDE DEF O, B
      <4> QED
        BY <3>1
    <3> QED
      BY <3>2 DEF LeftWhenReached
  <2> QED
    BY <1>3, <2>1, BudgetTyped DEF OverBudget
<1>9. Bytes(env, First) = Bytes(env, Over) + Bytes(env, Sooner(n))
  BY <1>6, <1>7, EnvironmentAssumption, SumOfBoth
<1>10. /\ Bytes(env, Over) \in Nat /\ Bytes(env, Sooner(n)) \in Nat
       /\ Bytes(env, P) = Bytes(env, First) + Bytes(env, P \ First)
       /\ Bytes(env, P \ First) \in Nat
       /\ Bytes(env, P \ Gone) \in Nat /\ Bytes(env, P \ Gone) <= Bytes(env, P \ First)
  <2> DEFINE O == Over
             B == Sooner(n)
             Q == P \ First
             R == P \ Gone
  <2>1. First \in SUBSET P /\ Q \in SUBSET P /\ R \in SUBSET Q /\ Q \in SUBSET Names
    BY <1>5, <1>6
  <2>2. O \in SUBSET P /\ B \in SUBSET P /\ P \in SUBSET Names
    BY <1>6
  <2> HIDE DEF O, B, P, First, Gone
  <2>3. Bytes(env, O) \in Nat /\ Bytes(env, B) \in Nat
    BY <2>2, EnvironmentAssumption, SumOfLess
  <2>4. Bytes(env, P) = Bytes(env, First) + Bytes(env, P \ First) /\ Bytes(env, P \ First) \in Nat
    <3>1. IsFiniteSet(Names) /\ P \in SUBSET Names /\ First \in SUBSET P
      BY <2>1, <2>2, EnvironmentAssumption
    <3> HIDE DEF Q, R
    <3> QED
      BY <3>1, SumOfLess
  <2> HIDE DEF Q, R
  <2>5. Bytes(env, R) \in Nat /\ Bytes(env, R) <= Bytes(env, Q)
    BY <2>1, EnvironmentAssumption, SumOfLess
  <2> QED
    BY <2>3, <2>4, <2>5 DEF O, B, Q, R
<1>11. LeftWhenReached(n) = Bytes(env, P) - Bytes(env, Over) - Bytes(env, Sooner(n))
  BY DEF LeftWhenReached, Cost
<1>12. Cost(Without(env, Gone)) = Bytes(env, P \ Gone)
  BY CostWithout
<1> HIDE DEF Gone, First, P, Sooner
<1>13. Cost(Without(env, Gone)) <= Budget
  BY <1>8, <1>9, <1>10, <1>11, <1>12, BudgetTyped
<1> QED
  BY <1>13 DEF Gone

\* What bounded_env keeps fits, and it drops nothing where all of it fits.
LEMMA BoundFits ==
  ASSUME env \in [Names -> Nat], NEW kept \in SUBSET Droppable, Bounded(kept)
  PROVE  /\ Cost(Without(env, Droppable \ kept)) <= Budget
         /\ Cost(env) <= Budget => kept = Droppable
<1> DEFINE P == Present(env)
           G == P \cap Protected
           used == Bytes(env, G) + Bytes(env, kept)
<1>1. P \in SUBSET Names /\ G \in SUBSET P /\ kept \in SUBSET P /\ G \cap kept = {}
      /\ P \ (Droppable \ kept) = G \cup kept
  BY DEF Droppable, Present
<1>2. used <= Budget /\ \A d \in Droppable \ kept : used + env[d] > Budget
  BY DEF Bounded
<1>3. G \in SUBSET Names /\ kept \in SUBSET Names
  BY <1>1
<1>4. Bytes(env, G \cup kept) = Bytes(env, G) + Bytes(env, kept)
  <2> HIDE DEF G
  <2> QED
    BY <1>1, <1>3, EnvironmentAssumption, SumOfBoth
<1>5. Cost(Without(env, Droppable \ kept)) <= Budget
  <2>1. Cost(Without(env, Droppable \ kept)) = Bytes(env, G \cup kept)
    BY <1>1, CostWithout
  <2> QED
    BY <1>2, <1>4, <2>1
<1>6. ASSUME Cost(env) <= Budget, NEW d \in Droppable \ kept PROVE FALSE
  <2> DEFINE A == G \cup kept
             D == {d}
  <2>1. d \in Names /\ A \in SUBSET Names /\ D \in SUBSET Names /\ A \cap D = {}
        /\ A \cup D \in SUBSET P /\ IsFiniteSet(D) /\ D \ {d} = {}
    <3>1. d \in P /\ d \notin Protected /\ d \notin kept
      BY DEF Droppable
    <3>2. IsFiniteSet(D)
      BY FS_Singleton
    <3>3. d \notin A /\ A \subseteq P /\ D \subseteq P /\ D \ {d} = {}
      BY <1>1, <3>1
    <3> HIDE DEF A, D, P
    <3> QED
      BY <1>1, <3>1, <3>2, <3>3 DEF D
  <2>2. A \in SUBSET P /\ G \in SUBSET P
    BY <1>1
  <2> HIDE DEF A, D, P, G
  <2>3. Bytes(env, A \cup D) = Bytes(env, A) + Bytes(env, D)
    BY <2>1, EnvironmentAssumption, SumOfBoth
  <2>4. Bytes(env, D) = env[d] + Bytes(env, D \ {d})
    <3>1. d \in D /\ D \subseteq Names
      BY <2>1 DEF D
    <3> QED
      BY <2>1, <3>1, SumOfOneMore
  <2>5. Bytes(env, D \ {d}) = 0
    BY <2>1, SumOfNothing
  <2>6. Bytes(env, A \cup D) <= Bytes(env, P) /\ Bytes(env, A) \in Nat
        /\ Bytes(env, A \cup D) \in Nat /\ Bytes(env, P) \in Nat
    BY <1>1, <2>1, <2>2, EnvironmentAssumption, SumOfLess
  <2>7. Bytes(env, P) <= Budget
    BY <1>6 DEF Cost, P
  <2>8. Bytes(env, A) = used
    BY <1>4 DEF A
  <2>9. Bytes(env, A) + env[d] > Budget
    BY <1>2, <2>8
  <2>10. env[d] \in Nat
    BY <2>1
  <2> QED
    BY <2>3, <2>4, <2>5, <2>6, <2>7, <2>9, <2>10, BudgetTyped
<1> QED
  BY <1>5, <1>6

\* Readiness depends on the values, the environment and the files alone.
LEMMA ReadyKept ==
  ASSUME Ready, UNCHANGED <<extra, env, written>>
  PROVE  Ready'
<1>1. Cost(env') = Cost(env) /\ Promised' = Promised
  BY DEF Promised
<1> QED
  BY <1>1 DEF Ready

\* A step that leaves the environment alone, or ends the call.
LEMMA EnvironmentLeft ==
  ASSUME EnvironmentInTime, UNCHANGED <<extra, env, spilled, written>>,
         pc' \in {"script", "spawn"} \/ child' # "none"
            => pc \in {"script", "spawn"} \/ child # "none",
         pc' \notin {"plan", "write", "bound"} \/ pc' = pc
  PROVE  EnvironmentInTime'
<1>1. pc' \in {"script", "spawn"} \/ child' # "none" => Ready'
  BY ReadyKept DEF EnvironmentInTime
<1>2. Cost(env') = Cost(env) /\ Promised' = Promised
  BY DEF Promised
<1>3. pc' = "plan" =>
        \A n \in Names : IF extra'[n] > 0 THEN env'[n] = extra'[n] ELSE env'[n] <= Limit
  BY DEF EnvironmentInTime
<1>4. pc' \in {"write", "bound"} =>
        /\ \A n \in Names : env'[n] <= Limit
        /\ \A n \in Promised' : extra'[n] > 1 =>
             n \in spilled' \/ (env'[n] = extra'[n] /\ (n \in Protected \/ Cost(env') <= Budget))
  BY <1>2 DEF EnvironmentInTime
<1>5. pc' = "bound" => written' = spilled'
  BY DEF EnvironmentInTime
<1> QED
  BY <1>1, <1>3, <1>4, <1>5 DEF EnvironmentInTime

\* After resolve_bash_interpreter the values of the step are all there.
LEMMA EnvironmentResolved ==
  ASSUME Inv, EnvironmentInTime, Resolve, ~Fail
  PROVE  EnvironmentInTime'
<1>1. PICK parent \in Parents : env' = ChildEnv(parent, extra)
  BY DEF Resolve
<1>2. pc' = "plan" /\ extra' = extra /\ child' = "none"
  BY DEF Resolve, OfChild, Inv, ChildInTime, Early
<1>3. parent \in [Names -> Nat] /\ extra \in [Names -> Nat]
  BY EnvironmentAssumption DEF Inv, TypeOK
<1>4. ASSUME NEW n \in Names
      PROVE  IF extra[n] > 0 THEN env'[n] = extra[n] ELSE env'[n] <= Limit
  <2>1. env'[n] = IF extra[n] > 0 THEN extra[n]
                  ELSE IF n \in Own THEN 2
                  ELSE IF n \in Fallbacks /\ (n \notin Inherit(parent) \/ parent[n] <= 1)
                  THEN 2
                  ELSE IF n \in Inherit(parent) THEN parent[n] ELSE 0
    BY <1>1 DEF ChildEnv
  <2>2. n \in Inherit(parent) => parent[n] <= Limit
    BY DEF Inherit
  <2>3. 2 <= Limit /\ Limit \in Nat
    BY EnvironmentAssumption
  <2> QED
    BY <2>1, <2>2, <2>3
<1> QED
  BY <1>2, <1>4 DEF EnvironmentInTime

\* plan_env_spill takes out only what goes into files or was promised nothing.
LEMMA EnvironmentPlanned ==
  ASSUME Inv, EnvironmentInTime, Plan
  PROVE  EnvironmentInTime'
<1> DEFINE Gone == Spill \cup Unassignable
           left == Without(env, Gone)
<1>1. /\ pc = "plan" /\ pc' \in {"write", "bound"} /\ env' = left /\ spilled' = Spill
      /\ extra' = extra /\ written' = written /\ child' = "none"
      /\ pc' = "bound" => Spill = {}
  BY DEF Plan, OfChild, Inv, ChildInTime, Early
<1>2. /\ env \in [Names -> Nat] /\ extra \in [Names -> Nat] /\ Limit \in Nat /\ Cap \in Nat
      /\ Cap <= Limit /\ 2 <= Limit
  BY EnvironmentAssumption DEF Inv, TypeOK
<1>3. written = {}
  BY <1>1 DEF Inv, TypeOK, FilesInTime
<1>4. \A n \in Names : IF extra[n] > 0 THEN env[n] = extra[n] ELSE env[n] <= Limit
  BY <1>1 DEF EnvironmentInTime
<1>5. \A n \in Names : left[n] = IF n \in Gone THEN 0 ELSE env[n]
  BY DEF Without
<1>6. Over \cap Spillable \subseteq Spill /\ Over \subseteq Gone
  BY DEF Spill, Unassignable
<1>7. \A n \in Names : left[n] <= Limit
  <2> SUFFICES ASSUME NEW n \in Names, n \notin Gone PROVE env[n] <= Limit
    BY <1>2, <1>5
  <2>1. CASE n \in Candidates
    <3>1. ~(env[n] > Cap)
      BY <1>6, <2>1 DEF Over
    <3> QED
      BY <1>2, <3>1
  <2>2. CASE n \notin Candidates
    <3>1. ~(extra[n] > 0 /\ env[n] > 1)
      BY <2>2 DEF Candidates
    <3> QED
      BY <1>2, <1>4, <3>1
  <2> QED
    BY <2>1, <2>2
<1>8. ASSUME NEW n \in Promised, extra[n] > 1, n \notin Spill
      PROVE  left[n] = extra[n] /\ (n \in Protected \/ Cost(left) <= Budget)
  <2>1. n \in Names /\ (n \in Spillable \/ (n \in Protected /\ extra[n] <= Cap))
    BY EnvironmentAssumption DEF Promised
  <2>2. env[n] = extra[n]
    BY <1>2, <1>4, <1>8, <2>1
  <2>3. n \in Candidates
    BY <1>2, <1>8, <2>1, <2>2 DEF Candidates
  <2>4. n \notin Over
    <3>1. n \in Spillable => n \notin Over
      BY <1>6, <1>8
    <3>2. env[n] > Cap => n \in Spillable
      BY <1>2, <2>1, <2>2
    <3> QED
      BY <3>1, <3>2 DEF Over
  <2>5. n \notin Gone
    BY <1>8, <2>4 DEF Unassignable
  <2>6. left[n] = extra[n]
    BY <1>5, <2>1, <2>2, <2>5
  <2>7. n \in Spillable => Cost(left) <= Budget
    <3> SUFFICES ASSUME n \in Spillable PROVE Cost(left) <= Budget
      OBVIOUS
    <3>1. n \in Kept \ OverBudget
      BY <1>8, <2>3, <2>4 DEF Kept, Spill
    <3> QED
      BY <1>2, <3>1, PlanFits
  <2> QED
    BY <2>1, <2>6, <2>7
<1> HIDE DEF left, Gone
<1>9. \A n \in Names : env'[n] <= Limit
  BY <1>1, <1>7
<1>10. Promised' = Promised
  BY <1>1 DEF Promised
<1>11. \A n \in Promised : extra[n] > 1 =>
         n \in spilled' \/ (env'[n] = extra[n] /\ (n \in Protected \/ Cost(env') <= Budget))
  BY <1>1, <1>8
<1> QED
  BY <1>1, <1>3, <1>9, <1>10, <1>11 DEF EnvironmentInTime

\* bounded_env drops only what was promised nothing, and then the rest fits.
LEMMA EnvironmentBounded ==
  ASSUME Inv, EnvironmentInTime, Bound
  PROVE  EnvironmentInTime'
<1>1. /\ pc = "bound" /\ pc' = "script"
      /\ extra' = extra /\ written' = written /\ child' = "none"
  BY DEF Bound, OfChild, OfFiles, Inv, ChildInTime, Early
<1>2. PICK kept \in SUBSET Droppable :
        Bounded(kept) /\ env' = Without(env, Droppable \ kept)
  BY DEF Bound
<1> DEFINE left == Without(env, Droppable \ kept)
<1>3. /\ env \in [Names -> Nat] /\ Limit \in Nat
      /\ \A n \in Names : env[n] <= Limit
      /\ \A n \in Promised : extra[n] > 1 =>
           n \in written \/ (env[n] = extra[n] /\ (n \in Protected \/ Cost(env) <= Budget))
  BY <1>1, EnvironmentAssumption DEF Inv, TypeOK, EnvironmentInTime
<1>4. \A n \in Names : left[n] = IF n \in Droppable \ kept THEN 0 ELSE env[n]
  BY DEF Without
<1>5. Cost(left) <= Budget /\ (Cost(env) <= Budget => kept = Droppable)
  BY <1>2, <1>3, BoundFits
<1>6. \A n \in Names : left[n] <= Limit
  BY <1>3, <1>4
<1>7. ASSUME NEW n \in Promised, extra[n] > 1, n \notin written
      PROVE  left[n] = extra[n]
  <2>1. n \in Names
    BY EnvironmentAssumption DEF Promised
  <2>2. n \notin Droppable \ kept
    BY <1>3, <1>5, <1>7 DEF Droppable
  <2> QED
    BY <1>3, <1>4, <1>7, <2>1, <2>2
<1> HIDE DEF left
<1>8. env' = left
  BY <1>2 DEF left
<1>9. Promised' = Promised
  BY <1>1 DEF Promised
<1>10. Ready'
  BY <1>1, <1>5, <1>6, <1>7, <1>8, <1>9 DEF Ready
<1> QED
  BY <1>1, <1>10 DEF EnvironmentInTime

\* Every step keeps the environment in time.
LEMMA EnvironmentStaysInTime ==
  Inv /\ EnvironmentInTime /\ [Next]_vars => EnvironmentInTime'
<1> SUFFICES ASSUME Inv, EnvironmentInTime, [Next]_vars PROVE EnvironmentInTime'
  OBVIOUS
<1> USE DEF OfChild, OfFiles
<1>0. ASSUME Fail PROVE EnvironmentInTime'
  BY <1>0, EnvironmentLeft DEF Fail
<1>1. CASE Resolve
  BY <1>0, <1>1, EnvironmentResolved
<1>2. CASE Plan
  BY <1>2, EnvironmentPlanned
<1>3. CASE WriteValue
  <2>1. /\ pc = "write" /\ pc' \in {"write", "bound"} /\ child' = "none"
        /\ UNCHANGED <<extra, env, spilled>>
        /\ pc' = "bound" => written' = spilled
    BY <1>3 DEF WriteValue, Inv, ChildInTime, Early
  <2>2. Cost(env') = Cost(env) /\ Promised' = Promised
    BY <2>1 DEF Promised
  <2>3. /\ \A n \in Names : env'[n] <= Limit
        /\ \A n \in Promised' : extra'[n] > 1 =>
             n \in spilled' \/ (env'[n] = extra'[n] /\ (n \in Protected \/ Cost(env') <= Budget))
    BY <2>1, <2>2 DEF EnvironmentInTime
  <2> QED
    BY <2>1, <2>3 DEF EnvironmentInTime
<1>4. CASE Bound
  BY <1>4, EnvironmentBounded
<1>5. CASE WriteScript
  BY <1>5, EnvironmentLeft DEF WriteScript
<1>6. CASE Spawn
  BY <1>6, EnvironmentLeft DEF Spawn
<1>7. CASE SpillFails \/ WriteFails \/ BoundRefuses \/ ScriptFails \/ SpawnFails \/ EndedEarly
  BY <1>0, <1>7 DEF SpillFails, WriteFails, BoundRefuses, ScriptFails, SpawnFails, EndedEarly
<1>8. CASE Send
  BY <1>8, EnvironmentLeft DEF Send
<1>9. CASE Report
  BY <1>9, EnvironmentLeft DEF Report
<1>10. CASE Collect
  BY <1>10, EnvironmentLeft DEF Collect
<1>11. CASE Settle
  BY <1>11, EnvironmentLeft DEF Settle
<1>12. CASE Fork
  BY <1>12, EnvironmentLeft DEF Fork
<1>13. CASE Exit
  BY <1>13, EnvironmentLeft DEF Exit
<1>14. CASE DescendantEnds
  BY <1>14, EnvironmentLeft DEF DescendantEnds
<1>15. CASE Deadline
  BY <1>15, EnvironmentLeft DEF Deadline
<1>16. CASE Kill
  BY <1>16, EnvironmentLeft DEF Kill
<1>17. CASE WaiterPanics
  BY <1>17, EnvironmentLeft DEF WaiterPanics
<1>18. CASE UNCHANGED vars
  BY <1>18, EnvironmentLeft DEF vars
<1> QED
  BY <1>1, <1>2, <1>3, <1>4, <1>5, <1>6, <1>7, <1>8, <1>9, <1>10, <1>11, <1>12, <1>13,
     <1>14, <1>15, <1>16, <1>17, <1>18 DEF Next, Prepare, Await, Terminated

\* Within the budget is within what the kernel takes, unless its limits are below the
\* floor (measure_env_byte_budget).
LEMMA ReadyIsEnough ==
  ASSUME Inv, EnvironmentInTime
  PROVE  NeverTooBig /\ StepValuesArrive
<1> SUFFICES ASSUME child # "none" PROVE NeverTooBig /\ StepValuesArrive
  BY DEF NeverTooBig, StepValuesArrive
<1>1. Ready
  BY DEF EnvironmentInTime
<1>2. Cost(env) \in Nat
  BY CostWithout DEF Inv, TypeOK
<1> DEFINE C == Ceiling(ArgMax, Stack)
<1>3. C \in Int /\ (ArgMax <= 0 => C <= 0)
  BY EnvironmentAssumption DEF Ceiling, Least
<1>4. Budget = IF ArgMax <= 0 \/ C - Reserve < Floor THEN Floor ELSE C - Reserve
  BY DEF Budget, EnvByteBudget
<1> HIDE DEF C
<1>5. C >= Floor + Reserve => Cost(env) + Reserve <= C
  BY <1>1, <1>2, <1>3, <1>4, EnvironmentAssumption DEF Ready
<1>6. NeverTooBig
  BY <1>1, <1>5 DEF NeverTooBig, Ready, C
<1>7. StepValuesArrive
  BY <1>1 DEF StepValuesArrive, Ready, Promised
<1> QED
  BY <1>6, <1>7

\* Whatever the step and the inherited environment hold, and whatever the kernel's
\* limits are, the child is started with its values and within the limits
\* (plan_env_spill, bounded_env).
THEOREM EnvironmentAlwaysArrives == Spec => []EnvironmentArrives
<1>1. Init => EnvironmentInTime
  BY DEF Init, EnvironmentInTime
<1>2. Inv /\ EnvironmentInTime /\ [Next]_vars => EnvironmentInTime'
  BY EnvironmentStaysInTime
<1>3. Inv /\ EnvironmentInTime => NeverTooBig /\ StepValuesArrive
  BY ReadyIsEnough
<1>4. NeverTooBig /\ StepValuesArrive /\ FilesLastAsLongAsTheCall => EnvironmentArrives
  BY DEF EnvironmentArrives
<1> QED
  BY <1>1, <1>2, <1>3, <1>4, Inductive, FilesOutliveTheChild, PTL DEF Spec

=============================================================================
