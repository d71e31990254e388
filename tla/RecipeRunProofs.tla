--------------------------- MODULE RecipeRunProofs ---------------------------
(* Theorems about RecipeRun, for every recipe, every configuration and every *)
(* value of the constants.                                                   *)
EXTENDS RecipeRunContract, FiniteSetTheorems, TLAPS

-----------------------------------------------------------------------------
(* Type correctness needs to know where the owner's cursor is: execute_step   *)
(* returns to the spawn loop at cur + 1, a unit ends at hi, the next starts   *)
(* at hi + 1.                                                                 *)

Idle     == {"open", "loop", "return", "done"}
Cursors  == {"spawn", "join", "pick"}
Grouping == {"group", "spawn", "place", "join"}

CursorOK ==
  /\ phase \notin Idle => lo <= hi /\ lo <= cur
  /\ phase \in Cursors => cur <= hi + 1
  /\ phase \notin Idle \cup Cursors => cur <= hi
  /\ mode = "serial" /\ phase \notin Idle => hi = lo
  /\ phase \in Grouping => mode = "group"
  /\ phase = "pick" => mode # "serial"

TypeInv == TypeOK /\ CursorOK

\* A run starts well typed.
LEMMA TypeInit == Init => TypeInv
<1> SUFFICES ASSUME Init PROVE TypeInv
  OBVIOUS
<1>1. recipe \in [Pos -> StepType] /\ opts \in OptionType
  BY ConstantsAssumption DEF Init
<1>2. opts.carried \in Nat
  BY <1>1 DEF OptionType
<1>3. /\ lo \in 1..N + 1 /\ hi \in 0..N /\ cur \in 0..N + 1
      /\ total \in Nat /\ late \in Nat
  BY <1>2, ConstantsAssumption DEF Init
<1>4. /\ worker \in [Pos -> {"idle", "running", "failing", "panicked",
                             "finished", "joined"}]
      /\ failure \in [Pos -> Kinds \cup {None}]
      /\ result \in [Pos -> Statuses \cup {None}]
      /\ final \in [Pos -> Statuses \cup {None}]
      /\ audit \in [Pos -> Statuses \cup {None}]
      /\ listener \in [Pos -> {"quiet", "started", "completed"}]
      /\ ctx \in [Keys -> Pos \cup {0}]
  BY DEF Init
<1>5. /\ terminal \in SUBSET (Kinds \X (Pos \cup {0}))
      /\ ckpt \in SUBSET Pos /\ touched \in SUBSET Pos
  BY DEF Init
<1>6. /\ phase = "open" /\ mode = "serial" /\ success \in BOOLEAN /\ tb \in BOOLEAN
      /\ halt \in BOOLEAN /\ unitFailed \in BOOLEAN /\ auditOpen \in BOOLEAN
  BY DEF Init
<1>7. TypeOK
  BY <1>1, <1>3, <1>4, <1>5, <1>6 DEF TypeOK
<1>8. CursorOK
  BY <1>6 DEF CursorOK, Idle, Cursors, Grouping
<1> QED
  BY <1>7, <1>8 DEF TypeInv

\* Where the cursor is, as numbers.
LEMMA CursorRange ==
  ASSUME TypeInv
  PROVE  /\ N \in Nat /\ lo \in Pos \cup {N + 1} /\ lo \in Nat /\ hi \in Nat /\ cur \in Nat
         /\ hi <= N
         /\ phase \notin Idle \cup Cursors => cur \in Pos
         /\ phase \in Cursors => cur \in 1..hi + 1
BY ConstantsAssumption DEF TypeInv, TypeOK, CursorOK, Idle, Cursors, Pos

\* Every step keeps the cursor in its place.
LEMMA CursorStep == TypeInv /\ [Next]_vars => CursorOK'
<1> SUFFICES ASSUME TypeInv, [Next]_vars PROVE CursorOK'
  OBVIOUS
<1> USE DEF CursorOK, Idle, Cursors, Grouping, rigid, threads, report, flags,
            history, unit
<1>0. /\ CursorOK /\ N \in Nat /\ lo \in Nat /\ hi \in Nat /\ cur \in Nat
  BY CursorRange DEF TypeInv
<1>1. CASE OpenAudit \/ LastStepDone \/ LimitReached \/ SkipStep \/ ReturnResult
  BY <1>0, <1>1 DEF OpenAudit, LastStepDone, LimitReached, SkipStep, ReturnResult,
                    Return
<1>2. CASE BeginUnit
  <2>1. PICK q \in lo..N : IsUnit(lo, q) /\ hi' = q
    BY <1>2 DEF BeginUnit
  <2>2. q >= lo /\ (recipe[lo].group = NoGroup => q = lo)
    BY <1>0, <2>1 DEF IsUnit
  <2>3. lo' = lo /\ cur' = lo /\ phase' = "pre" /\ (mode' = "serial" => hi' = lo)
    BY <1>2, <2>1, <2>2 DEF BeginUnit
  <2> QED
    BY <1>0, <2>1, <2>2, <2>3
<1>3. CASE CheckPreHook \/ CheckPostHook \/ RunHook
  BY <1>0, <1>3 DEF CheckPreHook, CheckPostHook, RunHook
<1>4. CASE PreHookDone
  BY <1>0, <1>4 DEF PreHookDone
<1>5. CASE StepVetoed \/ StepDryRun \/ StepCondition \/ Dispatch
  BY <1>0, <1>5 DEF StepVetoed, StepDryRun, StepCondition, Dispatch, Finish
<1>6. CASE Call
  <2>1. \/ phase' \in {"answered", "answeredRaw"} /\ cur' = cur
        \/ Finish("failed")
    BY <1>6 DEF Call
  <2>2. phase = "armed" /\ UNCHANGED unit
    BY <1>6 DEF Call
  <2> QED
    BY <1>0, <2>1, <2>2 DEF Finish
<1>7. CASE StepAnswered \/ StepRepaired \/ StepUnrepaired
  BY <1>0, <1>7 DEF StepAnswered, StepRepaired, StepUnrepaired, StoreOutput, Finish
<1>8. CASE StartRepair \/ CheckRepair \/ Redispatch \/ RepairCall
  BY <1>0, <1>8 DEF StartRepair, CheckRepair, Redispatch, RepairCall
<1>9. CASE EnterGroup \/ SpawnLoop
  BY <1>0, <1>9 DEF EnterGroup, SpawnLoop, AfterSpawning
<1>10. CASE PlaceStep
  <2>1. \/ phase' = "spawn" /\ cur' = cur + 1
        \/ phase' = "enter" /\ cur' = cur
    BY <1>0, <1>10 DEF PlaceStep, Finish
  <2>2. phase = "place" /\ UNCHANGED unit
    BY <1>10 DEF PlaceStep
  <2> QED
    BY <1>0, <2>1, <2>2
<1>11. CASE Join \/ AllJoined \/ PickResult
  BY <1>0, <1>11 DEF Join, AllJoined, PickResult
<1>12. CASE GroupDone
  <2>1. phase' \in {"return", "loop"} /\ UNCHANGED mode
    BY <1>12 DEF GroupDone, Return
  <2> QED
    BY <2>1
<1>13. CASE CountStep \/ ApplyTerminal \/ Settle
  BY <1>0, <1>13 DEF CountStep, ApplyTerminal, Settle
<1>14. CASE Decide
  <2>1. CASE mode = "serial"
    BY <1>14, <2>1 DEF Decide, Return
  <2>2. CASE mode # "serial"
    BY <1>0, <1>14, <2>2 DEF Decide, NextToSettle
  <2> QED
    BY <2>1, <2>2
<1>15. ASSUME NEW i \in Pos, Worker(i) PROVE CursorOK'
  <2>1. UNCHANGED <<phase, unit, cur>>
    BY <1>15 DEF Worker, WorkerSkips, WorkerAnswers, WorkerErrs, WorkerPanics,
                 WorkerPublishes
  <2> QED
    BY <1>0, <2>1
<1>16. CASE OuterPublishes
  BY <1>0, <1>16 DEF OuterPublishes
<1>17. CASE UNCHANGED vars
  BY <1>0, <1>17 DEF vars
<1> QED
  BY <1>1, <1>2, <1>3, <1>4, <1>5, <1>6, <1>7, <1>8, <1>9, <1>10, <1>11, <1>12,
     <1>13, <1>14, <1>15, <1>16, <1>17 DEF Next, Owner, Terminated

\* Every step keeps the types.
LEMMA TypeOKStep == TypeInv /\ [Next]_vars => TypeOK'
<1> SUFFICES ASSUME TypeInv, [Next]_vars PROVE TypeOK'
  OBVIOUS
<1>0. /\ TypeOK
      /\ N \in Nat /\ lo \in Pos \cup {N + 1} /\ lo \in Nat /\ hi \in Nat /\ cur \in Nat
      /\ hi <= N
      /\ phase \notin Idle \cup Cursors => cur \in Pos
      /\ phase \in Cursors => cur \in 1..hi + 1
  BY CursorRange DEF TypeInv
<1> USE DEF TypeOK, Idle, Cursors, Pos, Statuses, rigid, threads, report, flags,
            history, unit
<1>1. CASE OpenAudit
  <2>1. opts.auditDir \in BOOLEAN
    BY <1>0 DEF OptionType
  <2>2. auditOpen' \in BOOLEAN /\ success' \in {success, FALSE}
        /\ phase' \in {"done", "loop"}
    BY <1>1, <2>1 DEF OpenAudit, AuditOpens
  <2>3. success' \in BOOLEAN
    BY <1>0, <2>2
  <2> QED
    BY <1>0, <1>1, <2>2, <2>3 DEF OpenAudit
<1>2. CASE LastStepDone \/ ReturnResult
  <2>1. CASE LastStepDone
    BY <1>0, <2>1 DEF LastStepDone
  <2>2. CASE ReturnResult
    <3>1. success' \in {success, FALSE} /\ phase' = "done"
      BY <1>0, <2>2 DEF ReturnResult
    <3> QED
      BY <1>0, <2>2, <3>1 DEF ReturnResult
  <2> QED
    BY <1>2, <2>1, <2>2
<1>3. CASE LimitReached
  BY <1>0, <1>3 DEF LimitReached, Return
<1>4. CASE SkipStep
  BY <1>0, <1>4 DEF SkipStep
<1>5. CASE BeginUnit
  <2>1. PICK q \in lo..N : IsUnit(lo, q) /\ hi' = q
    BY <1>5 DEF BeginUnit
  <2>2. hi' \in 0..N /\ lo \in 0..N + 1
    BY <1>0, <2>1
  <2> QED
    BY <1>0, <1>5, <2>2 DEF BeginUnit
<1>6. CASE CheckPreHook \/ CheckPostHook
  <2>1. CASE CheckPreHook
    <3>1. phase' \in {"preHook", "ready"}
      BY <2>1 DEF CheckPreHook
    <3> QED
      BY <1>0, <2>1, <3>1 DEF CheckPreHook
  <2>2. CASE CheckPostHook
    <3>1. phase' \in {"postHook", "apply"}
      BY <2>2 DEF CheckPostHook
    <3> QED
      BY <1>0, <2>2, <3>1 DEF CheckPostHook
  <2> QED
    BY <1>6, <2>1, <2>2
<1>7. CASE RunHook
  BY <1>0, <1>7 DEF RunHook, Observe, Admit
<1>8. CASE PreHookDone
  <2>1. /\ phase' \in {"enter", "pre", "group"}
        /\ mode' \in {"serial", "group", "prefail"}
        /\ \/ UNCHANGED <<cur, listener>>
           \/ /\ cur < hi /\ cur' = cur + 1
              /\ listener' = [listener EXCEPT ![cur + 1] = "started"]
    BY <1>0, <1>8 DEF PreHookDone
  <2>2. cur' \in 0..N + 1
    BY <1>0, <2>1
  <2>3. listener' \in [Pos -> {"quiet", "started", "completed"}]
    BY <1>0, <2>1
  <2> QED
    BY <1>0, <1>8, <2>1, <2>2, <2>3 DEF PreHookDone
<1>9. ASSUME NEW r \in Statuses, Finish(r), phase \notin Idle \cup Cursors
      PROVE  /\ result' \in [Pos -> Statuses \cup {None}] /\ cur' \in 0..N + 1
             /\ phase' \in {"spawn", "post"}
  <2>1. cur \in Pos
    BY <1>0, <1>9
  <2>2. result' = [result EXCEPT ![cur] = r] /\ cur' \in {cur, cur + 1}
        /\ phase' \in {"spawn", "post"}
    BY <1>9 DEF Finish
  <2>3. cur' \in 0..N + 1
    BY <1>0, <2>1, <2>2
  <2>4. result' \in [Pos -> Statuses \cup {None}]
    BY <1>0, <2>1, <2>2
  <2> QED
    BY <2>2, <2>3, <2>4
<1>10. CASE StepVetoed
  <2>1. Finish("failed") /\ phase \notin Idle \cup Cursors
    BY <1>10 DEF StepVetoed
  <2>2. /\ result' \in [Pos -> Statuses \cup {None}] /\ cur' \in 0..N + 1
        /\ phase' \in {"spawn", "post"}
    BY <1>9, <2>1
  <2> QED
    BY <1>0, <1>10, <2>2 DEF StepVetoed
<1>11. CASE StepDryRun
  BY <1>0, <1>9, <1>11 DEF StepDryRun, Writes
<1>12. CASE StepCondition
  <2>1. phase \notin Idle \cup Cursors
    BY <1>12 DEF StepCondition
  <2>2. \/ phase' = "dispatch" /\ UNCHANGED <<result, cur>>
        \/ \E r \in Statuses : Finish(r)
    BY <1>12 DEF StepCondition
  <2>3. /\ result' \in [Pos -> Statuses \cup {None}] /\ cur' \in 0..N + 1
        /\ phase' \in {"dispatch", "spawn", "post"}
    BY <1>0, <1>9, <2>1, <2>2
  <2> QED
    BY <1>0, <1>12, <2>3 DEF StepCondition
<1>13. CASE Dispatch
  <2>1. phase \notin Idle \cup Cursors
    BY <1>13 DEF Dispatch
  <2>2. \/ phase' = "armed" /\ UNCHANGED <<result, cur>>
        \/ Finish("failed")
    BY <1>13 DEF Dispatch
  <2>3. /\ result' \in [Pos -> Statuses \cup {None}] /\ cur' \in 0..N + 1
        /\ phase' \in {"armed", "spawn", "post"}
    BY <1>0, <1>9, <2>1, <2>2
  <2> QED
    BY <1>0, <1>13, <2>3 DEF Dispatch
<1>14. CASE Call
  <2>1. PICK o \in Outcomes(recipe[cur]) :
          /\ Observe(o)
          /\ CASE o = "answer" -> phase' = "answered" /\ UNCHANGED <<result, cur>>
               [] o = "raw"    -> phase' = "answeredRaw" /\ UNCHANGED <<result, cur>>
               [] OTHER        -> Finish("failed")
    BY <1>14 DEF Call
  <2>2. terminal' \in SUBSET (Kinds \X (Pos \cup {0}))
    BY <1>0, <1>14, <2>1 DEF Call, Observe
  <2>3. late' \in Nat /\ touched' \in SUBSET Pos
    BY <1>0, <1>14 DEF Call, Admit
  <2>4. \/ phase' \in {"answered", "answeredRaw"} /\ UNCHANGED <<result, cur>>
        \/ Finish("failed")
    BY <2>1
  <2>5. /\ result' \in [Pos -> Statuses \cup {None}] /\ cur' \in 0..N + 1
        /\ phase' \in {"answered", "answeredRaw", "spawn", "post"}
    BY <1>0, <1>9, <1>14, <2>4 DEF Call
  <2> QED
    BY <1>0, <1>14, <2>2, <2>3, <2>5 DEF Call
<1>15. CASE StepAnswered
  BY <1>0, <1>9, <1>15 DEF StepAnswered, StoreOutput, Writes
<1>16. CASE StartRepair \/ CheckRepair \/ Redispatch
  <2>1. phase' \in {"repair", "redispatch", "repairCall", "unrepaired"}
    BY <1>16 DEF StartRepair, CheckRepair, Redispatch
  <2>2. UNCHANGED <<rigid, unit, cur, threads, result, report, terminal, total, flags,
                    history>>
    BY <1>16 DEF StartRepair, CheckRepair, Redispatch
  <2> QED
    BY <1>0, <2>1, <2>2
<1>17. CASE RepairCall
  BY <1>0, <1>17 DEF RepairCall, Observe, Admit
<1>18. CASE StepRepaired
  BY <1>0, <1>9, <1>18 DEF StepRepaired, StoreOutput, Writes
<1>19. CASE StepUnrepaired
  <2>1. PICK r \in Statuses : Finish(r)
    BY <1>19 DEF StepUnrepaired, StoreOutput
  <2>2. ctx' \in [Keys -> Pos \cup {0}]
    BY <1>0, <1>19 DEF StepUnrepaired, StoreOutput, Writes
  <2> QED
    BY <1>0, <1>9, <1>19, <2>1, <2>2 DEF StepUnrepaired
<1>20. CASE EnterGroup
  BY <1>0, <1>20 DEF EnterGroup
<1>21. CASE SpawnLoop
  BY <1>0, <1>21 DEF SpawnLoop, AfterSpawning
<1>22. CASE PlaceStep
  <2>0. cur \in Pos /\ phase = "place"
    BY <1>0, <1>22 DEF PlaceStep
  <2>1. /\ Admit \/ (late' = late /\ touched' = touched)
        /\ worker' = worker \/ worker' = [worker EXCEPT ![cur] = "running"]
        /\ \/ phase' \in {"spawn", "enter"} /\ cur' \in {cur, cur + 1} /\ result' = result
           \/ Finish("skipped")
    BY <1>22 DEF PlaceStep
  <2>2. late' \in Nat /\ touched' \in SUBSET Pos
    <3>1. late' \in {late, late + 1} /\ touched' \subseteq touched \cup {cur}
      BY <2>1 DEF Admit
    <3> QED
      BY <1>0, <2>0, <3>1
  <2>3. worker' \in [Pos -> {"idle", "running", "failing", "panicked", "finished",
                           "joined"}]
    BY <1>0, <2>1
  <2>4. /\ result' \in [Pos -> Statuses \cup {None}] /\ cur' \in 0..N + 1
        /\ phase' \in {"spawn", "enter", "post"}
    <3>1. CASE Finish("skipped")
      BY <1>9, <2>0, <3>1
    <3>2. CASE phase' \in {"spawn", "enter"} /\ cur' \in {cur, cur + 1} /\ result' = result
      BY <1>0, <2>0, <3>2
    <3> QED
      BY <2>1, <3>1, <3>2
  <2> QED
    BY <1>0, <1>22, <2>2, <2>3, <2>4 DEF PlaceStep
<1>23. CASE Join
  BY <1>0, <1>23 DEF Join
<1>24. CASE AllJoined
  BY <1>0, <1>24 DEF AllJoined
<1>25. CASE PickResult
  BY <1>0, <1>25 DEF PickResult
<1>26. CASE GroupDone
  <2>1. CASE unitFailed
    BY <1>0, <1>26, <2>1 DEF GroupDone, Return
  <2>2. CASE ~unitFailed
    <3>1. lo' \in 1..N + 1
      BY <1>0, <1>26, <2>2 DEF GroupDone
    <3> QED
      BY <1>0, <1>26, <2>2, <3>1 DEF GroupDone
  <2> QED
    BY <2>1, <2>2
<1>27. CASE CountStep
  BY <1>0, <1>27 DEF CountStep, TerminalBeforeHook
<1>28. CASE ApplyTerminal
  BY <1>0, <1>28 DEF ApplyTerminal, Effective
<1>29. CASE Settle
  BY <1>0, <1>29 DEF Settle, GroupStores, Stops, Completed, Writes
<1>30. CASE Decide
  <2>1. CASE mode = "serial" /\ UnitStops
    BY <1>0, <1>30, <2>1 DEF Decide, Return
  <2>2. CASE mode = "serial" /\ ~UnitStops
    <3>1. phase' = "loop" /\ lo' = lo + 1 /\ lo \in Pos
      BY <1>0, <1>30, <2>2 DEF Decide, TypeInv, CursorOK
    <3>2. lo' \in 1..N + 1
      BY <1>0, <3>1
    <3> QED
      BY <1>0, <1>30, <2>2, <3>1, <3>2 DEF Decide
  <2>3. CASE mode # "serial"
    <3>1. phase' = "pick" /\ cur' = cur + 1 /\ unitFailed' \in BOOLEAN
      BY <1>0, <1>30, <2>3 DEF Decide, NextToSettle, UnitStops, IsTerminal
    <3>2. cur' \in 0..N + 1
      BY <1>0, <1>30, <3>1 DEF Decide
    <3> QED
      BY <1>0, <1>30, <2>3, <3>1, <3>2 DEF Decide
  <2> QED
    BY <2>1, <2>2, <2>3
<1>31. ASSUME NEW i \in Pos, Worker(i) PROVE TypeOK'
  <2>1. CASE WorkerSkips(i)
    BY <1>0, <2>1 DEF WorkerSkips
  <2>2. CASE WorkerAnswers(i)
    <3>1. PICK r \in {"completed", "degraded", "failed"} :
            result' = [result EXCEPT ![i] = r]
      BY <1>0, <2>2 DEF WorkerAnswers, StepType
    <3>2. result' \in [Pos -> Statuses \cup {None}]
      BY <1>0, <3>1
    <3> QED
      BY <1>0, <2>2, <3>2 DEF WorkerAnswers
  <2>3. CASE WorkerErrs(i)
    BY <1>0, <2>3 DEF WorkerErrs
  <2>4. CASE WorkerPanics(i)
    BY <1>0, <2>4 DEF WorkerPanics
  <2>5. CASE WorkerPublishes(i)
    BY <1>0, <2>5 DEF WorkerPublishes
  <2> QED
    BY <1>31, <2>1, <2>2, <2>3, <2>4, <2>5 DEF Worker
<1>32. CASE OuterPublishes
  BY <1>0, <1>32 DEF OuterPublishes
<1>33. CASE UNCHANGED vars
  BY <1>0, <1>33 DEF vars
<1> QED
  BY <1>1, <1>2, <1>3, <1>4, <1>5, <1>6, <1>7, <1>8, <1>10, <1>11, <1>12, <1>13,
     <1>14, <1>15, <1>16, <1>17, <1>18, <1>19, <1>20, <1>21, <1>22, <1>23, <1>24,
     <1>25, <1>26, <1>27, <1>28, <1>29, <1>30, <1>31, <1>32, <1>33
     DEF Next, Owner, Terminated

\* Both together.
LEMMA TypeStep == TypeInv /\ [Next]_vars => TypeInv'
BY CursorStep, TypeOKStep DEF TypeInv

\* Every variable keeps its type and the owner's cursor stays inside the unit it
\* walks, for every recipe and configuration.
THEOREM TypeCorrect == Spec => []TypeOK
<1>1. Spec => []TypeInv
  BY TypeInit, TypeStep, PTL DEF Spec
<1>2. TypeInv => TypeOK
  BY DEF TypeInv
<1> QED
  BY <1>1, <1>2, PTL

-----------------------------------------------------------------------------
(* At most one late admission.  The bound alone is not inductive: it needs    *)
(* that the owner arms an admission only while the latch is open and          *)
(* everything it starts goes through an armed phase.                          *)

Armed == {"preHook", "postHook", "armed", "repairCall", "place"}

LateInv ==
  /\ late = 0 \/ (late = 1 /\ IsTerminal)
  /\ phase \in Armed => late = 0

\* Every step keeps late admissions to one.
LEMMA LateStep == TypeInv /\ LateInv /\ [Next]_vars => LateInv'
<1> SUFFICES ASSUME TypeInv, LateInv, [Next]_vars PROVE LateInv'
  OBVIOUS
<1> USE DEF LateInv, Armed, IsTerminal, rigid, threads, report, flags, history, unit
<1>1. CASE LastStepDone \/ LimitReached \/ SkipStep \/ BeginUnit \/ ReturnResult
  BY <1>1 DEF LastStepDone, LimitReached, SkipStep, BeginUnit, ReturnResult, Return
<1>2. CASE OpenAudit
  BY <1>2 DEF OpenAudit
<1>3. CASE CheckPreHook \/ CheckPostHook
  BY <1>3 DEF CheckPreHook, CheckPostHook, HookMayRun
<1>4. CASE RunHook
  <2>1. IsTerminal => IsTerminal'
    BY <1>4 DEF RunHook, Observe
  <2> QED
    BY <1>4, <2>1 DEF RunHook, Admit
<1>5. CASE PreHookDone
  BY <1>5 DEF PreHookDone
<1>6. CASE StepVetoed \/ StepDryRun \/ StepCondition
  BY <1>6 DEF StepVetoed, StepDryRun, StepCondition, Finish
<1>7. CASE Dispatch
  BY <1>7 DEF Dispatch, Finish
<1>8. CASE Call
  <2>1. PICK o \in Outcomes(recipe[cur]) :
          /\ Observe(o)
          /\ CASE o = "answer" -> phase' = "answered" /\ UNCHANGED <<result, cur>>
               [] o = "raw"    -> phase' = "answeredRaw" /\ UNCHANGED <<result, cur>>
               [] OTHER        -> Finish("failed")
    BY <1>8 DEF Call
  <2>2. phase' \notin Armed
    BY <2>1 DEF Finish
  <2>3. IsTerminal => IsTerminal'
    BY <2>1 DEF Observe
  <2>4. late = 0 /\ Admit
    BY <1>8 DEF Call
  <2> QED
    BY <2>2, <2>3, <2>4 DEF Admit
<1>9. CASE StepAnswered \/ StartRepair \/ CheckRepair \/ Redispatch
  BY <1>9 DEF StepAnswered, StartRepair, CheckRepair, Redispatch, StoreOutput, Finish
<1>10. CASE RepairCall
  <2>1. IsTerminal => IsTerminal'
    BY <1>10 DEF RepairCall, Observe
  <2> QED
    BY <1>10, <2>1 DEF RepairCall, Admit
<1>11. CASE StepRepaired
  BY <1>11 DEF StepRepaired, StoreOutput, Finish
<1>12. CASE StepUnrepaired
  BY <1>12 DEF StepUnrepaired, StoreOutput, Finish
<1>13. CASE EnterGroup
  BY <1>13 DEF EnterGroup
<1>14. CASE SpawnLoop
  BY <1>14 DEF SpawnLoop, AfterSpawning
<1>15. CASE PlaceStep
  <2>1. Admit \/ late' = late
    BY <1>15 DEF PlaceStep
  <2>2. phase' \notin Armed
    BY <1>15 DEF PlaceStep, Finish
  <2>3. late = 0 /\ terminal' = terminal
    BY <1>15 DEF PlaceStep
  <2> QED
    BY <2>1, <2>2, <2>3 DEF Admit
<1>16. CASE Join
  <2>1. phase' = "join" /\ late' = late
    BY <1>16 DEF Join
  <2>2. IsTerminal => IsTerminal'
    BY <1>16 DEF Join
  <2> QED
    BY <2>1, <2>2
<1>17. CASE AllJoined \/ PickResult \/ GroupDone
  BY <1>17 DEF AllJoined, PickResult, GroupDone, Return
<1>18. CASE CountStep \/ ApplyTerminal \/ Settle \/ Decide
  BY <1>18 DEF CountStep, ApplyTerminal, Settle, Decide, Return
<1>19. ASSUME NEW i \in Pos, Worker(i) PROVE LateInv'
  <2>1. phase' = phase /\ late' = late
    BY <1>19 DEF Worker, WorkerSkips, WorkerAnswers, WorkerErrs, WorkerPanics,
                 WorkerPublishes
  <2>2. IsTerminal => IsTerminal'
    BY <1>19 DEF Worker, WorkerSkips, WorkerAnswers, WorkerErrs, WorkerPanics,
                 WorkerPublishes
  <2> QED
    BY <2>1, <2>2
<1>20. CASE OuterPublishes
  BY <1>20 DEF OuterPublishes
<1>21. CASE UNCHANGED vars
  BY <1>21 DEF vars
<1> QED
  BY <1>1, <1>2, <1>3, <1>4, <1>5, <1>6, <1>7, <1>8, <1>9, <1>10, <1>11, <1>12,
     <1>13, <1>14, <1>15, <1>16, <1>17, <1>18, <1>19, <1>20, <1>21
     DEF Next, Owner, Terminated

\* At most one hook, call or worker is admitted after the latch closed, whatever
\* the recipe, the number of workers and the order in which they publish: the
\* owner's check-then-start in run_hook, dispatch_step, retry_for_json and the
\* spawn loop lets one thing through, never two.
THEOREM LateAdmissionBounded == Spec => []AtMostOneLateAdmission
<1>1. Init => LateInv
  BY DEF Init, LateInv, Armed
<1>2. Spec => []TypeInv
  BY TypeInit, TypeStep, PTL DEF Spec
<1>3. Spec => []LateInv
  BY <1>1, <1>2, LateStep, PTL DEF Spec
<1>4. LateInv => AtMostOneLateAdmission
  BY DEF LateInv, AtMostOneLateAdmission
<1> QED
  BY <1>3, <1>4, PTL

-----------------------------------------------------------------------------
(* No worker outlives its group.  The strengthening says where the owner is   *)
(* while a worker is alive, and that joining goes through the steps in order. *)

Alive(i) == worker[i] \notin {"idle", "joined"}

Spawning == {"spawn", "place", "enter", "dispatch", "armed", "answered",
             "answeredRaw", "repair", "redispatch", "repairCall", "repaired",
             "unrepaired"}

WorkerInv ==
  \A i \in Pos : Alive(i) =>
    /\ mode = "group" /\ i \in lo..hi
    /\ phase \in Spawning \/ (phase = "join" /\ i >= cur)

\* Every step keeps the workers in their group.
LEMMA WorkerStep == TypeInv /\ WorkerInv /\ [Next]_vars => WorkerInv'
<1> SUFFICES ASSUME TypeInv, WorkerInv, [Next]_vars PROVE WorkerInv'
  OBVIOUS
<1> USE DEF WorkerInv, Alive, Spawning, rigid, threads, report, flags, history, unit
<1>0. /\ worker \in [Pos -> {"idle", "running", "failing", "panicked", "finished",
                             "joined"}]
      /\ lo \in Nat /\ hi \in Nat /\ cur \in Nat
      /\ phase \in Spawning => lo <= cur /\ (phase # "spawn" => cur <= hi)
  BY ConstantsAssumption DEF TypeInv, TypeOK, CursorOK, Idle, Cursors, Pos
<1>1. CASE OpenAudit \/ LastStepDone \/ LimitReached \/ SkipStep \/ BeginUnit
             \/ ReturnResult
  BY <1>1 DEF OpenAudit, LastStepDone, LimitReached, SkipStep, BeginUnit,
              ReturnResult
<1>2. CASE CheckPreHook \/ CheckPostHook \/ RunHook \/ PreHookDone
  BY <1>2 DEF CheckPreHook, CheckPostHook, RunHook, PreHookDone
<1>3. CASE StepVetoed \/ StepDryRun \/ StepCondition \/ Dispatch
  BY <1>3 DEF StepVetoed, StepDryRun, StepCondition, Dispatch, Finish
<1>4. CASE Call
  <2>1. phase' \in {"answered", "answeredRaw"} \/ Finish("failed")
    BY <1>4 DEF Call
  <2>2. mode = "group" => phase' \in Spawning
    BY <2>1 DEF Finish
  <2> QED
    BY <1>4, <2>2 DEF Call
<1>5. CASE StepAnswered \/ StepRepaired \/ StepUnrepaired
  BY <1>5 DEF StepAnswered, StepRepaired, StepUnrepaired, StoreOutput, Finish
<1>6. CASE StartRepair \/ CheckRepair \/ Redispatch \/ RepairCall
  BY <1>6 DEF StartRepair, CheckRepair, Redispatch, RepairCall
<1>7. CASE EnterGroup
  BY <1>7 DEF EnterGroup
<1>8. CASE SpawnLoop
  BY <1>0, <1>8 DEF SpawnLoop, AfterSpawning
<1>9. CASE PlaceStep
  <2>1. phase = "place" /\ UNCHANGED unit /\ cur \in lo..hi
    BY <1>0, <1>9 DEF PlaceStep
  <2>2. mode = "group"
    BY <1>9 DEF PlaceStep, TypeInv, CursorOK, Grouping
  <2>3. worker' = worker \/ worker' = [worker EXCEPT ![cur] = "running"]
    BY <1>9 DEF PlaceStep
  <2>4. phase' \in Spawning
    BY <1>9, <2>2 DEF PlaceStep, Finish
  <2> QED
    BY <1>0, <2>1, <2>2, <2>3, <2>4
<1>10. CASE Join
  <2>1. /\ phase = "join" /\ phase' = "join" /\ UNCHANGED unit /\ cur' = cur + 1
        /\ Joinable
    BY <1>10 DEF Join
  <2>2. \A i \in Pos : worker'[i] = IF i = cur /\ worker[i] # "idle"
                                   THEN "joined" ELSE worker[i]
    BY <1>0, <1>10 DEF Join
  <2> QED
    BY <1>0, <2>1, <2>2
<1>11. CASE AllJoined
  BY <1>0, <1>11 DEF AllJoined
<1>12. CASE PickResult \/ GroupDone
  BY <1>12 DEF PickResult, GroupDone
<1>13. CASE CountStep \/ ApplyTerminal \/ Settle \/ Decide
  BY <1>13 DEF CountStep, ApplyTerminal, Settle, Decide
<1>14. ASSUME NEW i \in Pos, Worker(i) PROVE WorkerInv'
  <2>1. /\ UNCHANGED <<phase, unit, cur>>
        /\ worker[i] \in {"running", "failing"}
    BY <1>14 DEF Worker, WorkerSkips, WorkerAnswers, WorkerErrs, WorkerPanics,
                 WorkerPublishes
  <2>2. \A j \in Pos : j # i => worker'[j] = worker[j]
    BY <1>0, <1>14 DEF Worker, WorkerSkips, WorkerAnswers, WorkerErrs,
                       WorkerPanics, WorkerPublishes
  <2> QED
    BY <2>1, <2>2
<1>15. CASE OuterPublishes
  BY <1>15 DEF OuterPublishes
<1>16. CASE UNCHANGED vars
  BY <1>16 DEF vars
<1> QED
  BY <1>1, <1>2, <1>3, <1>4, <1>5, <1>6, <1>7, <1>8, <1>9, <1>10, <1>11, <1>12,
     <1>13, <1>14, <1>15, <1>16 DEF Next, Owner, Terminated

\* Every worker a group starts is joined before its results are settled and
\* before the run goes on: the joins after the spawn loop in
\* execute_parallel_group leave none behind, also when the latch or a panic ends
\* the group early.
THEOREM NoWorkerOutlivesItsGroup == Spec => []WorkersContained
<1>1. Init => WorkerInv
  BY DEF Init, WorkerInv, Alive
<1>2. Spec => []TypeInv
  BY TypeInit, TypeStep, PTL DEF Spec
<1>3. Spec => []WorkerInv
  BY <1>1, <1>2, WorkerStep, PTL DEF Spec
<1>4. WorkerInv /\ TypeInv => WorkersContained
  BY DEF WorkerInv, Alive, Spawning, WorkersContained, TypeInv, TypeOK
<1> QED
  BY <1>2, <1>3, <1>4, PTL

-----------------------------------------------------------------------------
(* The steps of Next by what they do to the unit at hand.  Most of the loop's *)
(* actions leave the report alone and only move the owner along; the proofs   *)
(* below treat those by where they move it, and the others one by one.        *)

Preparing == {"pre", "preHook", "ready", "group"}
Settling  == {"pick", "post", "hook", "postHook", "apply", "settle"}
Over      == {"return", "done"}
Ran       == {"completed", "degraded"}
Called    == {"answered", "answeredRaw", "repair", "redispatch", "repairCall", "repaired",
              "unrepaired"}

Kept == UNCHANGED <<rigid, lo, hi, final, audit, ckpt, flags, total>>

\* Another thread, or nobody, takes a step.
Aside ==
  /\ Kept /\ UNCHANGED <<phase, mode, cur, listener, ctx, history>>
  /\ UNCHANGED <<threads, result>> \/ \E i \in Pos : Worker(i)
  /\ UNCHANGED terminal \/ OuterPublishes \/ \E i \in Pos : Worker(i)

\* Pre hooks of the unit.
Prepares ==
  /\ Kept /\ UNCHANGED <<mode, ctx, threads, result>>
  /\ phase \in Preparing /\ phase' \in Preparing
  /\ phase = "ready" => ~IsTerminal
  /\ \/ UNCHANGED <<cur, listener>>
     \/ /\ mode = "group" /\ cur < hi /\ cur' = cur + 1
        /\ listener' = [listener EXCEPT ![cur + 1] = "started"]

\* From the pre hooks to the step, to the spawn loop or to the veto of the group.
Embarks ==
  /\ Kept /\ UNCHANGED <<listener, ctx, threads, result, terminal, history>>
  /\ phase \in {"ready", "group"}
  /\ \/ mode = "serial" /\ phase' = "enter" /\ UNCHANGED <<mode, cur>>
     \/ /\ mode = "group" /\ IsTerminal
        /\ mode' = "prefail" /\ phase' = "enter" /\ cur' \in {cur, lo}
        /\ phase = "ready" => cur' = cur
     \/ /\ mode = "group" /\ phase = "group" /\ ~IsTerminal
        /\ phase' = "spawn" /\ cur' = lo /\ UNCHANGED mode

\* execute_step ends with r for the step at hand.
Ends(r) ==
  /\ result' = [result EXCEPT ![cur] = r]
  /\ r \in Ran => phase \in Called
  /\ IsTerminal => r = "failed" \/ phase = "place"

\* Inside execute_step, or inside the spawn loop: the owner goes on, a step it executed
\* itself hands over to the next, or it spawns a worker.
Walks ==
  /\ UNCHANGED <<cur, result, worker>>
  /\ phase \in {"enter", "unrepaired"} => ~IsTerminal
  /\ phase' \in Called => phase \in Called \/ cur \in touched'
HandsOver ==
  /\ mode = "group" /\ phase # "spawn" /\ phase' = "spawn" /\ cur' = cur + 1
  /\ \E r \in Statuses : Ends(r)
  /\ UNCHANGED worker
Spawns ==
  /\ phase = "place" /\ phase' = "spawn" /\ cur' = cur + 1
  /\ worker' = [worker EXCEPT ![cur] = "running"]
  /\ touched' = touched \cup {cur} /\ UNCHANGED <<result, terminal>>
Works ==
  /\ Kept /\ UNCHANGED <<mode, listener, ctx, failure>>
  /\ phase \in Spawning /\ phase' \in Spawning
  /\ Walks \/ HandsOver \/ Spawns

\* execute_step returns to the walk.
Delivers ==
  /\ Kept /\ UNCHANGED <<mode, cur, listener, threads>>
  /\ phase \in Spawning \ {"spawn", "place"} /\ phase' = "post" /\ mode # "group"
  /\ \E r \in Statuses :
       /\ Ends(r)
       /\ \/ ctx' = ctx
          \/ mode = "serial" /\ r # "failed" /\ ~IsTerminal /\ ctx' = Writes(cur)

\* The joins: all of them, in order.
Gathers ==
  /\ Kept /\ UNCHANGED <<mode, listener, ctx, threads, result, terminal, history>>
  /\ mode = "group"
  /\ \/ phase = "spawn" /\ phase' = "join" /\ cur' = lo /\ (cur > hi \/ IsTerminal)
     \/ phase = "join" /\ phase' = "pick" /\ cur' = lo /\ cur > hi

\* Settlement up to the audit entry.
Settles ==
  /\ Kept /\ UNCHANGED <<mode, listener, ctx, threads>>
  /\ phase \in Settling /\ phase' \in Settling
  /\ \/ /\ phase = "pick" /\ phase' = "pick" /\ cur' = cur + 1 /\ cur <= hi
        /\ result[cur] = None /\ UNCHANGED <<result, terminal, history>>
     \/ /\ phase = "pick" /\ phase' = "post" /\ cur' = cur /\ cur <= hi
        /\ result[cur] # None /\ UNCHANGED <<result, terminal, history>>
     \/ /\ phase = "hook" /\ UNCHANGED <<cur, result, terminal, history>>
        /\ \/ phase' = "postHook" /\ ~IsTerminal
           \/ phase' = "apply"
     \/ phase = "postHook" /\ phase' = "apply" /\ UNCHANGED <<cur, result>>
     \/ /\ phase = "apply" /\ phase' = "settle" /\ UNCHANGED <<cur, terminal, history>>
        /\ result' = [result EXCEPT ![cur] = Effective]

Quiet == Aside \/ Prepares \/ Embarks \/ Works \/ Delivers \/ Gathers \/ Settles \/ Join

Loud == OpenAudit \/ LastStepDone \/ LimitReached \/ SkipStep \/ BeginUnit \/ ReturnResult
        \/ GroupDone \/ CountStep \/ Settle \/ Decide

\* A step that returns a status either goes on in its unit or hands the result over.
LEMMA FinishKinds ==
  ASSUME NEW r \in Statuses, Finish(r), Kept, UNCHANGED <<mode, listener, threads>>,
         phase \in Spawning \ {"spawn", "place"}, r \in Ran => phase \in Called,
         IsTerminal => r = "failed",
         \/ ctx' = ctx
         \/ r # "failed" /\ ~IsTerminal /\ ctx' = IF mode = "serial" THEN Writes(cur) ELSE ctx
  PROVE  Works \/ Delivers
<1>1. CASE mode = "group"
  <2>1. phase' = "spawn" /\ cur' = cur + 1 /\ result' = [result EXCEPT ![cur] = r]
    BY <1>1 DEF Finish
  <2>2. ctx' = ctx
    BY <1>1
  <2> QED
    BY <1>1, <2>1, <2>2 DEF Works, HandsOver, Ends, Spawning, threads
<1>2. CASE mode # "group"
  <2>1. phase' = "post" /\ cur' = cur /\ result' = [result EXCEPT ![cur] = r]
    BY <1>2 DEF Finish
  <2> QED
    BY <1>2, <2>1 DEF Delivers, Ends, threads
<1> QED
  BY <1>1, <1>2

\* Every step of the system is of one of the kinds.
LEMMA StepKinds == TypeInv /\ [Next]_vars => Quiet \/ Loud
<1> SUFFICES ASSUME TypeInv, [Next]_vars PROVE Quiet \/ Loud
  OBVIOUS
<1> USE DEF rigid, threads, report, flags, history, unit, Quiet, Kept
<1>0. phase \in Grouping => mode = "group"
  BY DEF TypeInv, CursorOK
<1>1. CASE CheckPreHook \/ PreHookDone
  <2>1. CASE CheckPreHook
    BY <2>1 DEF CheckPreHook, Prepares, Preparing
  <2>2. CASE PreHookDone
    BY <2>2 DEF PreHookDone, Prepares, Preparing, Embarks
  <2> QED
    BY <1>1, <2>1, <2>2
<1>2. CASE RunHook
  <2>1. CASE phase = "preHook"
    BY <1>2, <2>1 DEF RunHook, Prepares, Preparing
  <2>2. CASE phase = "postHook"
    BY <1>2, <2>2 DEF RunHook, Settles, Settling
  <2> QED
    BY <1>2, <2>1, <2>2 DEF RunHook
<1>3. CASE CheckPostHook
  BY <1>3 DEF CheckPostHook, HookMayRun, Settles, Settling
<1>4. CASE StepVetoed
  <2>1. /\ Finish("failed") /\ Kept /\ UNCHANGED <<mode, listener, threads, ctx>>
        /\ phase \in Spawning \ {"spawn", "place"}
    BY <1>4 DEF StepVetoed, Spawning
  <2> QED
    BY <2>1, FinishKinds DEF Statuses, Ran
<1>5. CASE StepDryRun
  <2>1. /\ Finish("skipped") /\ Kept /\ UNCHANGED <<mode, listener, threads>>
        /\ phase \in Spawning \ {"spawn", "place"} /\ ~IsTerminal
        /\ ctx' = IF mode = "serial" THEN Writes(cur) ELSE ctx
    BY <1>5 DEF StepDryRun, Spawning
  <2> QED
    BY <2>1, FinishKinds DEF Statuses, Ran
<1>6. CASE StepCondition
  <2>1. /\ Kept /\ UNCHANGED <<mode, listener, threads, ctx>>
        /\ phase \in Spawning \ {"spawn", "place"} /\ ~IsTerminal
    BY <1>6 DEF StepCondition, Spawning
  <2>2. \/ phase' = "dispatch" /\ UNCHANGED <<result, cur>>
        \/ \E r \in {"skipped", "failed"} : Finish(r)
    BY <1>6 DEF StepCondition
  <2>3. CASE phase' = "dispatch" /\ UNCHANGED <<result, cur>>
    BY <2>1, <2>3 DEF Works, Walks, Spawning, Called
  <2>4. ASSUME NEW r \in {"skipped", "failed"}, Finish(r) PROVE Works \/ Delivers
    BY <2>1, <2>4, FinishKinds DEF Statuses, Ran
  <2> QED
    BY <2>2, <2>3, <2>4
<1>7. CASE Dispatch
  <2>1. /\ Kept /\ UNCHANGED <<mode, listener, threads, ctx>>
        /\ phase \in Spawning \ {"spawn", "place", "enter"}
    BY <1>7 DEF Dispatch, Spawning
  <2>2. \/ phase' = "armed" /\ UNCHANGED <<result, cur>>
        \/ Finish("failed")
    BY <1>7 DEF Dispatch
  <2>3. CASE phase' = "armed" /\ UNCHANGED <<result, cur>>
    BY <1>7, <2>1, <2>3 DEF Dispatch, Works, Walks, Spawning, Called
  <2>4. CASE Finish("failed")
    BY <2>1, <2>4, FinishKinds DEF Statuses, Ran
  <2> QED
    BY <2>2, <2>3, <2>4
<1>8. CASE Call
  <2>1. /\ Kept /\ UNCHANGED <<mode, listener, threads, ctx>>
        /\ phase \in Spawning \ {"spawn", "place", "enter"} /\ cur \in touched'
    BY <1>8 DEF Call, Spawning, Admit
  <2>2. \/ phase' \in {"answered", "answeredRaw"} /\ UNCHANGED <<result, cur>>
        \/ Finish("failed")
    BY <1>8 DEF Call
  <2>3. CASE phase' \in {"answered", "answeredRaw"} /\ UNCHANGED <<result, cur>>
    BY <1>8, <2>1, <2>3 DEF Call, Works, Walks, Spawning
  <2>4. CASE Finish("failed")
    BY <2>1, <2>4, FinishKinds DEF Statuses, Ran
  <2> QED
    BY <2>2, <2>3, <2>4
<1>9. CASE StepAnswered \/ StepRepaired
  <2>1. /\ Finish("completed") /\ Kept /\ UNCHANGED <<mode, listener, threads>>
        /\ phase \in Spawning \ {"spawn", "place"} /\ ~IsTerminal
        /\ ctx' = IF mode = "serial" THEN Writes(cur) ELSE ctx
        /\ phase \in Called
    BY <1>9 DEF StepAnswered, StepRepaired, StoreOutput, Spawning, Called
  <2> QED
    BY <2>1, FinishKinds DEF Statuses, Ran
<1>10. CASE StepUnrepaired
  <2>1. /\ Kept /\ UNCHANGED <<mode, listener, threads>>
        /\ phase \in Spawning \ {"spawn", "place"} /\ ~IsTerminal
        /\ phase \in Called
    BY <1>10 DEF StepUnrepaired, Spawning, Called
  <2>2. \/ Finish("failed") /\ ctx' = ctx
        \/ Finish("degraded") /\ ctx' = IF mode = "serial" THEN Writes(cur) ELSE ctx
    BY <1>10 DEF StepUnrepaired, StoreOutput
  <2> QED
    BY <2>1, <2>2, FinishKinds DEF Statuses, Ran
<1>11. CASE StartRepair \/ CheckRepair \/ Redispatch \/ RepairCall
  <2>1. /\ Kept /\ UNCHANGED <<mode, cur, result, listener, threads, ctx>>
        /\ phase \in Spawning \ {"enter", "unrepaired"} /\ phase' \in Spawning /\ phase \in Called
    BY <1>11 DEF StartRepair, CheckRepair, Redispatch, RepairCall, Spawning, Called
  <2> QED
    BY <2>1 DEF Works, Walks
<1>12. CASE EnterGroup
  BY <1>0, <1>12 DEF EnterGroup, Embarks, Grouping
<1>13. CASE SpawnLoop
  BY <1>0, <1>13 DEF SpawnLoop, AfterSpawning, Works, Walks, Gathers, Spawning, Grouping, Called
<1>14. CASE PlaceStep
  <2>1. /\ Kept /\ UNCHANGED <<mode, listener, failure, ctx, terminal>>
        /\ phase = "place" /\ mode = "group"
    BY <1>0, <1>14 DEF PlaceStep, Grouping
  <2>2. \/ Finish("skipped") /\ worker' = worker
        \/ /\ worker' = [worker EXCEPT ![cur] = "running"] /\ Admit
           /\ phase' = "spawn" /\ cur' = cur + 1 /\ UNCHANGED result
        \/ phase' = "enter" /\ UNCHANGED <<worker, cur, result>>
    BY <1>14 DEF PlaceStep
  <2> QED
    BY <2>1, <2>2 DEF Works, HandsOver, Ends, Spawns, Walks, Finish, Spawning, Statuses, Admit, Called, Ran
<1>15. CASE AllJoined
  BY <1>0, <1>15 DEF AllJoined, Gathers, Grouping
<1>16. CASE PickResult
  BY <1>16 DEF PickResult, Settles, Settling
<1>17. CASE ApplyTerminal
  BY <1>17 DEF ApplyTerminal, Settles, Settling
<1>18. ASSUME NEW i \in Pos, Worker(i) PROVE Aside
  BY <1>18 DEF Worker, WorkerSkips, WorkerAnswers, WorkerErrs, WorkerPanics,
               WorkerPublishes, Aside
<1>19. CASE OuterPublishes \/ UNCHANGED vars
  BY <1>19 DEF OuterPublishes, Aside, vars
<1>20. CASE Join
  BY <1>20
<1> QED
  BY <1>1, <1>2, <1>3, <1>4, <1>5, <1>6, <1>7, <1>8, <1>9, <1>10, <1>11, <1>12,
     <1>13, <1>14, <1>15, <1>16, <1>17, <1>18, <1>19, <1>20
     DEF Next, Owner, Terminated, Loud
\* A failure once observed stays observed, a step once started stays started.
LEMMA LatchGrows == [Next]_vars => terminal \subseteq terminal' /\ touched \subseteq touched'
<1> SUFFICES ASSUME [Next]_vars PROVE terminal \subseteq terminal' /\ touched \subseteq touched'
  OBVIOUS
<1> USE DEF history
<1>1. CASE RunHook \/ Call \/ RepairCall
  BY <1>1 DEF RunHook, Call, RepairCall, Observe, Admit
<1>2. CASE Join
  BY <1>2 DEF Join
<1>3. ASSUME NEW i \in Pos, Worker(i) PROVE terminal \subseteq terminal' /\ touched \subseteq touched'
  BY <1>3 DEF Worker, WorkerSkips, WorkerAnswers, WorkerErrs, WorkerPanics,
              WorkerPublishes
<1>4. CASE OuterPublishes
  BY <1>4 DEF OuterPublishes
<1>5. CASE UNCHANGED vars
  BY <1>5 DEF vars
<1>6. CASE OpenAudit \/ LastStepDone \/ LimitReached \/ SkipStep \/ BeginUnit
             \/ ReturnResult \/ CheckPreHook \/ CheckPostHook \/ PreHookDone
  BY <1>6 DEF OpenAudit, LastStepDone, LimitReached, SkipStep, BeginUnit,
              ReturnResult, CheckPreHook, CheckPostHook, PreHookDone
<1>7. CASE StepVetoed \/ StepDryRun \/ StepCondition \/ Dispatch \/ StepAnswered
             \/ StartRepair \/ CheckRepair \/ Redispatch \/ StepRepaired \/ StepUnrepaired
  BY <1>7 DEF StepVetoed, StepDryRun, StepCondition, Dispatch, StepAnswered,
              StartRepair, CheckRepair, Redispatch, StepRepaired, StepUnrepaired
<1>8. CASE PlaceStep
  BY <1>8 DEF PlaceStep, Admit
<1>9. CASE EnterGroup \/ SpawnLoop \/ AllJoined \/ PickResult \/ GroupDone
             \/ CountStep \/ ApplyTerminal \/ Settle \/ Decide
  BY <1>9 DEF EnterGroup, SpawnLoop, AllJoined, PickResult, GroupDone,
              CountStep, ApplyTerminal, Settle, Decide
<1> QED
  BY <1>1, <1>2, <1>3, <1>4, <1>5, <1>6, <1>7, <1>8, <1>9 DEF Next, Owner, Terminated

\* While a unit is at hand it is a unit, its mode says whether it is a group, and a
\* group that was vetoed as a whole was vetoed by the latch.
UnitInv ==
  phase \notin Idle =>
    /\ IsUnit(lo, hi)
    /\ mode = "serial" <=> recipe[lo].group = NoGroup
    /\ mode = "prefail" => IsTerminal /\ phase \in Settling \cup {"enter", "decide"}

\* Every step keeps the unit at hand a unit.
LEMMA UnitStep == TypeInv /\ UnitInv /\ [Next]_vars => UnitInv'
<1> SUFFICES ASSUME TypeInv, UnitInv, [Next]_vars PROVE UnitInv'
  OBVIOUS
<1>0. IsTerminal => IsTerminal'
  BY LatchGrows DEF IsTerminal
<1>1. TypeOK /\ CursorOK
  BY DEF TypeInv
<1> USE DEF UnitInv, rigid, threads, report, flags, history, unit, Idle
<1>2. CASE Quiet
  <2>1. UNCHANGED <<recipe, lo, hi>> /\ (IsUnit(lo, hi))' = IsUnit(lo, hi)
    BY <1>2 DEF Quiet, Kept, Aside, Prepares, Embarks, Works, Delivers, Gathers, Settles,
                Join, IsUnit
  <2>2. CASE Aside \/ Join
    <3>1. UNCHANGED <<phase, mode>>
      BY <2>2 DEF Aside, Join
    <3> QED
      BY <1>0, <2>1, <3>1
  <2>3. CASE Prepares \/ Works
    <3>1. phase \notin Idle /\ UNCHANGED mode
      BY <2>3 DEF Prepares, Works, Preparing, Spawning
    <3>2. mode # "prefail"
      <4>1. CASE Prepares
        BY <3>1, <4>1 DEF Prepares, Preparing, Settling
      <4>2. CASE Works
        BY <3>1, <4>2 DEF Works, Walks, HandsOver, Spawns, Spawning, Settling
      <4> QED
        BY <2>3, <4>1, <4>2
    <3> QED
      BY <1>0, <2>1, <3>1, <3>2 DEF Settling
  <2>4. CASE Embarks
    BY <1>0, <2>1, <2>4 DEF Embarks
  <2>5. CASE Delivers \/ Gathers \/ Settles
    <3>1. /\ phase \notin Idle /\ UNCHANGED mode
          /\ mode = "prefail" => phase' \in Settling
      BY <2>5 DEF Delivers, Gathers, Settles, Spawning, Settling
    <3> QED
      BY <1>0, <2>1, <3>1
  <2> QED
    BY <1>2, <2>2, <2>3, <2>4, <2>5 DEF Quiet
<1>3. CASE BeginUnit
  <2>1. PICK q \in lo..N : IsUnit(lo, q) /\ hi' = q
    BY <1>3 DEF BeginUnit
  <2>2. UNCHANGED <<recipe, lo>> /\ (IsUnit(lo, hi))' = IsUnit(lo, q)
    BY <1>3, <2>1 DEF BeginUnit, IsUnit
  <2> QED
    BY <1>3, <2>1, <2>2 DEF BeginUnit
<1>4. CASE OpenAudit \/ LastStepDone \/ LimitReached \/ SkipStep \/ ReturnResult \/ GroupDone
  <2>1. phase' \in Idle
    BY <1>4 DEF OpenAudit, LastStepDone, LimitReached, SkipStep, ReturnResult, GroupDone, Return
  <2> QED
    BY <2>1
<1>5. CASE CountStep \/ Settle \/ Decide
  <2>1. \/ phase' \in Idle
        \/ /\ phase \notin Idle /\ phase' \in Settling \cup {"decide"}
           /\ UNCHANGED <<recipe, lo, hi, mode>>
    BY <1>5 DEF CountStep, Settle, Decide, Return, Settling
  <2>2. UNCHANGED <<recipe, lo, hi, mode>> => (IsUnit(lo, hi))' = IsUnit(lo, hi)
    BY DEF IsUnit
  <2> QED
    BY <1>0, <2>1, <2>2
<1> QED
  BY StepKinds, <1>2, <1>3, <1>4, <1>5 DEF Loud
\* The first step that is not settled, and the first that is not announced.
Edge  == IF phase \in Settling THEN cur ELSE IF phase = "decide" THEN cur + 1 ELSE lo
Ahead == IF phase \in Idle THEN lo ELSE hi + 1

\* What every quiet step keeps: the report, and how far it is settled.
LEMMA QuietFrame ==
  ASSUME TypeInv, Quiet
  PROVE  /\ Kept
         /\ phase' \in Idle <=> phase \in Idle
         /\ phase \in Idle => Aside
         /\ Edge' >= Edge /\ Ahead' = Ahead
         /\ Edge \in Nat /\ Edge' \in Nat
<1>0. /\ N \in Nat /\ lo \in Nat /\ hi \in Nat /\ cur \in Nat
      /\ phase \notin Idle => lo <= cur
  BY CursorRange DEF TypeInv, CursorOK
<1> USE DEF Edge, Ahead, Idle, Settling, Kept, rigid, threads, report, flags, history, unit
<1>1. CASE Aside
  BY <1>0, <1>1 DEF Aside
<1>2. CASE Prepares \/ Embarks
  <2>1. phase \in Preparing /\ phase' \in Preparing \cup Spawning /\ Kept
    BY <1>2 DEF Prepares, Embarks, Preparing, Spawning
  <2> QED
    BY <1>0, <2>1 DEF Preparing, Spawning
<1>3. CASE Works
  <2>1. phase \in Spawning /\ phase' \in Spawning /\ Kept
    BY <1>3 DEF Works
  <2> QED
    BY <1>0, <2>1 DEF Spawning
<1>4. CASE Delivers
  <2>1. phase \in Spawning /\ phase' = "post" /\ UNCHANGED cur /\ Kept
    BY <1>4 DEF Delivers
  <2> QED
    BY <1>0, <2>1 DEF Spawning
<1>5. CASE Gathers
  BY <1>0, <1>5 DEF Gathers
<1>6. CASE Settles
  <2>1. phase \in Settling /\ phase' \in Settling /\ cur' \in {cur, cur + 1} /\ Kept
    BY <1>6 DEF Settles
  <2> QED
    BY <1>0, <2>1
<1>7. CASE Join
  BY <1>0, <1>7 DEF Join
<1> QED
  BY <1>1, <1>2, <1>3, <1>4, <1>5, <1>6, <1>7 DEF Quiet

\* What is ahead of the owner has not reported, has no audit entry and was not announced.
FrontInv ==
  phase \notin Over =>
    \A i \in Pos :
      /\ i >= Edge => final[i] = None /\ audit[i] = None
      /\ i >= Ahead => listener[i] = "quiet"

\* Every step leaves what lies ahead alone.
LEMMA FrontStep == TypeInv /\ FrontInv /\ [Next]_vars => FrontInv'
<1> SUFFICES ASSUME TypeInv, FrontInv, [Next]_vars PROVE FrontInv'
  OBVIOUS
<1>0. /\ N \in Nat /\ lo \in Nat /\ hi \in Nat /\ cur \in Nat
      /\ phase \notin Idle => lo <= cur /\ lo <= hi /\ (phase \notin Cursors => cur <= hi)
      /\ final \in [Pos -> Statuses \cup {None}] /\ audit \in [Pos -> Statuses \cup {None}]
      /\ listener \in [Pos -> {"quiet", "started", "completed"}]
  BY CursorRange DEF TypeInv, CursorOK, TypeOK
<1> USE DEF FrontInv, Over, Pos, rigid, threads, report, flags, history, unit
<1>1. CASE Quiet
  <2>1. /\ Edge' >= Edge /\ Ahead' = Ahead /\ Edge \in Nat /\ Edge' \in Nat
        /\ UNCHANGED <<final, audit>>
    BY <1>1, QuietFrame DEF Kept
  <2>2. phase' \in Over <=> phase \in Over
    BY <1>1, QuietFrame DEF Idle, Aside
  <2>3. \/ UNCHANGED listener
        \/ cur < hi /\ phase \notin Idle /\ listener' = [listener EXCEPT ![cur + 1] = "started"]
    BY <1>1 DEF Quiet, Aside, Prepares, Embarks, Works, Delivers, Gathers, Settles, Join,
                Preparing, Idle
  <2>4. \A i \in Pos : i >= Ahead => listener'[i] = listener[i]
    BY <1>0, <2>3 DEF Ahead
  <2> QED
    BY <1>0, <2>1, <2>2, <2>4
<1>2. CASE OpenAudit \/ LastStepDone \/ LimitReached \/ ReturnResult
  BY <1>2 DEF OpenAudit, LastStepDone, LimitReached, ReturnResult, Return, Edge, Ahead,
              Idle, Settling
<1>3. CASE SkipStep
  <2>1. /\ final' = [final EXCEPT ![lo] = "skipped"] /\ UNCHANGED <<audit, listener>>
        /\ phase = "loop" /\ phase' = "loop" /\ lo' = lo + 1
    BY <1>3 DEF SkipStep
  <2>2. Edge = lo /\ Ahead = lo /\ Edge' = lo + 1 /\ Ahead' = lo + 1
    BY <2>1 DEF Edge, Ahead, Settling, Idle
  <2> QED
    BY <1>0, <2>1, <2>2
<1>4. CASE BeginUnit
  <2>0. PICK q \in lo..N : hi' = q
    BY <1>4 DEF BeginUnit
  <2>1. /\ listener' = [listener EXCEPT ![lo] = "started"] /\ UNCHANGED <<lo, final, audit>>
        /\ phase = "loop" /\ phase' = "pre"
    BY <1>4 DEF BeginUnit
  <2>2. Edge = lo /\ Ahead = lo /\ Edge' = lo /\ Ahead' = q + 1
    BY <2>0, <2>1 DEF Edge, Ahead, Settling, Idle
  <2> QED
    BY <1>0, <2>0, <2>1, <2>2
<1>5. CASE GroupDone
  <2>1. /\ phase = "pick" /\ cur > hi /\ UNCHANGED <<final, audit, listener>>
        /\ phase' = "return" \/ (phase' = "loop" /\ lo' = hi + 1)
    BY <1>5 DEF GroupDone, Return
  <2>2. Edge = cur /\ Ahead = hi + 1
    BY <2>1 DEF Edge, Ahead, Settling, Idle
  <2>3. phase' = "loop" => cur = hi + 1 /\ Edge' = hi + 1 /\ Ahead' = hi + 1
    BY <1>0, <2>1, CursorRange DEF Edge, Ahead, Settling, Idle, Cursors
  <2> QED
    BY <1>0, <2>1, <2>2, <2>3
<1>6. CASE CountStep
  BY <1>6 DEF CountStep, Edge, Ahead, Idle, Settling
<1>7. CASE Settle
  <2>1. /\ phase = "settle" /\ phase' = "decide" /\ UNCHANGED <<lo, hi, cur>>
        /\ \A i \in Pos : i # cur => /\ final'[i] = final[i] /\ audit'[i] = audit[i]
                                     /\ listener'[i] = listener[i]
    BY <1>0, <1>7 DEF Settle
  <2>2. /\ Edge = cur /\ Ahead = hi + 1 /\ Edge' = cur + 1 /\ Ahead' = hi + 1
        /\ cur <= hi
    BY <1>0, <2>1 DEF Edge, Ahead, Settling, Idle, Cursors
  <2> QED
    BY <1>0, <2>1, <2>2
<1>8. CASE Decide
  <2>1. /\ phase = "decide" /\ UNCHANGED <<hi, final, audit, listener>>
        /\ \/ phase' = "return"
           \/ mode = "serial" /\ phase' = "loop" /\ lo' = lo + 1
           \/ phase' = "pick" /\ cur' = cur + 1 /\ UNCHANGED lo
    BY <1>8 DEF Decide, Return, NextToSettle
  <2>2. Edge = cur + 1 /\ Ahead = hi + 1
    BY <2>1 DEF Edge, Ahead, Settling, Idle
  <2>3. mode = "serial" => lo = cur /\ hi = cur
    BY <1>0, <2>1 DEF TypeInv, CursorOK, Idle, Cursors
  <2>4. phase' # "return" => Edge' = cur + 1 /\ Ahead' = hi + 1
    BY <1>0, <2>1, <2>3 DEF Edge, Ahead, Settling, Idle
  <2> QED
    BY <1>0, <2>1, <2>2, <2>4
<1> QED
  BY StepKinds, <1>1, <1>2, <1>3, <1>4, <1>5, <1>6, <1>7, <1>8 DEF Loud
-----------------------------------------------------------------------------
(* The budget.  Every settled step of the unit at hand was counted once, and   *)
(* the unit was begun below the limit.                                        *)

Counting == {"hook", "postHook", "apply", "settle"}
Counted  == Edge - lo + (IF phase \in Counting THEN 1 ELSE 0)

BudgetInv ==
  /\ phase \in Idle => BudgetOvershoot
  /\ phase \notin Idle => total < MaxTotalSteps + Counted

\* Every step keeps the counter in its budget.
LEMMA BudgetStep == TypeInv /\ UnitInv /\ BudgetInv /\ [Next]_vars => BudgetInv'
<1> SUFFICES ASSUME TypeInv, UnitInv, BudgetInv, [Next]_vars PROVE BudgetInv'
  OBVIOUS
<1>0. /\ N \in Nat /\ lo \in Nat /\ hi \in Nat /\ cur \in Nat /\ total \in Nat
      /\ MaxTotalSteps \in Nat /\ hi <= N /\ lo >= 1
      /\ phase \notin Idle => lo <= cur /\ lo <= hi /\ (phase \notin Cursors => cur <= hi)
      /\ phase = "pick" => cur <= hi + 1
  BY CursorRange, ConstantsAssumption DEF TypeInv, CursorOK, TypeOK, Cursors, Pos
<1> USE DEF Counting, Counted, rigid, threads, report, flags, history, unit
<1>1. UNCHANGED <<recipe, opts, total>> => BudgetOvershoot' = BudgetOvershoot
  BY DEF BudgetOvershoot, IsUnit
<1>2. CASE Quiet
  <2>1. /\ UNCHANGED <<recipe, opts, total, lo>> /\ (phase' \in Idle <=> phase \in Idle)
        /\ Edge' >= Edge /\ Edge \in Nat /\ Edge' \in Nat
    BY <1>2, QuietFrame DEF Kept
  <2>2. phase \in Counting => phase' \in Counting
    BY <1>2 DEF Quiet, Aside, Prepares, Embarks, Works, Delivers, Gathers, Settles, Join,
                Preparing, Spawning
  <2>3. PICK e \in Nat : e = Edge' /\ e >= Edge
    BY <2>1
  <2>4. phase \notin Idle =>
          total < MaxTotalSteps + (e - lo + (IF phase' \in Counting THEN 1 ELSE 0))
    <3>1. phase \notin Idle => total < MaxTotalSteps + (Edge - lo + (IF phase \in Counting THEN 1 ELSE 0))
      BY DEF BudgetInv
    <3>2. e \in Nat /\ Edge \in Nat /\ lo \in Nat /\ total \in Nat /\ MaxTotalSteps \in Nat /\ e >= Edge
      BY <1>0, <2>1, <2>3
    <3>3. ASSUME NEW d \in {0, 1}, NEW c \in {0, 1}, d <= c, total < MaxTotalSteps + (Edge - lo + d)
          PROVE  total < MaxTotalSteps + (e - lo + c)
      BY <3>2, <3>3
    <3> QED
      BY <2>2, <3>1, <3>3
  <2>5. phase \notin Idle => total' < MaxTotalSteps + Counted'
    BY <2>1, <2>3, <2>4
  <2> QED
    BY <1>1, <2>1, <2>5 DEF BudgetInv
<1>3. CASE OpenAudit \/ LastStepDone \/ LimitReached \/ SkipStep \/ ReturnResult
  <2>1. phase \in Idle /\ phase' \in Idle /\ UNCHANGED <<recipe, opts, total>>
    BY <1>3 DEF OpenAudit, LastStepDone, LimitReached, SkipStep, ReturnResult, Return, Idle
  <2> QED
    BY <1>1, <2>1 DEF BudgetInv
<1>4. CASE BeginUnit
  <2>1. /\ total < MaxTotalSteps /\ phase' = "pre" /\ UNCHANGED <<lo, total>>
    BY <1>0, <1>4 DEF BeginUnit, BudgetSpent
  <2>2. Edge' = lo
    BY <2>1 DEF Edge, Settling
  <2> QED
    BY <1>0, <2>1, <2>2 DEF BudgetInv, Idle
<1>5. CASE GroupDone
  <2>1. /\ phase = "pick" /\ cur > hi /\ phase' \in {"loop", "return"}
        /\ UNCHANGED <<recipe, opts, total>>
    BY <1>5 DEF GroupDone, Return
  <2>2. Edge = hi + 1
    BY <1>0, <2>1 DEF Edge, Settling
  <2>3. total <= MaxTotalSteps + (hi - lo)
    BY <1>0, <2>1, <2>2 DEF BudgetInv, Idle
  <2>4. IsUnit(lo, hi) /\ lo \in Pos /\ hi \in lo..N
    BY <1>0, <2>1 DEF UnitInv, Idle, Pos
  <2>5. BudgetOvershoot
    BY <2>3, <2>4 DEF BudgetOvershoot
  <2> QED
    BY <1>1, <2>1, <2>5 DEF BudgetInv, Idle
<1>6. CASE CountStep
  <2>1. /\ phase = "post" /\ phase' = "hook" /\ total' = total + 1 /\ UNCHANGED <<lo, cur>>
    BY <1>6 DEF CountStep
  <2>2. Edge = cur /\ Edge' = cur
    BY <2>1 DEF Edge, Settling
  <2> QED
    BY <1>0, <2>1, <2>2 DEF BudgetInv, Idle
<1>7. CASE Settle
  <2>1. /\ phase = "settle" /\ phase' = "decide" /\ UNCHANGED <<lo, cur, total>>
    BY <1>7 DEF Settle
  <2>2. Edge = cur /\ Edge' = cur + 1
    BY <2>1 DEF Edge, Settling
  <2> QED
    BY <1>0, <2>1, <2>2 DEF BudgetInv, Idle
<1>8. CASE Decide
  <2>1. /\ phase = "decide" /\ UNCHANGED <<recipe, opts, total>>
        /\ \/ mode = "serial" /\ phase' \in {"return", "loop"}
           \/ phase' = "pick" /\ cur' = cur + 1 /\ UNCHANGED lo
    BY <1>8 DEF Decide, Return, NextToSettle
  <2>2. Edge = cur + 1
    BY <2>1 DEF Edge, Settling
  <2>3. CASE mode = "serial" /\ phase' \in {"return", "loop"}
    <3>1. hi = lo /\ cur = lo
      BY <1>0, <2>1, <2>3 DEF TypeInv, CursorOK, Idle, Cursors
    <3>2. total <= MaxTotalSteps
      BY <1>0, <2>1, <2>2, <3>1 DEF BudgetInv, Idle
    <3> QED
      BY <1>1, <2>1, <2>3, <3>2 DEF BudgetInv, Idle, BudgetOvershoot
  <2>4. CASE phase' = "pick" /\ cur' = cur + 1 /\ UNCHANGED lo
    <3>1. Edge' = cur + 1
      BY <2>4 DEF Edge, Settling
    <3> QED
      BY <1>0, <2>1, <2>2, <2>4, <3>1 DEF BudgetInv, Idle
  <2> QED
    BY <2>1, <2>3, <2>4
<1> QED
  BY StepKinds, <1>2, <1>3, <1>4, <1>5, <1>6, <1>7, <1>8 DEF Loud

\* The unit at hand is always a unit.
LEMMA UnitAlways == Spec => [](TypeInv /\ UnitInv)
<1>1. Init => UnitInv
  BY DEF Init, UnitInv, Idle
<1> QED
  BY <1>1, TypeInit, TypeStep, UnitStep, PTL DEF Spec

\* The counter that bounds a run and its sub-recipes is looked at between units only
\* (run_steps), so a parallel group may pass max_total_steps; it does so by less than its
\* own size, for every recipe, limit and count carried over from an enclosing run.
THEOREM BudgetIsBounded == Spec => []BudgetOvershoot
<1>1. Init => BudgetInv
  BY DEF Init, BudgetInv, Idle, BudgetOvershoot
<1>2. Spec => []BudgetInv
  BY <1>1, UnitAlways, BudgetStep, PTL DEF Spec
<1>3. TypeInv /\ UnitInv /\ BudgetInv => BudgetOvershoot
  <2> SUFFICES ASSUME TypeInv, UnitInv, BudgetInv, phase \notin Idle PROVE BudgetOvershoot
    BY DEF BudgetInv
  <2>1. /\ N \in Nat /\ lo \in Nat /\ hi \in Nat /\ cur \in Nat /\ total \in Nat
        /\ MaxTotalSteps \in Nat /\ hi <= N /\ lo >= 1 /\ lo <= cur /\ lo <= hi
        /\ phase \notin Cursors => cur <= hi
        /\ phase = "pick" => cur <= hi + 1
    BY CursorRange, ConstantsAssumption DEF TypeInv, CursorOK, TypeOK, Cursors, Pos
  <2>2. Counted <= hi - lo + 1 /\ Counted \in Int
    BY <2>1 DEF Counted, Counting, Edge, Settling, Cursors
  <2>3. total <= MaxTotalSteps + (hi - lo)
    BY <2>1, <2>2 DEF BudgetInv
  <2>4. IsUnit(lo, hi) /\ lo \in Pos /\ hi \in lo..N
    BY <2>1 DEF UnitInv, Pos
  <2> QED
    BY <2>3, <2>4 DEF BudgetOvershoot
<1> QED
  BY <1>2, <1>3, UnitAlways, PTL
-----------------------------------------------------------------------------
(* Results.  A step has one as soon as it is placed or its worker ended, and   *)
(* keeps the failure its worker holds.                                        *)

\* The first step nothing was done for.
Placed ==
  IF phase \in Spawning THEN IF mode = "prefail" THEN lo ELSE cur
  ELSE IF phase \in Settling \cup {"join", "decide"} THEN hi + 1
  ELSE IF phase \in Over THEN N + 1 ELSE lo

\* From the first settled action on the step at hand has a result, ahead of the placed
\* steps there is none, and a worker has one exactly when it returned.
ResultInv ==
  /\ phase \in Settling \ {"pick"} => result[cur] # None
  /\ \A i \in Pos : i >= Placed => result[i] = None /\ worker[i] = "idle" /\ failure[i] = None
  /\ \A i \in Pos :
       /\ worker[i] \in {"running", "failing", "panicked"} => result[i] = None
       /\ worker[i] \in {"finished", "joined"} => result[i] # None
       /\ failure[i] # None => worker[i] = "failing" \/ result[i] = "failed"

\* How far the results of a group have been placed, before and after a step.
LEMMA PlacedMoves ==
  ASSUME TypeInv, [Next]_vars
  PROVE  /\ Placed \in Nat /\ \A i \in Pos : i >= Placed' => i >= Placed
         /\ Works /\ (HandsOver \/ Spawns) => Placed <= cur /\ \A i \in Pos : i >= Placed' => i > cur
         /\ Delivers => Placed <= cur /\ \A i \in Pos : i >= Placed' => i > cur
         /\ Settles \/ Join => Placed' = Placed /\ Placed = hi + 1
<1>0. /\ N \in Nat /\ lo \in Nat /\ hi \in Nat /\ cur \in Nat /\ hi <= N
      /\ phase \notin Idle => lo <= cur /\ lo <= hi /\ (phase \notin Cursors => cur <= hi)
      /\ phase \in Cursors => cur <= hi + 1
  BY CursorRange DEF TypeInv, CursorOK
<1> USE DEF Placed, Pos, Settling, Over, rigid, threads, report, flags, history, unit, Kept
<1>1. Placed \in Nat
  BY <1>0
<1>2. CASE Aside
  <2>1. UNCHANGED <<phase, mode, lo, hi, cur>>
    BY <1>2 DEF Aside
  <2>2. ~HandsOver /\ ~Spawns /\ ~Delivers
    BY <1>0, <2>1 DEF HandsOver, Spawns, Delivers, Spawning
  <2>3. Settles \/ Join => phase \in Settling \cup {"join"}
    BY DEF Settles, Join
  <2> QED
    BY <1>0, <2>1, <2>2, <2>3 DEF Spawning
<1>3. CASE Prepares
  <2>1. phase \in Preparing /\ phase' \in Preparing /\ UNCHANGED <<lo, hi>>
    BY <1>3 DEF Prepares
  <2> QED
    BY <1>0, <2>1 DEF Preparing, Works, Delivers, Settles, Join, Spawning
<1>4. CASE Embarks
  <2>1. /\ phase \in Preparing /\ phase' \in Spawning /\ UNCHANGED <<lo, hi>>
        /\ cur' \in {cur, lo}
    BY <1>4 DEF Embarks, Preparing, Spawning
  <2>2. Placed = lo /\ Placed' \in {cur, lo} /\ lo <= cur
    BY <1>0, <2>1 DEF Preparing, Spawning, Idle
  <2> QED
    BY <1>0, <2>1, <2>2 DEF Preparing, Works, Delivers, Settles, Join, Spawning
<1>5. CASE Works
  <2>1. /\ phase \in Spawning /\ phase' \in Spawning /\ cur' \in {cur, cur + 1}
        /\ HandsOver \/ Spawns => cur' = cur + 1 /\ mode = "group"
        /\ UNCHANGED <<mode, lo>>
    BY <1>5 DEF Works, Walks, HandsOver, Spawns, Grouping, TypeInv, CursorOK
  <2>2. IF mode = "prefail" THEN Placed = lo /\ Placed' = lo ELSE Placed = cur /\ Placed' = cur'
    BY <2>1
  <2>3. ~Delivers /\ ~Settles /\ ~Join
    BY <2>1 DEF Delivers, Settles, Join, Spawning
  <2> QED
    BY <1>0, <1>1, <2>1, <2>2, <2>3
<1>6. CASE Delivers
  <2>1. phase \in Spawning \ {"spawn"} /\ phase' = "post" /\ UNCHANGED <<cur, hi>>
    BY <1>6 DEF Delivers
  <2>2. Placed <= cur /\ Placed' = hi + 1 /\ cur <= hi
    BY <1>0, <2>1 DEF Spawning, Idle, Cursors
  <2>3. ~Works /\ ~Settles /\ ~Join
    BY <2>1 DEF Works, Settles, Join, Spawning
  <2> QED
    BY <1>0, <1>1, <2>1, <2>2, <2>3
<1>7. CASE Gathers
  <2>1. \/ phase = "spawn" /\ phase' = "join" /\ hi' = hi
        \/ phase = "join" /\ phase' = "pick" /\ hi' = hi
    BY <1>7 DEF Gathers
  <2>2. ~Works /\ ~Delivers /\ ~Settles /\ ~Join
    BY <2>1 DEF Works, Delivers, Settles, Join, Spawning
  <2>3. Placed <= hi + 1 /\ Placed' = hi + 1
    BY <1>0, <2>1 DEF Spawning, Cursors, Idle
  <2> QED
    BY <1>0, <1>1, <2>2, <2>3
<1>8. CASE Settles \/ Join
  <2>1. /\ phase \in Settling \cup {"join"} /\ phase' \in Settling \cup {"join"} /\ hi' = hi
    BY <1>8 DEF Settles, Join
  <2>2. Placed = hi + 1 /\ Placed' = hi + 1
    BY <2>1 DEF Spawning
  <2>3. ~Works /\ ~Delivers
    BY <2>1 DEF Works, Delivers, Spawning
  <2> QED
    BY <1>0, <1>1, <2>2, <2>3
<1>9. CASE Loud
  <2>1. CASE OpenAudit \/ LastStepDone \/ LimitReached \/ ReturnResult
    <3>1. /\ phase \in Idle /\ phase' \in Idle /\ UNCHANGED lo
          /\ phase \in Over => phase' \in Over
      BY <2>1 DEF OpenAudit, LastStepDone, LimitReached, ReturnResult, Return, Idle
    <3> QED
      BY <1>0, <3>1 DEF Idle, Works, Delivers, Settles, Join, Spawning
  <2>2. CASE SkipStep
    BY <1>0, <2>2 DEF SkipStep, Works, Delivers, Settles, Join, Spawning
  <2>3. CASE BeginUnit
    BY <1>0, <2>3 DEF BeginUnit, Works, Delivers, Settles, Join, Spawning
  <2>4. CASE GroupDone
    <3>1. phase = "pick" /\ (phase' = "return" \/ (phase' = "loop" /\ lo' = hi + 1))
      BY <2>4 DEF GroupDone, Return
    <3> QED
      BY <1>0, <3>1 DEF Works, Delivers, Settles, Join, Spawning
  <2>5. CASE CountStep \/ Settle
    BY <1>0, <2>5 DEF CountStep, Settle, Works, Delivers, Settles, Join, Spawning
  <2>6. CASE Decide
    <3>1. /\ phase = "decide" /\ hi' = hi
          /\ \/ phase' = "return"
             \/ mode = "serial" /\ phase' = "loop" /\ lo' = lo + 1
             \/ phase' = "pick"
      BY <2>6 DEF Decide, Return
    <3>2. mode = "serial" => hi = lo
      BY <1>0, <3>1 DEF TypeInv, CursorOK, Idle
    <3> QED
      BY <1>0, <3>1, <3>2 DEF Works, Delivers, Settles, Join, Spawning
  <2> QED
    BY <1>9, <2>1, <2>2, <2>3, <2>4, <2>5, <2>6 DEF Loud
<1> QED
  BY StepKinds, <1>2, <1>3, <1>4, <1>5, <1>6, <1>7, <1>8, <1>9 DEF Quiet
\* What a step does to the results and the workers.
LEMMA ResultKinds ==
  ASSUME TypeInv, [Next]_vars
  PROVE  \/ UNCHANGED <<worker, failure, result>>
         \/ Works /\ (HandsOver \/ Spawns)
         \/ Delivers
         \/ /\ Settles /\ phase = "apply" /\ UNCHANGED <<worker, failure>>
            /\ result' = [result EXCEPT ![cur] = Effective]
         \/ Join
         \/ \E i \in Pos : Worker(i) /\ Aside
<1> USE DEF rigid, threads, report, flags, history, unit
<1>1. CASE Loud
  BY <1>1 DEF Loud, OpenAudit, LastStepDone, LimitReached, SkipStep, BeginUnit, ReturnResult,
              GroupDone, CountStep, Settle, Decide
<1>2. CASE Aside \/ Join \/ Delivers
  BY <1>2 DEF Aside
<1>3. CASE Prepares \/ Embarks \/ Gathers
  BY <1>3 DEF Prepares, Embarks, Gathers
<1>4. CASE Works
  <2>1. UNCHANGED failure /\ (Walks \/ HandsOver \/ Spawns)
    BY <1>4 DEF Works
  <2>2. Walks => UNCHANGED <<worker, result>>
    BY DEF Walks
  <2> QED
    BY <1>4, <2>1, <2>2
<1>5. CASE Settles
  BY <1>5 DEF Settles
<1> QED
  BY StepKinds, <1>1, <1>2, <1>3, <1>4, <1>5 DEF Quiet

ResultShape(i) ==
  /\ worker[i] \in {"running", "failing", "panicked"} => result[i] = None
  /\ worker[i] \in {"finished", "joined"} => result[i] # None
  /\ failure[i] # None => worker[i] = "failing" \/ result[i] = "failed"

\* Every step keeps the results where they belong.
LEMMA ResultStep == TypeInv /\ WorkerInv /\ ResultInv /\ [Next]_vars => ResultInv'
<1> SUFFICES ASSUME TypeInv, WorkerInv, ResultInv, [Next]_vars PROVE ResultInv'
  OBVIOUS
<1>0. /\ worker \in [Pos -> {"idle", "running", "failing", "panicked", "finished", "joined"}]
      /\ failure \in [Pos -> Kinds \cup {None}] /\ result \in [Pos -> Statuses \cup {None}]
      /\ phase \notin Idle \cup Cursors => cur \in Pos
      /\ cur \in Nat /\ phase \in Cursors => cur \in 1..hi + 1
  BY CursorRange DEF TypeInv, TypeOK
<1>1. /\ \A i \in Pos : i >= Placed => result[i] = None /\ worker[i] = "idle" /\ failure[i] = None
      /\ \A i \in Pos : ResultShape(i)
      /\ phase \in Settling \ {"pick"} => result[cur] # None
  BY DEF ResultInv, ResultShape
<1>2. ASSUME UNCHANGED <<worker, failure, result>>
      PROVE  \A i \in Pos : ResultShape(i)'
  BY <1>1, <1>2 DEF ResultShape
<1>6. \A i \in Pos : i >= Placed' => i >= Placed
  BY PlacedMoves
<1> USE DEF rigid, threads, report, flags, history, unit, Statuses, None, Kinds
<1>3. \A i \in Pos : ResultShape(i)'
  <2>1. CASE UNCHANGED <<worker, failure, result>>
    BY <1>2, <2>1
  <2>2. CASE (Works /\ HandsOver) \/ Delivers
    <3>1. Placed \in Nat /\ Placed <= cur
      BY <2>2, PlacedMoves, Zenon
    <3>2. cur \in Pos => worker[cur] = "idle" /\ failure[cur] = None
      BY <1>1, <3>1
    <3>3. PICK r \in Statuses : result' = [result EXCEPT ![cur] = r]
      BY <2>2 DEF HandsOver, Delivers, Ends
    <3>4. UNCHANGED <<worker, failure>>
      BY <2>2 DEF Works, HandsOver, Delivers
    <3> QED
      BY <1>0, <1>1, <3>2, <3>3, <3>4 DEF ResultShape
  <2>3. CASE Works /\ Spawns
    <3>1. Placed \in Nat /\ Placed <= cur
      BY <2>3, PlacedMoves, Zenon
    <3>2. cur \in Pos => result[cur] = None /\ failure[cur] = None
      BY <1>1, <3>1
    <3>3. UNCHANGED <<failure, result>> /\ worker' = [worker EXCEPT ![cur] = "running"]
      BY <2>3 DEF Works, Spawns
    <3> QED
      BY <1>0, <1>1, <3>2, <3>3 DEF ResultShape
  <2>4. CASE /\ Settles /\ phase = "apply" /\ UNCHANGED <<worker, failure>>
             /\ result' = [result EXCEPT ![cur] = Effective]
    <3>1. result[cur] # None /\ cur \in Pos /\ ~Alive(cur)
      BY <1>0, <1>1, <2>4 DEF Settling, WorkerInv, Spawning, Idle, Cursors
    <3>2. Effective \in {"failed", result[cur]}
      BY DEF Effective
    <3>3. ASSUME NEW i \in Pos, i = cur PROVE ResultShape(i)'
      BY <1>0, <1>1, <2>4, <3>1, <3>2, <3>3 DEF ResultShape, Alive
    <3>4. \A i \in Pos \ {cur} : ResultShape(i)'
      BY <1>0, <1>1, <2>4 DEF ResultShape
    <3> QED
      BY <3>3, <3>4
  <2>5. CASE Join
    <3>1. /\ worker[cur] \in {"idle", "finished", "panicked"} /\ failure' = failure
          /\ result' = IF worker[cur] = "panicked" THEN [result EXCEPT ![cur] = "failed"]
                                                   ELSE result
          /\ worker' = IF worker[cur] = "idle" THEN worker
                                               ELSE [worker EXCEPT ![cur] = "joined"]
      BY <2>5 DEF Join, Joinable
    <3>2. ASSUME NEW i \in Pos, i = cur PROVE ResultShape(i)'
      BY <1>0, <1>1, <3>1, <3>2 DEF ResultShape
    <3>3. \A i \in Pos \ {cur} : ResultShape(i)'
      BY <1>0, <1>1, <3>1 DEF ResultShape
    <3> QED
      BY <3>2, <3>3
  <2>6. ASSUME NEW i \in Pos, Worker(i) PROVE \A j \in Pos : ResultShape(j)'
    <3>1. \A j \in Pos \ {i} : worker'[j] = worker[j] /\ failure'[j] = failure[j]
                               /\ result'[j] = result[j]
      BY <1>0, <2>6 DEF Worker, WorkerSkips, WorkerAnswers, WorkerErrs, WorkerPanics,
                        WorkerPublishes
    <3>2. \A j \in Pos \ {i} : ResultShape(j)'
      BY <1>1, <3>1 DEF ResultShape
    <3>3. ResultShape(i)
      BY <1>1
    <3>4. ResultShape(i)'
      <4>1. CASE WorkerSkips(i)
        BY <1>0, <3>3, <4>1 DEF WorkerSkips, ResultShape
      <4>2. CASE WorkerAnswers(i)
        <5>1. PICK r \in {"completed", "degraded", "failed"} : result' = [result EXCEPT ![i] = r]
          <6>1. recipe[i].json \in {"no", "optional", "required"}
            BY DEF TypeInv, TypeOK, StepType
          <6> QED
            BY <4>2, <6>1 DEF WorkerAnswers
        <5>2. /\ worker[i] = "running" /\ worker' = [worker EXCEPT ![i] = "finished"]
              /\ failure' = failure
          BY <4>2 DEF WorkerAnswers
        <5> QED
          BY <1>0, <3>3, <5>1, <5>2 DEF ResultShape
      <4>3. CASE WorkerErrs(i)
        BY <1>0, <3>3, <4>3 DEF WorkerErrs, ResultShape
      <4>4. CASE WorkerPanics(i)
        BY <1>0, <3>3, <4>4 DEF WorkerPanics, ResultShape
      <4>5. CASE WorkerPublishes(i)
        BY <1>0, <3>3, <4>5 DEF WorkerPublishes, ResultShape
      <4> QED
        BY <2>6, <4>1, <4>2, <4>3, <4>4, <4>5 DEF Worker
    <3> QED
      BY <3>2, <3>4
  <2> QED
    BY ResultKinds, <2>1, <2>2, <2>3, <2>4, <2>5, <2>6
<1>4. \A i \in Pos : i >= Placed' =>
        result'[i] = result[i] /\ worker'[i] = worker[i] /\ failure'[i] = failure[i]
  <2>1. CASE UNCHANGED <<worker, failure, result>>
    BY <2>1
  <2>2. CASE (Works /\ (HandsOver \/ Spawns)) \/ Delivers
    <3>1. \A i \in Pos : i >= Placed' => i # cur
      BY <1>0, <2>2, PlacedMoves DEF Pos
    <3>2. CASE Works /\ (HandsOver \/ Spawns)
      BY <1>0, <3>1, <3>2 DEF Works, HandsOver, Spawns, Ends
    <3>3. CASE Delivers
      BY <1>0, <3>1, <3>3 DEF Delivers, Ends
    <3> QED
      BY <2>2, <3>2, <3>3
  <2>3. CASE (Settles /\ phase = "apply") \/ Join
    <3>1. cur <= hi /\ hi \in Nat
      BY <2>3, CursorRange DEF TypeInv, CursorOK, Join, Idle, Cursors
    <3>2. \A i \in Pos : i >= Placed' => i # cur
      BY <1>0, <2>3, <3>1, PlacedMoves DEF Pos
    <3>3. CASE Settles /\ phase = "apply"
      BY <1>0, <3>2, <3>3 DEF Settles
    <3>4. CASE Join
      BY <1>0, <3>2, <3>4 DEF Join
    <3> QED
      BY <2>3, <3>3, <3>4
  <2>4. ASSUME NEW j \in Pos, Worker(j)
        PROVE  \A i \in Pos : i >= Placed' =>
                 result'[i] = result[i] /\ worker'[i] = worker[i] /\ failure'[i] = failure[i]
    <3>1. worker[j] # "idle"
      BY <2>4 DEF Worker, WorkerSkips, WorkerAnswers, WorkerErrs, WorkerPanics,
                  WorkerPublishes
    <3>2. \A i \in Pos : i >= Placed' => i # j
      BY <1>1, <1>6, <3>1
    <3> QED
      BY <1>0, <2>4, <3>2 DEF Worker, WorkerSkips, WorkerAnswers, WorkerErrs, WorkerPanics,
                              WorkerPublishes
  <2> QED
    BY ResultKinds, <2>1, <2>2, <2>3, <2>4
<1>5. phase' \in Settling \ {"pick"} => result'[cur'] # None
  <2>1. CASE Aside
    <3>1. \A i \in Pos : result[i] # None => result'[i] # None
      <4>1. ASSUME NEW j \in Pos, Worker(j), NEW i \in Pos, result[i] # None
            PROVE  result'[i] # None
        BY <1>0, <1>1, <4>1 DEF Worker, WorkerSkips, WorkerAnswers, WorkerErrs, WorkerPanics,
                  WorkerPublishes, ResultShape
      <4> QED
        BY <2>1, <4>1 DEF Aside
    <3> QED
      BY <1>0, <1>1, <2>1, <3>1 DEF Aside, Settling, Idle, Cursors
  <2>2. CASE Prepares \/ Embarks \/ Works \/ Gathers \/ Join
    <3>1. phase' \notin Settling \ {"pick"}
      BY <2>2 DEF Prepares, Embarks, Works, Gathers, Join, Preparing, Spawning, Settling
    <3> QED
      BY <3>1
  <2>3. CASE Delivers
    BY <1>0, <2>3 DEF Delivers, Ends, Spawning, Idle, Cursors, Statuses, None
  <2>4. CASE Settles
    <3>1. cur' = cur \/ phase' = "pick"
      BY <2>4 DEF Settles
    <3>2. phase' # "pick" => cur \in Pos /\ result[cur] # None
      BY <1>0, <1>1, <2>4, CursorRange DEF Settles, Settling, Idle, Cursors, Pos
    <3>3. result' = result \/ result' = [result EXCEPT ![cur] = Effective]
      BY <2>4 DEF Settles
    <3>4. phase' # "pick" => result'[cur] # None
      BY <1>0, <3>2, <3>3 DEF Effective
    <3> QED
      BY <3>1, <3>4
  <2>5. CASE Loud
    <3>1. phase' \in Settling \ {"pick"} => phase = "post" /\ UNCHANGED <<cur, result>>
      BY <2>5 DEF Loud, OpenAudit, LastStepDone, LimitReached, SkipStep, BeginUnit,
                  ReturnResult, GroupDone, CountStep, Settle, Decide, Return, Settling
    <3> QED
      BY <1>1, <3>1 DEF Settling
  <2> QED
    BY StepKinds, <2>1, <2>2, <2>3, <2>4, <2>5 DEF Quiet
<1> QED
  BY <1>1, <1>3, <1>4, <1>5, <1>6 DEF ResultInv, ResultShape

\* Only what was started can have a worker or a result of its own.
StartedInv ==
  /\ \A i \in Pos : worker[i] # "idle" \/ result[i] \in Ran => i \in touched
  /\ phase \in Called => cur \in touched
  /\ phase = "open" => touched = {}

\* Every step keeps what was started in order.
LEMMA StartedStep == TypeInv /\ StartedInv /\ [Next]_vars => StartedInv'
<1> SUFFICES ASSUME TypeInv, StartedInv, [Next]_vars PROVE StartedInv'
  OBVIOUS
<1>0. /\ worker \in [Pos -> {"idle", "running", "failing", "panicked", "finished", "joined"}]
      /\ result \in [Pos -> Statuses \cup {None}] /\ touched \subseteq touched'
  BY LatchGrows DEF TypeInv, TypeOK
<1>1. \A i \in Pos : worker[i] # "idle" \/ result[i] \in Ran => i \in touched
  BY DEF StartedInv
<1> USE DEF rigid, threads, report, flags, history, unit, Ran
<1>2. \A i \in Pos : worker'[i] # "idle" \/ result'[i] \in Ran => i \in touched'
  <2>1. CASE UNCHANGED <<worker, failure, result>>
    BY <1>0, <1>1, <2>1
  <2>2. CASE (Works /\ HandsOver) \/ Delivers
    <3>1. PICK r \in Statuses : /\ result' = [result EXCEPT ![cur] = r]
                                /\ r \in Ran => phase \in Called
      BY <2>2 DEF HandsOver, Delivers, Ends
    <3>2. worker' = worker
      BY <2>2 DEF HandsOver, Delivers
    <3>3. r \in Ran => cur \in touched
      BY <3>1 DEF StartedInv
    <3> QED
      BY <1>0, <1>1, <3>1, <3>2, <3>3
  <2>3. CASE Works /\ Spawns
    BY <1>0, <1>1, <2>3 DEF Spawns
  <2>4. CASE Settles /\ worker' = worker /\ result' = [result EXCEPT ![cur] = Effective]
    <3>1. Effective = "failed" \/ Effective = result[cur]
      BY DEF Effective
    <3> QED
      BY <1>0, <1>1, <2>4, <3>1
  <2>5. CASE Join
    BY <1>0, <1>1, <2>5 DEF Join
  <2>6. ASSUME NEW i \in Pos, Worker(i)
        PROVE  \A j \in Pos : worker'[j] # "idle" \/ result'[j] \in Ran => j \in touched'
    <3>1. i \in touched
      BY <1>1, <2>6 DEF Worker, WorkerSkips, WorkerAnswers, WorkerErrs, WorkerPanics,
                        WorkerPublishes
    <3>2. \A j \in Pos \ {i} : worker'[j] = worker[j] /\ result'[j] = result[j]
      BY <1>0, <2>6 DEF Worker, WorkerSkips, WorkerAnswers, WorkerErrs, WorkerPanics,
                        WorkerPublishes
    <3> QED
      BY <1>0, <1>1, <3>1, <3>2
  <2> QED
    BY ResultKinds, <2>1, <2>2, <2>3, <2>4, <2>5, <2>6
<1>3. phase' \in Called => cur' \in touched'
  <2>1. CASE Aside
    BY <1>0, <2>1 DEF Aside, StartedInv
  <2>2. CASE Works
    BY <1>0, <2>2 DEF Works, Walks, HandsOver, Spawns, Called, StartedInv
  <2>3. CASE Prepares \/ Embarks \/ Delivers \/ Gathers \/ Settles \/ Join
    BY <2>3 DEF Prepares, Embarks, Delivers, Gathers, Settles, Join, Preparing, Settling, Called
  <2>4. CASE Loud
    BY <2>4 DEF Loud, OpenAudit, LastStepDone, LimitReached, SkipStep, BeginUnit, ReturnResult,
                GroupDone, CountStep, Settle, Decide, Return, Called
  <2> QED
    BY StepKinds, <2>1, <2>2, <2>3, <2>4 DEF Quiet
<1>4. phase' = "open" => touched' = {}
  <2>1. CASE Quiet
    BY <2>1, QuietFrame DEF Aside, Idle, StartedInv
  <2>2. CASE Loud
    BY <2>2 DEF Loud, OpenAudit, LastStepDone, LimitReached, SkipStep, BeginUnit, ReturnResult,
                GroupDone, CountStep, Settle, Decide, Return
  <2> QED
    BY StepKinds, <2>1, <2>2
<1> QED
  BY <1>2, <1>3, <1>4 DEF StartedInv

\* Unless the latch ended the spawn loop, every step of the group was placed.
Has(i) == result[i] # None \/ Alive(i)
PlacedInv ==
  /\ mode = "group" /\ phase \in Spawning => \A i \in Pos : lo <= i /\ i < cur => Has(i)
  /\ phase \in Settling \cup {"join", "decide"} =>
       IsTerminal \/ \A i \in Pos : lo <= i /\ i <= hi => Has(i)

\* A step that has its result keeps it.
LEMMA HasStays ==
  ASSUME TypeInv, WorkerInv, ResultInv, ResultInv', [Next]_vars, NEW i \in Pos, Has(i)
  PROVE  Has(i)'
<1>0. /\ worker \in [Pos -> {"idle", "running", "failing", "panicked", "finished", "joined"}]
      /\ result \in [Pos -> Statuses \cup {None}]
  BY DEF TypeInv, TypeOK
<1> USE DEF rigid, threads, report, flags, history, unit, Has, Alive
<1>1. CASE UNCHANGED <<worker, failure, result>>
  BY <1>1
<1>2. CASE (Works /\ HandsOver) \/ Delivers
  <2>1. PICK r \in Statuses : result' = [result EXCEPT ![cur] = r]
    BY <1>2 DEF HandsOver, Delivers, Ends
  <2>2. worker' = worker /\ r # None
    BY <1>2 DEF HandsOver, Delivers, Statuses, None
  <2> QED
    BY <1>0, <2>1, <2>2
<1>3. CASE Works /\ Spawns
  BY <1>0, <1>3 DEF Spawns
<1>4. CASE Settles /\ worker' = worker /\ result' = [result EXCEPT ![cur] = Effective]
  <2>1. Effective = "failed" \/ Effective = result[cur]
    BY DEF Effective
  <2> QED
    BY <1>0, <1>4, <2>1 DEF None
<1>5. ASSUME Join \/ \E j \in Pos : Worker(j) PROVE Has(i)'
  <2>1. worker'[i] = "idle" => worker[i] = "idle"
    BY <1>0, <1>5 DEF Join, Worker, WorkerSkips, WorkerAnswers, WorkerErrs, WorkerPanics,
                      WorkerPublishes
  <2>2. worker'[i] = "joined" => result'[i] # None
    BY DEF ResultInv
  <2>3. worker'[i] = "idle" => result'[i] = result[i]
    BY <1>0, <1>5, <2>1 DEF Join, Worker, WorkerSkips, WorkerAnswers, WorkerErrs, WorkerPanics,
                      WorkerPublishes
  <2> QED
    BY <2>1, <2>2, <2>3
<1> QED
  BY ResultKinds, <1>1, <1>2, <1>3, <1>4, <1>5

\* Every step keeps the placing in order.
LEMMA PlacedStep ==
  TypeInv /\ WorkerInv /\ UnitInv /\ ResultInv /\ ResultInv' /\ PlacedInv /\ [Next]_vars => PlacedInv'
<1> SUFFICES ASSUME TypeInv, WorkerInv, UnitInv, ResultInv, ResultInv', PlacedInv, [Next]_vars
             PROVE  PlacedInv'
  OBVIOUS
<1>0. /\ N \in Nat /\ lo \in Nat /\ hi \in Nat /\ cur \in Nat
      /\ result \in [Pos -> Statuses \cup {None}]
      /\ worker \in [Pos -> {"idle", "running", "failing", "panicked", "finished", "joined"}]
      /\ phase \notin Idle \cup Cursors => cur \in Pos
      /\ mode = "serial" /\ phase \notin Idle => hi = lo
      /\ IsTerminal => IsTerminal'
  BY CursorRange, LatchGrows DEF TypeInv, TypeOK, CursorOK, IsTerminal
<1>1. \A i \in Pos : Has(i) => Has(i)'
  BY HasStays
<1> USE DEF rigid, threads, report, flags, history, unit, PlacedInv
<1>2. CASE Aside \/ Join
  BY <1>0, <1>1, <1>2 DEF Aside, Join, Kept, Spawning, Settling
<1>3. CASE Prepares
  BY <1>3 DEF Prepares, Preparing, Spawning, Settling
<1>4. CASE Embarks
  <2>1. /\ phase' \in {"enter", "spawn"} /\ UNCHANGED lo
        /\ mode' = "group" => cur' = lo
    BY <1>4 DEF Embarks, Kept
  <2>2. mode' = "group" => \A i \in Pos : ~(lo' <= i /\ i < cur')
    BY <1>0, <2>1 DEF Pos
  <2> QED
    BY <2>1, <2>2 DEF Settling
<1>5. CASE Works
  <2>1. /\ UNCHANGED <<mode, lo>> /\ phase \in Spawning
        /\ phase' \notin Settling \cup {"join", "decide"}
    BY <1>5 DEF Works, Kept, Spawning, Settling
  <2>2. cur' = cur \/ (cur' = cur + 1 /\ \A i \in Pos : i = cur => Has(i)')
    <3>1. CASE Walks
      BY <3>1 DEF Walks
    <3>2. CASE HandsOver
      <4>1. PICK r \in Statuses : result' = [result EXCEPT ![cur] = r]
        BY <3>2 DEF HandsOver, Ends
      <4>2. ASSUME NEW i \in Pos, i = cur PROVE result'[i] # None
        BY <1>0, <4>1, <4>2 DEF Statuses, None
      <4>3. \A i \in Pos : i = cur => Has(i)'
        BY <4>2 DEF Has
      <4> QED
        BY <3>2, <4>3 DEF HandsOver
    <3>3. CASE Spawns
      <4>1. \A i \in Pos : i = cur => worker'[i] = "running"
        BY <1>0, <3>3 DEF Spawns
      <4>2. \A i \in Pos : i = cur => Has(i)'
        BY <4>1 DEF Has, Alive
      <4> QED
        BY <3>3, <4>2 DEF Spawns
    <3> QED
      BY <1>5, <3>1, <3>2, <3>3 DEF Works
  <2> QED
    BY <1>0, <1>1, <2>1, <2>2 DEF Pos
<1>6. CASE Delivers
  <2>1. /\ mode # "group" /\ UNCHANGED <<mode, lo, hi>> /\ phase' = "post"
        /\ phase \in Spawning \ {"spawn"}
    BY <1>6 DEF Delivers, Kept
  <2>2. mode = "serial" \/ IsTerminal'
    BY <1>0, <2>1 DEF UnitInv, TypeInv, TypeOK, Idle, Spawning
  <2>3. mode = "serial" => cur = lo /\ hi = lo
    BY <1>0, <2>1 DEF TypeInv, CursorOK, Idle, Cursors, Spawning
  <2>4. \A i \in Pos : i = cur => Has(i)'
    BY <1>0, <1>6 DEF Delivers, Ends, Has, Statuses, None
  <2> QED
    BY <1>0, <2>1, <2>2, <2>3, <2>4 DEF Pos, Spawning
<1>7. CASE Gathers
  <2>1. /\ mode = "group" /\ UNCHANGED <<lo, hi, terminal>>
        /\ \/ phase = "spawn" /\ phase' = "join" /\ (cur > hi \/ IsTerminal)
           \/ phase = "join" /\ phase' = "pick"
    BY <1>7 DEF Gathers, Kept
  <2> QED
    BY <1>0, <1>1, <2>1 DEF Spawning, Settling, Pos
<1>8. CASE Settles
  BY <1>0, <1>1, <1>8 DEF Settles, Kept, Spawning, Settling
<1>9. CASE Loud
  <2>1. /\ phase' \notin Spawning
        /\ phase' \in Settling \cup {"join", "decide"} =>
             phase \in Settling \cup {"join", "decide"} /\ UNCHANGED <<lo, hi>>
    BY <1>9 DEF Loud, OpenAudit, LastStepDone, LimitReached, SkipStep, BeginUnit, ReturnResult,
                GroupDone, CountStep, Settle, Decide, Return, Spawning, Settling
  <2> QED
    BY <1>0, <1>1, <2>1
<1> QED
  BY StepKinds, <1>2, <1>3, <1>4, <1>5, <1>6, <1>7, <1>8, <1>9 DEF Quiet

-----------------------------------------------------------------------------
(* Notifications.  A started step that is not completed lies ahead in the unit. *)

ListenerInv ==
  \A i \in Pos : listener[i] = "started" =>
    IsTerminal \/ (phase \notin Idle /\ lo <= i /\ i <= hi /\ i >= Edge)

\* Every step keeps the announcements in order.
LEMMA ListenerStep ==
  TypeInv /\ WorkerInv /\ UnitInv /\ PlacedInv /\ ListenerInv /\ [Next]_vars => ListenerInv'
<1> SUFFICES ASSUME TypeInv, WorkerInv, UnitInv, PlacedInv, ListenerInv, [Next]_vars
             PROVE  ListenerInv'
  OBVIOUS
<1>0. /\ N \in Nat /\ lo \in Nat /\ hi \in Nat /\ cur \in Nat
      /\ listener \in [Pos -> {"quiet", "started", "completed"}]
      /\ phase \notin Idle => lo <= cur /\ lo <= hi /\ (phase \notin Cursors => cur <= hi)
      /\ phase = "pick" => cur <= hi + 1
      /\ mode = "serial" /\ phase \notin Idle => hi = lo
      /\ IsTerminal => IsTerminal'
  BY CursorRange, LatchGrows DEF TypeInv, TypeOK, CursorOK, IsTerminal, Cursors
<1> USE DEF rigid, threads, report, flags, history, unit, Pos
<1>1. ASSUME UNCHANGED <<listener, lo, hi>>, Edge' = Edge, phase \notin Idle => phase' \notin Idle
      PROVE  ListenerInv'
  BY <1>0, <1>1 DEF ListenerInv
<1>2. CASE Quiet
  <2>0. UNCHANGED <<lo, hi>> /\ (phase' \in Idle <=> phase \in Idle)
    BY <1>2, QuietFrame DEF Kept
  <2>1. CASE Prepares
    <3>1. /\ \/ UNCHANGED listener
             \/ cur < hi /\ listener' = [listener EXCEPT ![cur + 1] = "started"]
          /\ phase \in Preparing /\ phase' \in Preparing
      BY <2>1 DEF Prepares
    <3>2. Edge = lo /\ Edge' = lo /\ phase \notin Idle
      BY <2>0, <3>1 DEF Edge, Preparing, Settling, Idle
    <3> QED
      BY <1>0, <2>0, <3>1, <3>2 DEF ListenerInv
  <2>2. CASE Aside \/ Embarks \/ Works \/ Gathers \/ Join
    <3>1. Edge' = Edge
      BY <1>0, <2>0, <2>2 DEF Aside, Embarks, Works, Gathers, Join, Edge, Spawning, Settling
    <3>2. UNCHANGED listener
      BY <2>2 DEF Aside, Embarks, Works, Gathers, Join
    <3> QED
      BY <1>1, <2>0, <3>1, <3>2
  <2>3. CASE Delivers
    <3>1. /\ mode # "group" /\ UNCHANGED <<mode, cur, listener>> /\ phase' = "post"
          /\ phase \in Spawning \ {"spawn"}
      BY <2>3 DEF Delivers
    <3>2. CASE mode = "serial"
      <4>1. Edge = lo /\ Edge' = lo
        BY <1>0, <2>0, <3>1, <3>2 DEF Edge, Settling, Spawning, Idle, Cursors
      <4> QED
        BY <1>1, <2>0, <3>1, <4>1
    <3>3. CASE mode = "prefail"
      BY <1>0, <3>1, <3>3 DEF UnitInv, ListenerInv, Idle, Spawning
    <3> QED
      BY <3>1, <3>2, <3>3 DEF TypeInv, TypeOK
  <2>4. CASE Settles
    <3>1. UNCHANGED listener /\ phase \in Settling /\ phase' \in Settling
      BY <2>4 DEF Settles
    <3>2. CASE cur' = cur
      <4>1. Edge' = Edge
        BY <3>1, <3>2 DEF Edge
      <4> QED
        BY <1>1, <2>0, <3>1, <4>1
    <3>3. CASE cur' = cur + 1 /\ phase = "pick" /\ cur <= hi /\ result[cur] = None
      <4>1. IsTerminal \/ ~(cur \in Pos /\ lo <= cur /\ cur <= hi)
        BY <3>3 DEF PlacedInv, Has, WorkerInv, Settling, Spawning
      <4>2. cur \in Pos /\ lo <= cur
        BY <1>0, <3>3, CursorRange DEF Idle, TypeInv, TypeOK
      <4> QED
        BY <1>0, <3>1, <3>3, <4>1, <4>2 DEF ListenerInv
    <3> QED
      BY <2>4, <3>2, <3>3 DEF Settles
  <2> QED
    BY <1>2, <2>1, <2>2, <2>3, <2>4 DEF Quiet
<1>3. CASE OpenAudit \/ LastStepDone \/ LimitReached \/ SkipStep \/ ReturnResult
  <2>1. phase \in Idle /\ UNCHANGED listener
    BY <1>3 DEF OpenAudit, LastStepDone, LimitReached, SkipStep, ReturnResult, Idle
  <2> QED
    BY <1>0, <2>1 DEF ListenerInv
<1>4. CASE BeginUnit
  <2>0. PICK q \in lo..N : hi' = q
    BY <1>4 DEF BeginUnit
  <2>1. /\ listener' = [listener EXCEPT ![lo] = "started"] /\ UNCHANGED lo
        /\ phase = "loop" /\ phase' = "pre"
    BY <1>4 DEF BeginUnit
  <2>2. Edge' = lo
    BY <2>1 DEF Edge, Settling
  <2> QED
    BY <1>0, <2>0, <2>1, <2>2 DEF ListenerInv, Idle
<1>5. CASE GroupDone
  <2>1. phase = "pick" /\ cur > hi /\ UNCHANGED listener
    BY <1>5 DEF GroupDone
  <2>2. Edge = cur
    BY <2>1 DEF Edge, Settling
  <2> QED
    BY <1>0, <2>1, <2>2 DEF ListenerInv
<1>6. CASE CountStep
  BY <1>1, <1>6 DEF CountStep, Edge, Settling, Idle
<1>7. CASE Settle
  <2>1. /\ phase = "settle" /\ phase' = "decide" /\ UNCHANGED <<lo, hi, cur>>
        /\ listener' = [listener EXCEPT ![cur] = "completed"]
    BY <1>7 DEF Settle
  <2>2. Edge = cur /\ Edge' = cur + 1
    BY <2>1 DEF Edge, Settling
  <2> QED
    BY <1>0, <2>1, <2>2 DEF ListenerInv, Idle
<1>8. CASE Decide
  <2>1. /\ phase = "decide" /\ UNCHANGED <<hi, listener>>
        /\ mode = "serial" \/ (phase' = "pick" /\ cur' = cur + 1 /\ UNCHANGED lo)
    BY <1>8 DEF Decide, NextToSettle
  <2>2. Edge = cur + 1
    BY <2>1 DEF Edge, Settling
  <2>3. CASE mode = "serial"
    BY <1>0, <2>1, <2>2, <2>3 DEF ListenerInv, Idle, Cursors
  <2>4. CASE phase' = "pick" /\ cur' = cur + 1 /\ UNCHANGED lo
    <3>1. Edge' = Edge
      BY <2>2, <2>4 DEF Edge, Settling
    <3> QED
      BY <1>1, <2>1, <2>4, <3>1 DEF Idle
  <2> QED
    BY <2>1, <2>3, <2>4
<1> QED
  BY StepKinds, <1>2, <1>3, <1>4, <1>5, <1>6, <1>7, <1>8 DEF Loud
-----------------------------------------------------------------------------
(* Success.  What the owner left behind passed as audited; it leaves nothing   *)
(* behind that did not, except a group the latch kept from running.           *)

\* What is settled is never reported again.
LEMMA ReportStays ==
  ASSUME TypeInv, [Next]_vars
  PROVE  \A i \in Pos : i < Edge \/ phase \in Over =>
           final'[i] = final[i] /\ audit'[i] = audit[i] /\ listener'[i] = listener[i]
<1>0. /\ N \in Nat /\ lo \in Nat /\ hi \in Nat /\ cur \in Nat
      /\ phase \notin Idle => lo <= cur
  BY CursorRange DEF TypeInv, CursorOK
<1>7. /\ final \in [Pos -> Statuses \cup {None}] /\ audit \in [Pos -> Statuses \cup {None}]
       /\ listener \in [Pos -> {"quiet", "started", "completed"}]
  BY DEF TypeInv, TypeOK
<1> USE DEF rigid, threads, report, flags, history, unit, Pos
<1>1. CASE Prepares
  <2>1. UNCHANGED <<final, audit>>
    BY <1>1 DEF Prepares, Kept
  <2>2. Edge = lo /\ phase \notin Over /\ lo <= cur
    BY <1>0, <1>1 DEF Prepares, Edge, Preparing, Settling, Over, Idle
  <2>3. UNCHANGED listener \/ listener' = [listener EXCEPT ![cur + 1] = "started"]
    BY <1>1 DEF Prepares
  <2> QED
    BY <1>0, <1>7, <2>1, <2>2, <2>3
<1>2. CASE Aside \/ Embarks \/ Works \/ Delivers \/ Gathers \/ Settles \/ Join
  BY <1>2 DEF Aside, Embarks, Works, Delivers, Gathers, Settles, Join, Kept
<1>3. CASE OpenAudit \/ LastStepDone \/ ReturnResult \/ GroupDone \/ CountStep \/ Decide
  BY <1>3 DEF OpenAudit, LastStepDone, ReturnResult, GroupDone, CountStep, Decide
<1>4. CASE LimitReached \/ SkipStep
  <2>1. /\ \/ final' = [final EXCEPT ![lo] = "failed"]
           \/ final' = [final EXCEPT ![lo] = "skipped"]
        /\ UNCHANGED <<audit, listener>> /\ phase = "loop"
    BY <1>4 DEF LimitReached, SkipStep
  <2> QED
    BY <1>0, <1>7, <2>1 DEF Edge, Settling, Over
<1>5. CASE BeginUnit
  <2>1. /\ listener' = [listener EXCEPT ![lo] = "started"]
        /\ UNCHANGED <<final, audit>> /\ phase = "loop"
    BY <1>5 DEF BeginUnit
  <2> QED
    BY <1>0, <1>7, <2>1 DEF Edge, Settling, Over
<1>6. CASE Settle
  <2>1. /\ phase = "settle"
        /\ \A i \in Pos : i # cur => /\ final'[i] = final[i] /\ audit'[i] = audit[i]
                                     /\ listener'[i] = listener[i]
    BY <1>7, <1>6 DEF Settle
  <2> QED
    BY <1>0, <2>1 DEF Edge, Settling, Over
<1> QED
  BY StepKinds, <1>1, <1>2, <1>3, <1>4, <1>5, <1>6 DEF Quiet, Loud

\* The step passed, and as the required audit log shows it; or it lies behind the owner in
\* a group of which the latch kept every step from running; what makes a run fail.
Good(i) ==
  /\ Passed(i)
  /\ opts.requireAudit /\ listener[i] # "quiet" => audit[i] = final[i]
Past(i) == Good(i) \/ (IsTerminal /\ final[i] = None /\ recipe[i].group # NoGroup)
Cause   == IsTerminal \/ \E i \in Pos : final[i] = "failed"

\* The recipe and the options never change.
LEMMA RigidStays == [Next]_vars => UNCHANGED <<recipe, opts>>
<1> SUFFICES ASSUME [Next]_vars PROVE UNCHANGED <<recipe, opts>>
  OBVIOUS
<1> USE DEF rigid
<1>1. CASE OpenAudit \/ LastStepDone \/ LimitReached \/ SkipStep \/ BeginUnit \/ ReturnResult
           \/ CheckPreHook \/ CheckPostHook \/ RunHook \/ PreHookDone
  BY <1>1 DEF OpenAudit, LastStepDone, LimitReached, SkipStep, BeginUnit, ReturnResult,
              CheckPreHook, CheckPostHook, RunHook, PreHookDone
<1>2. CASE StepVetoed \/ StepDryRun \/ StepCondition \/ Dispatch \/ Call \/ StepAnswered
           \/ StartRepair \/ CheckRepair \/ Redispatch \/ RepairCall \/ StepRepaired
           \/ StepUnrepaired
  BY <1>2 DEF StepVetoed, StepDryRun, StepCondition, Dispatch, Call, StepAnswered,
              StartRepair, CheckRepair, Redispatch, RepairCall, StepRepaired, StepUnrepaired
<1>3. CASE EnterGroup \/ SpawnLoop \/ PlaceStep \/ Join \/ AllJoined \/ PickResult \/ GroupDone
           \/ CountStep \/ ApplyTerminal \/ Settle \/ Decide
  BY <1>3 DEF EnterGroup, SpawnLoop, PlaceStep, Join, AllJoined, PickResult, GroupDone,
              CountStep, ApplyTerminal, Settle, Decide
<1>4. CASE (\E i \in Pos : Worker(i)) \/ OuterPublishes \/ UNCHANGED vars
  BY <1>4 DEF Worker, WorkerSkips, WorkerAnswers, WorkerErrs, WorkerPanics, WorkerPublishes,
              OuterPublishes, vars
<1> QED
  BY <1>1, <1>2, <1>3, <1>4 DEF Next, Owner, Terminated

\* What was reported, passed or left behind stays so.
LEMMA SettledStays ==
  ASSUME TypeInv, FrontInv, [Next]_vars, NEW i \in Pos
  PROVE  /\ final[i] # None => final'[i] = final[i]
         /\ Passed(i) => Passed(i)'
         /\ Good(i) => Good(i)'
         /\ i < Edge /\ Past(i) => Past(i)'
<1>1. \A j \in Pos : final[j] # None \/ j < Edge =>
        final'[j] = final[j] /\ audit'[j] = audit[j] /\ listener'[j] = listener[j]
  <2>1. \A j \in Pos : j < Edge \/ j >= Edge
    <3>1. Edge \in Nat /\ N \in Nat
      BY CursorRange DEF Edge
    <3> QED
      BY <3>1 DEF Pos
  <2>2. \A j \in Pos : final[j] # None => j < Edge \/ phase \in Over
    BY <2>1 DEF FrontInv
  <2> QED
    BY <2>2, ReportStays
<1>2. UNCHANGED <<recipe, opts>> /\ (IsTerminal => IsTerminal')
  BY RigidStays, LatchGrows DEF IsTerminal
<1>3. Passed(i) => Passed(i)'
  BY <1>1, <1>2 DEF Passed
<1>4. Good(i) => Good(i)'
  BY <1>1, <1>2, <1>3 DEF Good, Passed
<1>5. i < Edge /\ Past(i) => Past(i)'
  BY <1>1, <1>2, <1>4 DEF Past
<1> QED
  BY <1>1, <1>3, <1>4, <1>5

\* A lasting cause for failure lasts.
LEMMA CauseStays == TypeInv /\ FrontInv /\ [Next]_vars /\ Cause => Cause'
<1> SUFFICES ASSUME TypeInv, FrontInv, [Next]_vars, Cause PROVE Cause'
  OBVIOUS
<1>1. IsTerminal => IsTerminal'
  BY LatchGrows DEF IsTerminal
<1>2. \A i \in Pos : final[i] = "failed" => final'[i] = "failed"
  BY SettledStays DEF None
<1> QED
  BY <1>1, <1>2 DEF Cause

\* success is only given up for a cause that stays, and survives only a walk to the end.
SuccessInv ==
  /\ phase \notin Over => success
  /\ phase \in Over /\ success => lo > N
  /\ phase = "done" /\ success => ~IsTerminal
  /\ phase = "return" /\ ~success => Cause
  /\ unitFailed => Cause
  /\ opts.requireAudit /\ phase \notin {"open", "done"} => auditOpen

\* Every unit behind the owner is past; inside a unit so is every settled step unless
\* group_failed says otherwise; and whatever is armed, the steps before it all passed.
PassedInv ==
  /\ \A i \in Pos : i < lo => Past(i)
  /\ phase \in Settling \cup {"decide"} /\ ~unitFailed =>
       \A i \in Pos : lo <= i /\ i < cur => Past(i)
  /\ phase = "decide" => IF halt THEN final[cur] = "failed" ELSE Good(cur)
  /\ phase \in Armed => \A i \in Pos : i < lo => Passed(i)

\* Every step gives success up only for such a cause.
LEMMA SuccessStep ==
  TypeInv /\ WorkerInv /\ FrontInv /\ PassedInv /\ SuccessInv /\ [Next]_vars => SuccessInv'
<1> SUFFICES ASSUME TypeInv, WorkerInv, FrontInv, PassedInv, SuccessInv, [Next]_vars
             PROVE  SuccessInv'
  OBVIOUS
<1>0. (Cause => Cause') /\ (IsTerminal => Cause)
  BY CauseStays DEF Cause
<1>1. UNCHANGED opts /\ N \in Nat /\ lo \in Nat
  BY RigidStays, CursorRange
<1> USE DEF rigid, threads, report, flags, history, unit, Over, SuccessInv
<1>2. CASE Quiet
  <2>1. /\ UNCHANGED <<success, unitFailed, auditOpen, lo>> /\ (phase' \in Idle <=> phase \in Idle)
        /\ phase \in Idle => phase' = phase /\ Aside
    BY <1>2, QuietFrame DEF Kept, Aside
  <2>2. phase = "done" => terminal' = terminal
    <3>1. phase = "done" => \A i \in Pos : ~Worker(i)
      BY DEF WorkerInv, Alive, Spawning, Worker, WorkerSkips, WorkerAnswers, WorkerErrs,
             WorkerPanics, WorkerPublishes
    <3>2. phase = "done" => ~OuterPublishes
      BY DEF OuterPublishes
    <3> QED
      BY <2>1, <3>1, <3>2 DEF Aside, Idle
  <2> QED
    BY <1>0, <1>1, <2>1, <2>2 DEF Idle, IsTerminal
<1>3. CASE OpenAudit
  <2>1. /\ phase = "open" /\ UNCHANGED unitFailed
        /\ \/ phase' = "done" /\ success' = FALSE
           \/ phase' = "loop" /\ success' = success /\ (opts.requireAudit => auditOpen')
    <3>1. PICK opened \in BOOLEAN :
            /\ auditOpen' = opened
            /\ IF opts.requireAudit /\ ~opened
               THEN phase' = "done" /\ success' = FALSE
               ELSE phase' = "loop" /\ success' = success
      <4>1. opts.auditDir \in BOOLEAN
        BY DEF TypeInv, TypeOK, OptionType
      <4> QED
        BY <1>3, <4>1 DEF OpenAudit, AuditOpens
    <3>2. phase = "open" /\ UNCHANGED unitFailed
      BY <1>3 DEF OpenAudit
    <3> QED
      BY <3>1, <3>2
  <2> QED
    BY <1>0, <1>1, <2>1
<1>4. CASE LastStepDone
  <2>1. phase = "loop" /\ phase' = "return" /\ lo > N /\ lo' = lo /\ UNCHANGED flags
    BY <1>4 DEF LastStepDone
  <2> QED
    BY <1>0, <1>1, <2>1
<1>5. CASE LimitReached
  <2>1. /\ phase = "loop" /\ phase' = "return" /\ success' = FALSE /\ lo \in Pos
        /\ UNCHANGED <<unitFailed, auditOpen>> /\ final' = [final EXCEPT ![lo] = "failed"]
    BY <1>1, <1>5 DEF LimitReached, Return, TypeInv, TypeOK, Pos
  <2>2. Cause'
    BY <2>1 DEF Cause, TypeInv, TypeOK
  <2> QED
    BY <1>0, <1>1, <2>1, <2>2
<1>6. CASE SkipStep \/ BeginUnit \/ CountStep \/ Settle
  <2>1. /\ phase \notin {"open", "return", "done"} /\ phase' \notin {"open", "return", "done"}
        /\ UNCHANGED <<success, auditOpen>> /\ (UNCHANGED unitFailed \/ unitFailed' = FALSE)
    BY <1>6 DEF SkipStep, BeginUnit, CountStep, Settle
  <2> QED
    BY <1>0, <1>1, <2>1
<1>7. CASE ReturnResult
  <2>1. /\ phase = "return" /\ phase' = "done" /\ success' = (success /\ ~IsTerminal)
        /\ UNCHANGED <<lo, unitFailed, terminal>>
    BY <1>7 DEF ReturnResult
  <2> QED
    BY <1>0, <1>1, <2>1 DEF IsTerminal
<1>8. CASE GroupDone
  <2>1. /\ phase = "pick" /\ UNCHANGED <<unitFailed, auditOpen>>
        /\ IF unitFailed THEN phase' = "return" /\ success' = FALSE
                         ELSE phase' = "loop" /\ success' = success
    BY <1>8 DEF GroupDone, Return
  <2> QED
    BY <1>0, <1>1, <2>1
<1>9. CASE Decide
  <2>0. UnitStops => Cause
    <3>1. halt => cur \in Pos /\ final[cur] = "failed"
      BY <1>9, CursorRange DEF PassedInv, Decide, Idle, Cursors
    <3> QED
      BY <3>1 DEF UnitStops, Cause
  <2>1. /\ phase = "decide" /\ UNCHANGED auditOpen
        /\ \/ /\ UnitStops /\ phase' = "return" /\ success' = FALSE /\ UNCHANGED unitFailed
           \/ phase' = "loop" /\ UNCHANGED <<success, unitFailed>>
           \/ /\ phase' = "pick" /\ UNCHANGED success
              /\ unitFailed' => unitFailed \/ UnitStops
    BY <1>9 DEF Decide, Return
  <2>2. unitFailed' => Cause'
    BY <1>0, <2>0, <2>1
  <2>3. phase' = "return" => success' = FALSE /\ Cause'
    BY <1>0, <2>0, <2>1
  <2> QED
    BY <1>1, <2>1, <2>2, <2>3
<1> QED
  BY StepKinds, <1>2, <1>3, <1>4, <1>5, <1>6, <1>7, <1>8, <1>9 DEF Loud
\* The owner goes to start something only right after it found the latch open.
LEMMA ArmedStep ==
  TypeInv /\ [Next]_vars /\ phase' \in Armed =>
    UNCHANGED <<phase, lo>> \/ (~IsTerminal /\ lo' = lo)
<1> SUFFICES ASSUME TypeInv, [Next]_vars, phase' \in Armed
             PROVE  UNCHANGED <<phase, lo>> \/ (~IsTerminal /\ lo' = lo)
  OBVIOUS
<1> USE DEF Armed, rigid, threads, report, flags, history, unit
<1>1. CASE OpenAudit \/ LastStepDone \/ LimitReached \/ SkipStep \/ BeginUnit \/ ReturnResult
           \/ RunHook \/ PreHookDone
  BY <1>1 DEF OpenAudit, LastStepDone, LimitReached, SkipStep, BeginUnit, ReturnResult, Return,
              RunHook, PreHookDone
<1>2. CASE CheckPreHook \/ CheckPostHook
  BY <1>2 DEF CheckPreHook, CheckPostHook, HookMayRun
<1>3. CASE StepVetoed \/ StepDryRun \/ StepCondition \/ Dispatch
  BY <1>3 DEF StepVetoed, StepDryRun, StepCondition, Dispatch, Finish
<1>4. CASE Call
  <2>1. phase' \in {"answered", "answeredRaw"} \/ Finish("failed")
    BY <1>4 DEF Call
  <2> QED
    BY <2>1 DEF Finish
<1>5. CASE StepAnswered \/ StepRepaired \/ StepUnrepaired
  BY <1>5 DEF StepAnswered, StepRepaired, StepUnrepaired, StoreOutput, Finish
<1>6. CASE StartRepair \/ CheckRepair \/ Redispatch \/ RepairCall
  BY <1>6 DEF StartRepair, CheckRepair, Redispatch, RepairCall
<1>7. CASE EnterGroup \/ SpawnLoop
  BY <1>7 DEF EnterGroup, SpawnLoop, AfterSpawning
<1>8. CASE PlaceStep
  BY <1>8 DEF PlaceStep, Finish
<1>9. CASE Join \/ AllJoined \/ PickResult \/ GroupDone
  BY <1>9 DEF Join, AllJoined, PickResult, GroupDone, Return
<1>10. CASE CountStep \/ ApplyTerminal \/ Settle \/ Decide
  BY <1>10 DEF CountStep, ApplyTerminal, Settle, Decide, Return
<1>11. CASE (\E i \in Pos : Worker(i)) \/ OuterPublishes \/ UNCHANGED vars
  BY <1>11 DEF Worker, WorkerSkips, WorkerAnswers, WorkerErrs, WorkerPanics,
               WorkerPublishes, OuterPublishes, vars
<1> QED
  BY <1>1, <1>2, <1>3, <1>4, <1>5, <1>6, <1>7, <1>8, <1>9, <1>10, <1>11
     DEF Next, Owner, Terminated

\* The steps of a group are in it.
LEMMA GroupHasSteps ==
  ASSUME UnitInv, TypeInv, phase \notin Idle, mode # "serial", NEW i \in Pos, lo <= i, i <= hi
  PROVE  recipe[i].group # NoGroup
<1>1. recipe[lo].group # NoGroup /\ IsUnit(lo, hi)
  BY DEF UnitInv
<1>2. i \in lo..hi
  BY CursorRange DEF Pos
<1> QED
  BY <1>1, <1>2 DEF IsUnit

\* What settling a step comes to, with r the status it reports.
SettlesAs(r) ==
  /\ final' = [final EXCEPT ![cur] = r]
  /\ r = result[cur] \/ (r = "failed" /\ halt')
  /\ audit' = audit \/ audit' = [audit EXCEPT ![cur] = result[cur]]
  /\ listener' = [listener EXCEPT ![cur] = "completed"]
  /\ ctx' = IF GroupStores(r) THEN Writes(cur) ELSE ctx
  /\ ckpt' = IF mode = "serial" /\ opts.checkpoints /\ r # "failed"
             THEN Completed \cup {cur} ELSE ckpt
  /\ halt' => r = "failed"
  /\ ~halt' => /\ r = "failed" => recipe[cur].nonfatal
               /\ opts.requireAudit => audit' = [audit EXCEPT ![cur] = r]

\* What Settle does with the result of a step.
LEMMA SettleOutcome ==
  ASSUME TypeInv, ResultInv, SuccessInv, Settle
  PROVE  /\ cur \in Pos /\ phase = "settle" /\ phase' = "decide"
         /\ UNCHANGED <<recipe, opts, mode, lo, hi, cur, result, worker, terminal, unitFailed>>
         /\ \E r \in Statuses : SettlesAs(r)
<1> USE DEF rigid, threads, flags, history, unit
<1>1. /\ phase = "settle" /\ phase' = "decide"
      /\ UNCHANGED <<recipe, opts, mode, lo, hi, cur, result, worker, terminal, unitFailed>>
      /\ listener' = [listener EXCEPT ![cur] = "completed"]
  BY DEF Settle
<1>2. cur \in Pos /\ opts.requireAudit \in BOOLEAN /\ auditOpen \in BOOLEAN
  BY <1>1, CursorRange DEF TypeInv, TypeOK, OptionType, Idle, Cursors
<1>3. result[cur] \in Statuses
  BY <1>1, <1>2 DEF ResultInv, Settling, TypeInv, TypeOK
<1>4. PICK written \in BOOLEAN :
       LET auditFailed == ~written /\ opts.requireAudit
           r == IF auditFailed THEN "failed" ELSE result[cur]
       IN
       /\ audit' = IF auditOpen /\ written
                   THEN [audit EXCEPT ![cur] = result[cur]] ELSE audit
       /\ final' = [final EXCEPT ![cur] = r]
       /\ ctx' = IF GroupStores(r) THEN Writes(cur) ELSE ctx
       /\ ckpt' = IF mode = "serial" /\ opts.checkpoints /\ r # "failed"
                  THEN Completed \cup {cur} ELSE ckpt
       /\ halt' = Stops(auditFailed, r)
  BY <1>2 DEF Settle, AuditWrites
<1>5. opts.requireAudit => auditOpen
  BY <1>1 DEF SuccessInv
<1>6. CASE ~written /\ opts.requireAudit
  <2>1. halt' = Stops(TRUE, "failed") /\ SettlesAs("failed")
    BY <1>1, <1>4, <1>6 DEF SettlesAs, Stops
  <2> QED
    BY <1>1, <1>2, <2>1 DEF Statuses
<1>7. CASE ~(~written /\ opts.requireAudit)
  <2>1. /\ final' = [final EXCEPT ![cur] = result[cur]]
        /\ ctx' = IF GroupStores(result[cur]) THEN Writes(cur) ELSE ctx
        /\ ckpt' = IF mode = "serial" /\ opts.checkpoints /\ result[cur] # "failed"
                   THEN Completed \cup {cur} ELSE ckpt
        /\ halt' <=> (result[cur] = "failed" /\ ~recipe[cur].nonfatal)
        /\ audit' = audit \/ audit' = [audit EXCEPT ![cur] = result[cur]]
        /\ opts.requireAudit => audit' = [audit EXCEPT ![cur] = result[cur]]
    BY <1>4, <1>5, <1>7 DEF Stops
  <2>2. SettlesAs(result[cur])
    BY <1>1, <2>1 DEF SettlesAs
  <2> QED
    BY <1>1, <1>2, <1>3, <2>2
<1> QED
  BY <1>6, <1>7
\* Every step leaves units behind only when they are past.
LEMMA PassedStep ==
  TypeInv /\ WorkerInv /\ UnitInv /\ FrontInv /\ ResultInv /\ PlacedInv /\ SuccessInv /\ PassedInv
    /\ [Next]_vars => PassedInv'
<1> SUFFICES ASSUME TypeInv, WorkerInv, UnitInv, FrontInv, ResultInv, PlacedInv, SuccessInv,
                    PassedInv, [Next]_vars
             PROVE  PassedInv'
  OBVIOUS
<1>0. /\ N \in Nat /\ lo \in Nat /\ hi \in Nat /\ cur \in Nat
      /\ phase \notin Idle => lo <= cur /\ lo <= hi /\ (phase \notin Cursors => cur <= hi)
      /\ phase = "pick" => cur <= hi + 1
      /\ mode = "serial" /\ phase \notin Idle => hi = lo
      /\ phase = "pick" => mode # "serial"
      /\ final \in [Pos -> Statuses \cup {None}] /\ audit \in [Pos -> Statuses \cup {None}]
      /\ listener \in [Pos -> {"quiet", "started", "completed"}]
  BY CursorRange DEF TypeInv, TypeOK, CursorOK, Cursors
<1>1. /\ \A i \in Pos : final[i] # None => final'[i] = final[i]
      /\ \A i \in Pos : Passed(i) => Passed(i)'
      /\ \A i \in Pos : Good(i) => Good(i)'
      /\ \A i \in Pos : i < Edge /\ Past(i) => Past(i)'
      /\ IsTerminal => IsTerminal'
      /\ UNCHANGED <<recipe, opts>>
  BY SettledStays, LatchGrows, RigidStays DEF IsTerminal
<1>2. lo <= Edge /\ (phase \in Settling \cup {"decide"} => cur <= Edge)
  BY <1>0 DEF Edge, Idle, Settling
<1>3. \A i \in Pos : i < lo => Past(i)'
  BY <1>0, <1>1, <1>2 DEF PassedInv, Pos, Edge
<1>4. lo' = lo => \A i \in Pos : i < lo' => Past(i)'
  BY <1>3
<1>5. lo' = lo /\ (phase' \in Armed => phase' = phase \/ ~IsTerminal) =>
        (phase' \in Armed => \A i \in Pos : i < lo' => Passed(i)')
  <2>1. ~IsTerminal => \A i \in Pos : i < lo => Passed(i)
    BY DEF PassedInv, Past, Good
  <2> QED
    BY <1>1, <2>1 DEF PassedInv
<1>6. phase' \in Armed => \A i \in Pos : i < lo' => Passed(i)'
  BY <1>5, ArmedStep
<1> USE DEF rigid, threads, report, flags, history, unit
<1>7. CASE Quiet
  <2>1. UNCHANGED <<lo, hi, unitFailed, halt>> /\ (phase' \in Idle <=> phase \in Idle)
    BY <1>7, QuietFrame DEF Kept
  <2>2. CASE Aside
    <3>1. UNCHANGED <<phase, cur>>
      BY <2>2 DEF Aside
    <3>2. phase \in Settling \cup {"decide"} /\ ~unitFailed =>
            \A i \in Pos : lo <= i /\ i < cur => Past(i)'
      BY <1>0, <1>1, <1>2 DEF PassedInv, Pos, Edge
    <3>3. phase = "decide" => IF halt THEN final'[cur] = "failed" ELSE Good(cur)'
      <4>1. phase = "decide" => cur \in Pos
        BY CursorRange DEF Idle, Cursors
      <4>2. \A i \in Pos : i = cur => (Good(cur) => Good(i)') /\ (Good(i)' => Good(cur)')
        BY <1>1, <3>1
      <4> QED
        BY <1>1, <4>1, <4>2 DEF PassedInv, None
    <3> QED
      BY <1>4, <1>6, <2>1, <3>1, <3>2, <3>3 DEF PassedInv
  <2>3. CASE Prepares \/ Embarks \/ Works \/ Join
    <3>1. phase' \notin Settling \cup {"decide"}
      BY <2>3 DEF Prepares, Embarks, Works, Join, Preparing, Spawning, Settling
    <3> QED
      BY <1>4, <1>6, <2>1, <3>1 DEF PassedInv
  <2>4. CASE Gathers
    <3>1. /\ phase' # "decide" /\ cur' = lo /\ UNCHANGED lo
      BY <2>1, <2>4 DEF Gathers
    <3>2. \A i \in Pos : ~(lo' <= i /\ i < cur')
      BY <1>0, <3>1 DEF Pos
    <3> QED
      BY <1>4, <1>6, <3>1, <3>2 DEF PassedInv
  <2>5. CASE Delivers
    <3>1. /\ phase' = "post" /\ UNCHANGED <<cur, mode, final>> /\ mode # "group"
          /\ phase \in Spawning \ {"spawn"}
      BY <2>5 DEF Delivers, Kept
    <3>2. CASE mode = "serial"
      <4>1. cur = lo
        BY <1>0, <3>1, <3>2 DEF Idle, Cursors, Spawning
      <4>2. \A i \in Pos : ~(lo' <= i /\ i < cur')
        BY <1>0, <2>1, <3>1, <4>1 DEF Pos
      <4> QED
        BY <1>4, <1>6, <2>1, <3>1, <4>2 DEF PassedInv
    <3>3. CASE mode = "prefail"
      <4>1. IsTerminal' /\ Edge = lo /\ phase \notin Over
        BY <1>1, <3>1, <3>3 DEF UnitInv, Edge, Idle, Over, Spawning, Settling
      <4>2. ASSUME NEW i \in Pos, lo <= i, i < cur PROVE Past(i)'
        <5>1. final[i] = None /\ i <= hi
          BY <1>0, <3>1, <4>1, <4>2 DEF FrontInv, Pos, Idle, Cursors, Spawning
        <5>2. recipe[i].group # NoGroup
          BY <3>1, <3>3, <4>2, <5>1, GroupHasSteps DEF Idle, Spawning
        <5> QED
          BY <1>1, <3>1, <4>1, <5>1, <5>2 DEF Past
      <4> QED
        BY <1>4, <1>6, <2>1, <3>1, <4>2 DEF PassedInv
    <3> QED
      BY <3>1, <3>2, <3>3 DEF TypeInv, TypeOK
  <2>6. CASE Settles
    <3>1. phase \in Settling /\ phase' \in Settling
      BY <2>6 DEF Settles
    <3>2. ~unitFailed => \A i \in Pos : lo <= i /\ i < cur => Past(i)'
      BY <1>0, <1>1, <1>2, <3>1 DEF PassedInv, Pos, Edge
    <3>3. CASE cur' = cur
      BY <1>4, <1>6, <2>1, <3>1, <3>2, <3>3 DEF PassedInv, Settling
    <3>4. CASE cur' = cur + 1 /\ phase = "pick" /\ cur <= hi /\ result[cur] = None
      <4>1. ASSUME NEW i \in Pos, i = cur PROVE Past(i)'
        <5>1. lo <= i /\ mode # "serial" /\ Edge = cur
          BY <1>0, <3>4, <4>1 DEF Idle, Edge, Settling
        <5>2. IsTerminal
          BY <1>0, <3>4, <4>1, <5>1 DEF PlacedInv, Has, WorkerInv, Settling, Spawning
        <5>3. final[i] = None /\ recipe[i].group # NoGroup
          BY <1>0, <3>4, <4>1, <5>1, GroupHasSteps DEF FrontInv, Over, Idle, Pos
        <5>4. Past(i)
          BY <5>2, <5>3 DEF Past
        <5>5. final' = final
          BY <2>6 DEF Settles, Kept
        <5> QED
          BY <1>1, <5>2, <5>3, <5>5 DEF Past
      <4>2. ~unitFailed => \A i \in Pos : lo <= i /\ i < cur + 1 => Past(i)'
        BY <1>0, <3>2, <4>1 DEF Pos
      <4> QED
        BY <1>4, <1>6, <2>1, <3>1, <3>4, <4>2 DEF PassedInv, Settling
    <3> QED
      BY <2>6, <3>3, <3>4 DEF Settles
  <2> QED
    BY <1>7, <2>2, <2>3, <2>4, <2>5, <2>6 DEF Quiet
<1>8. CASE OpenAudit \/ LastStepDone \/ LimitReached \/ BeginUnit \/ ReturnResult
  <2>1. phase' \notin Settling \cup {"decide"} /\ UNCHANGED lo
    BY <1>8 DEF OpenAudit, LastStepDone, LimitReached, BeginUnit, ReturnResult, Return, Settling
  <2> QED
    BY <1>4, <1>6, <2>1 DEF PassedInv
<1>9. CASE SkipStep
  <2>1. /\ phase = "loop" /\ phase' = "loop" /\ lo' = lo + 1 /\ lo \in Pos
        /\ final' = [final EXCEPT ![lo] = "skipped"] /\ UNCHANGED <<audit, listener>>
    BY <1>0, <1>9 DEF SkipStep, TypeInv, TypeOK, Pos
  <2>2. listener[lo] = "quiet"
    BY <1>0, <2>1 DEF FrontInv, Ahead, Idle, Over
  <2>3. \A i \in Pos : i = lo => Past(i)'
    BY <1>0, <1>1, <2>1, <2>2 DEF Past, Good, Passed, None
  <2>4. \A i \in Pos : i < lo + 1 => Past(i)'
    BY <1>0, <1>3, <2>3 DEF Pos
  <2> QED
    BY <1>6, <2>1, <2>4 DEF PassedInv, Settling
<1>10. CASE GroupDone
  <2>1. /\ phase = "pick" /\ cur > hi /\ phase' \in {"loop", "return"}
        /\ lo' = lo \/ (lo' = hi + 1 /\ ~unitFailed)
    BY <1>10 DEF GroupDone, Return
  <2>2. ~unitFailed => \A i \in Pos : lo <= i /\ i < cur => Past(i)'
    BY <1>0, <1>1, <1>2, <2>1 DEF PassedInv, Pos, Edge, Settling
  <2>3. lo' = hi + 1 /\ ~unitFailed => \A i \in Pos : i < hi + 1 => Past(i)'
    BY <1>0, <1>3, <2>1, <2>2 DEF Pos
  <2> QED
    BY <1>4, <1>6, <2>1, <2>3 DEF PassedInv, Settling
<1>11. CASE CountStep
  <2>1. phase = "post" /\ phase' = "hook" /\ UNCHANGED <<lo, cur, unitFailed>>
    BY <1>11 DEF CountStep
  <2>2. ~unitFailed => \A i \in Pos : lo <= i /\ i < cur => Past(i)'
    BY <1>0, <1>1, <1>2, <2>1 DEF PassedInv, Pos, Edge, Settling
  <2> QED
    BY <1>4, <1>6, <2>1, <2>2 DEF PassedInv
<1>12. CASE Settle
  <2>1. /\ cur \in Pos /\ phase = "settle" /\ phase' = "decide" /\ UNCHANGED <<lo, cur, unitFailed>>
    BY <1>12, SettleOutcome
  <2>2. PICK r \in Statuses : SettlesAs(r)
    BY <1>12, SettleOutcome
  <2>3. ~unitFailed => \A i \in Pos : lo <= i /\ i < cur => Past(i)'
    BY <1>0, <1>1, <1>2, <2>1 DEF PassedInv, Pos, Edge, Settling
  <2>4. halt' => final'[cur] = "failed"
    BY <1>0, <2>1, <2>2 DEF SettlesAs
  <2>5. ~halt' => Good(cur)'
    BY <1>0, <1>1, <2>1, <2>2 DEF SettlesAs, Good, Passed, Statuses, None
  <2> QED
    BY <1>4, <1>6, <2>1, <2>3, <2>4, <2>5 DEF PassedInv
<1>13. CASE Decide
  <2>1. /\ phase = "decide" /\ UNCHANGED hi
        /\ \/ phase' = "return" /\ lo' = lo
           \/ mode = "serial" /\ ~UnitStops /\ phase' = "loop" /\ lo' = lo + 1
           \/ /\ mode # "serial" /\ phase' = "pick" /\ cur' = cur + 1 /\ lo' = lo
              /\ ~unitFailed' => ~unitFailed /\ ~UnitStops
    BY <1>13 DEF Decide, Return, NextToSettle, TypeInv, TypeOK
  <2>2. ~UnitStops => \A i \in Pos : i = cur => Past(i)'
    BY <1>1, <2>1 DEF UnitStops, PassedInv, Past
  <2>3. CASE phase' = "return" /\ lo' = lo
    BY <1>4, <1>6, <2>3 DEF PassedInv, Settling
  <2>4. CASE mode = "serial" /\ ~UnitStops /\ phase' = "loop" /\ lo' = lo + 1
    <3>1. cur = lo
      BY <1>0, <2>1, <2>4 DEF Idle, Cursors
    <3>2. \A i \in Pos : i < lo + 1 => Past(i)'
      BY <1>0, <1>3, <2>2, <2>4, <3>1 DEF Pos
    <3> QED
      BY <1>6, <2>4, <3>2 DEF PassedInv, Settling
  <2>5. CASE /\ mode # "serial" /\ phase' = "pick" /\ cur' = cur + 1 /\ lo' = lo
             /\ ~unitFailed' => ~unitFailed /\ ~UnitStops
    <3>1. ~unitFailed => \A i \in Pos : lo <= i /\ i < cur => Past(i)'
      BY <1>0, <1>1, <1>2, <2>1 DEF PassedInv, Pos, Edge
    <3>2. ~unitFailed' => \A i \in Pos : lo <= i /\ i < cur + 1 => Past(i)'
      BY <1>0, <2>2, <2>5, <3>1 DEF Pos
    <3> QED
      BY <1>4, <1>6, <2>5, <3>2 DEF PassedInv
  <2> QED
    BY <2>1, <2>3, <2>4, <2>5
<1> QED
  BY StepKinds, <1>7, <1>8, <1>9, <1>10, <1>11, <1>12, <1>13 DEF Loud
-----------------------------------------------------------------------------
(* Failures.  A failure that was observed is on its way to the report of the    *)
(* step that observed it: that step is reported as failed, or its result says   *)
(* so already, or nothing but the veto of the step at hand can come next.      *)

\* The step at hand meets a read of the latch before anything else is recorded of it.
Doomed ==
  \/ phase \in {"ready", "unrepaired"}
  \/ phase = "enter" /\ mode # "group"
  \/ phase = "apply" /\ ~tb
Reported(i) == final[i] = "failed" /\ audit[i] \in {"failed", None}
Pending(i)  == phase \notin Idle /\ lo <= i /\ i <= hi /\ i >= Edge /\ result[i] = "failed"
Blamed(i)   == Reported(i) \/ Pending(i) \/ (i = cur /\ Doomed)

\* Each typed failure a step observed is accounted for at that step.
FailureInv ==
  /\ phase \in {"hook", "postHook"} /\ tb => IsTerminal
  /\ phase = "postHook" => ~tb
  /\ \A f \in terminal : f[2] # 0 => Blamed(f[2])

\* A failure that is published is blamed at its step.
LEMMA NewFailure ==
  ASSUME TypeInv, WorkerInv, ResultInv, FailureInv, [Next]_vars,
         NEW f \in terminal', f \notin terminal, NEW i \in Pos, i = f[2]
  PROVE  Blamed(i)'
<1>0. /\ N \in Nat /\ lo \in Nat /\ hi \in Nat /\ cur \in Nat
      /\ phase \notin Idle => lo <= cur /\ (phase \notin Cursors => cur <= hi)
      /\ phase \notin Idle \cup Cursors => cur \in Pos
      /\ result \in [Pos -> Statuses \cup {None}]
      /\ worker \in [Pos -> {"idle", "running", "failing", "panicked", "finished", "joined"}]
  BY CursorRange DEF TypeInv, TypeOK, CursorOK
<1> USE DEF rigid, threads, report, flags, history, unit
<1>1. ASSUME terminal' = terminal PROVE FALSE
  BY <1>1
<1>2. CASE RunHook
  <2>1. i = cur
    BY <1>2 DEF RunHook, Observe
  <2>2. cur' = cur /\ Doomed'
    BY <1>2 DEF RunHook, Doomed, FailureInv
  <2> QED
    BY <2>1, <2>2 DEF Blamed
<1>3. CASE Call
  <2>1. PICK o \in Outcomes(recipe[cur]) :
          /\ Observe(o)
          /\ CASE o = "answer" -> phase' = "answered" /\ UNCHANGED <<result, cur>>
               [] o = "raw"    -> phase' = "answeredRaw" /\ UNCHANGED <<result, cur>>
               [] OTHER        -> Finish("failed")
    BY <1>3 DEF Call
  <2>2. o \in Kinds /\ i = cur
    BY <1>1, <2>1 DEF Observe
  <2>3. Finish("failed")
    BY <2>1, <2>2 DEF Kinds
  <2>4. result' = [result EXCEPT ![cur] = "failed"] /\ phase' \in {"spawn", "post"}
        /\ (phase' = "post" => cur' = cur) /\ UNCHANGED <<lo, hi>> /\ phase = "armed"
    BY <1>3, <2>3 DEF Call, Finish
  <2>5. result'[i] = "failed" /\ lo <= i /\ i <= hi
    BY <1>0, <2>2, <2>4 DEF Idle, Cursors
  <2>6. Edge' \in {lo, cur} /\ phase' \notin Idle
    BY <2>4 DEF Edge, Settling, Idle
  <2>7. i >= Edge'
    BY <1>0, <2>2, <2>5, <2>6
  <2> QED
    BY <2>4, <2>5, <2>6, <2>7 DEF Blamed, Pending
<1>4. CASE RepairCall
  <2>1. PICK o \in {"answer", "raw", "error"} \cup Kinds :
          Observe(o) /\ phase' = IF o = "answer" THEN "repaired" ELSE "unrepaired"
    BY <1>4 DEF RepairCall
  <2>2. o \in Kinds /\ i = cur
    BY <1>1, <2>1 DEF Observe
  <2>3. phase' = "unrepaired" /\ cur' = cur
    BY <1>4, <2>1, <2>2 DEF RepairCall, Kinds
  <2> QED
    BY <2>2, <2>3 DEF Blamed, Doomed
<1>5. CASE Join
  <2>1. /\ phase = "join" /\ phase' = "join" /\ UNCHANGED <<lo, hi>> /\ cur <= hi
        /\ i = cur /\ worker[cur] = "finished" /\ failure[cur] # None
        /\ result' = result
    BY <1>1, <1>5 DEF Join
  <2>2. result[i] = "failed"
    BY <2>1 DEF ResultInv
  <2>3. lo <= i /\ i <= hi /\ Edge' = lo
    BY <1>0, <2>1 DEF Idle, Edge, Settling
  <2> QED
    BY <2>1, <2>2, <2>3 DEF Blamed, Pending, Idle
<1>6. ASSUME NEW j \in Pos, Worker(j) PROVE Blamed(i)'
  <2>1. WorkerPublishes(j)
    BY <1>1, <1>6 DEF Worker, WorkerSkips, WorkerAnswers, WorkerErrs, WorkerPanics
  <2>2. /\ i = j /\ result' = [result EXCEPT ![j] = "failed"] /\ UNCHANGED <<phase, lo, hi, cur>>
        /\ worker[j] = "failing"
    BY <1>1, <2>1 DEF WorkerPublishes
  <2>3. /\ j \in lo..hi /\ phase \in Spawning \cup {"join"}
    BY <2>2 DEF WorkerInv, Alive
  <2>4. phase' \notin Idle /\ Edge' = lo /\ lo <= i /\ i <= hi /\ result'[i] = "failed"
    BY <1>0, <2>2, <2>3 DEF Edge, Idle, Settling, Spawning, Pos
  <2> QED
    BY <1>0, <2>2, <2>4 DEF Blamed, Pending, Pos
<1>7. CASE OuterPublishes
  <2>1. f[2] = 0
    BY <1>7 DEF OuterPublishes
  <2> QED
    BY <1>0, <2>1 DEF Pos
<1>8. CASE OpenAudit \/ LastStepDone \/ LimitReached \/ SkipStep \/ BeginUnit
             \/ ReturnResult \/ CheckPreHook \/ CheckPostHook \/ PreHookDone
  BY <1>1, <1>8 DEF OpenAudit, LastStepDone, LimitReached, SkipStep, BeginUnit,
              ReturnResult, CheckPreHook, CheckPostHook, PreHookDone
<1>9. CASE StepVetoed \/ StepDryRun \/ StepCondition \/ Dispatch \/ StepAnswered
             \/ StartRepair \/ CheckRepair \/ Redispatch \/ StepRepaired \/ StepUnrepaired
  BY <1>1, <1>9 DEF StepVetoed, StepDryRun, StepCondition, Dispatch, StepAnswered,
              StartRepair, CheckRepair, Redispatch, StepRepaired, StepUnrepaired
<1>10. CASE EnterGroup \/ SpawnLoop \/ PlaceStep \/ AllJoined \/ PickResult \/ GroupDone
             \/ CountStep \/ ApplyTerminal \/ Settle \/ Decide
  BY <1>1, <1>10 DEF EnterGroup, SpawnLoop, PlaceStep, AllJoined, PickResult, GroupDone,
              CountStep, ApplyTerminal, Settle, Decide
<1>11. CASE UNCHANGED vars
  BY <1>1, <1>11 DEF vars
<1> QED
  BY <1>2, <1>3, <1>4, <1>5, <1>6, <1>7, <1>8, <1>9, <1>10, <1>11 DEF Next, Owner, Terminated

\* A result that says failed is not taken back.
LEMMA FailedStays ==
  ASSUME TypeInv, ResultInv, [Next]_vars, NEW i \in Pos, result[i] = "failed"
  PROVE  result'[i] = "failed"
<1>0. /\ cur \in Nat /\ Placed \in Nat /\ N \in Nat
      /\ result \in [Pos -> Statuses \cup {None}]
  BY CursorRange, PlacedMoves DEF TypeInv, TypeOK
<1>1. i < Placed
  <2>1. ~(i >= Placed)
    BY DEF ResultInv, None
  <2> QED
    BY <1>0, <2>1 DEF Pos
<1> USE DEF rigid, threads, report, flags, history, unit
<1>2. CASE UNCHANGED <<worker, failure, result>>
  BY <1>2
<1>3. CASE (Works /\ HandsOver) \/ Delivers
  <2>1. Placed <= cur
    BY <1>3, PlacedMoves, Zenon
  <2>2. PICK r \in Statuses : result' = [result EXCEPT ![cur] = r]
    BY <1>3 DEF HandsOver, Delivers, Ends
  <2>3. i # cur
    BY <1>0, <1>1, <2>1 DEF Pos
  <2> QED
    BY <1>0, <2>2, <2>3
<1>4. CASE Works /\ Spawns
  BY <1>4 DEF Spawns
<1>5. CASE Settles /\ result' = [result EXCEPT ![cur] = Effective]
  <2>1. Effective \in {"failed", result[cur]}
    BY DEF Effective
  <2> QED
    BY <1>0, <1>5, <2>1
<1>6. CASE Join
  BY <1>0, <1>6 DEF Join
<1>7. ASSUME NEW j \in Pos, Worker(j) PROVE result'[i] = "failed"
  <2>1. worker[j] \in {"running", "failing"}
    BY <1>7 DEF Worker, WorkerSkips, WorkerAnswers, WorkerErrs, WorkerPanics, WorkerPublishes
  <2>2. i # j
    BY <2>1 DEF ResultInv, None
  <2> QED
    BY <1>0, <1>7, <2>2 DEF Worker, WorkerSkips, WorkerAnswers, WorkerErrs, WorkerPanics,
                            WorkerPublishes
<1> QED
  BY ResultKinds, <1>2, <1>3, <1>4, <1>5, <1>6, <1>7
\* A failure that was blamed stays blamed.
LEMMA OldFailure ==
  ASSUME TypeInv, UnitInv, FrontInv, ResultInv, SuccessInv, FailureInv, [Next]_vars,
         IsTerminal, NEW i \in Pos, Blamed(i)
  PROVE  Blamed(i)'
<1>0. /\ N \in Nat /\ lo \in Nat /\ hi \in Nat /\ cur \in Nat
      /\ phase \notin Idle => lo <= cur /\ lo <= hi /\ (phase \notin Cursors => cur <= hi)
      /\ mode = "serial" /\ phase \notin Idle => hi = lo
      /\ phase = "pick" => mode # "serial"
      /\ result \in [Pos -> Statuses \cup {None}] /\ final \in [Pos -> Statuses \cup {None}]
      /\ audit \in [Pos -> Statuses \cup {None}]
  BY CursorRange DEF TypeInv, TypeOK, CursorOK
<1>1. Reported(i) => Reported(i)'
  <2>1. SUFFICES ASSUME Reported(i) PROVE Reported(i)'
    OBVIOUS
  <2>2. i < Edge \/ phase \in Over
    <3>1. final[i] # None
      BY <2>1 DEF Reported, None
    <3>2. Edge \in Nat
      BY <1>0 DEF Edge
    <3> QED
      BY <1>0, <3>1, <3>2 DEF FrontInv, Pos
  <2>3. final'[i] = final[i] /\ audit'[i] = audit[i]
    BY <2>2, ReportStays
  <2> QED
    BY <2>1, <2>3 DEF Reported
<1>2. result[i] = "failed" => result'[i] = "failed"
  BY FailedStays
<1> SUFFICES ASSUME ~Reported(i) PROVE Blamed(i)'
  BY <1>1 DEF Blamed
<1>3. Pending(i) \/ (i = cur /\ Doomed)
  BY DEF Blamed
<1>4. ASSUME Pending(i), phase' \notin Idle, UNCHANGED <<lo, hi>>, Edge' = Edge PROVE Blamed(i)'
  BY <1>2, <1>4 DEF Blamed, Pending
<1>5. i = cur /\ Doomed => phase \notin Idle /\ lo <= i /\ i <= hi
  BY <1>0 DEF Doomed, Idle, Cursors
<1>6. phase \notin Idle /\ lo <= i /\ i <= hi
  BY <1>3, <1>5 DEF Pending
<1> USE DEF rigid, threads, report, flags, history, unit
<1>7. CASE Quiet
  <2>0. UNCHANGED <<lo, hi, tb>> /\ phase' \notin Idle
    BY <1>6, <1>7, QuietFrame DEF Kept
  <2>1. CASE Aside
    <3>1. UNCHANGED <<phase, cur, mode>>
      BY <2>1 DEF Aside
    <3>2. Edge' = Edge
      BY <2>0, <3>1 DEF Edge
    <3> QED
      BY <1>3, <1>4, <2>0, <3>1, <3>2 DEF Blamed, Doomed
  <2>2. CASE Prepares
    <3>1. phase \in Preparing \ {"ready"} /\ phase' \in Preparing
      BY <2>2 DEF Prepares
    <3>2. Edge' = Edge /\ ~Doomed
      BY <2>0, <3>1 DEF Edge, Preparing, Settling, Doomed
    <3> QED
      BY <1>3, <1>4, <2>0, <3>2
  <2>3. CASE Embarks
    <3>1. Edge' = Edge
      BY <2>0, <2>3 DEF Embarks, Edge, Settling
    <3>2. i = cur /\ Doomed => i = cur' /\ Doomed'
      BY <1>0, <1>6, <2>3 DEF Embarks, Doomed, UnitInv
    <3> QED
      BY <1>3, <1>4, <2>0, <3>1, <3>2 DEF Blamed
  <2>4. CASE Works
    <3>1. Edge' = Edge /\ Edge = lo
      BY <2>0, <2>4 DEF Works, Edge, Spawning, Settling
    <3>2. CASE i = cur /\ Doomed
      <4>1. phase \in {"enter", "unrepaired"}
        BY <2>4, <3>2 DEF Works, Doomed, Spawning
      <4>2. CASE Walks
        BY <4>1, <4>2 DEF Walks
      <4>3. CASE HandsOver
        <5>1. PICK r \in Statuses : Ends(r)
          BY <4>3 DEF HandsOver
        <5>2. result' = [result EXCEPT ![cur] = "failed"]
          BY <4>1, <5>1 DEF Ends
        <5>3. result'[i] = "failed"
          BY <1>0, <3>2, <5>2
        <5> QED
          BY <1>0, <1>6, <2>0, <3>1, <5>3 DEF Blamed, Pending
      <4>4. CASE Spawns
        BY <4>1, <4>4 DEF Spawns
      <4> QED
        BY <2>4, <4>2, <4>3, <4>4 DEF Works
    <3> QED
      BY <1>3, <1>4, <2>0, <3>1, <3>2
  <2>5. CASE Delivers
    <3>1. /\ phase \in Spawning \ {"spawn", "place"} /\ phase' = "post" /\ mode # "group"
          /\ cur' = cur
      BY <2>5 DEF Delivers
    <3>2. PICK r \in Statuses : Ends(r)
      BY <2>5 DEF Delivers
    <3>3. result' = [result EXCEPT ![cur] = "failed"]
      BY <3>1, <3>2 DEF Ends
    <3>4. Edge' = cur
      BY <3>1 DEF Edge, Settling
    <3>5. i >= cur
      <4>1. CASE i = cur
        BY <1>0, <4>1
      <4>2. CASE Pending(i) /\ mode = "serial"
        BY <1>0, <1>6, <3>1, <4>2 DEF Idle, Cursors, Spawning, Pos
      <4>3. CASE Pending(i) /\ mode = "prefail"
        <5>1. i >= Placed
          BY <1>6, <3>1, <4>3 DEF Placed
        <5> QED
          BY <4>3, <5>1 DEF ResultInv, Pending, None
      <4> QED
        BY <1>3, <3>1, <4>1, <4>2, <4>3 DEF TypeInv, TypeOK
    <3>6. result'[i] = "failed"
      <4>1. CASE i = cur
        BY <1>0, <3>3, <4>1
      <4> QED
        BY <1>2, <1>3, <4>1 DEF Pending
    <3> QED
      BY <1>6, <2>0, <3>4, <3>5, <3>6 DEF Blamed, Pending
  <2>6. CASE Gathers \/ Join
    <3>1. phase \in {"spawn", "join"} /\ Edge' = lo /\ Edge = lo
      BY <2>0, <2>6 DEF Gathers, Join, Edge, Settling
    <3>2. ~Doomed
      BY <3>1 DEF Doomed
    <3> QED
      BY <1>3, <1>4, <2>0, <3>1, <3>2
  <2>7. CASE Settles
    <3>1. phase \in Settling /\ phase' \in Settling
      BY <2>7 DEF Settles
    <3>2. CASE cur' = cur
      <4>1. Edge' = Edge
        BY <3>1, <3>2 DEF Edge
      <4>2. CASE i = cur /\ Doomed
        <5>1. phase = "apply" /\ ~tb
          BY <3>1, <4>2 DEF Settling, Doomed
        <5>2. result' = [result EXCEPT ![cur] = "failed"]
          BY <2>7, <5>1 DEF Settles, Effective
        <5>3. result'[i] = "failed" /\ i >= Edge'
          BY <1>0, <3>1, <4>1, <4>2, <5>2 DEF Edge
        <5> QED
          BY <1>6, <2>0, <5>3 DEF Blamed, Pending
      <4> QED
        BY <1>3, <1>4, <2>0, <4>1, <4>2
    <3>3. CASE cur' = cur + 1 /\ phase = "pick" /\ result[cur] = None
      <4>1. Pending(i) /\ i # cur
        BY <1>3, <3>3 DEF Doomed, Pending, None
      <4>2. i >= cur' /\ Edge' = cur'
        BY <1>0, <3>1, <3>3, <4>1 DEF Pending, Edge, Settling, Pos
      <4> QED
        BY <1>2, <1>6, <2>0, <4>1, <4>2 DEF Blamed, Pending
    <3> QED
      BY <2>7, <3>2, <3>3 DEF Settles
  <2> QED
    BY <1>7, <2>1, <2>2, <2>3, <2>4, <2>5, <2>6, <2>7 DEF Quiet
<1>8. CASE OpenAudit \/ LastStepDone \/ LimitReached \/ SkipStep \/ BeginUnit \/ ReturnResult
  BY <1>6, <1>8 DEF OpenAudit, LastStepDone, LimitReached, SkipStep, BeginUnit, ReturnResult, Idle
<1>9. CASE GroupDone
  <2>1. phase = "pick" /\ cur > hi
    BY <1>9 DEF GroupDone
  <2>2. Pending(i) /\ Edge = cur
    BY <1>3, <2>1 DEF Doomed, Edge, Settling
  <2> QED
    BY <1>0, <1>6, <2>1, <2>2 DEF Pending, Pos
<1>10. CASE CountStep
  <2>1. phase = "post" /\ phase' = "hook" /\ UNCHANGED <<lo, hi, cur>>
    BY <1>10 DEF CountStep
  <2>2. Edge' = Edge /\ Pending(i)
    BY <1>3, <2>1 DEF Edge, Settling, Doomed
  <2> QED
    BY <1>4, <2>1, <2>2 DEF Idle
<1>11. CASE Settle
  <2>1. /\ cur \in Pos /\ phase = "settle" /\ phase' = "decide" /\ UNCHANGED <<lo, hi, cur>>
    BY <1>11, SettleOutcome
  <2>2. PICK r \in Statuses : SettlesAs(r)
    BY <1>11, SettleOutcome
  <2>3. Pending(i) /\ Edge = cur /\ Edge' = cur + 1
    BY <1>3, <2>1 DEF Edge, Settling, Doomed
  <2>4. CASE i = cur
    <3>1. result[cur] = "failed" /\ audit[cur] = None
      BY <1>0, <2>1, <2>3, <2>4 DEF Pending, FrontInv, Over
    <3>2. /\ final' = [final EXCEPT ![cur] = "failed"]
          /\ audit' = audit \/ audit' = [audit EXCEPT ![cur] = "failed"]
      BY <2>2, <3>1 DEF SettlesAs
    <3>3. final'[i] = "failed" /\ audit'[i] \in {"failed", None}
      BY <1>0, <2>4, <3>1, <3>2
    <3> QED
      BY <3>3 DEF Blamed, Reported
  <2>5. CASE i # cur
    BY <1>0, <1>2, <1>6, <2>1, <2>3, <2>5 DEF Blamed, Pending, Idle, Pos
  <2> QED
    BY <2>4, <2>5
<1>12. CASE Decide
  <2>1. /\ phase = "decide" /\ hi' = hi
        /\ mode = "serial" \/ (phase' = "pick" /\ cur' = cur + 1 /\ lo' = lo)
    BY <1>12 DEF Decide, NextToSettle
  <2>2. Pending(i) /\ Edge = cur + 1
    BY <1>3, <2>1 DEF Edge, Settling, Doomed
  <2>3. CASE mode = "serial"
    BY <1>0, <1>6, <2>1, <2>2, <2>3 DEF Pending, Idle, Cursors, Pos
  <2>4. CASE phase' = "pick" /\ cur' = cur + 1 /\ lo' = lo
    <3>1. Edge' = Edge
      BY <2>2, <2>4 DEF Edge, Settling
    <3> QED
      BY <1>4, <2>1, <2>2, <2>4, <3>1 DEF Idle
  <2> QED
    BY <2>1, <2>3, <2>4
<1> QED
  BY StepKinds, <1>7, <1>8, <1>9, <1>10, <1>11, <1>12 DEF Loud
\* So every step keeps all failures blamed.
LEMMA FailureStep ==
  TypeInv /\ WorkerInv /\ UnitInv /\ FrontInv /\ ResultInv /\ SuccessInv /\ FailureInv
    /\ [Next]_vars => FailureInv'
<1> SUFFICES ASSUME TypeInv, WorkerInv, UnitInv, FrontInv, ResultInv, SuccessInv, FailureInv,
                    [Next]_vars
             PROVE  FailureInv'
  OBVIOUS
<1> USE DEF rigid, threads, report, flags, history, unit
<1>1. \A f \in terminal' : f[2] # 0 => Blamed(f[2])'
  <2>1. SUFFICES ASSUME NEW f \in terminal', f[2] # 0 PROVE Blamed(f[2])'
    OBVIOUS
  <2>2. PICK i \in Pos : i = f[2]
    BY <2>1, TypeStep DEF TypeInv, TypeOK
  <2>3. CASE f \in terminal
    <3>1. IsTerminal /\ Blamed(i)
      BY <2>1, <2>2, <2>3 DEF FailureInv, IsTerminal
    <3> QED
      BY <2>2, <3>1, OldFailure
  <2>4. CASE f \notin terminal
    BY <2>2, <2>4, NewFailure
  <2> QED
    BY <2>3, <2>4
<1>2. IsTerminal => IsTerminal'
  BY LatchGrows DEF IsTerminal
<1>3. CASE Quiet
  <2>1. tb' = tb
    BY <1>3, QuietFrame DEF Kept
  <2>2. phase' \in {"hook", "postHook"} =>
          phase' = phase \/ (phase = "hook" /\ phase' = "postHook" /\ ~IsTerminal)
    BY <1>3 DEF Quiet, Aside, Prepares, Embarks, Works, Delivers, Gathers, Settles, Join,
                Preparing, Spawning
  <2> QED
    BY <1>1, <1>2, <2>1, <2>2 DEF FailureInv
<1>4. CASE CountStep
  <2>1. phase' = "hook" /\ tb' = TerminalBeforeHook
    BY <1>4 DEF CountStep
  <2> QED
    BY <1>1, <1>2, <2>1 DEF FailureInv, TerminalBeforeHook
<1>5. CASE OpenAudit \/ LastStepDone \/ LimitReached \/ SkipStep \/ BeginUnit \/ ReturnResult
           \/ GroupDone \/ Settle \/ Decide
  <2>1. phase' \notin {"hook", "postHook"}
    BY <1>5 DEF OpenAudit, LastStepDone, LimitReached, SkipStep, BeginUnit, ReturnResult,
                GroupDone, Settle, Decide, Return
  <2> QED
    BY <1>1, <2>1 DEF FailureInv
<1> QED
  BY StepKinds, <1>3, <1>4, <1>5 DEF Loud

-----------------------------------------------------------------------------
(* The context and the checkpoint hold what steps that did not fail left.      *)

\* An output is there before its step reports only while the step is settled, and then
\* the step is not failing unless the run is about to end.
Held ==
  \/ phase \in Settling /\ (result[cur] # "failed" \/ IsTerminal)
  \/ phase = "decide" /\ (halt \/ IsTerminal)
\* An output in the context is of a step reported as not failed, or nobody reads it:
\* the run is over, or its step is still being settled.
Sourced(i) ==
  \/ final[i] \notin {"failed", None}
  \/ phase \in Over
  \/ mode = "serial" /\ i = cur /\ Held

ContextInv == \A k \in Keys : ctx[k] # 0 => Sourced(ctx[k])

\* An output whose source did not fail keeps it.
LEMMA SourcedStays ==
  ASSUME TypeInv, WorkerInv, FrontInv, ResultInv, SuccessInv, [Next]_vars,
         NEW i \in Pos, Sourced(i)
  PROVE  Sourced(i)'
<1>0. /\ result \in [Pos -> Statuses \cup {None}] /\ final \in [Pos -> Statuses \cup {None}]
      /\ phase = "pick" => mode # "serial"
      /\ phase \in Grouping => mode = "group"
      /\ IsTerminal => IsTerminal'
  BY LatchGrows DEF TypeInv, TypeOK, CursorOK, IsTerminal
<1> USE DEF rigid, threads, report, flags, history, unit
<1>1. final[i] \notin {"failed", None} => Sourced(i)'
  BY SettledStays DEF Sourced
<1>2. phase \in Over => phase' \in Over
  <2>1. CASE Quiet
    BY <2>1, QuietFrame DEF Aside, Idle, Over
  <2>2. CASE Loud
    BY <2>2 DEF Loud, OpenAudit, LastStepDone, LimitReached, SkipStep, BeginUnit, ReturnResult,
                GroupDone, CountStep, Settle, Decide, Over
  <2> QED
    BY StepKinds, <2>1, <2>2
<1>3. ASSUME mode = "serial", i = cur, Held PROVE Sourced(i)'
  <2>1. phase \in Settling \cup {"decide"}
    BY <1>3 DEF Held
  <2>2. CASE Aside
    <3>1. \A j \in Pos : ~Worker(j)
      BY <1>3 DEF WorkerInv, Alive, Worker, WorkerSkips, WorkerAnswers, WorkerErrs, WorkerPanics,
                  WorkerPublishes
    <3>2. UNCHANGED <<phase, cur, mode, halt, result>>
      BY <2>2, <3>1 DEF Aside, Kept
    <3> QED
      BY <1>0, <1>3, <3>2 DEF Sourced, Held
  <2>3. CASE Settles
    <3>1. /\ phase' \in Settling /\ cur' = cur /\ mode' = mode
          /\ result' = result \/ result' = [result EXCEPT ![cur] = Effective]
      BY <1>0, <1>3, <2>3 DEF Settles
    <3>2. phase \in Settling
      BY <2>3 DEF Settles
    <3>3. result[i] # "failed" \/ IsTerminal
      BY <1>3, <3>2 DEF Held, Settling
    <3>4. Effective = result[cur] \/ IsTerminal
      BY DEF Effective
    <3>5. result'[i] # "failed" \/ IsTerminal
      BY <1>0, <1>3, <3>1, <3>3, <3>4
    <3> QED
      BY <1>0, <1>3, <3>1, <3>5 DEF Sourced, Held
  <2>4. CASE Prepares \/ Embarks \/ Works \/ Delivers \/ Gathers \/ Join
    BY <1>0, <1>3, <2>1, <2>4 DEF Prepares, Embarks, Works, Delivers, Gathers, Join, Preparing,
                            Spawning, Settling
  <2>5. CASE OpenAudit \/ LastStepDone \/ LimitReached \/ SkipStep \/ BeginUnit \/ ReturnResult
             \/ GroupDone
    BY <1>0, <1>3, <2>1, <2>5 DEF OpenAudit, LastStepDone, LimitReached, SkipStep, BeginUnit,
                                ReturnResult, GroupDone, Settling
  <2>6. CASE CountStep
    BY <1>3, <2>6 DEF CountStep, Sourced, Held, Settling, IsTerminal
  <2>7. CASE Settle
    <3>1. /\ cur \in Pos /\ phase = "settle" /\ phase' = "decide"
          /\ UNCHANGED <<cur, mode, result, terminal>>
      BY <2>7, SettleOutcome
    <3>2. PICK r \in Statuses : SettlesAs(r)
      BY <2>7, SettleOutcome
    <3>3. CASE IsTerminal \/ halt'
      BY <1>0, <1>3, <3>1, <3>3 DEF Sourced, Held
    <3>4. CASE ~IsTerminal /\ ~halt'
      <4>1. r = result[cur] /\ r # "failed" /\ final' = [final EXCEPT ![cur] = r]
        BY <1>3, <3>1, <3>2, <3>4 DEF Held, SettlesAs
      <4>2. final'[i] \notin {"failed", None}
        BY <1>0, <1>3, <3>1, <4>1 DEF Statuses, None
      <4> QED
        BY <4>2 DEF Sourced
    <3> QED
      BY <3>3, <3>4
  <2>8. CASE Decide
    <3>1. UnitStops
      BY <1>3, <2>8 DEF Decide, Held, UnitStops, Settling
    <3>2. phase' = "return"
      BY <1>3, <2>8, <3>1 DEF Decide, Return
    <3> QED
      BY <3>2 DEF Sourced, Over
  <2> QED
    BY StepKinds, <2>2, <2>3, <2>4, <2>5, <2>6, <2>7, <2>8 DEF Quiet, Loud
<1> QED
  BY <1>1, <1>2, <1>3 DEF Sourced

\* Every step keeps the context sourced.
LEMMA ContextStep ==
  TypeInv /\ WorkerInv /\ FrontInv /\ ResultInv /\ SuccessInv /\ ContextInv /\ [Next]_vars
    => ContextInv'
<1> SUFFICES ASSUME TypeInv, WorkerInv, FrontInv, ResultInv, SuccessInv, ContextInv, [Next]_vars,
                    NEW k \in Keys, NEW i \in Pos, i = ctx'[k]
             PROVE  Sourced(i)'
  <2>1. TypeInv /\ [Next]_vars => ctx' \in [Keys -> Pos \cup {0}]
    BY TypeStep DEF TypeInv, TypeOK
  <2> QED
    BY <2>1 DEF ContextInv
<1>0. /\ ctx \in [Keys -> Pos \cup {0}] /\ result \in [Pos -> Statuses \cup {None}]
      /\ final \in [Pos -> Statuses \cup {None}]
  BY DEF TypeInv, TypeOK
<1>1. Sourced(i) => Sourced(i)'
  BY SourcedStays
<1>2. ASSUME ctx'[k] = ctx[k] PROVE Sourced(i)'
  <2>1. i # 0
    BY ConstantsAssumption DEF Pos
  <2>2. Sourced(i)
    BY <1>2, <2>1 DEF ContextInv
  <2> QED
    BY <1>1, <2>2
<1> USE DEF rigid, threads, report, flags, history, unit
<1>3. CASE Delivers
  <2>1. PICK r \in Statuses :
          /\ Ends(r)
          /\ \/ ctx' = ctx
             \/ mode = "serial" /\ r # "failed" /\ ~IsTerminal /\ ctx' = Writes(cur)
    BY <1>3 DEF Delivers
  <2>2. CASE ctx' = ctx
    BY <1>2, <2>2
  <2>3. CASE mode = "serial" /\ r # "failed" /\ ctx' = Writes(cur)
    <3>1. PICK j : j = cur /\ j \in Pos
      BY <1>3, CursorRange DEF Delivers, Spawning, Idle, Cursors
    <3>2. ctx'[k] = ctx[k] \/ ctx'[k] = j
      BY <2>3, <3>1 DEF Writes
    <3>3. result'[j] # "failed" /\ phase' = "post" /\ cur' = j /\ mode' = "serial"
      BY <1>0, <1>3, <2>1, <2>3, <3>1 DEF Delivers, Ends
    <3>4. Sourced(j)'
      BY <2>3, <3>1, <3>3 DEF Sourced, Held, Settling
    <3>5. CASE ctx'[k] = ctx[k]
      BY <1>2, <3>5
    <3>6. CASE i = j
      BY <3>4, <3>6
    <3> QED
      BY <3>2, <3>5, <3>6
  <2> QED
    BY <2>1, <2>2, <2>3
<1>4. CASE Settle
  <2>1. PICK r \in Statuses : SettlesAs(r)
    BY <1>4, SettleOutcome
  <2>2. PICK j : j = cur /\ j \in Pos
    BY <1>4, SettleOutcome
  <2>3. CASE ctx' = ctx
    BY <1>2, <2>3
  <2>4. CASE GroupStores(r) /\ ctx' = Writes(cur)
    <3>1. ctx'[k] = ctx[k] \/ ctx'[k] = j
      BY <2>2, <2>4 DEF Writes
    <3>2. final'[j] = r /\ r \notin {"failed", None}
      BY <1>0, <2>1, <2>2, <2>4 DEF SettlesAs, GroupStores, Statuses, None
    <3>3. Sourced(j)'
      BY <3>2 DEF Sourced
    <3>5. CASE ctx'[k] = ctx[k]
      BY <1>2, <3>5
    <3>6. CASE i = j
      BY <3>3, <3>6
    <3> QED
      BY <3>1, <3>5, <3>6
  <2> QED
    BY <2>1, <2>3, <2>4 DEF SettlesAs
<1>5. ctx' = ctx \/ Delivers \/ Settle
  BY StepKinds DEF Quiet, Loud, Aside, Prepares, Embarks, Works, Gathers, Settles, Join,
     OpenAudit, LastStepDone, LimitReached, SkipStep, BeginUnit, ReturnResult, GroupDone,
     CountStep, Decide
<1> QED
  BY <1>2, <1>3, <1>4, <1>5

\* Every step keeps the checkpoint sound.
LEMMA CheckpointStep ==
  TypeInv /\ FrontInv /\ ResultInv /\ SuccessInv /\ CheckpointIsSound /\ [Next]_vars
    => CheckpointIsSound'
<1> SUFFICES ASSUME TypeInv, FrontInv, ResultInv, SuccessInv, CheckpointIsSound, [Next]_vars
             PROVE  CheckpointIsSound'
  OBVIOUS
<1>0. /\ ckpt \in SUBSET Pos /\ ckpt' \in SUBSET Pos /\ final \in [Pos -> Statuses \cup {None}]
  BY TypeStep DEF TypeInv, TypeOK
<1>1. \A i \in Pos : final[i] # None => final'[i] = final[i]
  BY SettledStays
<1>2. CASE ckpt' = ckpt
  BY <1>0, <1>1, <1>2 DEF CheckpointIsSound
<1>3. CASE Settle
  <2>1. PICK r \in Statuses : SettlesAs(r)
    BY <1>3, SettleOutcome
  <2>2. cur \in Pos
    BY <1>3, SettleOutcome
  <2>3. CASE ckpt' = Completed \cup {cur} /\ r # "failed"
    <3>1. final'[cur] = r /\ r # None
      BY <1>0, <2>1, <2>2 DEF SettlesAs, Statuses, None
    <3>2. \A i \in Completed : final'[i] = "completed"
      BY <1>1 DEF Completed, None
    <3> QED
      BY <2>3, <3>1, <3>2 DEF CheckpointIsSound, None
  <2> QED
    BY <1>2, <2>1, <2>3 DEF SettlesAs
<1>4. ckpt' = ckpt \/ Settle
  BY StepKinds DEF Quiet, Loud, Aside, Prepares, Embarks, Works, Delivers, Gathers, Settles, Join,
     OpenAudit, LastStepDone, LimitReached, SkipStep, BeginUnit, ReturnResult, GroupDone,
     CountStep, Decide, Kept, report, flags, history, unit
<1> QED
  BY <1>2, <1>3, <1>4

-----------------------------------------------------------------------------
(* Everything together: what holds in every state of a run. *)

RunInv ==
  /\ TypeInv /\ WorkerInv /\ LateInv /\ UnitInv /\ FrontInv /\ BudgetInv
  /\ ResultInv /\ StartedInv /\ PlacedInv /\ ListenerInv
  /\ SuccessInv /\ PassedInv /\ FailureInv /\ ContextInv /\ CheckpointIsSound

\* A run starts in the invariant.
LEMMA RunInit == Init => RunInv
<1> SUFFICES ASSUME Init PROVE RunInv
  OBVIOUS
<1> USE DEF Init
<1>1. TypeInv
  BY TypeInit
<1>2. /\ phase = "open" /\ mode = "serial" /\ lo = 1 /\ hi = 0 /\ cur = 0 /\ terminal = {}
      /\ touched = {} /\ late = 0 /\ ckpt = {}
      /\ \A i \in Pos : /\ worker[i] = "idle" /\ failure[i] = None /\ result[i] = None
                       /\ final[i] = None /\ audit[i] = None /\ listener[i] = "quiet"
      /\ \A k \in Keys : ctx[k] = 0
      /\ success /\ ~tb /\ ~unitFailed
  OBVIOUS
<1> HIDE DEF Init
<1>3. WorkerInv /\ LateInv
  BY <1>2 DEF WorkerInv, Alive, LateInv, Armed, IsTerminal
<1>4. UnitInv /\ FrontInv /\ BudgetInv
  <2>1. Init => BudgetOvershoot
    BY DEF Init, BudgetOvershoot
  <2> QED
    BY <1>2, <2>1 DEF UnitInv, FrontInv, BudgetInv, Idle
<1>5. ResultInv /\ StartedInv /\ PlacedInv /\ ListenerInv
  BY <1>2 DEF ResultInv, StartedInv, PlacedInv, ListenerInv, Ran, Called, Settling, Spawning, None
<1>6. SuccessInv /\ PassedInv
  BY <1>2 DEF SuccessInv, PassedInv, Over, Pos, Settling, Armed
<1>7. FailureInv /\ ContextInv /\ CheckpointIsSound
  BY <1>2 DEF FailureInv, ContextInv, CheckpointIsSound, None
<1> QED
  BY <1>1, <1>3, <1>4, <1>5, <1>6, <1>7 DEF RunInv

\* Every step keeps it.
LEMMA RunStep == RunInv /\ [Next]_vars => RunInv'
<1> SUFFICES ASSUME RunInv, [Next]_vars PROVE RunInv'
  OBVIOUS
<1>1. TypeInv' /\ WorkerInv' /\ LateInv'
  BY TypeStep, WorkerStep, LateStep DEF RunInv
<1>2. UnitInv' /\ FrontInv' /\ BudgetInv'
  BY UnitStep, FrontStep, BudgetStep DEF RunInv
<1>3. ResultInv' /\ StartedInv'
  BY ResultStep, StartedStep DEF RunInv
<1>4. PlacedInv' /\ ListenerInv'
  BY <1>3, PlacedStep, ListenerStep DEF RunInv
<1>5. SuccessInv' /\ PassedInv'
  BY SuccessStep, PassedStep DEF RunInv
<1>6. FailureInv' /\ ContextInv' /\ CheckpointIsSound'
  BY FailureStep, ContextStep, CheckpointStep DEF RunInv
<1> QED
  BY <1>1, <1>2, <1>3, <1>4, <1>5, <1>6 DEF RunInv

\* So it holds in every state.
LEMMA RunAlways == Spec => []RunInv
BY RunInit, RunStep, PTL DEF Spec

\* What a caller reads from a finished run (run_steps returning its RecipeResult): success
\* only if no typed failure was latched, every step was settled, none failed except
\* nonfatal ones and a required audit log shows each step that ran with its reported
\* status; and every typed failure a step observed, in a call, a hook or a worker, shows
\* at that step.
THEOREM OutcomesAreAlwaysReported == Spec => []OutcomesAreReported
<1>1. RunInv => SuccessIsComplete
  <2> SUFFICES ASSUME RunInv, phase = "done", success
               PROVE  ~IsTerminal /\ \A i \in Pos : Good(i)
    BY DEF SuccessIsComplete, Good
  <2>1. ~IsTerminal /\ lo > N
    BY DEF RunInv, SuccessInv, Over
  <2>2. \A i \in Pos : i < lo
    BY <2>1, CursorRange DEF RunInv, Pos
  <2> QED
    BY <2>1, <2>2 DEF RunInv, PassedInv, Past
<1>2. RunInv => FailuresAreReported
  <2> SUFFICES ASSUME RunInv, phase = "done", NEW f \in terminal, f[2] # 0
               PROVE  Reported(f[2])
    BY DEF FailuresAreReported, Reported
  <2>1. Blamed(f[2])
    BY DEF RunInv, FailureInv
  <2> QED
    BY <2>1 DEF Blamed, Pending, Doomed, Idle
<1> QED
  BY <1>1, <1>2, RunAlways, PTL DEF OutcomesAreReported

\* A checkpoint saved after a step (save_checkpoint from completed_steps) names only
\* steps whose final status is not failed, also when an audit entry or a hook turned a
\* completed step into a failed one: a resumed run skips no work that failed.
THEOREM CheckpointsAreSound == Spec => []CheckpointIsSound
<1>1. RunInv => CheckpointIsSound
  BY DEF RunInv
<1> QED
  BY <1>1, RunAlways, PTL

\* A step that begins reads from the context only outputs of steps that did not fail,
\* though a serial step stores its output before its hooks, the latch and the audit log
\* can still fail it.
THEOREM ContextIsFromSuccess == Spec => []ContextFromSuccess
<1>1. RunInv => ContextFromSuccess
  BY DEF RunInv, ContextFromSuccess, ContextInv, Sourced, Held, Settling, Over
<1> QED
  BY <1>1, RunAlways, PTL

\* Unless a typed failure cut the run short, the listener hears on_step_complete for
\* each step it heard on_step_start for: the members of a group are all announced before
\* any of them runs, and settled one by one after the joins.
THEOREM NotificationsArePaired == Spec => []PairedNotifications
<1>1. RunInv => PairedNotifications
  BY DEF RunInv, PairedNotifications, ListenerInv, Idle
<1> QED
  BY <1>1, RunAlways, PTL

-----------------------------------------------------------------------------
(* The run loop keeps its contract: every step maps to a step of RunContract  *)
(* or shows nothing.                                                          *)

\* The contract reads recipes and statuses as the run does.
LEMMA ContractSame ==
  /\ Contract!Pos = Pos /\ Contract!Statuses = Statuses /\ Contract!None = None
  /\ \A i \in Pos : Contract!Passed(i) = Passed(i)
  /\ \A i \in Pos : Contract!Written(i) = Writes(i)
BY DEF Contract!Pos, Contract!Statuses, Contract!None, Contract!Passed, Contract!Written,
       Pos, Statuses, None, Passed, Writes

\* A run starts as the contract does.
LEMMA ContractInit == Init => Contract!Init
BY DEF Init, Contract!Init, Outcome, IsTerminal, Contract!Pos, Contract!None, Pos, None

\* Steps between the first of the unit and its last are together.
LEMMA UnitTogether ==
  ASSUME TypeInv, UnitInv, phase \notin Idle, mode # "serial",
         NEW i \in Pos, NEW j \in Pos, lo <= j, j <= i, i <= hi
  PROVE  Contract!Together(j, i)
<1>1. recipe[lo].group # NoGroup /\ IsUnit(lo, hi)
  BY DEF UnitInv
<1>2. \A k \in lo..hi : recipe[k].group = recipe[lo].group
  BY <1>1 DEF IsUnit
<1>3. i \in lo..hi /\ \A k \in j..i : k \in lo..hi
  BY CursorRange DEF Pos
<1> QED
  BY <1>1, <1>2, <1>3 DEF Contract!Together

\* Whatever the owner starts for the step at hand, it is that step's turn.
LEMMA ItsTurn ==
  ASSUME TypeInv, UnitInv, phase \notin Idle \cup Cursors, NEW i \in Pos, i = cur,
         \A j \in Pos : j < lo => Passed(j)
  PROVE  Contract!Turn(i)
<1>1. SUFFICES ASSUME NEW j \in 1..(i - 1)
               PROVE  Contract!Together(j, i) \/ Passed(j)
  BY DEF Contract!Turn, Contract!Passed, Passed, Contract!None, None
<1>2. /\ N \in Nat /\ lo \in Nat /\ hi \in Nat /\ j \in Pos /\ j < i /\ lo <= i /\ i <= hi
      /\ mode = "serial" => hi = lo
  BY CursorRange DEF Pos, TypeInv, CursorOK
<1>3. CASE j < lo
  BY <1>2, <1>3
<1>4. CASE ~(j < lo)
  <2>1. mode # "serial" /\ lo <= j /\ j <= i
    BY <1>2, <1>4
  <2> QED
    BY <1>2, <2>1, UnitTogether
<1> QED
  BY <1>3, <1>4

\* Something is started only by the actions the latch was read for.
LEMMA Admissions ==
  ASSUME TypeInv, [Next]_vars
  PROVE  \/ UNCHANGED history
         \/ /\ phase \in Armed /\ Admit
            /\ UNCHANGED <<final, ctx>> /\ phase' \notin Idle
<1> USE DEF rigid, threads, report, flags, history, unit, Idle, Armed
<1>1. CASE RunHook \/ RepairCall
  BY <1>1 DEF RunHook, RepairCall
<1>2. CASE Call
  <2>1. /\ phase = "armed" /\ Admit /\ UNCHANGED <<final, ctx>>
        /\ phase' \in {"answered", "answeredRaw", "spawn", "post"}
    BY <1>2 DEF Call, Finish
  <2> QED
    BY <2>1
<1>3. CASE PlaceStep
  <2>1. phase = "place" /\ UNCHANGED <<final, ctx>>
    BY <1>3 DEF PlaceStep
  <2>2. UNCHANGED <<late, touched>> \/ (Admit /\ phase' = "spawn")
    BY <1>3 DEF PlaceStep
  <2> QED
    BY <2>1, <2>2
<1>4. CASE OpenAudit \/ LastStepDone \/ LimitReached \/ SkipStep \/ BeginUnit \/ ReturnResult
  BY <1>4 DEF OpenAudit, LastStepDone, LimitReached, SkipStep, BeginUnit, ReturnResult
<1>5. CASE CheckPreHook \/ CheckPostHook \/ PreHookDone
  BY <1>5 DEF CheckPreHook, CheckPostHook, PreHookDone
<1>6. CASE StepVetoed \/ StepDryRun \/ StepCondition \/ Dispatch \/ StepAnswered
  BY <1>6 DEF StepVetoed, StepDryRun, StepCondition, Dispatch, StepAnswered
<1>7. CASE StartRepair \/ CheckRepair \/ Redispatch \/ StepRepaired \/ StepUnrepaired
  BY <1>7 DEF StartRepair, CheckRepair, Redispatch, StepRepaired, StepUnrepaired
<1>8. CASE EnterGroup \/ SpawnLoop \/ Join \/ AllJoined \/ PickResult \/ GroupDone
  BY <1>8 DEF EnterGroup, SpawnLoop, Join, AllJoined, PickResult, GroupDone
<1>9. CASE CountStep \/ ApplyTerminal \/ Settle \/ Decide
  BY <1>9 DEF CountStep, ApplyTerminal, Settle, Decide
<1>10. ASSUME NEW i \in Pos, Worker(i) PROVE UNCHANGED history
  BY <1>10 DEF Worker, WorkerSkips, WorkerAnswers, WorkerErrs, WorkerPanics, WorkerPublishes
<1>11. CASE OuterPublishes \/ UNCHANGED vars
  BY <1>11 DEF OuterPublishes, vars
<1> QED
  BY <1>1, <1>2, <1>3, <1>4, <1>5, <1>6, <1>7, <1>8, <1>9, <1>10, <1>11
  DEF Next, Owner, Terminated

\* Who writes the context neither starts anything nor touches the latch.
LEMMA ContextWriters ==
  ASSUME TypeInv, [Next]_vars, ctx' # ctx
  PROVE  (Delivers \/ Settle) /\ UNCHANGED <<terminal, late, touched>>
<1> USE DEF rigid, threads, report, flags, history, unit
<1>1. Delivers \/ Settle
  BY StepKinds DEF Quiet, Loud, Aside, Prepares, Embarks, Works, Gathers, Settles, Join,
     OpenAudit, LastStepDone, LimitReached, SkipStep, BeginUnit, ReturnResult, GroupDone,
     CountStep, Decide
<1>2. UNCHANGED history
  BY Admissions
<1>3. CASE OpenAudit \/ LastStepDone \/ LimitReached \/ SkipStep \/ BeginUnit \/ ReturnResult
  BY <1>3 DEF OpenAudit, LastStepDone, LimitReached, SkipStep, BeginUnit, ReturnResult
<1>4. CASE CheckPreHook \/ CheckPostHook \/ RunHook \/ PreHookDone
  BY <1>4 DEF CheckPreHook, CheckPostHook, RunHook, PreHookDone
<1>5. CASE StepVetoed \/ StepCondition \/ Dispatch \/ Call \/ RepairCall
  <2>1. UNCHANGED report
    BY <1>5 DEF StepVetoed, StepCondition, Dispatch, Call, RepairCall
  <2> QED
    BY <2>1
<1>6. CASE StepDryRun \/ StepAnswered \/ StartRepair \/ CheckRepair \/ Redispatch
           \/ StepRepaired \/ StepUnrepaired
  <2>1. UNCHANGED terminal
    BY <1>6 DEF StepDryRun, StepAnswered, StartRepair, CheckRepair, Redispatch, StepRepaired,
                StepUnrepaired
  <2> QED
    BY <1>1, <1>2, <2>1
<1>7. CASE EnterGroup \/ SpawnLoop \/ PlaceStep \/ Join \/ AllJoined \/ PickResult \/ GroupDone
  BY <1>7 DEF EnterGroup, SpawnLoop, PlaceStep, Join, AllJoined, PickResult, GroupDone
<1>8. CASE CountStep \/ ApplyTerminal \/ Settle \/ Decide
  BY <1>8 DEF CountStep, ApplyTerminal, Settle, Decide
<1>9. ASSUME NEW i \in Pos, Worker(i) PROVE FALSE
  BY <1>9 DEF Worker, WorkerSkips, WorkerAnswers, WorkerErrs, WorkerPanics, WorkerPublishes
<1>10. CASE OuterPublishes \/ UNCHANGED vars
  BY <1>10 DEF OuterPublishes, vars
<1> QED
  BY <1>1, <1>2, <1>3, <1>4, <1>5, <1>6, <1>7, <1>8, <1>9, <1>10 DEF Next, Owner, Terminated

\* A step that changes neither the report, the context nor what was started shows at most
\* that the latch closed.
LEMMA LatchesOrStutters ==
  ASSUME TypeInv, [Next]_vars, UNCHANGED <<final, ctx, late, touched>>,
         phase # "done" /\ phase' # "done"
  PROVE  [Contract!Next]_(Contract!cvars)
<1>1. UNCHANGED recipe /\ (IsTerminal => IsTerminal')
  BY RigidStays, LatchGrows DEF IsTerminal
<1>2. Outcome = "running" /\ Outcome' = "running"
  BY DEF Outcome
<1>3. CASE IsTerminal = IsTerminal'
  BY <1>1, <1>2, <1>3 DEF Contract!cvars
<1>4. CASE IsTerminal'
  BY <1>1, <1>2, <1>4 DEF Contract!Next, Contract!Latch
<1> QED
  BY <1>1, <1>3, <1>4 DEF IsTerminal

\* A hook, a call, a repair or a worker is a start in its turn.
LEMMA StartsInTurn ==
  ASSUME TypeInv, UnitInv, PassedInv, LateInv', [Next]_vars, phase \in Armed, Admit,
         UNCHANGED <<final, ctx>>, phase' \notin Idle
  PROVE  Contract!Next
<1>1. PICK i \in Pos : i = cur
  BY CursorRange DEF Armed, Idle, Cursors
<1>2. Contract!Turn(i)
  BY <1>1, ItsTurn DEF PassedInv, Armed, Idle, Cursors
<1>3. UNCHANGED recipe /\ (IsTerminal => IsTerminal')
  BY RigidStays, LatchGrows DEF IsTerminal
<1>4. Outcome = "running" /\ Outcome' = "running"
  BY DEF Outcome, Armed, Idle
<1>5. late' <= 1
  BY DEF LateInv
<1>6. IsTerminal' \in {IsTerminal, TRUE}
  BY <1>3 DEF IsTerminal
<1>7. Contract!Start(i)
  BY <1>1, <1>2, <1>4, <1>5, <1>6 DEF Contract!Start, Admit
<1> QED
  BY <1>3, <1>4, <1>7, ContractSame DEF Contract!Next

\* A serial step stores its output in its turn, before it reports.
LEMMA StoresInTurn ==
  ASSUME TypeInv, UnitInv, FrontInv, PassedInv, [Next]_vars, Delivers, ctx' # ctx
  PROVE  Contract!Next
<1>1. PICK i \in Pos : i = cur
  BY CursorRange DEF Delivers, Spawning, Idle, Cursors
<1>2. mode = "serial" /\ ~IsTerminal /\ ctx' = Writes(i) /\ final' = final
  BY <1>1 DEF Delivers, Kept
<1>3. /\ phase \in Spawning /\ phase \notin Cursors /\ phase \notin Settling /\ phase \notin Idle
      /\ phase \notin Over /\ phase # "decide" /\ phase' = "post"
  BY DEF Delivers, Spawning, Cursors, Settling, Idle, Over
<1>4. Contract!Turn(i)
  BY <1>1, <1>2, <1>3, ItsTurn DEF PassedInv, Past, Good
<1>5. recipe[i].group = NoGroup /\ final[i] = None
  <2>1. lo = i
    BY <1>1, <1>2, <1>3, CursorRange DEF TypeInv, CursorOK
  <2> QED
    BY <1>2, <1>3, <2>1, CursorRange DEF UnitInv, FrontInv, Edge
<1>6. UNCHANGED <<recipe, late, touched, terminal>>
  BY RigidStays, ContextWriters
<1>7. Outcome = "running" /\ Outcome' = "running"
  BY <1>3 DEF Outcome, Idle
<1>8. Contract!Store(i)
  BY <1>2, <1>4, <1>5, <1>6, <1>7, ContractSame DEF Contract!Store, IsTerminal
<1> QED
  BY <1>6, <1>7, <1>8, ContractSame DEF Contract!Next

\* What is behind the step that reports lets it report.
LEMMA ReportsInOrder ==
  ASSUME TypeInv, UnitInv, FrontInv, PassedInv, phase \notin Over, NEW i \in Pos, i = Edge,
         phase = "settle" \/ phase = "loop"
  PROVE  /\ \A j \in 1..(i - 1) :
              Contract!Together(j, i) \/ Contract!Passed(j) \/ Contract!Silent(j)
         /\ \A j \in i..N : final[j] = Contract!None
<1>1. \A j \in i..N : final[j] = Contract!None
  BY ContractSame DEF FrontInv, Pos
<1>2. SUFFICES ASSUME NEW j \in 1..(i - 1)
               PROVE  Contract!Together(j, i) \/ Passed(j) \/ Contract!Silent(j)
  BY <1>1 DEF Contract!Passed, Passed, Contract!None, None
<1>3. j \in Pos /\ N \in Nat /\ lo \in Nat /\ hi \in Nat /\ j < i
  BY CursorRange DEF Pos
<1>4. CASE j < lo
  BY <1>3, <1>4 DEF PassedInv, Past, Good, Contract!Silent, Contract!None, None
<1>5. CASE ~(j < lo)
  <2>1. i = cur /\ phase = "settle" /\ phase \notin Idle /\ lo <= j /\ j <= i
    BY <1>3, <1>5 DEF Edge, Settling, Idle
  <2>2. mode # "serial" /\ i <= hi
    BY <1>3, <2>1, CursorRange DEF TypeInv, CursorOK, Cursors, Idle
  <2> QED
    BY <1>3, <2>1, <2>2, UnitTogether
<1> QED
  BY <1>4, <1>5

\* The limit and a skipped step report at once.
LEMMA ReportsUnstarted ==
  ASSUME TypeInv, UnitInv, FrontInv, PassedInv, [Next]_vars, LimitReached \/ SkipStep
  PROVE  Contract!Next
<1> USE DEF rigid, flags, history
<1>1. phase = "loop" /\ lo <= N /\ phase' \in {"loop", "return"}
      /\ UNCHANGED <<recipe, terminal, late, touched, ctx>>
  BY DEF LimitReached, SkipStep, Return
<1>2. PICK i \in Pos : i = lo
  BY <1>1, CursorRange DEF Pos
<1>3. i = Edge /\ phase \notin Over
  BY <1>1, <1>2 DEF Edge, Settling, Over
<1>4. PICK r \in {"failed", "skipped"} :
        /\ final' = [final EXCEPT ![i] = r]
        /\ r = "skipped" => recipe[i].group = NoGroup
  BY <1>2 DEF LimitReached, SkipStep
<1>5. Outcome = "running" /\ Outcome' = "running"
  BY <1>1 DEF Outcome
<1>6. Contract!Report(i, r)
  <2>1. /\ \A j \in 1..(i - 1) :
             Contract!Together(j, i) \/ Contract!Passed(j) \/ Contract!Silent(j)
        /\ \A j \in i..N : final[j] = Contract!None
    BY <1>1, <1>3, ReportsInOrder
  <2>2. ctx' = IF recipe[i].group # NoGroup /\ r # "failed" THEN Contract!Written(i) ELSE ctx
    BY <1>1, <1>4
  <2>3. r \notin {"completed", "degraded"}
    BY <1>4
  <2> QED
    BY <1>1, <1>4, <1>5, <2>1, <2>2, <2>3 DEF Contract!Report, IsTerminal
<1> QED
  BY <1>1, <1>4, <1>5, <1>6, ContractSame DEF Contract!Next, Statuses

\* A settled step reports, and a group's step stores its output with that.
LEMMA ReportsSettled ==
  ASSUME TypeInv, UnitInv, FrontInv, ResultInv, StartedInv, SuccessInv, PassedInv, [Next]_vars,
         Settle
  PROVE  Contract!Next
<1> USE DEF rigid, flags, history
<1>1. /\ cur \in Pos /\ phase = "settle" /\ phase' = "decide"
      /\ UNCHANGED <<recipe, mode, result, terminal, late, touched>>
  BY SettleOutcome DEF Settle
<1>2. PICK r \in Statuses : SettlesAs(r)
  BY SettleOutcome
<1>3. PICK i \in Pos : i = cur
  BY <1>1
<1>4. i = Edge /\ phase \notin Over
  BY <1>1, <1>3 DEF Edge, Settling, Over
<1>5. r \in {"completed", "degraded"} => i \in touched
  BY <1>2, <1>3 DEF SettlesAs, StartedInv, Ran
<1>6. (recipe[i].group # NoGroup) <=> (mode # "serial")
  <2>1. /\ lo <= i /\ i <= hi /\ phase \notin Idle /\ N \in Nat /\ lo \in Nat /\ hi \in Nat
        /\ mode = "serial" => hi = lo
    BY <1>1, <1>3, CursorRange DEF TypeInv, CursorOK, Idle, Cursors
  <2>2. CASE mode = "serial"
    <3>1. i = lo
      BY <2>1, <2>2 DEF Pos
    <3> QED
      BY <2>1, <2>2, <3>1 DEF UnitInv
  <2> QED
    BY <2>1, <2>2, GroupHasSteps
<1>7. /\ final' = [final EXCEPT ![i] = r]
      /\ ctx' = IF recipe[i].group # NoGroup /\ r # "failed" THEN Writes(i) ELSE ctx
  BY <1>2, <1>3, <1>6 DEF SettlesAs, GroupStores
<1>8. Outcome = "running" /\ Outcome' = "running"
  BY <1>1 DEF Outcome
<1>9. Contract!Report(i, r)
  <2>1. /\ \A j \in 1..(i - 1) :
             Contract!Together(j, i) \/ Contract!Passed(j) \/ Contract!Silent(j)
        /\ \A j \in i..N : final[j] = Contract!None
    BY <1>1, <1>4, ReportsInOrder
  <2>2. ctx' = IF recipe[i].group # NoGroup /\ r # "failed" THEN Contract!Written(i) ELSE ctx
    BY <1>7, ContractSame
  <2> QED
    BY <1>1, <1>5, <1>7, <1>8, <2>1, <2>2 DEF Contract!Report, IsTerminal
<1> QED
  BY <1>1, <1>8, <1>9, ContractSame DEF Contract!Next

\* The run ends for a reason it reports.
LEMMA EndsWithReason ==
  ASSUME TypeInv, WorkerInv, StartedInv, SuccessInv, SuccessInv', PassedInv, [Next]_vars,
         phase # "done", phase' = "done"
  PROVE  Contract!Next
<1> USE DEF rigid, report, flags, history, unit
<1>1. OpenAudit \/ ReturnResult
  <2>1. CASE Quiet
    BY <2>1, QuietFrame DEF Idle, Aside
  <2> QED
    BY <2>1, StepKinds DEF Loud, LastStepDone, LimitReached, SkipStep, BeginUnit, GroupDone,
       CountStep, Settle, Decide, Return
<1>2. UNCHANGED <<recipe, terminal, late, touched, final, ctx>>
  BY <1>1 DEF OpenAudit, ReturnResult
<1>3. Outcome = "running" /\ Outcome' = IF success' THEN "success" ELSE "failure"
  BY DEF Outcome
<1>4. CASE OpenAudit
  <2>1. ~success' /\ touched = {}
    BY <1>4 DEF OpenAudit, StartedInv
  <2> QED
    BY <1>2, <1>3, <2>1 DEF Contract!Next, Contract!Finish, Contract!Fail, IsTerminal
<1>5. CASE ReturnResult
  <2>1. phase = "return" /\ success' = (success /\ ~IsTerminal) /\ success \in BOOLEAN
    BY <1>5 DEF ReturnResult, TypeInv, TypeOK
  <2>2. CASE success /\ ~IsTerminal
    <3>1. lo > N
      BY <2>1, <2>2 DEF SuccessInv, Over
    <3>2. \A i \in Pos : Passed(i)
      BY <2>2, <3>1, CursorRange DEF PassedInv, Past, Good, Pos
    <3> QED
      BY <1>2, <1>3, <2>1, <2>2, <3>2, ContractSame
      DEF Contract!Next, Contract!Finish, Contract!Succeed, IsTerminal
  <2>3. CASE ~(success /\ ~IsTerminal)
    <3>1. IsTerminal \/ \E i \in Pos : final[i] = "failed"
      BY <2>1, <2>3 DEF SuccessInv, Cause
    <3> QED
      BY <1>2, <1>3, <2>1, <2>3, <3>1, ContractSame
      DEF Contract!Next, Contract!Finish, Contract!Fail, IsTerminal
  <2> QED
    BY <2>2, <2>3
<1> QED
  BY <1>1, <1>4, <1>5

\* Every step of a run is one of the contract, or none.
LEMMA ContractStep == RunInv /\ RunInv' /\ [Next]_vars => [Contract!Next]_(Contract!cvars)
<1> SUFFICES ASSUME RunInv, RunInv', [Next]_vars PROVE [Contract!Next]_(Contract!cvars)
  OBVIOUS
<1> USE DEF RunInv
<1>1. CASE phase = "done"
  <2>1. CASE Quiet
    <3>1. Aside
      BY <1>1, <2>1, QuietFrame DEF Idle
    <3>2. \A i \in Pos : ~Worker(i)
      BY <1>1 DEF WorkerInv, Alive, Worker, WorkerSkips, WorkerAnswers, WorkerErrs, WorkerPanics,
                  WorkerPublishes, Spawning
    <3>3. UNCHANGED <<recipe, phase, final, terminal, ctx, late, touched, success>>
      BY <1>1, <3>1, <3>2 DEF Aside, Kept, rigid, flags, history, OuterPublishes
    <3> QED
      BY <3>3 DEF Contract!cvars, Outcome, IsTerminal
  <2> QED
    BY <1>1, <2>1, StepKinds DEF Loud, OpenAudit, LastStepDone, LimitReached, SkipStep, BeginUnit,
       ReturnResult, GroupDone, CountStep, Settle, Decide
<1>2. CASE phase # "done" /\ phase' = "done"
  BY <1>2, EndsWithReason
<1>3. CASE phase # "done" /\ phase' # "done"
  <2>1. CASE ~(UNCHANGED history)
    BY <2>1, Admissions, StartsInTurn
  <2>2. CASE ctx' # ctx
    BY <2>2, ContextWriters, StoresInTurn, ReportsSettled
  <2>3. CASE final' # final
    <3>1. LimitReached \/ SkipStep \/ Settle
      BY <2>3, StepKinds DEF Quiet, Loud, Aside, Prepares, Embarks, Works, Delivers, Gathers,
         Settles, Join, Kept, OpenAudit, LastStepDone, BeginUnit, ReturnResult, GroupDone,
         CountStep, Decide, report
    <3> QED
      BY <3>1, ReportsUnstarted, ReportsSettled
  <2>4. CASE UNCHANGED <<final, ctx, late, touched>>
    BY <1>3, <2>4, LatchesOrStutters
  <2> QED
    BY <2>1, <2>2, <2>3, <2>4 DEF history
<1> QED
  BY <1>1, <1>2, <1>3

\* The run loop, with its groups, worker threads, hooks, latch and audit log, implements
\* the contract a caller of RecipeRunner::execute relies on: steps start in their turn, at
\* most one start follows a typed failure, each step reports once and in order and as done
\* only what was started, the context takes no output of a failed step, and the run ends in
\* success or failure for the reasons it reports.
THEOREM RunKeepsContract == Spec => KeepsContract
BY RunAlways, ContractInit, ContractStep, PTL
DEF Spec, KeepsContract, Contract!Spec
=============================================================================
