-------------------------- MODULE CodexAttemptProofs --------------------------
(***************************************************************************)
(* The safety of a Codex call, for every number of retries: its group is   *)
(* signalled only while its number is held, what fails is reported, and    *)
(* nothing is built on an attempt that was cut short.                      *)
(***************************************************************************)
EXTENDS CodexAttempt, TLAPS

\* Where the anchor was seen ready and its group may still be signalled.
Anchored == {"run", "shutdown", "launcherTerm", "termGrace", "launcherKill", "killGrace",
             "term", "termSend", "grace", "kill", "killSend"}
\* Where an attempt books what goes wrong, and where it no longer does.
Idle     == {"begin", "backoff"}
Ending   == {"finish", "close", "done"}
TearDown == {"shutdown", "launcherTerm", "termGrace", "launcherKill", "killGrace", "term",
             "termSend", "grace", "kill", "killSend", "retire", "confirm", "observe",
             "final", "join", "classify"}
\* Where a failed start is undone; it books nothing, since its error is a failed cleanup.
Unwinding == {"startupTerm", "startupKill", "startupLook", "startupLast", "startupReap"}

Reported(r) == ~r.ok /\ "cleanup" \in r.marks
Drained     == \A r \in Readers : reader[r] = "ended"
Answered    == delivered /\ launcher = "waited" /\ exit = "zero" /\ Drained

\* What a check has shown is still so where its signal is sent, unless the rest of the
\* program interfered.
Trusted ==
  /\ fallback = "armed" => pc \in {"unready", "retire"}
  /\ ~meddled =>
       /\ pc \in {"termSend", "killSend"} \/ fallback = "armed" =>
            policy /\ anchor \in Unreaped
       /\ pc \in {"startupTerm", "startupKill", "startupLast", "launcherTerm", "termGrace",
                  "launcherKill"} => policy /\ launcher \in Unreaped

\* The group is known to be ours, so no signal went astray.
AtHome == ~wild /\ (pc \in Anchored => joined) /\ Trusted

\* As long as no failure is booked, the teardown has done what it was to do so far.
SoFar ==
  ~failures =>
    /\ pc \in {"confirm", "observe", "final", "join", "classify"} => anchor = "waited"
    /\ pc \in {"final", "join", "classify"} => launcher = "waited"
    /\ pc \in {"join", "classify"} => desc = "none"
    /\ pc = "classify" => Drained

Booked ==
  /\ pc \in Idle => NothingLeft /\ ~dirty
  /\ pc \notin Idle \cup Ending \cup Unwinding => (failures <=> dirty)
  /\ SoFar

Told ==
  /\ pc \in TearDown /\ result.ok => delivered
  /\ pc \in Ending => (dirty \/ ~NothingLeft => Reported(result)) /\ (result.ok => Answered)
  /\ pc = "done" => (result.ok => ~cancelled) /\ InterruptionIsReported

Inv == TypeOK /\ AtHome /\ Booked /\ Told

\* Interrupted as a caller sees it.
Interrupted(r) == ~r.ok /\ "interruption" \in r.marks

\* combine keeps what was to be told of either of the two.
LEMMA CombineKeeps ==
  ASSUME NEW r \in Results, NEW c \in Results
  PROVE  /\ Combine(r, c) \in Results
         /\ Combine(r, c).ok <=> r.ok /\ c.ok
         /\ Reported(r) \/ Reported(c) => Reported(Combine(r, c))
         /\ ~c.ok /\ "interruption" \notin c.marks => Reported(Combine(r, c))
         /\ Interrupted(r) \/ Interrupted(c) => Interrupted(Combine(r, c))
  BY DEF Combine, Results, Marks, Err, Reported, Interrupted

\* check_cancellation answers for the signals of the epoch.
LEMMA CheckedTells ==
         /\ Checked \in Results
         /\ Checked.ok <=> ~cancelled
         /\ cancelled => Interrupted(Checked)
  BY DEF Checked, Results, Marks, Err, Ok, Interrupted

\* An error is a result.
LEMMA ErrIsResult ==
  ASSUME NEW m \in SUBSET Marks
  PROVE  /\ Err(m) \in Results /\ ~Err(m).ok /\ Err(m).marks = m
         /\ Ok \in Results /\ Ok.ok /\ Ok.marks = {}
  BY DEF Err, Ok, Results

\* The type invariant in two parts, for the prover: truth values and the rest.
Flags ==
  /\ cancelled \in BOOLEAN /\ policy \in BOOLEAN /\ joined \in BOOLEAN /\ control \in BOOLEAN
  /\ delivered \in BOOLEAN /\ stop \in BOOLEAN /\ failures \in BOOLEAN /\ dirty \in BOOLEAN
  /\ meddled \in BOOLEAN /\ wild \in BOOLEAN
Places ==
  /\ attempt \in 0..MaxRetries /\ result \in Results
  /\ pc \in Anchored \cup TearDown \cup Idle \cup Ending \cup Unwinding \cup
       {"anchor", "ack", "unready", "startup"}
  /\ launcher \in {"none", "running", "doomed", "zombie", "waited", "lost"}
  /\ exit \in {"zero", "other"} /\ desc \in {"none", "live"}
  /\ anchor \in {"none", "running", "doomed", "zombie", "waited", "lost"}
  /\ end \in {"due", "other"} /\ fallback \in {"no", "armed", "used"}
  /\ reader \in [Readers -> {"none", "reading", "ended", "broken"}]

\* The two parts are the type invariant.
LEMMA TypeInParts == TypeOK <=> Flags /\ Places
  BY DEF TypeOK, Flags, Places, Anchored, TearDown, Idle, Ending, Unwinding

\* Truth values stay truth values.
LEMMA FlagsKept == Flags /\ [Next]_vars => Flags'
<1> SUFFICES ASSUME Flags, [Next]_vars PROVE Flags'
  OBVIOUS
<1> USE DEF Flags, owner, process, anchoring, reading, books, signals, Mishap, SentTo,
        KillGroup, Corpse
<1>1. CASE Refuse
  BY <1>1, Zenon DEF Refuse
<1>2. CASE Spawn
  BY <1>2, Zenon DEF Spawn
<1>3. CASE StartAnchor
  BY <1>3, Zenon DEF StartAnchor
<1>4. CASE AnchorReady
  BY <1>4, Zenon DEF AnchorReady
<1>5. CASE AnchorUnready
  BY <1>5, Zenon DEF AnchorUnready
<1>6. CASE StartupUnwind
  BY <1>6, Zenon DEF StartupUnwind
<1>7. CASE StartupTerm
  BY <1>7, Zenon DEF StartupTerm
<1>8. CASE StartupKill
  BY <1>8, Zenon DEF StartupKill
<1>9. CASE StartupLook
  BY <1>9, Zenon DEF StartupLook
<1>10. CASE StartupLast
  BY <1>10, Zenon DEF StartupLast
<1>11. CASE StartupReaped
  BY <1>11, Zenon DEF StartupReaped
<1>12. CASE Deliver
  BY <1>12, Zenon DEF Deliver
<1>13. CASE RunFails
  BY <1>13, Zenon DEF RunFails
<1>14. CASE LauncherExited
  BY <1>14, Zenon DEF LauncherExited
<1>15. CASE RetireLauncher
  BY <1>15, Zenon DEF RetireLauncher
<1>16. CASE LauncherTerm
  BY <1>16, Zenon DEF LauncherTerm
<1>17. CASE LauncherGrace
  BY <1>17, Zenon DEF LauncherGrace
<1>18. CASE LauncherKill
  BY <1>18, Zenon DEF LauncherKill
<1>19. CASE LauncherReaped
  BY <1>19, Zenon DEF LauncherReaped
<1>20. CASE TermGroup
  BY <1>20, Zenon DEF TermGroup
<1>21. CASE SendTerm
  BY <1>21, Zenon DEF SendTerm
<1>22. CASE EndGrace
  BY <1>22, Zenon DEF EndGrace
<1>23. CASE KillAndSeal
  BY <1>23, Zenon DEF KillAndSeal
<1>24. CASE SendKill
  BY <1>24, Zenon DEF SendKill
<1>25. CASE RetireLooks
  BY <1>25, Zenon DEF RetireLooks
<1>26. CASE RetireKills
  BY <1>26, Zenon DEF RetireKills
<1>27. CASE Retired
  BY <1>27, Zenon DEF Retired
<1>28. CASE Confirm
  BY <1>28, Zenon DEF Confirm
<1>29. CASE ObserveLauncher
  BY <1>29, Zenon DEF ObserveLauncher
<1>30. CASE FinalLook
  BY <1>30, Zenon DEF FinalLook
<1>31. CASE JoinReaders
  BY <1>31, Zenon DEF JoinReaders
<1>32. CASE Classify
  BY <1>32, Zenon DEF Classify
<1>33. CASE Finish
  BY <1>33, Zenon DEF Finish
<1>34. CASE Backoff
  BY <1>34, Zenon DEF Backoff
<1>35. CASE Close
  BY <1>35, Zenon DEF Close
<1>36. CASE TimeOut
  BY <1>36, Zenon DEF TimeOut
<1>37. CASE LauncherEnds
  BY <1>37, Zenon DEF LauncherEnds
<1>38. CASE Descend
  BY <1>38, Zenon DEF Descend
<1>39. CASE AnchorJoins
  BY <1>39, Zenon DEF AnchorJoins
<1>40. CASE AnchorEnds
  BY <1>40, Zenon DEF AnchorEnds
<1>41. CASE \E r \in Readers : ReaderEnds(r)
  BY <1>41, Zenon DEF ReaderEnds
<1>42. CASE Interrupt
  BY <1>42, Zenon DEF Interrupt
<1>43. CASE Interfere
  BY <1>43, Zenon DEF Interfere
<1>44. CASE UNCHANGED vars
  BY <1>44, Zenon DEF vars
<1> QED
  BY <1>1, <1>2, <1>3, <1>4, <1>5, <1>6, <1>7, <1>8, <1>9, <1>10, <1>11, <1>12,
     <1>13, <1>14, <1>15, <1>16, <1>17, <1>18, <1>19, <1>20, <1>21, <1>22, <1>23,
     <1>24, <1>25, <1>26, <1>27, <1>28, <1>29, <1>30, <1>31, <1>32, <1>33, <1>34,
     <1>35, <1>36, <1>37, <1>38, <1>39, <1>40, <1>41, <1>42, <1>43, <1>44
     DEF Next, Owner, Terminated

\* Classify succeeds only with what was booked before it, and reports it otherwise.
LEMMA ClassifyTells ==
  ASSUME Flags, Places, Classify
  PROVE  /\ result' \in Results
         /\ result'.ok => result.ok /\ exit # "other" /\ ~failures
         /\ failures => Reported(result')
<1>1. PICK marks \in (IF reader["stderr"] = "ended" THEN {{}, {"rate"}} ELSE {{}}),
           read \in {Ok, Err({})} :
        LET execution == IF result.ok /\ exit = "other" THEN Err(marks) ELSE result
            combined  == Combine(Combine(execution, Checked), IF failures THEN Err({}) ELSE Ok)
        IN  result' = IF combined.ok THEN read ELSE combined
  BY DEF Classify
<1> DEFINE execution == IF result.ok /\ exit = "other" THEN Err(marks) ELSE result
           settled   == Combine(execution, Checked)
           booked    == IF failures THEN Err({}) ELSE Ok
           combined  == Combine(settled, booked)
<1>2. /\ execution \in Results
      /\ execution.ok => result.ok /\ exit # "other"
  BY ErrIsResult DEF Places, Marks
<1>3. settled \in Results /\ (settled.ok <=> execution.ok /\ Checked.ok)
  <2> HIDE DEF execution
  <2> QED BY <1>2, CheckedTells, CombineKeeps
<1>4. /\ booked \in Results
      /\ booked.ok <=> ~failures
      /\ "interruption" \notin booked.marks
  BY ErrIsResult DEF Marks, Ok, Flags
<1>5. /\ combined \in Results
      /\ combined.ok <=> settled.ok /\ booked.ok
      /\ failures => Reported(combined)
  <2> HIDE DEF settled, booked
  <2> QED BY <1>3, <1>4, CombineKeeps
<1>6. result' = IF combined.ok THEN read ELSE combined
  BY <1>1
<1>7. read \in Results
  BY ErrIsResult DEF Marks
<1> HIDE DEF execution, settled, booked, combined
<1> QED
  BY <1>2, <1>3, <1>4, <1>5, <1>6, <1>7

\* Finish keeps what was to be told, and retries nothing that was reported.
LEMMA FinishTells ==
  ASSUME Flags, Places, Finish
  PROVE  /\ result' \in Results
         /\ result'.ok => result.ok
         /\ Reported(result) => Reported(result')
         /\ dirty' => dirty \/ Reported(result')
         /\ pc' = "backoff" => ~Reported(result')
         /\ pc' \in {"backoff", "close"} /\ attempt' \in 0..MaxRetries
<1>1. PICK removed \in {Ok, Err({})} :
        LET r == Combine(Combine(result, removed), Checked)
        IN  /\ result' = r
            /\ Mishap(~removed.ok)
            /\ IF Retryable(r) /\ RetriesLeft
               THEN attempt' = attempt + 1 /\ pc' = "backoff"
               ELSE attempt' = attempt /\ pc' = "close"
  BY DEF Finish
<1> DEFINE inner == Combine(result, removed)
<1>2. removed \in Results /\ "interruption" \notin removed.marks
  BY ErrIsResult, {} \subseteq Marks
<1>3. /\ inner \in Results
      /\ inner.ok <=> result.ok /\ removed.ok
      /\ Reported(result) \/ ~removed.ok => Reported(inner)
  BY <1>2, CombineKeeps DEF Places
<1> HIDE DEF inner
<1>4. /\ Combine(inner, Checked) \in Results
      /\ Combine(inner, Checked).ok <=> inner.ok /\ Checked.ok
      /\ Reported(inner) => Reported(Combine(inner, Checked))
  BY <1>3, CheckedTells, CombineKeeps
<1>5. result' = Combine(inner, Checked) /\ Mishap(~removed.ok)
  BY <1>1 DEF inner
<1>6. dirty' => dirty \/ ~removed.ok
  BY <1>5 DEF Mishap
<1>7. pc' = "backoff" => ~Reported(result')
  BY <1>1, <1>5 DEF Retryable, Reported, Marks, inner
<1>8. pc' \in {"backoff", "close"} /\ attempt' \in 0..MaxRetries
  BY <1>1, MaxRetriesAssumption DEF RetriesLeft, Places
<1> QED
  BY <1>3, <1>4, <1>5, <1>6, <1>7, <1>8

\* Close adds a late signal and dispositions that could not be restored.
LEMMA CloseTells ==
  ASSUME Flags, Places, Close
  PROVE  /\ result' \in Results
         /\ result'.ok => result.ok /\ ~cancelled
         /\ Reported(result) => Reported(result')
         /\ dirty' => dirty \/ Reported(result')
         /\ cancelled => Interrupted(result')
<1>1. PICK restored \in {Ok, Err({})} :
        result' = Combine(result, Combine(Checked, restored)) /\ Mishap(~restored.ok)
  BY DEF Close
<1> DEFINE inner == Combine(Checked, restored)
<1>2. restored \in Results /\ "interruption" \notin restored.marks
  BY ErrIsResult, {} \subseteq Marks
<1>3. /\ inner \in Results
      /\ inner.ok <=> Checked.ok /\ restored.ok
      /\ ~restored.ok => Reported(inner)
      /\ cancelled => Interrupted(inner)
  BY <1>2, CheckedTells, CombineKeeps
<1>4. result' = Combine(result, inner)
  BY <1>1
<1> HIDE DEF inner
<1>5. dirty' => dirty \/ ~restored.ok
  BY <1>1 DEF Mishap
<1> QED
  BY <1>3, <1>4, <1>5, CheckedTells, CombineKeeps DEF Places

\* Every step keeps the types of the rest.
LEMMA PlacesKept == Flags /\ Places /\ [Next]_vars => Places'
<1> SUFFICES ASSUME Flags /\ Places, [Next]_vars PROVE Places'
  OBVIOUS
<1> USE DEF Places, owner, process, anchoring, reading, books, signals, Anchored, TearDown, Idle,
        Ending, Unwinding
<1>1. CASE Refuse
  BY <1>1, ErrIsResult, CheckedTells DEF Refuse, Marks
<1>2. CASE Spawn
  BY <1>2, ErrIsResult, CheckedTells DEF Spawn, Marks
<1>3. CASE StartAnchor
  BY <1>3 DEF StartAnchor
<1>4. CASE AnchorReady
  BY <1>4 DEF AnchorReady
<1>5. CASE AnchorUnready
  BY <1>5 DEF AnchorUnready
<1>6. CASE StartupUnwind
  BY <1>6 DEF StartupUnwind
<1>7. CASE StartupTerm
  BY <1>7 DEF StartupTerm
<1>8. CASE StartupKill
  BY <1>8 DEF StartupKill, KillGroup
<1>9. CASE StartupLook
  BY <1>9 DEF StartupLook
<1>10. CASE StartupLast
  BY <1>10 DEF StartupLast
<1>11. CASE StartupReaped
  BY <1>11, ErrIsResult, CheckedTells DEF StartupReaped, Marks
<1>12. CASE Deliver
  BY <1>12 DEF Deliver
<1>13. CASE RunFails
  BY <1>13, ErrIsResult, CheckedTells DEF RunFails, Marks
<1>14. CASE LauncherExited
  BY <1>14, ErrIsResult, CheckedTells DEF LauncherExited, Marks
<1>15. CASE RetireLauncher
  BY <1>15 DEF RetireLauncher
<1>16. CASE LauncherTerm
  BY <1>16 DEF LauncherTerm
<1>17. CASE LauncherGrace
  BY <1>17 DEF LauncherGrace
<1>18. CASE LauncherKill
  BY <1>18 DEF LauncherKill
<1>19. CASE LauncherReaped
  BY <1>19 DEF LauncherReaped
<1>20. CASE TermGroup
  BY <1>20 DEF TermGroup
<1>21. CASE SendTerm
  BY <1>21 DEF SendTerm
<1>22. CASE EndGrace
  BY <1>22 DEF EndGrace
<1>23. CASE KillAndSeal
  BY <1>23 DEF KillAndSeal
<1>24. CASE SendKill
  <2>1. launcher' \in {"doomed", launcher} /\ anchor' \in {"doomed", anchor}
    BY <1>24 DEF SendKill, KillGroup
  <2>2. pc' = "retire" /\ UNCHANGED <<attempt, result, exit, desc, end, reader, fallback>>
    BY <1>24 DEF SendKill
  <2> QED
    BY <2>1, <2>2
<1>25. CASE RetireLooks
  BY <1>25 DEF RetireLooks
<1>26. CASE RetireKills
  BY <1>26 DEF RetireKills
<1>27. CASE Retired
  BY <1>27 DEF Retired
<1>28. CASE Confirm
  BY <1>28 DEF Confirm
<1>29. CASE ObserveLauncher
  BY <1>29 DEF ObserveLauncher
<1>30. CASE FinalLook
  BY <1>30 DEF FinalLook
<1>31. CASE JoinReaders
  BY <1>31 DEF JoinReaders
<1>32. CASE Classify
  BY <1>32, ClassifyTells DEF Classify
<1>33. CASE Finish
  BY <1>33, FinishTells DEF Finish
<1>34. CASE Backoff
  <2>1. result' \in {Checked, Ok} /\ pc' \in {"close", "begin"}
    BY <1>34 DEF Backoff
  <2>2. UNCHANGED <<attempt, launcher, exit, desc, anchor, end, fallback, reader>>
    BY <1>34 DEF Backoff
  <2>3. result' \in Results
    BY <2>1, ErrIsResult, CheckedTells
  <2> QED
    BY <2>1, <2>2, <2>3
<1>35. CASE Close
  BY <1>35, CloseTells DEF Close
<1>36. CASE TimeOut
  BY <1>36, ErrIsResult, CheckedTells DEF TimeOut, Marks
<1>37. CASE LauncherEnds
  BY <1>37 DEF LauncherEnds, Corpse
<1>38. CASE Descend
  BY <1>38 DEF Descend
<1>39. CASE AnchorJoins
  BY <1>39 DEF AnchorJoins
<1>40. CASE AnchorEnds
  BY <1>40 DEF AnchorEnds, Corpse
<1>41. CASE \E r \in Readers : ReaderEnds(r)
  BY <1>41 DEF ReaderEnds
<1>42. CASE Interrupt
  BY <1>42 DEF Interrupt
<1>43. CASE Interfere
  <2>1. launcher' \in {"lost", launcher} /\ anchor' \in {"lost", anchor}
    BY <1>43 DEF Interfere
  <2>2. UNCHANGED <<attempt, result, pc, exit, desc, end, fallback, reader>>
    BY <1>43 DEF Interfere
  <2> QED
    BY <2>1, <2>2
<1>44. CASE UNCHANGED vars
  BY <1>44 DEF vars
<1> QED
  BY <1>1, <1>2, <1>3, <1>4, <1>5, <1>6, <1>7, <1>8, <1>9, <1>10, <1>11, <1>12,
     <1>13, <1>14, <1>15, <1>16, <1>17, <1>18, <1>19, <1>20, <1>21, <1>22, <1>23,
     <1>24, <1>25, <1>26, <1>27, <1>28, <1>29, <1>30, <1>31, <1>32, <1>33, <1>34,
     <1>35, <1>36, <1>37, <1>38, <1>39, <1>40, <1>41, <1>42, <1>43, <1>44
     DEF Next, Owner, Terminated

\* Every step keeps the group at home.
LEMMA AtHomeKept == Flags /\ Places /\ AtHome /\ [Next]_vars => AtHome'
<1> SUFFICES ASSUME Flags /\ Places /\ AtHome, [Next]_vars PROVE AtHome'
  OBVIOUS
<1> USE DEF AtHome, Trusted, owner, process, anchoring, reading, books, signals, Flags,
        Places, Anchored, Unreaped
<1>1. CASE Refuse
  BY <1>1 DEF Refuse
<1>2. CASE Spawn
  BY <1>2 DEF Spawn
<1>3. CASE StartAnchor
  BY <1>3 DEF StartAnchor
<1>4. CASE AnchorReady
  BY <1>4 DEF AnchorReady
<1>5. CASE AnchorUnready
  BY <1>5 DEF AnchorUnready
<1>6. CASE StartupUnwind
  BY <1>6 DEF StartupUnwind, StartupAuthority
<1>7. CASE StartupTerm
  BY <1>7 DEF StartupTerm, SentTo, Held
<1>8. CASE StartupKill
  BY <1>8 DEF StartupKill, KillGroup, SentTo, Held
<1>9. CASE StartupLook
  BY <1>9 DEF StartupLook
<1>10. CASE StartupLast
  BY <1>10 DEF StartupLast, SentTo
<1>11. CASE StartupReaped
  BY <1>11 DEF StartupReaped
<1>12. CASE Deliver
  BY <1>12 DEF Deliver
<1>13. CASE RunFails
  BY <1>13 DEF RunFails
<1>14. CASE LauncherExited
  BY <1>14 DEF LauncherExited
<1>15. CASE RetireLauncher
  BY <1>15 DEF RetireLauncher
<1>16. CASE LauncherTerm
  BY <1>16 DEF LauncherTerm, SentTo
<1>17. CASE LauncherGrace
  BY <1>17 DEF LauncherGrace
<1>18. CASE LauncherKill
  <2>1. ~wild /\ (~meddled => launcher \in Unreaped)
    BY <1>18 DEF LauncherKill
  <2>2. ~wild'
    <3> HIDE DEF AtHome, Trusted, Flags, Places, Unreaped
    <3> QED
      BY <1>18, <2>1, Zenon DEF LauncherKill, SentTo
  <2>3. pc = "launcherKill" /\ pc' = "killGrace" /\ UNCHANGED <<joined, fallback>>
    BY <1>18 DEF LauncherKill
  <2> QED
    BY <2>2, <2>3
<1>19. CASE LauncherReaped
  BY <1>19 DEF LauncherReaped
<1>20. CASE TermGroup
  BY <1>20 DEF TermGroup, Authority
<1>21. CASE SendTerm
  BY <1>21 DEF SendTerm, SentTo, Held
<1>22. CASE EndGrace
  BY <1>22 DEF EndGrace
<1>23. CASE KillAndSeal
  BY <1>23 DEF KillAndSeal, Authority
<1>24. CASE SendKill
  <2>1. ~wild /\ (~meddled => Held)
    BY <1>24 DEF SendKill, Held
  <2>2. ~wild'
    <3> HIDE DEF AtHome, Trusted, Flags, Places, Unreaped
    <3> QED
      BY <1>24, <2>1, Zenon DEF SendKill, KillGroup, SentTo
  <2>3. pc = "killSend" /\ pc' = "retire" /\ UNCHANGED <<joined, fallback>> /\ ~meddled'
    BY <1>24, Zenon DEF SendKill
  <2>4. fallback # "armed"
    BY <2>3
  <2> QED
    BY <2>2, <2>3, <2>4
<1>25. CASE RetireLooks
  BY <1>25 DEF RetireLooks
<1>26. CASE RetireKills
  <2>1. ~wild /\ (~meddled => anchor \in Unreaped)
    BY <1>26 DEF RetireKills
  <2>2. ~wild'
    <3> HIDE DEF AtHome, Trusted, Flags, Places, Unreaped
    <3> QED
      BY <1>26, <2>1, Zenon DEF RetireKills, SentTo
  <2>3. pc \in {"unready", "retire"} /\ pc' = pc /\ fallback' = "used"
    BY <1>26 DEF RetireKills
  <2> QED
    BY <2>2, <2>3
<1>27. CASE Retired
  BY <1>27 DEF Retired
<1>28. CASE Confirm
  BY <1>28 DEF Confirm
<1>29. CASE ObserveLauncher
  BY <1>29 DEF ObserveLauncher
<1>30. CASE FinalLook
  BY <1>30 DEF FinalLook
<1>31. CASE JoinReaders
  BY <1>31 DEF JoinReaders
<1>32. CASE Classify
  BY <1>32 DEF Classify
<1>33. CASE Finish
  BY <1>33 DEF Finish
<1>34. CASE Backoff
  BY <1>34 DEF Backoff
<1>35. CASE Close
  BY <1>35 DEF Close
<1>36. CASE TimeOut
  BY <1>36 DEF TimeOut
<1>37. CASE LauncherEnds
  BY <1>37 DEF LauncherEnds, Corpse
<1>38. CASE Descend
  BY <1>38 DEF Descend
<1>39. CASE AnchorJoins
  BY <1>39 DEF AnchorJoins
<1>40. CASE AnchorEnds
  BY <1>40 DEF AnchorEnds, Corpse
<1>41. CASE \E r \in Readers : ReaderEnds(r)
  BY <1>41 DEF ReaderEnds
<1>42. CASE Interrupt
  BY <1>42 DEF Interrupt
<1>43. CASE Interfere
  BY <1>43 DEF Interfere, Relying
<1>44. CASE UNCHANGED vars
  BY <1>44 DEF vars
<1> QED
  BY <1>1, <1>2, <1>3, <1>4, <1>5, <1>6, <1>7, <1>8, <1>9, <1>10, <1>11, <1>12,
     <1>13, <1>14, <1>15, <1>16, <1>17, <1>18, <1>19, <1>20, <1>21, <1>22, <1>23,
     <1>24, <1>25, <1>26, <1>27, <1>28, <1>29, <1>30, <1>31, <1>32, <1>33, <1>34,
     <1>35, <1>36, <1>37, <1>38, <1>39, <1>40, <1>41, <1>42, <1>43, <1>44
     DEF Next, Owner, Terminated

\* Every step keeps the books.
LEMMA BookedKept == Flags /\ Places /\ Booked /\ Told /\ [Next]_vars => Booked'
<1> SUFFICES ASSUME Flags /\ Places /\ Booked /\ Told, [Next]_vars PROVE Booked'
  OBVIOUS
<1> USE DEF Booked, owner, process, anchoring, reading, books, signals, Flags, Places,
        Idle, Ending, Unwinding, SoFar, NothingLeft, GroupLive, Drained
<1>1. CASE Refuse
  BY <1>1 DEF Refuse
<1>2. CASE Spawn
  BY <1>2 DEF Spawn
<1>3. CASE StartAnchor
  BY <1>3 DEF StartAnchor
<1>4. CASE AnchorReady
  BY <1>4 DEF AnchorReady
<1>5. CASE AnchorUnready
  BY <1>5 DEF AnchorUnready
<1>6. CASE StartupUnwind
  BY <1>6 DEF StartupUnwind
<1>7. CASE StartupTerm
  BY <1>7 DEF StartupTerm
<1>8. CASE StartupKill
  BY <1>8 DEF StartupKill, KillGroup
<1>9. CASE StartupLook
  BY <1>9 DEF StartupLook
<1>10. CASE StartupLast
  BY <1>10 DEF StartupLast
<1>11. CASE StartupReaped
  BY <1>11 DEF StartupReaped
<1>12. CASE Deliver
  BY <1>12 DEF Deliver
<1>13. CASE RunFails
  BY <1>13 DEF RunFails
<1>14. CASE LauncherExited
  BY <1>14 DEF LauncherExited
<1>15. CASE RetireLauncher
  BY <1>15 DEF RetireLauncher, Mishap
<1>16. CASE LauncherTerm
  BY <1>16 DEF LauncherTerm, Mishap
<1>17. CASE LauncherGrace
  BY <1>17 DEF LauncherGrace, Mishap
<1>18. CASE LauncherKill
  BY <1>18 DEF LauncherKill, Mishap
<1>19. CASE LauncherReaped
  BY <1>19 DEF LauncherReaped, Mishap
<1>20. CASE TermGroup
  BY <1>20 DEF TermGroup, Mishap
<1>21. CASE SendTerm
  BY <1>21 DEF SendTerm, Mishap
<1>22. CASE EndGrace
  BY <1>22 DEF EndGrace, Mishap
<1>23. CASE KillAndSeal
  BY <1>23 DEF KillAndSeal, Mishap
<1>24. CASE SendKill
  BY <1>24 DEF SendKill, KillGroup, Mishap
<1>25. CASE RetireLooks
  BY <1>25 DEF RetireLooks, Mishap
<1>26. CASE RetireKills
  BY <1>26 DEF RetireKills, Mishap
<1>27. CASE Retired
  BY <1>27 DEF Retired, Mishap, RetirementFailed, RetirementOver
<1>28. CASE Confirm
  BY <1>28 DEF Confirm, Mishap
<1>29. CASE ObserveLauncher
  BY <1>29 DEF ObserveLauncher, Mishap
<1>30. CASE FinalLook
  BY <1>30 DEF FinalLook, Mishap
<1>31. CASE JoinReaders
  BY <1>31 DEF JoinReaders, Mishap, ReadersFailed
<1>32. CASE Classify
  BY <1>32, ClassifyTells DEF Classify
<1>33. CASE Finish
  BY <1>33, FinishTells DEF Finish, Told
<1>34. CASE Backoff
  BY <1>34 DEF Backoff
<1>35. CASE Close
  BY <1>35, CloseTells DEF Close
<1>36. CASE TimeOut
  BY <1>36 DEF TimeOut
<1>37. CASE LauncherEnds
  BY <1>37 DEF LauncherEnds, Corpse
<1>38. CASE Descend
  BY <1>38 DEF Descend
<1>39. CASE AnchorJoins
  BY <1>39 DEF AnchorJoins
<1>40. CASE AnchorEnds
  BY <1>40 DEF AnchorEnds, Corpse
<1>41. CASE \E r \in Readers : ReaderEnds(r)
  BY <1>41 DEF ReaderEnds
<1>42. CASE Interrupt
  BY <1>42 DEF Interrupt
<1>43. CASE Interfere
  BY <1>43 DEF Interfere
<1>44. CASE UNCHANGED vars
  BY <1>44 DEF vars
<1> QED
  BY <1>1, <1>2, <1>3, <1>4, <1>5, <1>6, <1>7, <1>8, <1>9, <1>10, <1>11, <1>12,
     <1>13, <1>14, <1>15, <1>16, <1>17, <1>18, <1>19, <1>20, <1>21, <1>22, <1>23,
     <1>24, <1>25, <1>26, <1>27, <1>28, <1>29, <1>30, <1>31, <1>32, <1>33, <1>34,
     <1>35, <1>36, <1>37, <1>38, <1>39, <1>40, <1>41, <1>42, <1>43, <1>44
     DEF Next, Owner, Terminated

\* Every step keeps what is told.
LEMMA ToldKept == Flags /\ Places /\ Booked /\ Told /\ [Next]_vars => Told'
<1> SUFFICES ASSUME Flags /\ Places /\ Booked /\ Told, [Next]_vars PROVE Told'
  OBVIOUS
<1> USE DEF Told, owner, process, anchoring, reading, books, signals, Flags, Places, Booked,
        SoFar, Idle, Ending, TearDown, NothingLeft, GroupLive, Drained, Answered,
        InterruptionIsReported
<1>1. CASE Refuse
  BY <1>1, ErrIsResult, CheckedTells DEF Refuse, Marks, Reported, Interrupted
<1>2. CASE Spawn
  BY <1>2, ErrIsResult, CheckedTells DEF Spawn, Marks, Reported, Interrupted
<1>3. CASE StartAnchor
  BY <1>3 DEF StartAnchor
<1>4. CASE AnchorReady
  BY <1>4 DEF AnchorReady
<1>5. CASE AnchorUnready
  BY <1>5 DEF AnchorUnready
<1>6. CASE StartupUnwind
  BY <1>6 DEF StartupUnwind
<1>7. CASE StartupTerm
  BY <1>7 DEF StartupTerm
<1>8. CASE StartupKill
  BY <1>8 DEF StartupKill, KillGroup
<1>9. CASE StartupLook
  BY <1>9 DEF StartupLook
<1>10. CASE StartupLast
  BY <1>10 DEF StartupLast
<1>11. CASE StartupReaped
  BY <1>11, ErrIsResult, CheckedTells DEF StartupReaped, Marks, Reported, Interrupted
<1>12. CASE Deliver
  BY <1>12 DEF Deliver
<1>13. CASE RunFails
  BY <1>13, ErrIsResult, CheckedTells DEF RunFails, Marks, Reported, Interrupted
<1>14. CASE LauncherExited
  BY <1>14, ErrIsResult, CheckedTells DEF LauncherExited, Marks, Reported, Interrupted
<1>15. CASE RetireLauncher
  BY <1>15 DEF RetireLauncher
<1>16. CASE LauncherTerm
  BY <1>16 DEF LauncherTerm
<1>17. CASE LauncherGrace
  BY <1>17 DEF LauncherGrace
<1>18. CASE LauncherKill
  BY <1>18 DEF LauncherKill
<1>19. CASE LauncherReaped
  BY <1>19 DEF LauncherReaped
<1>20. CASE TermGroup
  BY <1>20 DEF TermGroup
<1>21. CASE SendTerm
  BY <1>21 DEF SendTerm
<1>22. CASE EndGrace
  BY <1>22 DEF EndGrace
<1>23. CASE KillAndSeal
  BY <1>23 DEF KillAndSeal
<1>24. CASE SendKill
  BY <1>24 DEF SendKill, KillGroup
<1>25. CASE RetireLooks
  BY <1>25 DEF RetireLooks
<1>26. CASE RetireKills
  BY <1>26 DEF RetireKills
<1>27. CASE Retired
  BY <1>27 DEF Retired
<1>28. CASE Confirm
  BY <1>28 DEF Confirm
<1>29. CASE ObserveLauncher
  BY <1>29 DEF ObserveLauncher
<1>30. CASE FinalLook
  BY <1>30 DEF FinalLook
<1>31. CASE JoinReaders
  BY <1>31 DEF JoinReaders
<1>32. CASE Classify
  <2>1. /\ pc = "classify" /\ pc' = "finish"
        /\ UNCHANGED <<delivered, process, anchor, joined, reader, books>>
    BY <1>32 DEF Classify
  <2>2. /\ failures <=> dirty
        /\ ~failures => NothingLeft /\ Drained /\ launcher = "waited"
    <3>1. pc = "classify" /\ pc \notin Idle \cup Ending \cup Unwinding
      BY <2>1 DEF Unwinding
    <3>2. failures <=> dirty
      BY <3>1, Zenon DEF Booked
    <3>3. ~failures => anchor = "waited" /\ launcher = "waited" /\ desc = "none" /\ Drained
      <4> HIDE DEF Drained
      <4> QED BY <3>1
    <3> QED
      BY <3>2, <3>3
  <2>3. /\ result'.ok => result.ok /\ exit # "other" /\ ~failures
        /\ failures => Reported(result')
    BY <1>32, ClassifyTells
  <2>4. result.ok => delivered
    BY <2>1
  <2>5. exit # "other" => exit = "zero"
    OBVIOUS
  <2>6. (dirty' => dirty) /\ (NothingLeft => NothingLeft') /\ (Drained => Drained')
    BY <2>1
  <2>7. dirty' \/ ~NothingLeft' => Reported(result')
    BY <2>2, <2>3, <2>6
  <2>8. result'.ok => Answered'
    BY <2>1, <2>2, <2>3, <2>4, <2>5, <2>6
  <2> QED
    BY <2>1, <2>7, <2>8
<1>33. CASE Finish
  BY <1>33, FinishTells DEF Finish, Interrupted
<1>34. CASE Backoff
  BY <1>34, ErrIsResult, CheckedTells DEF Backoff, Marks, Reported, Interrupted
<1>35. CASE Close
  BY <1>35, CloseTells DEF Close, Interrupted
<1>36. CASE TimeOut
  BY <1>36, ErrIsResult, CheckedTells DEF TimeOut, Marks, Reported, Interrupted
<1>37. CASE LauncherEnds
  BY <1>37 DEF LauncherEnds, Corpse
<1>38. CASE Descend
  BY <1>38 DEF Descend
<1>39. CASE AnchorJoins
  BY <1>39 DEF AnchorJoins
<1>40. CASE AnchorEnds
  BY <1>40 DEF AnchorEnds, Corpse
<1>41. CASE \E r \in Readers : ReaderEnds(r)
  BY <1>41 DEF ReaderEnds
<1>42. CASE Interrupt
  BY <1>42 DEF Interrupt
<1>43. CASE Interfere
  BY <1>43 DEF Interfere
<1>44. CASE UNCHANGED vars
  BY <1>44 DEF vars
<1> QED
  BY <1>1, <1>2, <1>3, <1>4, <1>5, <1>6, <1>7, <1>8, <1>9, <1>10, <1>11, <1>12,
     <1>13, <1>14, <1>15, <1>16, <1>17, <1>18, <1>19, <1>20, <1>21, <1>22, <1>23,
     <1>24, <1>25, <1>26, <1>27, <1>28, <1>29, <1>30, <1>31, <1>32, <1>33, <1>34,
     <1>35, <1>36, <1>37, <1>38, <1>39, <1>40, <1>41, <1>42, <1>43, <1>44
     DEF Next, Owner, Terminated

\* A call starts in the invariant.
LEMMA InitEstablishes == Init => Inv
<1> SUFFICES ASSUME Init PROVE Inv
  OBVIOUS
<1>1. Flags
  BY Zenon DEF Init, Flags
<1>2. Places
  BY MaxRetriesAssumption, ErrIsResult, {} \subseteq Marks DEF Init, Places, Idle, Readers
<1>3. AtHome
  BY DEF Init, AtHome, Trusted, Anchored
<1>4. Booked
  BY DEF Init, Booked, SoFar, Idle, NothingLeft, GroupLive
<1>5. Told
  BY DEF Init, Told, TearDown, Ending
<1> QED
  BY <1>1, <1>2, <1>3, <1>4, <1>5, TypeInParts DEF Inv

\* The invariant of a call: where its group may be signalled, what is booked of its
\* teardown, and what its result tells (codex_exec::execute and its retry loop).
THEOREM Inductive == Spec => []Inv
<1>1. Inv /\ [Next]_vars => Inv'
  <2> SUFFICES ASSUME Inv, [Next]_vars PROVE Inv'
    OBVIOUS
  <2>1. Flags /\ Places
    BY TypeInParts DEF Inv
  <2>2. Flags' /\ Places'
    BY <2>1, FlagsKept, PlacesKept
  <2>3. TypeOK'
    BY <2>2 DEF TypeOK, Flags, Places, Anchored, TearDown, Idle, Ending, Unwinding
  <2>4. AtHome' /\ Booked' /\ Told'
    BY <2>1, AtHomeKept, BookedKept, ToldKept DEF Inv
  <2> QED
    BY <2>3, <2>4 DEF Inv
<1> QED
  BY <1>1, InitEstablishes, PTL DEF Spec

\* GroupAnchor and startup_failure signal no group whose number may be somebody else's,
\* however many attempts are made.
THEOREM GroupsAreOurs == Spec => []SignalsStayHome
<1>1. Inv => SignalsStayHome
  BY DEF Inv, AtHome, SignalsStayHome
<1> QED
  BY <1>1, Inductive, PTL

\* What a call leaves behind or failed to clean up, and a signal it met at any time, are
\* in its result (combine, Cancellation::close).
THEOREM FaultsAreTold == Spec => []FaultsAreReported
<1>1. Inv => FaultsAreReported
  BY
     DEF Inv, Told, Ending, Reported, FaultsAreReported, LeakIsReported,
         InterruptionIsReported
<1> QED
  BY <1>1, Inductive, PTL

\* A success comes from an attempt that went to its end, and a retry follows only one
\* of which nothing is left.
THEOREM SuccessesAreClean == Spec => []SuccessIsClean
<1>1. Inv => SuccessIsClean
  BY
     DEF Inv, Told, Booked, Idle, Ending, Answered, Drained, SuccessIsClean,
         SuccessIsWhole, RetryIsClean
<1> QED
  BY <1>1, Inductive, PTL
=============================================================================
