------------------------------ MODULE Recovery ------------------------------
(***************************************************************************)
(* What becomes of a sub-recipe that failed: the report an agent gets, how *)
(* the runner takes its answer (execute_sub_recipe), and how the library   *)
(* classifies failures and answers (src/sub_recipe_recovery.rs).           *)
(***************************************************************************)
EXTENDS Texts, SequencesExt

Mentions(text, phrases) == \E p \in phrases : Includes(Lower(text), p)

\* ------------------------------------------------------------------ the runner

\* describe_sub_recipe_failure: each failed step with what is known of it, and the
\* completed ones.
Blank(s) == Trim(s) = ""
Detail(r) == IF ~Blank(r.error) THEN r.error ELSE IF ~Blank(r.output) THEN r.output ELSE ""
DescribeFailure(results) ==
  LET with(status) == SelectSeq(results, LAMBDA r : r.status = status)
      failed == with("failed")
      completed == with("completed")
  IN  [failed |-> [i \in 1..Len(failed) |-> <<failed[i].id, Detail(failed[i])>>],
       completed |-> [i \in 1..Len(completed) |-> completed[i].id]]

\* The answer that makes the step a success, unless a typed failure was observed.
Recovered(answer, terminal) == ~terminal /\ Mentions(answer, {"status: complete", "recovered"})

\* ----------------------------------------------------------------- the library

Unrecoverable ==
  {"permission denied", "authentication failed", "not found: 404", "out of memory", "disk full",
   "unrecoverable", "fatal:", "cannot find module"}
Recoverable ==
  {"test failed", "compilation error", "syntax error", "lint error", "type error", "assertion failed",
   "command exited with code 1"}
FatalCodes == {126, 127, 137}
NoCode == -1

ClassifyFailure(error, code) ==
  IF Mentions(error, Unrecoverable) \/ code \in FatalCodes THEN "unrecoverable"
  ELSE IF Mentions(error, Recoverable) THEN "recoverable" ELSE "unknown"

ShouldAttempt(class, attempt, max) == attempt < max /\ class # "unrecoverable"

ParseResponse(response) == ~Mentions(response, {"unrecoverable"}) /\ ~Blank(response)

\* A caller that recovers as long as it should: the attempts it makes, with one answer
\* for each, the last one repeated.
AnswerTo(answers, n) == answers[IF n < Len(answers) THEN n + 1 ELSE Len(answers)]
Attempts(error, code, answers, max) ==
  LET A[n \in 0..max] ==
        IF ~ShouldAttempt(ClassifyFailure(error, code), n, max) THEN n
        ELSE IF ParseResponse(AnswerTo(answers, n)) THEN n + 1 ELSE A[n + 1]
  IN  A[0]

\* ---------------------------------------------------------------- properties

\* A recovery ends after at most max attempts and at once for a failure that no attempt
\* can mend, whatever the case of its text and however the agent answers; a failure that
\* is mended was so by the last answer.
RecoveryEnds(error, code, answers, max) ==
  LET n == Attempts(error, code, answers, max)
  IN  /\ n <= max
      /\ code \in FatalCodes => n = 0
      /\ ClassifyFailure(Upper(error), code) = ClassifyFailure(error, code)
      /\ \A i \in 1..(n - 1) : i <= Len(answers) => ~ParseResponse(answers[i])

\* The answer the runner's prompt asks for is taken as a recovery however it is written,
\* no answer is after a typed failure, and none that holds neither of the two phrases;
\* the runner and the library disagree only on an answer that calls the failure
\* unrecoverable and holds one of them, as "unrecoverable: it was not recovered" does,
\* which the runner takes. The report the agent works from names every failed step,
\* with its error if there is one, and no other step as failed.
AnswersAreTaken(answer, results) ==
  LET report == DescribeFailure(results)
      failed == {r \in Range(results) : r.status = "failed"}
  IN  /\ EndsWith(answer, "STATUS: COMPLETE") => Recovered(answer, FALSE)
      /\ ~Recovered(answer, TRUE)
      /\ Recovered(answer, FALSE) => Mentions(answer, {"complete", "recovered"})
      /\ Recovered(answer, FALSE) /\ ~ParseResponse(answer) => Mentions(answer, {"unrecoverable"})
      /\ {p[1] : p \in Range(report.failed)} = {r.id : r \in failed}
      /\ \A r \in failed : ~Blank(r.error) => <<r.id, r.error>> \in Range(report.failed)
      /\ Len(report.failed) + Len(report.completed) <= Len(results)
=============================================================================
