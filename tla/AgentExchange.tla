---------------------------- MODULE AgentExchange ----------------------------
(***************************************************************************)
(* What passes between the runner and an agent: the command it is given    *)
(* (AgentCommand), the pipe to the anchor of its group (AnchorPipe), what  *)
(* is taken from its answer (Answers) and the attempts to recover a        *)
(* sub-recipe (Recovery). A case is the input of one of these functions.   *)
(***************************************************************************)
EXTENDS Sequences, Cases

CONSTANTS MaxInline, Preview, Guard, Footer, Bits, \* as in AgentCommand
          MaxOutput                                \* as in Answers

Cmd  == INSTANCE AgentCommand
Ans  == INSTANCE Answers
Heal == INSTANCE Recovery
Pipe == INSTANCE AnchorPipe

\* build_agent_command gives every agent the whole prompt of its step, and the waits
\* between its attempts (backoff_delay, RateLimitConfig::from_env) grow up to their cap;
\* parse_json_output takes nothing for the JSON of its answer that is not;
\* read_final_output, safe_truncate and safe_tail keep texts whole within their bounds;
\* the attempts to recover a sub-recipe end with its verdict; and the pipe to the anchor
\* of its group is whole or gone.
AgentsAreAskedAndHeard ==
  /\ case.of = "failure" => Heal!RecoveryEnds(case.error, case.code, case.answers, case.max)
  /\ case.of = "pipe" => Pipe!PipeIsWholeOrGone(case.faults)
  /\ case.of = "prompt" => Cmd!PromptArrivesWhole(case.o, case.p, case.s, case.d, case.own, case.homes)
  /\ case.of = "waits" => Cmd!WaitsGrowToTheCap(case.env)
  /\ case.of = "answer" =>
       /\ Ans!TakenFromTheAnswer(case.before \o case.v \o case.after)
       /\ Ans!TakenFromTheAnswer(case.before \o Tail(case.v) \o <<"fence">> \o case.after)
  /\ case.of = "text" => Ans!TextsStayWhole(case.file, case.text, case.max)
=============================================================================
