---------------------------- MODULE AgentCommand ----------------------------
(***************************************************************************)
(* The command line of an agent step (build_agent_command of               *)
(* src/adapters/cli_subprocess.rs), how a long prompt is split between the *)
(* command line and a file, and the waits between the attempts of a step.  *)
(*                                                                         *)
(* A prompt is the sequence of its characters, each with its number and    *)
(* its width in bytes; a system prompt likewise. Empty is <<>>.            *)
(***************************************************************************)
EXTENDS Texts

CONSTANTS MaxInline,   \* MAX_INLINE_AGENT_PROMPT_BYTES
          Preview,     \* FILE_BACKED_INLINE_PROMPT_BYTES
          Guard,       \* RECIPE_CHILD_NO_REENTRY_SYSTEM_PROMPT
          Footer,      \* NON_INTERACTIVE_FOOTER
          Bits         \* the width of a number of seconds

Bytes(text) ==
  LET Sum[i \in 0..Len(text)] == IF i = 0 THEN 0 ELSE Sum[i - 1] + text[i].w IN Sum[Len(text)]

\* ------------------------------------------------------------------- prompt

\* The system prompt of the step, if it has one, before the guard against re-entry.
EffectiveSystemPrompt(system) == system \o Guard

FileBacked(prompt, system) == Bytes(prompt) + Bytes(system) > MaxInline

\* How many characters of a text lie whole within its first n bytes.
Clamp(text, n) ==
  CHOOSE k \in 0..Len(text) : /\ Bytes(SubSeq(text, 1, k)) <= n
                              /\ \A j \in (k + 1)..Len(text) : Bytes(SubSeq(text, 1, j)) > n

ClaudeLike == {"claude", "launch", "RustyClawd"}

\* The text of -p with a note if more is in the file, and the file.
Payload(prompt, system) ==
  LET k == Clamp(prompt, Preview)
      overflow == SubSeq(prompt, k + 1, Len(prompt))
  IN  [inline |-> SubSeq(prompt, 1, k), note |-> overflow # <<>>,
       system |-> system, rest |-> overflow]

\* -------------------------------------------------------------- command line

NoFile == [some |-> FALSE]
Launcher(o) ==
  IF o.launcher # "" THEN o.launcher ELSE IF o.envLauncher # "" THEN o.envLauncher ELSE "amplihack"
Absolute(path) == StartsWith(path, "/")

\* args: -p, --system-prompt, --append-system-prompt-file, --add-dir, --model and the rest.
Base(o) ==
  [err |-> FALSE, program |-> Launcher(o), cli |-> o.cli, stdin |-> FALSE, p |-> <<>>, note |-> FALSE,
   system |-> <<>>, file |-> NoFile, appended |-> FALSE, grants |-> {}, model |-> o.model,
   allowTools |-> o.cli = "copilot" /\ o.allowAllTools /\ o.envNoAllow = ""]

Transport(o, prompt, system) ==
  LET pay == Payload(prompt, system)
      claude == o.cli \in ClaudeLike
  IN  IF FileBacked(prompt, system)
        THEN [Base(o) EXCEPT !.p = pay.inline, !.note = pay.note,
                !.file = [some |-> TRUE, system |-> pay.system, rest |-> pay.rest],
                !.appended = claude, !.grants = IF claude THEN {} ELSE {"output dir"}]
        ELSE [Base(o) EXCEPT !.p = prompt, !.system = IF claude THEN system ELSE <<>>]

BuildAgentCommand(o, cwd, prompt, system) ==
  LET cmd == Transport(o, prompt, EffectiveSystemPrompt(system))
  IN  IF o.launcher # "" /\ ~Absolute(o.launcher) THEN [Base(o) EXCEPT !.err = TRUE]
      ELSE IF o.cli = "codex" THEN [Base(o) EXCEPT !.stdin = TRUE]
      ELSE [cmd EXCEPT !.grants = @ \cup IF o.addWorkingDir THEN {cwd} ELSE {}]

\* What Codex reads from its standard input.
Envelope(prompt, system) == EffectiveSystemPrompt(system) \o prompt \o Footer

\* Where an agent step runs: what the step gives, below the directory of the runner if
\* it is relative, and by its absolute name, which disk gives for each directory.
ResolveCwd(given, own, disk) ==
  LET dir == IF given \in {"", "."} THEN own
             ELSE IF Absolute(given) THEN given ELSE own \o "/" \o given
  IN  IF dir \in DOMAIN disk THEN disk[dir] ELSE ""

StepCommand(o, prompt, system, given, own, disk) ==
  LET cwd == ResolveCwd(given, own, disk)
      text == IF o.cli = "codex" THEN prompt ELSE prompt \o Footer
  IN  IF cwd = "" THEN [Base(o) EXCEPT !.err = TRUE] ELSE BuildAgentCommand(o, cwd, text, system)

\* ------------------------------------------------------------------- waiting

\* A variable of the environment: a number, or a text that is none.
Parsed(v, default) == IF v.set /\ v.number THEN v.n ELSE default
Least(a, b) == IF a < b THEN a ELSE b
MaxRetriesCeiling == 100
RateLimitConfig(env) ==
  LET base == Parsed(env.base, 60)
      cap == Parsed(env.cap, 600)
  IN  [retries |-> Least(Parsed(env.retries, 5), MaxRetriesCeiling), base |-> base,
       cap |-> IF cap < base THEN base ELSE cap]

\* The largest number of seconds; products saturate there, shifts past the width too.
Shifted[n \in 0..Bits] == IF n = 0 THEN 1 ELSE 2 * Shifted[n - 1]
Top == Shifted[Bits] - 1
SaturatingMul(a, b) == Least(a * b, Top)
Factor(exp) == IF exp >= Bits THEN Top ELSE Shifted[exp]
BackoffDelay(retry, base, cap) ==
  IF base = 0 THEN 0
  ELSE Least(SaturatingMul(base, Factor(IF retry = 0 THEN 0 ELSE retry - 1)), cap)

\* -------------------------------------------------------------- properties

\* What the agent is given to read: on stdin, in the arguments, and in the file when
\* its program is told to append it, or may read it and the prompt names it.
Read(cmd, prompt, system) ==
  IF cmd.stdin THEN Envelope(prompt, system)
  ELSE LET reads == cmd.file.some /\ (cmd.appended \/ ("output dir" \in cmd.grants /\ cmd.note))
       IN  (IF reads THEN cmd.file.system ELSE cmd.system) \o cmd.p \o IF reads THEN cmd.file.rest ELSE <<>>

\* Every agent gets the whole prompt of its step with the footer, in order and with no
\* character cut in two, whatever its length, and no argument over the inline limit
\* carries it. The system prompt with the guard against re-entry comes first, but for
\* an agent that is not Claude-like when the prompt fits on its command line. The
\* directory the agent is granted is the one it runs in, by its absolute name.
PromptArrivesWhole(o, prompt, system, given, own, disk) ==
  LET full == prompt \o Footer
      cmd == StepCommand(o, prompt, system, given, own, disk)
      fits == Bytes(full) <= (IF cmd.file.some THEN Preview ELSE MaxInline)
  IN  IF cmd.err
        THEN (o.launcher # "" /\ ~Absolute(o.launcher)) \/ ResolveCwd(given, own, disk) = ""
        ELSE /\ \/ Read(cmd, prompt, system) = Envelope(prompt, system)
                \/ /\ o.cli \notin ClaudeLike \cup {"codex"} /\ fits
                   /\ Read(cmd, prompt, system) = full
             /\ Bytes(cmd.p) + Bytes(cmd.system) <= MaxInline
             /\ cmd.file.some => Bytes(cmd.p) <= Preview
             /\ \A d \in cmd.grants \ {"output dir"} : Absolute(d)

\* The waits of a step never shrink from one retry to the next, start at the base,
\* double while they can, and never pass the cap, which never is below the base.
WaitsGrowToTheCap(env) ==
  LET c == RateLimitConfig(env)
      d(r) == BackoffDelay(r, c.base, c.cap)
  IN  /\ c.retries <= MaxRetriesCeiling
      /\ d(1) = c.base
      /\ \A r \in 1..(2 * Bits) : /\ d(r) <= d(r + 1) /\ d(r) \in 0..c.cap
                                  /\ d(r + 1) = Least(2 * d(r), c.cap)
=============================================================================
