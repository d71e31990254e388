--------------------------- MODULE AgentCallProofs ---------------------------
(* Theorems about AgentCall, for every timeout, number of retries and length  *)
(* of output, and about the functions of AgentCommand, Answers, Recovery and  *)
(* AnchorPipe, for every input.                                               *)
EXTENDS AgentCall, AgentExchange, SequenceTheorems, WellFoundedInduction, TLAPS

-----------------------------------------------------------------------------
(* What an attempt leaves behind depends on how it got there: where the       *)
(* calling thread is says whether the child is reaped and the heartbeat       *)
(* joined, and whether the deadline killed the child.                         *)

Quiet == hb \in {"none", "done"}

AttemptInv ==
  /\ attempt \in 1..Total
  /\ pc \in {"spawn", "poll", "expiry", "classify"} => ~killed
  /\ pc = "spawn" => Quiet /\ child \in {"none", "reaped"}
  /\ pc \in {"poll", "expiry"} => child \in {"running", "exited"}
  /\ pc = "reap" => child = "exited" /\ killed
  /\ pc \in {"stop", "join", "bail", "classify"} =>
       child = "reaped" \/ (child = "exited" /\ killed)
  /\ pc \in {"bail", "classify"} => hb = "done"
  /\ pc = "bail" => killed
  /\ pc = "done" => AttemptContained
  /\ pc # "done" => result = None
  /\ result = "exhausted" => attempt = Total

\* Every step of a call keeps the invariant.
LEMMA AttemptStep == AttemptInv /\ [Next]_vars => AttemptInv'
<1> SUFFICES ASSUME AttemptInv, [Next]_vars PROVE AttemptInv'
  OBVIOUS
<1> USE ConstantsAssumption
    DEF AttemptInv, AttemptContained, Quiet, Total, caller, process, shared, heartbeat,
        history, None
<1>1. CASE Spawn
  BY <1>1 DEF Spawn
<1>2. CASE PollExited \/ PollRunning \/ PollFails \/ NotExpired
  BY <1>2 DEF PollExited, PollRunning, PollFails, NotExpired
<1>3. CASE ReportOverrun
  BY <1>3 DEF ReportOverrun
<1>4. CASE Kill
  BY <1>4 DEF Kill
<1>5. CASE ReapKilled \/ Stop \/ Join \/ TimedOut
  BY <1>5 DEF ReapKilled, AfterKill, Stop, Join, TimedOut
<1>6. CASE Retry
  BY <1>6 DEF Retry, MayRetry
<1>7. CASE Return
  <2>1. result' = "exhausted" => attempt = Total
    BY <1>7 DEF Return, MayRetry, RateLimited
  <2>2. result' \notin {"waitError", "timeout"} /\ pc' = "done"
    BY <1>7 DEF Return
  <2> QED
    BY <1>7, <2>1, <2>2 DEF Return
<1>8. CASE ChildWrites \/ ChildExits \/ DeadlinePasses
  BY <1>8 DEF ChildWrites, ChildExits, DeadlinePasses
<1>9. CASE Heartbeat
  <2>1. UNCHANGED <<pc, attempt, result, child, killed>> /\ ~Quiet
    BY <1>9 DEF Heartbeat, Stat, Read, ReadSlot, Report, CheckStop
  <2> QED
    BY <2>1
<1>10. CASE UNCHANGED vars
  BY <1>10 DEF vars
<1> QED
  BY <1>1, <1>2, <1>3, <1>4, <1>5, <1>6, <1>7, <1>8, <1>9, <1>10
     DEF Next, Caller, Terminated

\* So it holds in every state.
LEMMA AttemptAlways == Spec => []AttemptInv
<1>1. Init => AttemptInv
  BY ConstantsAssumption DEF Init, AttemptInv, Quiet, Total, None
<1> QED
  BY <1>1, AttemptStep, PTL DEF Spec

\* Between attempts, and when the call has returned, no heartbeat thread runs and
\* no child is left, however the exit, the deadline and the heartbeat interleave:
\* every way out of the polling loop of execute_agent_step_impl but the `?` on
\* try_wait goes through the reaping and the join.
THEOREM AttemptsLeaveNothingBehind == Spec => []AttemptContained
<1>1. AttemptInv => AttemptContained
  BY DEF AttemptInv, AttemptContained, Quiet, None
<1> QED
  BY <1>1, AttemptAlways, PTL

\* The agent is started at most 1 + max_retries times, for every max_retries, and
\* "rate limit persisted" is reported only after all of them.
THEOREM RetryBudget == Spec => []RetriesBounded
<1>1. AttemptInv => RetriesBounded
  BY ConstantsAssumption DEF AttemptInv, RetriesBounded, Total
<1> QED
  BY <1>1, AttemptAlways, PTL

-----------------------------------------------------------------------------
(* One stale claim: the heartbeat reads the slot anew before every line, so    *)
(* after the exit is published only the slot it has already read can be empty. *)

ClaimInv ==
  /\ claims \in {0, 1}
  /\ claims = 1 => slot # None
  /\ claims = 1 /\ hb = "report" => observed # None
  /\ child = "exited" => exit # None

\* Every step keeps what is known of the progress claims.
LEMMA ClaimStep == AttemptInv /\ ClaimInv /\ [Next]_vars => ClaimInv'
<1> SUFFICES ASSUME AttemptInv, ClaimInv, [Next]_vars PROVE ClaimInv'
  OBVIOUS
<1> USE DEF ClaimInv, caller, process, shared, heartbeat, history, None
<1>1. CASE Spawn
  BY <1>1 DEF Spawn, AttemptInv
<1>2. CASE PollExited \/ PollRunning \/ PollFails \/ NotExpired \/ ReportOverrun
  BY <1>2 DEF PollExited, PollRunning, PollFails, NotExpired, ReportOverrun
<1>3. CASE Kill
  BY <1>3 DEF Kill, AttemptInv
<1>4. CASE ReapKilled
  BY <1>4 DEF ReapKilled, AttemptInv
<1>5. CASE Stop \/ Join \/ TimedOut \/ Retry \/ Return
  BY <1>5 DEF Stop, Join, TimedOut, Retry, Return
<1>6. CASE ChildWrites \/ ChildExits \/ DeadlinePasses
  BY <1>6 DEF ChildWrites, ChildExits, DeadlinePasses, Exits
<1>7. CASE Stat \/ Read \/ ReadSlot \/ CheckStop
  BY <1>7 DEF Stat, Read, ReadSlot, CheckStop
<1>8. CASE Report
  <2>1. PICK idle \in BOOLEAN :
          claims' = IF ClaimsProgress(idle) /\ slot # None /\ claims < 2
                    THEN claims + 1 ELSE claims
    BY <1>8 DEF Report
  <2>2. claims' = claims \/ (observed = None /\ slot # None /\ claims' = claims + 1)
    BY <2>1 DEF ClaimsProgress
  <2>3. claims' # claims => claims = 0
    BY <1>8, <2>2 DEF Report
  <2>4. hb' # "report" /\ UNCHANGED <<slot, child, exit>>
    BY <1>8 DEF Report
  <2> QED
    BY <2>2, <2>3, <2>4
<1>9. CASE UNCHANGED vars
  BY <1>9 DEF vars
<1> QED
  BY <1>1, <1>2, <1>3, <1>4, <1>5, <1>6, <1>7, <1>8, <1>9
     DEF Next, Caller, Heartbeat, Terminated

\* Once the exit is published, the heartbeat may print one more "working" line for
\* the slot it had read before, but never a second one, however long the calling
\* thread takes to set the stop flag.
THEOREM OneStaleClaim == Spec => []AtMostOneStaleClaim
<1>1. Init => ClaimInv
  BY DEF Init, ClaimInv, None
<1>2. Spec => []ClaimInv
  BY <1>1, AttemptAlways, ClaimStep, PTL DEF Spec
<1>3. ClaimInv => AtMostOneStaleClaim
  BY DEF ClaimInv, AtMostOneStaleClaim
<1> QED
  BY <1>2, <1>3, PTL

-----------------------------------------------------------------------------
(* What becomes of a call: an exit with success is final, since only an exit   *)
(* of another kind is retried; only a killing deadline kills.                  *)

OutcomeInv ==
  /\ limit \in {"none", "kill", "report"}
  /\ killed => limit = "kill"
  /\ deadline # "none" => overruns = 0 /\ limit # "none"
  /\ overruns \in {0, 1} /\ (overruns = 1 => limit = "report")
  /\ succeeded => exit \in Succeeded /\ child # "running" /\ pc # "spawn"
  /\ succeeded /\ pc = "done" => result \in {"ok", "timeout", "waitError"}

\* Every step keeps what is known of the outcome.
LEMMA OutcomeStep == AttemptInv /\ OutcomeInv /\ [Next]_vars => OutcomeInv'
<1> SUFFICES ASSUME AttemptInv, OutcomeInv, [Next]_vars PROVE OutcomeInv'
  OBVIOUS
<1> USE DEF OutcomeInv, caller, process, shared, heartbeat, history, None
<1>1. CASE Spawn
  BY <1>1 DEF Spawn
<1>2. CASE PollExited \/ PollRunning \/ PollFails \/ NotExpired
  BY <1>2 DEF PollExited, PollRunning, PollFails, NotExpired
<1>3. CASE ReportOverrun
  BY <1>3 DEF ReportOverrun, Kills, DeadlineAfterReport
<1>4. CASE Kill
  BY <1>4 DEF Kill, Kills
<1>5. CASE ReapKilled \/ Stop \/ Join \/ TimedOut
  BY <1>5 DEF ReapKilled, AfterKill, Stop, Join, TimedOut
<1>6. CASE Retry \/ Return
  BY <1>6 DEF Retry, Return, RateLimited
<1>7. CASE ChildExits
  <2>1. succeeded' => succeeded \/ exit' \in Succeeded
    BY <1>7 DEF ChildExits
  <2>2. pc = "done" => result = "waitError"
    BY <1>7 DEF ChildExits, AttemptInv, AttemptContained
  <2> QED
    BY <1>7, <2>1, <2>2 DEF ChildExits, AttemptInv
<1>8. CASE ChildWrites \/ DeadlinePasses
  BY <1>8 DEF ChildWrites, DeadlinePasses
<1>9. CASE Heartbeat
  BY <1>9 DEF Heartbeat, Stat, Read, ReadSlot, Report, CheckStop
<1>10. CASE UNCHANGED vars
  BY <1>10 DEF vars
<1> QED
  BY <1>1, <1>2, <1>3, <1>4, <1>5, <1>6, <1>7, <1>8, <1>9, <1>10
     DEF Next, Caller, Terminated

\* An agent that succeeded is never started again and its success is what the call
\* returns, unless the deadline overtook it; only a deadline that kills ends the child,
\* and an attempt reports one overrun at most (execute_agent_step_impl).
THEOREM OutcomesAreEarned == Spec => []OutcomeIsEarned
<1>1. Init => OutcomeInv
  BY ConstantsAssumption DEF Init, OutcomeInv, None
<1>2. Spec => []OutcomeInv
  BY <1>1, AttemptAlways, OutcomeStep, PTL DEF Spec
<1>3. OutcomeInv => OutcomeIsEarned
  BY DEF OutcomeInv, OutcomeIsEarned
<1> QED
  BY <1>2, <1>3, PTL

-----------------------------------------------------------------------------
(* What is streamed: the heartbeat counts as streamed what the metadata said   *)
(* before it read, so what was written in between comes once more, and by then *)
(* the metadata has it; and what a failed read did not come to never comes.    *)

StreamInv ==
  /\ written \in 0..MaxOut /\ size \in 0..MaxOut /\ seen \in 0..MaxOut
  /\ size <= written /\ (hb = "read" => size <= seen /\ seen <= written)
  /\ shown \in [Bytes -> 0..2] /\ lost \subseteq Bytes
  /\ \A b \in Bytes :
       /\ b \in lost <=> b <= size /\ shown[b] = 0
       /\ b > size => shown[b] <= 1
       /\ b > written => shown[b] = 0
       /\ hb = "read" /\ b > seen => shown[b] = 0

\* Every step keeps what is known of the streamed output.
LEMMA StreamStep == AttemptInv /\ StreamInv /\ [Next]_vars => StreamInv'
<1> SUFFICES ASSUME AttemptInv, StreamInv, [Next]_vars PROVE StreamInv'
  OBVIOUS
<1> USE ConstantsAssumption
    DEF StreamInv, Bytes, caller, process, shared, heartbeat, history
<1>1. CASE Spawn
  <2>1. CASE UNCHANGED <<process, heartbeat>>
    BY <2>1
  <2>2. CASE /\ written' = 0 /\ size' = 0 /\ seen' = 0 /\ hb' = "stat" /\ lost' = {}
             /\ shown' = [b \in Bytes |-> 0]
    BY <2>2
  <2> QED
    BY <1>1, <2>1, <2>2 DEF Spawn
<1>2. CASE PollExited \/ PollRunning \/ PollFails \/ NotExpired \/ ReportOverrun
  BY <1>2 DEF PollExited, PollRunning, PollFails, NotExpired, ReportOverrun
<1>3. CASE Kill \/ ReapKilled \/ Stop \/ Join \/ TimedOut \/ Retry \/ Return
  BY <1>3 DEF Kill, ReapKilled, Stop, Join, TimedOut, Retry, Return
<1>4. CASE ChildWrites
  BY <1>4 DEF ChildWrites
<1>5. CASE ChildExits \/ DeadlinePasses
  BY <1>5 DEF ChildExits, DeadlinePasses
<1>6. CASE Stat
  BY <1>6 DEF Stat
<1>7. CASE Read
  <2>1. hb = "read" /\ hb' = "slot" /\ size' = seen /\ UNCHANGED <<written, seen>>
    BY <1>7 DEF Read, Taken
  <2>2. PICK end \in size..written :
          /\ shown' = [b \in Bytes |-> IF b \in size + 1..end /\ shown[b] < 3
                                       THEN shown[b] + 1 ELSE shown[b]]
          /\ lost' = lost \cup {b \in end + 1..seen : shown[b] = 0}
    BY <1>7 DEF Read
  <2>3. ASSUME NEW b \in Bytes
        PROVE  /\ shown'[b] \in 0..2
               /\ b \in lost' <=> b <= seen /\ shown'[b] = 0
               /\ b > seen => shown'[b] <= 1
               /\ b > written => shown'[b] = 0
    <3>1. CASE b <= size
      BY <2>1, <2>2, <2>3, <3>1
    <3>2. CASE b > size /\ b <= end
      BY <2>1, <2>2, <2>3, <3>2
    <3>3. CASE b > size /\ b > end
      BY <2>1, <2>2, <2>3, <3>3
    <3> QED
      BY <2>1, <2>2, <2>3, <3>1, <3>2, <3>3
  <2>4. shown' \in [Bytes -> 0..2] /\ lost' \subseteq Bytes
    <3>1. end + 1..seen \subseteq Bytes
      BY <2>1, <2>2
    <3> QED
      BY <2>2, <2>3, <3>1
  <2> QED
    BY <2>1, <2>3, <2>4
<1>8. CASE ReadSlot \/ Report \/ CheckStop
  BY <1>8 DEF ReadSlot, Report, CheckStop
<1>9. CASE UNCHANGED vars
  BY <1>9 DEF vars
<1> QED
  BY <1>1, <1>2, <1>3, <1>4, <1>5, <1>6, <1>7, <1>8, <1>9
     DEF Next, Caller, Heartbeat, Terminated

\* However much a child writes and whenever the heartbeat looks, no byte is streamed more
\* than twice, and of those that count as streamed only what a failed read did not come to
\* is left out (drain_new_output).
THEOREM NothingIsStreamedThrice == Spec => []StreamedAtMostTwice
<1>1. Init => StreamInv
  BY ConstantsAssumption DEF Init, StreamInv, Bytes
<1>2. Spec => []StreamInv
  BY <1>1, AttemptAlways, StreamStep, PTL DEF Spec
<1>3. StreamInv => StreamedAtMostTwice
  BY DEF StreamInv, StreamedAtMostTwice, Bytes
<1> QED
  BY <1>2, <1>3, PTL

-----------------------------------------------------------------------------
(* The waits of a retried call. Proofs about functions that are defined by     *)
(* recursion go by the least argument for which the claim fails.              *)

\* A set of natural numbers that is not empty has a least one.
LEMMA Smallest ==
  ASSUME NEW T, T \subseteq Nat, T # {}
  PROVE  \E x \in T : \A y \in T : x <= y
<1> DEFINE R == {ss \in Nat \X Nat : ss[1] < ss[2]}
<1>1. IsWellFoundedOn(R, Nat)
  BY NatLessThanWellFounded, Zenon DEF OpToRel
<1>2. PICK x \in T : \A y \in T : <<y, x>> \notin R
  <2> HIDE DEF R
  <2> QED
    BY <1>1, WFMin
<1>3. ASSUME NEW y \in T PROVE x <= y
  <2>1. <<y, x>> \in Nat \X Nat
    OBVIOUS
  <2> QED
    BY <1>2, <2>1
<1> QED
  BY <1>3

\* A function on 0..m that starts at c and goes from each value to the next by d.
Goes(f, V, c, d, m) ==
  f \in [0..m -> V] /\ f[0] = c /\ \A i \in 1..m : f[i] = d[i][f[i - 1]]

\* There is one: what stands behind every recursive function of the model.
LEMMA GoesExists ==
  ASSUME NEW V, NEW c \in V, NEW m \in Nat, NEW d \in [1..m -> [V -> V]]
  PROVE  \E f : Goes(f, V, c, d, m)
<1> DEFINE T == {k \in Nat : k <= m /\ ~ \E f : Goes(f, V, c, d, k)}
<1> SUFFICES ASSUME T # {} PROVE FALSE
  OBVIOUS
<1>1. PICK k \in T : \A y \in T : k <= y
  <2>1. T \subseteq Nat
    OBVIOUS
  <2> HIDE DEF T
  <2> QED
    BY <2>1, Smallest
<1>2. k # 0
  <2>1. Goes([i \in 0..0 |-> c], V, c, d, 0)
    BY DEF Goes
  <2> QED
    BY <2>1, <1>1
<1>3. PICK f : Goes(f, V, c, d, k - 1)
  BY <1>1, <1>2
<1> DEFINE v == d[k][f[k - 1]]
           g == [i \in 0..k |-> IF i = k THEN v ELSE f[i]]
<1>4. v \in V
  BY <1>1, <1>2, <1>3 DEF Goes
<1>5. Goes(g, V, c, d, k)
  <2>1. g \in [0..k -> V] /\ g[0] = c
    BY <1>1, <1>2, <1>3, <1>4 DEF Goes
  <2>2. ASSUME NEW i \in 1..k PROVE g[i] = d[i][g[i - 1]]
    <3>1. g[i - 1] = f[i - 1]
      BY <1>1, <2>2
    <3> QED
      BY <1>1, <1>3, <3>1 DEF Goes
  <2> QED
    BY <2>1, <2>2 DEF Goes
<1> QED
  BY <1>1, <1>5

\* A shift by one more place doubles.
LEMMA ShiftDoubles ==
  ASSUME Bits \in Nat
  PROVE  /\ Cmd!Shifted[0] = 1
         /\ \A n \in 0..Bits : Cmd!Shifted[n] \in Nat \ {0}
         /\ \A n \in 1..Bits : Cmd!Shifted[n] = 2 * Cmd!Shifted[n - 1]
<1> DEFINE V == Nat \ {0}
           Is(f) == f = [n \in 0..Bits |-> IF n = 0 THEN 1 ELSE 2 * f[n - 1]]
           d == [n \in 1..Bits |-> [v \in V |-> 2 * v]]
<1>1. d \in [1..Bits -> [V -> V]] /\ 1 \in V
  OBVIOUS
<1>2. PICK f : Goes(f, V, 1, d, Bits)
  <2> HIDE DEF d, V
  <2> QED
    BY <1>1, GoesExists
<1>3. \A n \in 1..Bits : f[n] = 2 * f[n - 1]
  <2>1. \A n \in 1..Bits : f[n - 1] \in V /\ f[n] = d[n][f[n - 1]]
    <3> HIDE DEF d, V
    <3> QED
      BY <1>2 DEF Goes
  <2> HIDE DEF V
  <2>2. \A n \in 1..Bits : d[n] = [v \in V |-> 2 * v]
    OBVIOUS
  <2> HIDE DEF d
  <2> QED
    BY <2>1, <2>2
<1>4. Is(f)
  BY <1>2, <1>3 DEF Goes
<1>5. Is(Cmd!Shifted)
  BY <1>4, Zenon DEF Cmd!Shifted
<1>6. /\ Cmd!Shifted[0] = 1
      /\ \A n \in 1..Bits : Cmd!Shifted[n] = 2 * Cmd!Shifted[n - 1]
  BY <1>5
<1>7. \A n \in 0..Bits : Cmd!Shifted[n] \in V
  <2> DEFINE T == {n \in Nat : n <= Bits /\ Cmd!Shifted[n] \notin V}
  <2> SUFFICES ASSUME T # {} PROVE FALSE
    OBVIOUS
  <2>1. PICK n \in T : \A y \in T : n <= y
    <3>1. T \subseteq Nat
      OBVIOUS
    <3> HIDE DEF T
    <3> QED
      BY <3>1, Smallest
  <2>2. n # 0
    BY <1>6, <2>1
  <2>3. n - 1 \in Nat /\ n - 1 \notin T
    BY <2>1, <2>2
  <2> QED
    BY <1>6, <2>1, <2>2, <2>3
<1> QED
  BY <1>6, <1>7

\* The settings from_env can read: a number has the width of the machine.
NumberFits(v) == v.set /\ v.number => v.n \in 0..Cmd!Top

\* A setting that is read, or its default, has the width of the machine.
LEMMA ParsedFits ==
  ASSUME NEW v, NumberFits(v), NEW default \in 0..Cmd!Top
  PROVE  Cmd!Parsed(v, default) \in 0..Cmd!Top
  BY DEF NumberFits, Cmd!Parsed

\* A product with something is no less than the other factor.
LEMMA ProductGrows ==
  ASSUME NEW a \in Nat \ {0}, NEW s \in Nat
  PROVE  a * s \in Nat /\ a * s >= s
<1>1. a * s = s + (a - 1) * s /\ (a - 1) * s >= 0
  OBVIOUS
<1> QED
  OBVIOUS

\* Whatever the environment says, the waits before the retries after a rate limit start
\* at the base, double with each retry until they reach the cap, and never pass it, with
\* no overflow on the way; and there are no more retries than the ceiling allows
\* (RateLimitConfig::from_env, backoff_delay). For any width of the machine that holds
\* the defaults.
THEOREM WaitsGrow ==
  ASSUME Bits \in Nat \ {0}, 600 <= Cmd!Top,
         NEW env, NumberFits(env.retries), NumberFits(env.base), NumberFits(env.cap)
  PROVE  Cmd!WaitsGrowToTheCap(env)
<1> DEFINE Top == Cmd!Top
           c == Cmd!RateLimitConfig(env)
           S == Cmd!Shifted
<1>1. /\ Top \in Nat /\ Top = S[Bits] - 1 /\ S[0] = 1
      /\ \A n \in 0..Bits : S[n] \in Nat \ {0}
      /\ \A n \in 1..Bits : S[n] = 2 * S[n - 1]
  BY ShiftDoubles DEF Cmd!Top
<1>2. c.base \in 0..Top /\ c.cap \in c.base..Top /\ c.retries \in 0..Cmd!MaxRetriesCeiling
  <2> DEFINE x == Cmd!Parsed(env.base, 60)
             y == Cmd!Parsed(env.cap, 600)
             z == Cmd!Parsed(env.retries, 5)
  <2>1. x \in 0..Top /\ y \in 0..Top /\ z \in 0..Top
    BY <1>1, ParsedFits
  <2>2. /\ c.base = x /\ c.cap = IF y < x THEN x ELSE y
        /\ c.retries = IF z < 100 THEN z ELSE 100
    BY DEF Cmd!RateLimitConfig, Cmd!MaxRetriesCeiling, Cmd!Least
  <2> HIDE DEF x, y, z, c, Top
  <2> QED
    BY <1>1, <2>1, <2>2 DEF Cmd!MaxRetriesCeiling
<1> DEFINE b == c.base
           p == c.cap
           d(r) == Cmd!BackoffDelay(r, b, p)
<1> HIDE DEF c, Top, S
<1>3. ASSUME NEW r \in Nat \ {0}, b # 0
      PROVE  d(r) = Cmd!Least(b * Cmd!Factor(r - 1), p)
  <2>1. Cmd!Factor(r - 1) \in Nat
    BY <1>1 DEF Cmd!Factor, S, Top
  <2>2. b * Cmd!Factor(r - 1) \in Nat
    BY <1>1, <1>2, <2>1
  <2> QED
    BY <1>1, <1>2, <1>3, <2>2 DEF Cmd!BackoffDelay, Cmd!SaturatingMul, Cmd!Least, Top
<1>4. ASSUME NEW r \in Nat \ {0}
      PROVE  d(r) \in 0..p /\ d(r) <= d(r + 1) /\ d(r + 1) = Cmd!Least(2 * d(r), p)
  <2>1. CASE b = 0
    BY <1>2, <1>1, <2>1 DEF Cmd!BackoffDelay, Cmd!Least
  <2>2. CASE b # 0 /\ r < Bits
    <3>1. Cmd!Factor(r - 1) = S[r - 1] /\ Cmd!Factor(r) = 2 * S[r - 1] /\ S[r - 1] \in Nat
      BY <1>1, <2>2 DEF Cmd!Factor, S
    <3> DEFINE x == b * S[r - 1]
    <3>2. x \in Nat /\ b * (2 * S[r - 1]) = 2 * x
      BY <1>1, <1>2, <3>1
    <3>3. d(r) = Cmd!Least(x, p) /\ d(r + 1) = Cmd!Least(2 * x, p)
      BY <1>3, <2>2, <3>1, <3>2
    <3> HIDE DEF x, d
    <3> QED
      BY <1>1, <1>2, <3>2, <3>3 DEF Cmd!Least
  <2>3. CASE b # 0 /\ r = Bits
    <3>1. Cmd!Factor(r - 1) = S[r - 1] /\ Cmd!Factor(r) = Top /\ S[r - 1] \in Nat
          /\ 2 * S[r - 1] = Top + 1
      BY <1>1, <2>3 DEF Cmd!Factor, S, Top
    <3> DEFINE x == b * S[r - 1]
               y == b * Top
    <3>2. x \in Nat /\ x >= S[r - 1] /\ y \in Nat /\ y >= Top
      <4>1. b \in Nat \ {0} /\ S[r - 1] \in Nat /\ Top \in Nat
        BY <1>1, <1>2, <2>3, <3>1
      <4> HIDE DEF b
      <4> QED
        BY <4>1, ProductGrows
    <3>3. d(r) = Cmd!Least(x, p) /\ d(r + 1) = Cmd!Least(y, p)
      BY <1>3, <2>3, <3>1, <3>2
    <3> HIDE DEF x, y, d
    <3> QED
      BY <1>1, <1>2, <3>1, <3>2, <3>3 DEF Cmd!Least
  <2>4. CASE b # 0 /\ r > Bits
    <3>1. Cmd!Factor(r - 1) = Top /\ Cmd!Factor(r) = Top
      BY <1>1, <2>4 DEF Cmd!Factor, Top
    <3> DEFINE y == b * Top
    <3>2. y \in Nat /\ y >= Top
      <4>1. b \in Nat \ {0} /\ Top \in Nat
        BY <1>1, <1>2, <2>4
      <4> HIDE DEF b
      <4> QED
        BY <4>1, ProductGrows
    <3>3. d(r) = Cmd!Least(y, p) /\ d(r + 1) = Cmd!Least(y, p)
      BY <1>3, <2>4, <3>1, <3>2
    <3> HIDE DEF y, d
    <3> QED
      BY <1>1, <1>2, <3>2, <3>3 DEF Cmd!Least
  <2> QED
    BY <2>1, <2>2, <2>3, <2>4
<1>5. d(1) = b
  <2>1. Cmd!Factor(0) = 1
    BY <1>1 DEF Cmd!Factor, S
  <2> QED
    BY <1>1, <1>2, <1>3, <2>1 DEF Cmd!Least, Cmd!BackoffDelay
<1> HIDE DEF d
<1>6. /\ c.retries <= Cmd!MaxRetriesCeiling
      /\ d(1) = c.base
      /\ \A r \in 1..(2 * Bits) : /\ d(r) <= d(r + 1) /\ d(r) \in 0..c.cap
                                  /\ d(r + 1) = Cmd!Least(2 * d(r), c.cap)
  <2>1. \A r \in 1..(2 * Bits) : r \in Nat \ {0}
    OBVIOUS
  <2>2. c.retries <= Cmd!MaxRetriesCeiling
    BY <1>2 DEF Cmd!MaxRetriesCeiling
  <2> QED
    BY <1>4, <1>5, <2>1, <2>2
<1> QED
  BY <1>6 DEF Cmd!WaitsGrowToTheCap, c, d

-----------------------------------------------------------------------------
\* Each character has a width in bytes.
Characters(Chars) == \A c \in Chars : c.w \in Nat

\* The bytes of each first part of a text.
Sums(t, f) == f[0] = 0 /\ \A i \in 1..Len(t) : f[i] \in Nat /\ f[i] = f[i - 1] + t[i].w

\* What Bytes computes is such a sum.
LEMMA BytesAreSums ==
  ASSUME NEW Chars, Characters(Chars), NEW t \in Seq(Chars)
  PROVE  \E f : Sums(t, f) /\ Cmd!Bytes(t) = f[Len(t)]
<1> DEFINE m == Len(t)
           Is(f) == f = [i \in 0..m |-> IF i = 0 THEN 0 ELSE f[i - 1] + t[i].w]
           d == [i \in 1..m |-> [v \in Nat |-> v + t[i].w]]
<1>0. m \in Nat /\ \A i \in 1..m : t[i].w \in Nat
  BY DEF Characters
<1>1. d \in [1..m -> [Nat -> Nat]] /\ 0 \in Nat
  BY <1>0
<1>2. PICK f : Goes(f, Nat, 0, d, m)
  <2> HIDE DEF d, m
  <2> QED
    BY <1>0, <1>1, GoesExists
<1>3. \A i \in 1..m : f[i] = f[i - 1] + t[i].w
  <2>1. \A i \in 1..m : f[i - 1] \in Nat /\ f[i] = d[i][f[i - 1]]
    <3> HIDE DEF d, m
    <3> QED
      BY <1>0, <1>2 DEF Goes
  <2> QED
    BY <2>1
<1>4. Is(f)
  BY <1>2, <1>3 DEF Goes
<1> DEFINE g == CHOOSE g : Is(g)
<1>5. Is(g) /\ Cmd!Bytes(t) = g[m]
  BY <1>4, Zenon DEF Cmd!Bytes
<1> HIDE DEF g
<1>6. g[0] = 0 /\ \A i \in 1..m : g[i] = g[i - 1] + t[i].w
  BY <1>0, <1>5
<1>7. \A i \in 0..m : g[i] \in Nat
  <2> DEFINE T == {i \in Nat : i <= m /\ g[i] \notin Nat}
  <2> SUFFICES ASSUME T # {} PROVE FALSE
    BY <1>0
  <2>1. PICK i \in T : \A y \in T : i <= y
    <3>1. T \subseteq Nat
      OBVIOUS
    <3> HIDE DEF T
    <3> QED
      BY <3>1, Smallest
  <2>2. i # 0
    BY <1>6, <2>1
  <2>3. i - 1 \in Nat /\ i - 1 \notin T
    BY <2>1, <2>2
  <2>4. g[i - 1] \in Nat /\ i \in 1..m
    BY <2>1, <2>2, <2>3
  <2>5. t[i].w \in Nat /\ g[i] = g[i - 1] + t[i].w
    BY <1>0, <1>6, <2>4
  <2> QED
    BY <2>1, <2>4, <2>5
<1>8. Sums(t, g)
  BY <1>6, <1>7 DEF Sums
<1> QED
  BY <1>5, <1>8

\* A text has a number of bytes, the empty one none.
LEMMA BytesTyped ==
  ASSUME NEW Chars, Characters(Chars), NEW t \in Seq(Chars)
  PROVE  Cmd!Bytes(t) \in Nat /\ (t = <<>> => Cmd!Bytes(t) = 0)
<1>1. PICK f : Sums(t, f) /\ Cmd!Bytes(t) = f[Len(t)]
  BY BytesAreSums
<1> QED
  BY <1>1 DEF Sums

\* The cut is inside the text, and what is before it fits.
LEMMA ClampFits ==
  ASSUME NEW Chars, Characters(Chars), NEW t \in Seq(Chars), NEW n \in Nat
  PROVE  /\ Cmd!Clamp(t, n) \in 0..Len(t)
         /\ Cmd!Bytes(SubSeq(t, 1, Cmd!Clamp(t, n))) <= n
<1> DEFINE B(k) == Cmd!Bytes(SubSeq(t, 1, k))
           K == {k \in 0..Len(t) : B(k) <= n}
           T == {Len(t) - k : k \in K}
<1>1. 0 \in K
  <2>1. SubSeq(t, 1, 0) = <<>> /\ <<>> \in Seq(Chars)
    OBVIOUS
  <2>2. B(0) = 0
    BY <2>1, BytesTyped
  <2> QED
    BY <2>2
<1>2. T \subseteq Nat /\ T # {}
  BY <1>1
<1>3. PICK x \in T : \A y \in T : x <= y
  <2> HIDE DEF T
  <2> QED
    BY <1>2, Smallest
<1>4. PICK k \in K : x = Len(t) - k
  OBVIOUS
<1>5. ASSUME NEW j \in (k + 1)..Len(t) PROVE B(j) > n
  <2>1. j \notin K
    <3>1. Len(t) - j < Len(t) - k
      BY <1>5
    <3>2. j \in K => Len(t) - j \in T
      OBVIOUS
    <3> HIDE DEF T
    <3> QED
      BY <1>3, <1>4, <3>1, <3>2
  <2>2. SubSeq(t, 1, j) \in Seq(Chars)
    OBVIOUS
  <2>3. B(j) \in Nat
    BY <2>2, BytesTyped
  <2> QED
    BY <1>4, <2>1, <2>3
<1>6. \E q \in 0..Len(t) : B(q) <= n /\ \A j \in (q + 1)..Len(t) : B(j) > n
  BY <1>4, <1>5
<1> QED
  BY <1>6, Zenon DEF Cmd!Clamp

\* The two parts of a cut text.
Front(t, k) == SubSeq(t, 1, k)
Back(t, k) == SubSeq(t, k + 1, Len(t))

\* The parts of a text are texts.
LEMMA CutsTyped ==
  ASSUME NEW Chars, NEW t \in Seq(Chars), NEW k \in 0..Len(t)
  PROVE  Front(t, k) \in Seq(Chars) /\ Back(t, k) \in Seq(Chars)
  BY DEF Front, Back

\* A text cut in two is put together again.
LEMMA CutsJoin ==
  ASSUME NEW Chars, NEW t \in Seq(Chars), NEW k \in 0..Len(t)
  PROVE  Front(t, k) \o Back(t, k) = t
<1>1. Front(t, k) \o Back(t, k) = SubSeq(t, 1, Len(t))
  <2>1. 1 \in 1..Len(t) + 1 /\ k \in 1 - 1..Len(t) /\ Len(t) \in k..Len(t)
    OBVIOUS
  <2> QED
    BY <2>1, ConcatAdjacentSubSeq DEF Front, Back
<1> QED
  BY <1>1, SubSeqFull

\* So it is behind another one.
LEMMA CutsJoinBehind ==
  ASSUME NEW Chars, NEW t \in Seq(Chars), NEW s \in Seq(Chars), NEW k \in 0..Len(t)
  PROVE  (s \o Front(t, k)) \o Back(t, k) = s \o t
<1>1. (s \o Front(t, k)) \o Back(t, k) = s \o (Front(t, k) \o Back(t, k))
  BY CutsTyped
<1> QED
  BY <1>1, CutsJoin

\* What a prompt, its footer, a system prompt and its guard make together.
LEMMA PartsJoin ==
  ASSUME NEW Chars, NEW prompt \in Seq(Chars), NEW system \in Seq(Chars),
         Guard \in Seq(Chars), Footer \in Seq(Chars)
  PROVE  /\ prompt \o Footer \in Seq(Chars) /\ system \o Guard \in Seq(Chars)
         /\ Cmd!Envelope(prompt, system) = (system \o Guard) \o (prompt \o Footer)
<1>1. prompt \o Footer \in Seq(Chars) /\ system \o Guard \in Seq(Chars)
  OBVIOUS
<1> DEFINE front == system \o Guard
<1>2. front \in Seq(Chars)
  BY <1>1
<1> HIDE DEF front
<1>3. (front \o prompt) \o Footer = front \o (prompt \o Footer)
  BY <1>2, SMTT(20)
<1> QED
  BY <1>1, <1>3, Zenon DEF front, Cmd!Envelope, Cmd!EffectiveSystemPrompt

\* The cut of a text, for a text and what goes before it.
LEMMA CutAtClamp ==
  ASSUME NEW Chars, Characters(Chars), NEW t \in Seq(Chars), NEW s \in Seq(Chars),
         NEW n \in Nat, NEW k, k = Cmd!Clamp(t, n)
  PROVE  /\ Cmd!Bytes(Front(t, k)) \in Nat /\ Cmd!Bytes(Front(t, k)) <= n
         /\ (s \o Front(t, k)) \o Back(t, k) = s \o t
         /\ Back(t, k) = <<>> => Front(t, k) = t
<1>1. k \in 0..Len(t) /\ Cmd!Bytes(Front(t, k)) <= n
  BY ClampFits DEF Front
<1>2. Front(t, k) \in Seq(Chars) /\ Back(t, k) \in Seq(Chars)
  BY <1>1, CutsTyped
<1>3. ASSUME Back(t, k) = <<>> PROVE Front(t, k) = t
  <2>1. Front(t, k) \o <<>> = t
    BY <1>1, <1>3, CutsJoin
  <2> QED
    BY <1>2, <2>1
<1>4. Cmd!Bytes(Front(t, k)) \in Nat
  BY <1>2, BytesTyped
<1>5. (s \o Front(t, k)) \o Back(t, k) = s \o t
  BY <1>1, CutsJoinBehind
<1> QED
  BY <1>1, <1>3, <1>4, <1>5

\* Before anything else is said, a command has its launcher and no more.
Plain(o, program, model, allow) ==
  [err |-> FALSE, program |-> program, cli |-> o.cli, stdin |-> FALSE, p |-> <<>>, note |-> FALSE,
   system |-> <<>>, file |-> [some |-> FALSE], appended |-> FALSE, grants |-> {}, model |-> model,
   allowTools |-> allow]

\* That is what Base makes of the options.
LEMMA BaseShape ==
  ASSUME NEW o
  PROVE  \E program, model, allow : Cmd!Base(o) = Plain(o, program, model, allow)
  BY Zenon DEF Plain, Cmd!Base, Cmd!NoFile

\* A sequence before and behind nothing.
LEMMA NothingAdded ==
  ASSUME NEW Chars, NEW t \in Seq(Chars)
  PROVE  t \o <<>> = t /\ <<>> \o t = t
  OBVIOUS

\* A command before its directory is granted, by the two ways of a prompt, and with it.
Inline(o, full, guarded, sent) ==
  sent = [Cmd!Base(o) EXCEPT !.p = full,
            !.system = IF o.cli \in Cmd!ClaudeLike THEN guarded ELSE <<>>]
ByFile(o, full, guarded, sent) ==
  LET pay == Cmd!Payload(full, guarded)
  IN  sent = [Cmd!Base(o) EXCEPT !.p = pay.inline, !.note = pay.note,
                !.file = [some |-> TRUE, system |-> pay.system, rest |-> pay.rest],
                !.appended = o.cli \in Cmd!ClaudeLike,
                !.grants = IF o.cli \in Cmd!ClaudeLike THEN {} ELSE {"output dir"}]
Granted(sent, more, cmd) == cmd = [sent EXCEPT !.grants = @ \cup more]

\* What has arrived whole of a prompt, when a command is made of it and read.
Arrived(cmd, o, read, full, whole) ==
  /\ read = whole \/ (/\ o.cli \notin Cmd!ClaudeLike \cup {"codex"} /\ read = full
                      /\ Cmd!Bytes(full) <= IF cmd.file.some THEN Preview ELSE MaxInline)
  /\ Cmd!Bytes(cmd.p) + Cmd!Bytes(cmd.system) <= MaxInline
  /\ cmd.file.some => Cmd!Bytes(cmd.p) <= Preview
  /\ \A d \in cmd.grants \ {"output dir"} : Cmd!Absolute(d)

\* A command that is refused says so; ...
LEMMA Refused ==
  ASSUME NEW o, NEW cmd, cmd = [Cmd!Base(o) EXCEPT !.err = TRUE]
  PROVE  cmd.err
<1>1. PICK program, model, allow : Cmd!Base(o) = Plain(o, program, model, allow)
  BY BaseShape
<1> QED
  BY <1>1 DEF Plain

\* ... one that codex reads from its standard input, ...
LEMMA CodexArrives ==
  ASSUME NEW Chars, Characters(Chars), MaxInline \in Nat, NEW o, NEW read, NEW full, NEW whole, read = whole,
         NEW cmd, cmd = [Cmd!Base(o) EXCEPT !.stdin = TRUE]
  PROVE  cmd.err = FALSE /\ cmd.stdin = TRUE /\ Arrived(cmd, o, read, full, whole)
<1>1. PICK program, model, allow : Cmd!Base(o) = Plain(o, program, model, allow)
  BY BaseShape
<1>2. /\ cmd.stdin = TRUE /\ cmd.err = FALSE /\ cmd.p = <<>> /\ cmd.system = <<>>
      /\ cmd.grants = {} /\ cmd.file = [some |-> FALSE]
  BY <1>1 DEF Plain
<1>3. cmd.file.some = FALSE
  BY <1>2
<1>4. Cmd!Bytes(<<>>) = 0
  BY BytesTyped, EmptySeq
<1>5. Cmd!Bytes(cmd.p) + Cmd!Bytes(cmd.system) <= MaxInline
  BY <1>2, <1>4
<1> QED
  BY <1>2, <1>3, <1>5, Zenon DEF Arrived

\* ... one that carries its prompt, and with it the system prompt if its program takes one, ...
LEMMA InlineArrives ==
  ASSUME NEW Chars, Characters(Chars), MaxInline \in Nat, NEW o, o.cli # "codex",
         NEW prompt, NEW system, NEW full \in Seq(Chars), NEW guarded \in Seq(Chars),
         Cmd!Bytes(full) + Cmd!Bytes(guarded) <= MaxInline,
         NEW cwd, Cmd!Absolute(cwd), NEW more, more \subseteq {cwd}, NEW sent, NEW cmd,
         Inline(o, full, guarded, sent), Granted(sent, more, cmd)
  PROVE  cmd.err = FALSE /\ Arrived(cmd, o, Cmd!Read(cmd, prompt, system), full, guarded \o full)
<1> DEFINE sys == IF o.cli \in Cmd!ClaudeLike THEN guarded ELSE <<>>
           read == Cmd!Read(cmd, prompt, system)
<1>1. PICK program, model, allow : Cmd!Base(o) = Plain(o, program, model, allow)
  BY BaseShape
<1>2. sent = [Cmd!Base(o) EXCEPT !.p = full, !.system = sys]
  BY DEF Inline
<1> HIDE DEF sys
<1>3. /\ cmd.stdin = FALSE /\ cmd.err = FALSE /\ cmd.p = full /\ cmd.system = sys
      /\ cmd.grants = more /\ cmd.file = [some |-> FALSE]
  <2>1. sent = [Plain(o, program, model, allow) EXCEPT !.p = full, !.system = sys]
    BY <1>1, <1>2
  <2>2. cmd = [Plain(o, program, model, allow) EXCEPT !.p = full, !.system = sys, !.grants = {} \cup more]
    BY <2>1 DEF Plain, Granted
  <2>3. {} \cup more = more
    OBVIOUS
  <2> QED
    BY <2>2, <2>3 DEF Plain
<1>4. cmd.file.some = FALSE
  BY <1>3
<1>5. \A d \in cmd.grants \ {"output dir"} : Cmd!Absolute(d)
  BY <1>3
<1>6. Cmd!Bytes(<<>>) = 0 /\ Cmd!Bytes(full) \in Nat /\ Cmd!Bytes(guarded) \in Nat
  BY BytesTyped, EmptySeq
<1>7. read = (sys \o full) \o <<>>
  BY <1>3, <1>4 DEF Cmd!Read
<1> HIDE DEF read
<1>8. CASE o.cli \in Cmd!ClaudeLike
  <2>1. sys = guarded
    BY <1>8 DEF sys
  <2>2. (guarded \o full) \o <<>> = guarded \o full
    BY NothingAdded
  <2>3. Cmd!Bytes(cmd.p) + Cmd!Bytes(cmd.system) <= MaxInline
    BY <1>3, <2>1
  <2> QED
    BY <1>3, <1>4, <1>5, <1>7, <2>1, <2>2, <2>3, Zenon DEF Arrived, read
<1>9. CASE o.cli \notin Cmd!ClaudeLike
  <2>1. sys = <<>>
    BY <1>9 DEF sys
  <2>2. (<<>> \o full) \o <<>> = full
    BY NothingAdded
  <2>3. Cmd!Bytes(full) <= MaxInline
    BY <1>6
  <2>4. Cmd!Bytes(cmd.p) + Cmd!Bytes(cmd.system) <= MaxInline
    BY <1>3, <1>6, <2>1, <2>3
  <2>5. o.cli \notin Cmd!ClaudeLike \cup {"codex"}
    BY <1>9
  <2> QED
    BY <1>3, <1>4, <1>5, <1>7, <2>1, <2>2, <2>3, <2>4, <2>5, Zenon DEF Arrived, read
<1> QED
  BY <1>8, <1>9

\* ... and one that carries the first part of it and names the file that holds the rest.
LEMMA FileArrives ==
  ASSUME NEW Chars, Characters(Chars), MaxInline \in Nat, Preview \in Nat, Preview <= MaxInline,
         NEW o, o.cli # "codex", NEW prompt, NEW system, NEW full \in Seq(Chars), NEW guarded \in Seq(Chars),
         NEW cwd, Cmd!Absolute(cwd), NEW more, more \subseteq {cwd}, NEW sent, NEW cmd,
         ByFile(o, full, guarded, sent), Granted(sent, more, cmd)
  PROVE  cmd.err = FALSE /\ Arrived(cmd, o, Cmd!Read(cmd, prompt, system), full, guarded \o full)
<1> DEFINE k == Cmd!Clamp(full, Preview)
           p == Front(full, k)
           rest == Back(full, k)
           note == rest # <<>>
           claude == o.cli \in Cmd!ClaudeLike
           grants == IF claude THEN {} ELSE {"output dir"}
           file == [some |-> TRUE, system |-> guarded, rest |-> rest]
           read == Cmd!Read(cmd, prompt, system)
           pay == Cmd!Payload(full, guarded)
<1>1. PICK program, model, allow : Cmd!Base(o) = Plain(o, program, model, allow)
  BY BaseShape
<1>2. pay = [inline |-> p, note |-> note, system |-> guarded, rest |-> rest]
  BY Zenon DEF Cmd!Payload, Front, Back
<1>3. /\ Cmd!Bytes(p) \in Nat /\ Cmd!Bytes(p) <= Preview
      /\ (guarded \o p) \o rest = guarded \o full
      /\ rest = <<>> => p = full
  BY CutAtClamp
<1> HIDE DEF k, p, rest, note, claude
<1>4. pay.inline = p /\ pay.note = note /\ pay.system = guarded /\ pay.rest = rest
  BY <1>2
<1>5. sent = [Cmd!Base(o) EXCEPT !.p = p, !.note = note, !.file = file, !.appended = claude,
                !.grants = grants]
  BY <1>4, Zenon DEF claude, ByFile
<1> HIDE DEF grants, file
<1>6. /\ cmd.stdin = FALSE /\ cmd.err = FALSE /\ cmd.p = p /\ cmd.system = <<>>
      /\ cmd.note = note /\ cmd.file = file /\ cmd.appended = claude
      /\ cmd.grants = grants \cup more
  <2>1. sent = [Plain(o, program, model, allow) EXCEPT !.p = p, !.note = note, !.file = file,
                  !.appended = claude, !.grants = grants]
    BY <1>1, <1>5
  <2>2. cmd = [Plain(o, program, model, allow) EXCEPT !.p = p, !.note = note, !.file = file,
                 !.appended = claude, !.grants = grants \cup more]
    BY <2>1 DEF Plain, Granted
  <2> QED
    BY <2>2 DEF Plain
<1>7. cmd.file.some = TRUE /\ cmd.file.system = guarded /\ cmd.file.rest = rest
  <2>1. cmd.file = file
    BY <1>6
  <2>2. file.some = TRUE /\ file.system = guarded /\ file.rest = rest
    BY DEF file
  <2> QED
    BY <2>1, <2>2
<1>8. \A d \in cmd.grants \ {"output dir"} : Cmd!Absolute(d)
  BY <1>6 DEF grants
<1>9. Cmd!Bytes(cmd.p) + Cmd!Bytes(cmd.system) <= MaxInline /\ Cmd!Bytes(cmd.p) <= Preview
  <2>1. Cmd!Bytes(<<>>) = 0
    BY BytesTyped, EmptySeq
  <2>2. cmd.p = p /\ cmd.system = <<>>
    BY <1>6
  <2> QED
    BY <1>3, <2>1, <2>2
<1>10. CASE claude \/ note
  <2>1. cmd.appended \/ ("output dir" \in cmd.grants /\ cmd.note)
    BY <1>6, <1>10 DEF grants
  <2>2. read = (guarded \o p) \o rest
    BY <1>6, <1>7, <2>1, Zenon DEF Cmd!Read
  <2> QED
    BY <1>3, <1>6, <1>7, <1>8, <1>9, <2>2, Zenon DEF Arrived
<1>11. CASE ~claude /\ ~note
  <2>1. p = full /\ rest = <<>>
    BY <1>3, <1>11 DEF note
  <2>2. read = (<<>> \o p) \o <<>>
    BY <1>6, <1>7, <1>11, Zenon DEF Cmd!Read
  <2>3. (<<>> \o full) \o <<>> = full
    BY NothingAdded
  <2>4. o.cli \notin Cmd!ClaudeLike \cup {"codex"}
    BY <1>11 DEF claude
  <2> QED
    BY <1>3, <1>6, <1>7, <1>8, <1>9, <2>1, <2>2, <2>3, <2>4, Zenon DEF Arrived
<1> QED
  BY <1>10, <1>11

\* A disk gives a directory its absolute name, or none.
Canonical(disk) == \A d \in DOMAIN disk : disk[d] # "" => Cmd!Absolute(disk[d])

\* Whatever is asked, of whichever program, in whichever directory: a command refuses or
\* the whole of the system prompt, its guard, the prompt and its footer reach the agent,
\* on the command line, through the file or on standard input, within the limits of the
\* command line, and only absolute directories are granted (build_agent_command). For
\* any alphabet, guard, footer and limits with the preview within the inline limit.
THEOREM PromptsArrive ==
  ASSUME NEW Chars, Characters(Chars), Guard \in Seq(Chars), Footer \in Seq(Chars),
         MaxInline \in Nat, Preview \in Nat, Preview <= MaxInline,
         NEW o, NEW prompt \in Seq(Chars), NEW system \in Seq(Chars), NEW given, NEW own,
         NEW disk, Canonical(disk)
  PROVE  Cmd!PromptArrivesWhole(o, prompt, system, given, own, disk)
<1> DEFINE full == prompt \o Footer
           guarded == system \o Guard
           cwd == Cmd!ResolveCwd(given, own, disk)
           cmd == Cmd!StepCommand(o, prompt, system, given, own, disk)
           read == Cmd!Read(cmd, prompt, system)
           bad == o.launcher # "" /\ ~Cmd!Absolute(o.launcher)
           more == IF o.addWorkingDir THEN {cwd} ELSE {}
           sent == Cmd!Transport(o, full, guarded)
<1>1. full \in Seq(Chars) /\ guarded \in Seq(Chars)
  BY PartsJoin
<1>2. Cmd!Envelope(prompt, system) = guarded \o full
  BY PartsJoin
<1>3. cwd # "" => Cmd!Absolute(cwd)
  BY DEF Cmd!ResolveCwd, Canonical
<1>4. more \subseteq {cwd}
  OBVIOUS
<1>5. CASE cwd = "" \/ bad
  <2>1. cmd = [Cmd!Base(o) EXCEPT !.err = TRUE]
    BY <1>5, Zenon DEF Cmd!StepCommand, Cmd!BuildAgentCommand
  <2>2. cmd.err
    <3> HIDE DEF cmd
    <3> QED
      BY <2>1, Refused
  <2> QED
    BY <1>5, <2>2, Zenon DEF Cmd!PromptArrivesWhole
<1>6. CASE cwd # "" /\ ~bad
  <2>1. SUFFICES cmd.err = FALSE /\ Arrived(cmd, o, read, full, guarded \o full)
    BY <1>2, Zenon DEF Cmd!PromptArrivesWhole, Arrived
  <2>2. CASE o.cli = "codex"
    <3>1. cmd = [Cmd!Base(o) EXCEPT !.stdin = TRUE]
      BY <1>6, <2>2, Zenon DEF Cmd!StepCommand, Cmd!BuildAgentCommand
    <3>2. cmd.stdin = TRUE => read = guarded \o full
      BY <1>2, Zenon DEF Cmd!Read
    <3> HIDE DEF cmd, full, guarded, read
    <3> QED
      BY <3>1, <3>2, CodexArrives
  <2>3. CASE o.cli # "codex"
    <3>1. Granted(sent, more, cmd)
      BY <1>6, <2>3, Zenon
         DEF Granted, Cmd!StepCommand, Cmd!BuildAgentCommand, Cmd!EffectiveSystemPrompt
    <3>2. CASE Cmd!FileBacked(full, guarded)
      <4>1. ByFile(o, full, guarded, sent)
        BY <3>2, Zenon DEF Cmd!Transport, ByFile
      <4> HIDE DEF sent, cmd, full, guarded, more, cwd
      <4> QED
        BY <1>1, <1>3, <1>4, <1>6, <2>3, <3>1, <4>1, FileArrives
    <3>3. CASE ~Cmd!FileBacked(full, guarded)
      <4>1. Inline(o, full, guarded, sent)
        BY <3>3, Zenon DEF Cmd!Transport, Inline
      <4> HIDE DEF sent, cmd, full, guarded, more, cwd
      <4>2. Cmd!Bytes(full) \in Nat /\ Cmd!Bytes(guarded) \in Nat
        BY <1>1, BytesTyped
      <4>3. ~(Cmd!Bytes(full) + Cmd!Bytes(guarded) > MaxInline)
        BY <3>3, Zenon DEF Cmd!FileBacked
      <4>4. Cmd!Bytes(full) + Cmd!Bytes(guarded) <= MaxInline
        BY <4>2, <4>3
      <4> QED
        BY <1>1, <1>3, <1>4, <1>6, <2>3, <3>1, <4>1, <4>4, InlineArrives
    <3> QED
      BY <3>2, <3>3
  <2> QED
    BY <2>2, <2>3
<1> QED
  BY <1>5, <1>6
-----------------------------------------------------------------------------
(* What is taken from an answer: the strategies of parse_json_output, and the *)
(* texts that are cut to a number of bytes.                                   *)

ScanState == [n : Nat, depth : Int, quoted : BOOLEAN, escape : BOOLEAN, done : BOOLEAN]

\* A symbol makes the scan one longer, or it has ended.
LEMMA ScanStep ==
  ASSUME NEW s \in ScanState, NEW x, NEW open, NEW close
  PROVE  /\ Ans!StepOfScan(s, x, open, close) \in ScanState
         /\ Ans!StepOfScan(s, x, open, close).n \in {s.n, s.n + 1}
<1> DEFINE quoted == IF (x = "quote" /\ ~s.escape) \/ (x = "key:" /\ s.escape) THEN ~s.quoted ELSE s.quoted
           counts == ~s.quoted /\ ~s.escape
           depth == s.depth + IF ~counts THEN 0 ELSE IF x = open THEN 1 ELSE IF x = close THEN -1 ELSE 0
           escape == x = "\\" /\ ~s.escape
           done == counts /\ x = close /\ depth = 0
           after == [n |-> s.n + 1, depth |-> depth, quoted |-> quoted, escape |-> escape, done |-> done]
<1>1. Ans!StepOfScan(s, x, open, close) = IF s.done THEN s ELSE after
  BY Zenon DEF Ans!StepOfScan
<1>2. s.n + 1 \in Nat /\ depth \in Int
  BY DEF ScanState
<1>3. quoted \in BOOLEAN /\ escape \in BOOLEAN /\ done \in BOOLEAN
  <2> HIDE DEF depth
  <2> QED
    BY DEF ScanState
<1> HIDE DEF quoted, counts, depth, escape, done
<1>4. after \in ScanState /\ after.n = s.n + 1
  BY <1>2, <1>3 DEF ScanState
<1> HIDE DEF after
<1> QED
  BY <1>1, <1>4

\* A scan does not go beyond the text.
LEMMA ScanStays ==
  ASSUME NEW Symbols, NEW t \in Seq(Symbols), NEW open, NEW close
  PROVE  Ans!Scan(t, open, close).n \in 0..Len(t)
<1> DEFINE m == Len(t)
           Is(f) == f = [n \in 0..m |-> IF n = 0 THEN Ans!Unread ELSE Ans!StepOfScan(f[n - 1], t[n], open, close)]
           d == [i \in 1..m |-> [s \in ScanState |-> Ans!StepOfScan(s, t[i], open, close)]]
<1>0. m \in Nat
  OBVIOUS
<1>1. d \in [1..m -> [ScanState -> ScanState]]
  BY <1>0, ScanStep
<1>2. Ans!Unread \in ScanState /\ Ans!Unread.n = 0
  BY DEF Ans!Unread, ScanState
<1>3. PICK f : Goes(f, ScanState, Ans!Unread, d, m)
  <2> HIDE DEF d, m
  <2> QED
    BY <1>0, <1>1, <1>2, GoesExists
<1>4. \A i \in 1..m : f[i] = Ans!StepOfScan(f[i - 1], t[i], open, close)
  <2>1. \A i \in 1..m : f[i - 1] \in ScanState /\ f[i] = d[i][f[i - 1]]
    <3> HIDE DEF d, m
    <3> QED
      BY <1>0, <1>3 DEF Goes
  <2> QED
    BY <2>1
<1>5. Is(f)
  BY <1>3, <1>4 DEF Goes
<1> DEFINE g == CHOOSE g : Is(g)
<1>6. Is(g) /\ Ans!Scan(t, open, close) = g[m]
  BY <1>5, Zenon DEF Ans!Scan
<1> HIDE DEF g
<1>7. g[0] = Ans!Unread /\ \A i \in 1..m : g[i] = Ans!StepOfScan(g[i - 1], t[i], open, close)
  BY <1>0, <1>6
<1>8. \A i \in 0..m : g[i] \in ScanState /\ g[i].n \in 0..i
  <2> DEFINE Good(i) == g[i] \in ScanState /\ g[i].n \in 0..i
             T == {i \in Nat : i <= m /\ ~Good(i)}
  <2> SUFFICES ASSUME T # {} PROVE FALSE
    BY <1>0
  <2>1. PICK i \in T : \A y \in T : i <= y
    <3>1. T \subseteq Nat
      OBVIOUS
    <3> HIDE DEF T
    <3> QED
      BY <3>1, Smallest
  <2>2. i # 0
    BY <1>2, <1>7, <2>1
  <2>3. i - 1 \in Nat /\ i - 1 \notin T
    BY <2>1, <2>2
  <2>4. Good(i - 1) /\ i \in 1..m
    BY <2>1, <2>2, <2>3
  <2>5. g[i] = Ans!StepOfScan(g[i - 1], t[i], open, close)
    BY <1>7, <2>4
  <2>6. g[i] \in ScanState /\ g[i].n \in {g[i - 1].n, g[i - 1].n + 1}
    BY <2>4, <2>5, ScanStep
  <2>7. Good(i)
    BY <2>4, <2>6
  <2> QED
    BY <2>1, <2>7
<1> QED
  BY <1>0, <1>6, <1>8

\* The least of a set of numbers.
LEMMA EarliestIsLeast ==
  ASSUME NEW I, I \subseteq Nat, I # {}
  PROVE  Ans!Earliest(I) \in I /\ \A j \in I : Ans!Earliest(I) <= j
<1>1. \E i \in I : \A j \in I : i <= j
  BY Smallest
<1> QED
  BY <1>1, Zenon DEF Ans!Earliest

\* A part of a part of a text is a part of it.
LEMMA PartsOfParts ==
  ASSUME NEW Symbols, NEW t \in Seq(Symbols), NEW a \in 1..(Len(t) + 1), NEW b \in 0..(Len(t) - a + 1)
  PROVE  SubSeq(SubSeq(t, a, Len(t)), 1, b) = SubSeq(t, a, a + b - 1)
  OBVIOUS

\* What stands between the fences of an answer is a part of it.
LEMMA FencedWithin ==
  ASSUME NEW Symbols, NEW t \in Seq(Symbols)
  PROVE  Ans!Fenced(t) = Ans!NoAnswer \/ Ans!Within(Ans!Fenced(t), t)
<1> DEFINE F == Ans!PositionsOf(t, "fence")
           i == Ans!Earliest(F)
           j == Ans!Earliest(F \ {i})
           inside == SubSeq(t, i + 1, j - 1)
<1> SUFFICES ASSUME F # {}, F # {i} PROVE Ans!Within(Ans!Fenced(t), t)
  BY DEF Ans!Fenced
<1>1. F \subseteq 1..Len(t) /\ Len(t) \in Nat
  BY DEF Ans!PositionsOf
<1> HIDE DEF F
<1>2. i \in F /\ \A k \in F : i <= k
  <2>1. F \subseteq Nat
    BY <1>1
  <2> QED
    BY <2>1, EarliestIsLeast
<1> HIDE DEF i
<1>3. j \in F \ {i}
  <2>1. F \ {i} \subseteq Nat /\ F \ {i} # {}
    BY <1>1, <1>2
  <2> QED
    BY <2>1, EarliestIsLeast
<1> HIDE DEF j
<1>4. i \in 1..Len(t) /\ j \in 1..Len(t) /\ i < j
  BY <1>1, <1>2, <1>3
<1>5. Ans!Within(inside, t)
  <2>1. i \in 0..Len(t) /\ j - 1 \in 0..Len(t)
    BY <1>1, <1>4
  <2> QED
    BY <2>1, Zenon DEF Ans!Within
<1>6. inside # <<>> => Ans!Within(Tail(inside), t)
  <2> SUFFICES ASSUME inside # <<>> PROVE Ans!Within(Tail(inside), t)
    OBVIOUS
  <2>1. i + 1 <= j - 1
    BY <1>4
  <2>2. Tail(inside) = SubSeq(t, (i + 1) + 1, j - 1)
    BY <1>4, <2>1
  <2>3. i + 1 \in 0..Len(t) /\ j - 1 \in 0..Len(t)
    BY <1>1, <1>4
  <2> QED
    BY <2>2, <2>3, Zenon DEF Ans!Within
<1>7. Ans!Fenced(t) = IF inside # <<>> /\ inside[1] = "json" THEN Tail(inside) ELSE inside
  BY Zenon DEF Ans!Fenced, F, i, j
<1> HIDE DEF inside
<1> QED
  BY <1>5, <1>6, <1>7

\* What stands between two brackets of an answer is a part of it.
LEMMA BlockWithin ==
  ASSUME NEW Symbols, NEW t \in Seq(Symbols), NEW open, NEW close
  PROVE  Ans!Block(t, open, close) = Ans!NoAnswer \/ Ans!Within(Ans!Block(t, open, close), t)
<1> DEFINE I == Ans!PositionsOf(t, open)
           i == Ans!Earliest(I)
           rest == SubSeq(t, i, Len(t))
           n == Ans!Scan(rest, open, close).n
<1>1. I \subseteq 1..Len(t) /\ Len(t) \in Nat
  BY DEF Ans!PositionsOf
<1> SUFFICES ASSUME I # {} PROVE Ans!Within(SubSeq(rest, 1, n), t) \/ Ans!Block(t, open, close) = Ans!NoAnswer
  BY Zenon DEF Ans!Block
<1> HIDE DEF I
<1>2. i \in 1..Len(t)
  <2>1. I \subseteq Nat
    BY <1>1
  <2>2. i \in I
    BY <2>1, EarliestIsLeast
  <2> QED
    BY <1>1, <2>2
<1> HIDE DEF i
<1>3. rest \in Seq(Symbols) /\ Len(rest) = Len(t) - i + 1
  BY <1>2
<1>4. n \in 0..(Len(t) - i + 1)
  <2> HIDE DEF rest
  <2> QED
    BY <1>3, ScanStays
<1> HIDE DEF n
<1>5. SubSeq(rest, 1, n) = SubSeq(t, (i - 1) + 1, i + n - 1)
  <2>1. SubSeq(rest, 1, n) = SubSeq(t, i, i + n - 1)
    BY <1>2, <1>4, PartsOfParts
  <2>2. (i - 1) + 1 = i
    BY <1>2
  <2> QED
    BY <2>1, <2>2
<1>6. i - 1 \in 0..Len(t) /\ i + n - 1 \in 0..Len(t)
  BY <1>1, <1>2, <1>4
<1> HIDE DEF rest
<1> QED
  BY <1>5, <1>6, Zenon DEF Ans!Within

\* Whatever an agent answers, what the runner takes for its JSON is JSON and stands in the
\* answer (parse_json_output).
THEOREM JsonIsTaken ==
  ASSUME NEW Symbols, NEW t \in Seq(Symbols)
  PROVE  Ans!TakenFromTheAnswer(t)
<1> DEFINE pieces == <<t, Ans!Fenced(t), Ans!Block(t, "{", "}"), Ans!Block(t, "[", "]")>>
           I == {i \in 1..4 : Ans!IsJson(pieces[i])}
           v == Ans!ParseJsonOutput(t)
<1>1. Ans!Within(t, t)
  <2>1. t = SubSeq(t, 0 + 1, Len(t)) /\ 0 \in 0..Len(t) /\ Len(t) \in 0..Len(t)
    OBVIOUS
  <2> QED
    BY <2>1, Zenon DEF Ans!Within
<1>2. \A i \in 1..4 : pieces[i] = Ans!NoAnswer \/ Ans!Within(pieces[i], t)
  <2>1. /\ pieces[1] = t /\ pieces[2] = Ans!Fenced(t)
        /\ pieces[3] = Ans!Block(t, "{", "}") /\ pieces[4] = Ans!Block(t, "[", "]")
    OBVIOUS
  <2> HIDE DEF pieces
  <2>2. \A i \in 1..4 : i = 1 \/ i = 2 \/ i = 3 \/ i = 4
    OBVIOUS
  <2> QED
    BY <1>1, <2>1, <2>2, FencedWithin, BlockWithin
<1>3. v = IF I = {} THEN Ans!NoAnswer ELSE pieces[Ans!Earliest(I)]
  BY Zenon DEF Ans!ParseJsonOutput
<1>4. I # {} => Ans!Earliest(I) \in 1..4 /\ Ans!IsJson(pieces[Ans!Earliest(I)])
  <2> SUFFICES ASSUME I # {} PROVE Ans!Earliest(I) \in I
    OBVIOUS
  <2>1. I \subseteq Nat
    <3> HIDE DEF pieces
    <3> QED
      OBVIOUS
  <2> HIDE DEF I
  <2> QED
    BY <2>1, EarliestIsLeast
<1> HIDE DEF pieces, I
<1>5. v = Ans!NoAnswer \/ (Ans!IsJson(v) /\ Ans!Within(v, t))
  <2> HIDE DEF v
  <2> QED
    BY <1>2, <1>3, <1>4
<1> QED
  BY <1>5, Zenon DEF Ans!TakenFromTheAnswer

\* The widths of each first part of a text.
Widths(t, f) == f[0] = 0 /\ \A i \in 1..Len(t) : f[i] \in Nat /\ f[i] = f[i - 1] + t[i]

\* What Width computes is such a sum.
LEMMA WidthIsASum ==
  ASSUME NEW t \in Seq(Nat)
  PROVE  \E f : Widths(t, f) /\ Ans!Width(t) = f[Len(t)]
<1> DEFINE m == Len(t)
           Is(f) == f = [n \in 0..m |-> IF n = 0 THEN 0 ELSE f[n - 1] + t[n]]
           d == [i \in 1..m |-> [v \in Nat |-> v + t[i]]]
<1>0. m \in Nat /\ \A i \in 1..m : t[i] \in Nat
  OBVIOUS
<1>1. d \in [1..m -> [Nat -> Nat]] /\ 0 \in Nat
  BY <1>0
<1>2. PICK f : Goes(f, Nat, 0, d, m)
  <2> HIDE DEF d, m
  <2> QED
    BY <1>0, <1>1, GoesExists
<1>3. \A i \in 1..m : f[i] = f[i - 1] + t[i]
  <2>1. \A i \in 1..m : f[i - 1] \in Nat /\ f[i] = d[i][f[i - 1]]
    <3> HIDE DEF d, m
    <3> QED
      BY <1>0, <1>2 DEF Goes
  <2> QED
    BY <2>1
<1>4. Is(f)
  BY <1>2, <1>3 DEF Goes
<1> DEFINE g == CHOOSE g : Is(g)
<1>5. Is(g) /\ Ans!Width(t) = g[m]
  BY <1>4, Zenon DEF Ans!Width
<1> HIDE DEF g
<1>6. g[0] = 0 /\ \A i \in 1..m : g[i] = g[i - 1] + t[i]
  <2>1. g = [i \in 0..m |-> IF i = 0 THEN 0 ELSE g[i - 1] + t[i]]
    BY <1>5
  <2> HIDE DEF m
  <2>2. 0 \in 0..m /\ \A i \in 1..m : i \in 0..m /\ i # 0
    BY <1>0
  <2> QED
    BY <2>1, <2>2
<1>7. \A i \in 0..m : g[i] \in Nat
  <2> DEFINE T == {i \in Nat : i <= m /\ g[i] \notin Nat}
  <2> SUFFICES ASSUME T # {} PROVE FALSE
    BY <1>0
  <2>1. PICK i \in T : \A y \in T : i <= y
    <3>1. T \subseteq Nat
      OBVIOUS
    <3> HIDE DEF T
    <3> QED
      BY <3>1, Smallest
  <2>2. i # 0
    BY <1>6, <2>1
  <2>3. i - 1 \in Nat /\ i - 1 \notin T
    BY <2>1, <2>2
  <2>4. g[i - 1] \in Nat /\ i \in 1..m
    BY <2>1, <2>2, <2>3
  <2>5. t[i] \in Nat /\ g[i] = g[i - 1] + t[i]
    BY <1>0, <1>6, <2>4
  <2> QED
    BY <2>1, <2>4, <2>5
<1>8. Widths(t, g)
  BY <1>6, <1>7 DEF Widths
<1> QED
  BY <1>5, <1>8

\* A first part of a text is as wide as the sum says at its end.
LEMMA WidthOfFront ==
  ASSUME NEW t \in Seq(Nat), NEW f, Widths(t, f), NEW k \in 0..Len(t)
  PROVE  Ans!Width(SubSeq(t, 1, k)) = f[k]
<1> DEFINE u == SubSeq(t, 1, k)
<1>1. u \in Seq(Nat) /\ Len(u) = k /\ \A i \in 1..k : u[i] = t[i]
  OBVIOUS
<1> HIDE DEF u
<1>2. PICK g : Widths(u, g) /\ Ans!Width(u) = g[k]
  BY <1>1, WidthIsASum
<1>3. \A i \in 0..k : g[i] = f[i]
  <2> DEFINE T == {i \in Nat : i <= k /\ g[i] # f[i]}
  <2> SUFFICES ASSUME T # {} PROVE FALSE
    OBVIOUS
  <2>1. PICK i \in T : \A y \in T : i <= y
    <3>1. T \subseteq Nat
      OBVIOUS
    <3> HIDE DEF T
    <3> QED
      BY <3>1, Smallest
  <2>2. i # 0
    BY <1>2, <2>1 DEF Widths
  <2>3. i - 1 \in Nat /\ i - 1 \notin T /\ i \in 1..k /\ i \in 1..Len(t)
    BY <2>1, <2>2
  <2>4. g[i - 1] = f[i - 1]
    BY <2>1, <2>3
  <2>5. g[i] = g[i - 1] + u[i] /\ f[i] = f[i - 1] + t[i]
    BY <1>1, <1>2, <2>3 DEF Widths
  <2> QED
    BY <1>1, <2>1, <2>3, <2>4, <2>5
<1> QED
  BY <1>2, <1>3 DEF u

\* What stands where in a text the other way round.
LEMMA ReverseReads ==
  ASSUME NEW t \in Seq(Nat)
  PROVE  /\ Ans!Reverse(t) \in Seq(Nat) /\ Len(Ans!Reverse(t)) = Len(t)
         /\ \A i \in 1..Len(t) : Ans!Reverse(t)[i] = t[(Len(t) - i) + 1]
<1> DEFINE m == Len(t)
           u == [i \in 1..m |-> t[(m - i) + 1]]
<1>1. m \in Nat /\ \A i \in 1..m : t[i] \in Nat
  OBVIOUS
<1>2. \A i \in 1..m : (m - i) + 1 \in 1..m
  BY <1>1
<1>3. u \in [1..m -> Nat]
  <2> HIDE DEF m
  <2> QED
    BY <1>1, <1>2
<1>4. \A i \in 1..m : u[i] = t[(m - i) + 1]
  OBVIOUS
<1>5. Ans!Reverse(t) = u
  BY Zenon DEF Ans!Reverse
<1> HIDE DEF u, m
<1>6. u \in Seq(Nat) /\ Len(u) = m
  BY <1>1, <1>3
<1> QED
  BY <1>4, <1>5, <1>6 DEF m

\* A text is as wide as it is the other way round.
LEMMA WidthOfReverse ==
  ASSUME NEW t \in Seq(Nat)
  PROVE  Ans!Width(Ans!Reverse(t)) = Ans!Width(t)
<1> DEFINE u == Ans!Reverse(t)
           m == Len(t)
<1>1. u \in Seq(Nat) /\ Len(u) = m /\ \A i \in 1..m : u[i] = t[(m - i) + 1]
  BY ReverseReads, Zenon
<1> HIDE DEF u
<1>2. PICK f : Widths(t, f) /\ Ans!Width(t) = f[m]
  BY WidthIsASum
<1>3. PICK g : Widths(u, g) /\ Ans!Width(u) = g[m]
  BY <1>1, WidthIsASum
<1>4. m \in Nat /\ \A i \in 0..m : f[i] \in Nat
  BY <1>2 DEF Widths
<1>5. \A i \in 0..m : g[i] = f[m] - f[m - i]
  <2> DEFINE T == {i \in Nat : i <= m /\ g[i] # f[m] - f[m - i]}
  <2>0. \A i \in 0..m : i \in Nat /\ i <= m
    <3> HIDE DEF m
    <3> QED
      BY <1>4
  <2> SUFFICES ASSUME T # {} PROVE FALSE
    <3> HIDE DEF m
    <3> QED
      BY <2>0
  <2>1. PICK i \in T : \A y \in T : i <= y
    <3>1. T \subseteq Nat
      OBVIOUS
    <3> HIDE DEF T
    <3> QED
      BY <3>1, Smallest
  <2>2. i # 0
    <3>1. g[0] = 0 /\ f[m - 0] = f[m] /\ f[m] \in Nat
      BY <1>3, <1>4 DEF Widths
    <3> QED
      BY <2>1, <3>1
  <2>3. i - 1 \in Nat /\ i - 1 \notin T /\ i \in 1..m
    BY <2>1, <2>2
  <2>4. g[i - 1] = f[m] - f[m - (i - 1)]
    BY <2>1, <2>3
  <2>5. g[i] = g[i - 1] + u[i] /\ u[i] = t[(m - i) + 1]
    BY <1>1, <1>3, <2>3 DEF Widths
  <2>6. f[(m - i) + 1] = f[m - i] + t[(m - i) + 1]
    <3>1. (m - i) + 1 \in 1..m /\ ((m - i) + 1) - 1 = m - i
      BY <1>4, <2>3
    <3> HIDE DEF m
    <3>2. \A j \in 1..m : f[j] = f[j - 1] + t[j]
      BY <1>2 DEF Widths, m
    <3> QED
      BY <3>1, <3>2
  <2>7. m - (i - 1) = (m - i) + 1 /\ m - i \in 0..m /\ (m - i) + 1 \in 0..m /\ m \in 0..m
    BY <1>4, <2>3
  <2>8. t[(m - i) + 1] \in Nat
    BY <1>4, <2>3
  <2>9. f[m] \in Nat /\ f[m - i] \in Nat
    BY <1>4, <2>7
  <2>10. g[i] = f[m] - f[m - i]
    <3> DEFINE a == f[m - i]
               b == t[(m - i) + 1]
    <3>1. a \in Nat /\ b \in Nat /\ f[m] \in Nat
      BY <2>8, <2>9
    <3>2. g[i - 1] = f[m] - (a + b)
      BY <2>4, <2>6, <2>7
    <3>3. g[i] = g[i - 1] + b
      BY <2>5
    <3> HIDE DEF a, b, m
    <3>4. g[i] = f[m] - a
      BY <3>1, <3>2, <3>3
    <3> QED
      BY <3>4 DEF a
  <2> QED
    BY <2>1, <2>10
<1>6. g[m] = f[m]
  <2>1. m \in 0..m /\ m - m = 0 /\ f[0] = 0 /\ f[m] \in Nat
    BY <1>2, <1>4 DEF Widths
  <2> QED
    BY <1>5, <2>1
<1> QED
  BY <1>2, <1>3, <1>6 DEF u

\* Where a text is cut: within it, as late as the bytes allow.
LEMMA CutFits ==
  ASSUME NEW t \in Seq(1..4), NEW max \in Nat
  PROVE  \E k \in 0..Len(t) :
           /\ Ans!SafeTruncate(t, max) = SubSeq(t, 1, k)
           /\ Ans!Width(SubSeq(t, 1, k)) \in Nat
           /\ Ans!Width(SubSeq(t, 1, k)) <= max
           /\ k < Len(t) => Ans!Width(SubSeq(t, 1, k)) + 4 > max
<1> DEFINE m == Len(t)
           W(k) == Ans!Width(SubSeq(t, 1, k))
           Fits(k) == W(k) <= max /\ (k < m => W(k + 1) > max)
<1>1. t \in Seq(Nat) /\ m \in Nat /\ \A i \in 1..m : t[i] \in 1..4
  OBVIOUS
<1>2. PICK f : Widths(t, f)
  BY <1>1, WidthIsASum
<1>3. \A k \in 0..m : W(k) = f[k]
  BY <1>1, <1>2, WidthOfFront
<1>4. /\ f[0] = 0 /\ \A i \in 0..m : f[i] \in Nat
      /\ \A i \in 0..m : i < m => f[i + 1] \in Nat /\ f[i + 1] <= f[i] + 4
  <2>1. f[0] = 0 /\ \A i \in 1..m : f[i] \in Nat /\ f[i] = f[i - 1] + t[i]
    BY <1>2 DEF Widths
  <2>2. \A i \in 0..m : f[i] \in Nat
    BY <1>1, <2>1
  <2>3. ASSUME NEW i \in 0..m, i < m PROVE f[i + 1] \in Nat /\ f[i + 1] <= f[i] + 4
    <3>1. i + 1 \in 1..m /\ (i + 1) - 1 = i
      BY <1>1, <2>3
    <3> HIDE DEF m
    <3>2. t[i + 1] \in 1..4 /\ f[i + 1] = f[i] + t[i + 1] /\ f[i + 1] \in Nat
      BY <1>1, <2>1, <3>1
    <3>3. f[i] \in Nat
      BY <2>2
    <3> QED
      BY <3>2, <3>3
  <2> QED
    BY <2>1, <2>2, <2>3
<1> HIDE DEF W
<1>5. \E k \in 0..m : Fits(k)
  <2> DEFINE T == {k \in Nat : k <= m /\ (k = m \/ f[k + 1] > max)}
  <2>1. PICK k \in T : \A y \in T : k <= y
    <3>1. T \subseteq Nat /\ m \in T
      BY <1>1
    <3> HIDE DEF T
    <3> QED
      BY <3>1, Smallest
  <2>2. k \in 0..m
    BY <1>1, <2>1
  <2>3. k < m => W(k + 1) > max
    <3>1. k < m => k + 1 \in 0..m /\ f[k + 1] > max
      BY <1>1, <2>1, <2>2
    <3> HIDE DEF m
    <3> QED
      BY <1>3, <3>1
  <2>4. f[k] <= max
    <3>1. CASE k = 0
      BY <1>4, <3>1
    <3>2. CASE k # 0
      <4>1. k - 1 \in Nat /\ k - 1 \notin T /\ k - 1 <= m /\ k - 1 # m
        <5>1. k - 1 \in Nat /\ ~(k <= k - 1) /\ k - 1 <= m /\ k - 1 # m
          BY <1>1, <2>2, <3>2
        <5> HIDE DEF T
        <5> QED
          BY <2>1, <5>1
      <4>2. ~(f[(k - 1) + 1] > max) /\ (k - 1) + 1 = k
        BY <2>2, <4>1
      <4>3. f[k] \in Nat
        BY <1>4, <2>2
      <4> QED
        BY <4>2, <4>3
    <3> QED
      BY <3>1, <3>2
  <2>5. W(k) <= max
    BY <1>3, <2>2, <2>4
  <2> QED
    BY <2>2, <2>3, <2>5
<1> DEFINE k == CHOOSE k \in 0..m : Fits(k)
<1>6. k \in 0..m /\ Fits(k)
  <2> HIDE DEF Fits, m
  <2> QED
    BY <1>5
<1>7. Ans!SafeTruncate(t, max) = SubSeq(t, 1, k)
  BY Zenon DEF Ans!SafeTruncate, W
<1> HIDE DEF k
<1>8. W(k) = f[k] /\ f[k] \in Nat /\ (k < m => W(k + 1) = f[k + 1])
  <2>1. k < m => k + 1 \in 0..m
    BY <1>1, <1>6
  <2> HIDE DEF m
  <2> QED
    BY <1>3, <1>4, <1>6, <2>1
<1>9. k < m => W(k) + 4 > max
  <2> SUFFICES ASSUME k < m PROVE W(k) + 4 > max
    OBVIOUS
  <2>1. f[k + 1] \in Nat /\ f[k + 1] <= f[k] + 4
    BY <1>4, <1>6
  <2>2. W(k + 1) > max
    BY <1>6
  <2> QED
    BY <1>8, <2>1, <2>2
<1> QED
  BY <1>6, <1>7, <1>8, <1>9 DEF W

\* A last part of a text is a first part of it the other way round.
LEMMA BackIsFront ==
  ASSUME NEW t \in Seq(Nat), NEW k \in 0..Len(t)
  PROVE  /\ Ans!Reverse(t) \in Seq(Nat) /\ Len(Ans!Reverse(t)) = Len(t)
         /\ Ans!Reverse(Ans!Reverse(t)) = t
         /\ Ans!Reverse(SubSeq(Ans!Reverse(t), 1, k)) = SubSeq(t, (Len(t) - k) + 1, Len(t))
<1> DEFINE u == Ans!Reverse(t)
           m == Len(t)
           v == SubSeq(u, 1, k)
           w == SubSeq(t, (m - k) + 1, m)
<1>1. u \in Seq(Nat) /\ Len(u) = m /\ \A i \in 1..m : u[i] = t[(m - i) + 1]
  BY ReverseReads, Zenon
<1> HIDE DEF u
<1>2. Ans!Reverse(u) = t
  <2> DEFINE r == Ans!Reverse(u)
  <2>1. r \in Seq(Nat) /\ Len(r) = m /\ \A i \in 1..m : r[i] = u[(m - i) + 1]
    <3>1. u \in Seq(Nat) /\ Len(u) = m
      BY <1>1
    <3>2. r \in Seq(Nat) /\ Len(r) = Len(u) /\ \A i \in 1..Len(u) : r[i] = u[(Len(u) - i) + 1]
      BY <3>1, ReverseReads, Zenon
    <3> HIDE DEF r, m
    <3> QED
      BY <3>1, <3>2, Zenon
  <2> HIDE DEF r
  <2>2. \A i \in 1..m : r[i] = t[i]
    <3> TAKE i \in 1..m
    <3>1. (m - i) + 1 \in 1..m /\ (m - ((m - i) + 1)) + 1 = i
      OBVIOUS
    <3> QED
      BY <1>1, <2>1, <3>1
  <2>3. r = t
    BY <2>1, <2>2
  <2> QED
    BY <2>3 DEF r
<1>3. v \in Seq(Nat) /\ Len(v) = k /\ \A i \in 1..k : v[i] = u[i]
  BY <1>1
<1> HIDE DEF v
<1>4. Ans!Reverse(v) = w
  <2> DEFINE r == Ans!Reverse(v)
  <2>1. r \in Seq(Nat) /\ Len(r) = k /\ \A i \in 1..k : r[i] = v[(k - i) + 1]
    BY <1>3 DEF Ans!Reverse
  <2>2. w \in Seq(Nat) /\ Len(w) = k /\ \A i \in 1..k : w[i] = t[(m - k) + i]
    OBVIOUS
  <2> HIDE DEF r, w
  <2>3. \A i \in 1..k : r[i] = w[i]
    <3> TAKE i \in 1..k
    <3>1. (k - i) + 1 \in 1..k /\ (k - i) + 1 \in 1..m /\ (m - ((k - i) + 1)) + 1 = (m - k) + i
      OBVIOUS
    <3>2. r[i] = u[(k - i) + 1]
      BY <1>3, <2>1, <3>1
    <3>3. u[(k - i) + 1] = t[(m - k) + i]
      BY <1>1, <3>1
    <3> QED
      BY <2>2, <3>2, <3>3
  <2>4. r = w
    BY <2>1, <2>2, <2>3
  <2> QED
    BY <2>4 DEF r
<1> QED
  BY <1>1, <1>2, <1>4 DEF u, v

\* What is promised of each piece of a text.
Kept(piece, text, max) ==
  /\ Ans!Width(piece) <= max /\ Ans!Within(piece, text)
  /\ piece # text => Ans!Width(piece) + 4 > max

\* The files read_final_output looks at.
FinalFiles == [regular : BOOLEAN, private : BOOLEAN, utf8 : BOOLEAN, size : Nat, sizeRead : Nat]

\* A final message is taken whole or refused, also when its file grows between the look at
\* its size and the reading (read_final_output); what is kept of a text of characters of one
\* to four bytes is a part of it, of whole characters, as many as fit, from the front
\* (safe_truncate) and from the back (safe_tail).
THEOREM TextsAreKept ==
  ASSUME NEW file \in FinalFiles, NEW text \in Seq(1..4), NEW max \in Nat, MaxOutput \in Nat
  PROVE  Ans!TextsStayWhole(file, text, max)
<1> DEFINE r == Ans!ReadFinalOutput(file)
           back == Ans!Reverse(text)
           m == Len(text)
<1>1. r.ok <=> /\ file.regular /\ file.private /\ file.utf8
               /\ file.size <= MaxOutput /\ file.sizeRead <= MaxOutput
  BY DEF FinalFiles, Ans!ReadFinalOutput, Ans!Taken, Ans!Refused
<1>2. r.ok => r.bytes = file.sizeRead
  BY DEF FinalFiles, Ans!ReadFinalOutput, Ans!Taken, Ans!Refused
<1>3. text \in Seq(Nat) /\ m \in Nat
  OBVIOUS
<1>4. Kept(Ans!SafeTruncate(text, max), text, max)
  <2> DEFINE piece == Ans!SafeTruncate(text, max)
  <2>1. PICK k \in 0..m :
           /\ piece = SubSeq(text, 1, k) /\ Ans!Width(SubSeq(text, 1, k)) <= max
           /\ k < m => Ans!Width(SubSeq(text, 1, k)) + 4 > max
    BY CutFits
  <2> HIDE DEF piece
  <2>2. Ans!Within(piece, text)
    <3>1. piece = SubSeq(text, 0 + 1, k) /\ 0 \in 0..m
      BY <1>3, <2>1
    <3> QED
      BY <2>1, <3>1, Zenon DEF Ans!Within
  <2>3. piece # text => k < m
    <3>1. k = m => piece = text
      BY <2>1, SubSeqFull
    <3> QED
      BY <1>3, <3>1
  <2>4. Kept(piece, text, max)
    BY <2>1, <2>2, <2>3 DEF Kept
  <2> QED
    BY <2>4 DEF piece
<1>5. Kept(Ans!SafeTail(text, max), text, max)
  <2> DEFINE first == Ans!SafeTruncate(back, max)
             piece == Ans!SafeTail(text, max)
  <2>1. back \in Seq(1..4) /\ Len(back) = m
    BY DEF Ans!Reverse
  <2>2. Ans!Reverse(back) = text
    BY <1>3, BackIsFront
  <2>3. PICK k \in 0..m :
           /\ first = SubSeq(back, 1, k) /\ Ans!Width(SubSeq(back, 1, k)) <= max
           /\ k < m => Ans!Width(SubSeq(back, 1, k)) + 4 > max
    <3> HIDE DEF back
    <3> QED
      BY <2>1, CutFits
  <2>4. piece = Ans!Reverse(first)
    BY Zenon DEF Ans!SafeTail
  <2>5. piece = SubSeq(text, (m - k) + 1, m)
    BY <1>3, <2>3, <2>4, BackIsFront
  <2> HIDE DEF piece, first
  <2>6. Ans!Within(piece, text)
    <3>1. m - k \in 0..m /\ m \in 0..m
      BY <1>3
    <3> QED
      BY <2>5, <3>1, Zenon DEF Ans!Within
  <2>7. Ans!Width(piece) = Ans!Width(first)
    <3>1. first \in Seq(Nat)
      <4> HIDE DEF back
      <4> QED
        BY <2>1, <2>3
    <3> QED
      BY <2>4, <3>1, WidthOfReverse
  <2>8. piece # text => k < m
    <3>1. k = m => first = back
      <4> HIDE DEF back
      <4> QED
        BY <2>1, <2>3, SubSeqFull
    <3>2. first = back => piece = text
      BY <2>2, <2>4
    <3> QED
      BY <1>3, <3>1, <3>2
  <2>9. Ans!Width(first) <= max /\ (k < m => Ans!Width(first) + 4 > max)
    BY <2>3
  <2>10. Kept(piece, text, max)
    BY <2>6, <2>7, <2>8, <2>9 DEF Kept
  <2> QED
    BY <2>10 DEF piece
<1>6. \A piece \in {Ans!SafeTruncate(text, max), Ans!SafeTail(text, max)} : Kept(piece, text, max)
  BY <1>4, <1>5
<1> HIDE DEF r
<1> QED
  BY <1>1, <1>2, <1>6, Zenon DEF Ans!TextsStayWhole, r, Kept
-----------------------------------------------------------------------------
(* Recovery: how often a caller asks an agent to mend a sub-recipe that      *)
(* failed. ShouldAttempt gives up at the limit, whatever the answers are.    *)

\* The case of a text is put aside by taking its lower case.
CaseAside(text) == Heal!Lower(Heal!Upper(text)) = Heal!Lower(text)

\* One attempt after the other: where the caller stands when it has made n.
Attempted(f, class, answers, max) ==
  f = [n \in 0..max |-> IF ~Heal!ShouldAttempt(class, n, max) THEN n
                        ELSE IF Heal!ParseResponse(Heal!AnswerTo(answers, n)) THEN n + 1 ELSE f[n + 1]]

\* The caller always stands somewhere.
LEMMA AttemptedSome ==
  ASSUME NEW class, NEW answers, NEW max \in Nat
  PROVE  \E f : Attempted(f, class, answers, max)
<1> DEFINE Stops(n) == ~Heal!ShouldAttempt(class, n, max) \/ Heal!ParseResponse(Heal!AnswerTo(answers, n))
           Later(n) == {k \in n..max : Stops(k)}
           Due(n) == CHOOSE k \in Later(n) : \A j \in Later(n) : k <= j
           f == [n \in 0..max |-> IF ~Heal!ShouldAttempt(class, Due(n), max) THEN Due(n) ELSE Due(n) + 1]
<1>1. Stops(max)
  BY DEF Heal!ShouldAttempt
<1> HIDE DEF Stops
<1>2. ASSUME NEW n \in 0..max
      PROVE  Due(n) \in n..max /\ Stops(Due(n)) /\ \A j \in n..max : Stops(j) => Due(n) <= j
  <2>1. Later(n) \subseteq Nat /\ Later(n) # {}
    BY <1>1
  <2>2. PICK x \in Later(n) : \A y \in Later(n) : x <= y
    <3> HIDE DEF Later
    <3> QED
      BY <2>1, Smallest
  <2>3. Due(n) \in Later(n) /\ \A j \in Later(n) : Due(n) <= j
    <3> HIDE DEF Later
    <3> QED
      BY <2>2
  <2> HIDE DEF Due
  <2> QED
    BY <2>3
<1> HIDE DEF Due
<1>3. ASSUME NEW n \in 0..max
      PROVE  f[n] = IF ~Heal!ShouldAttempt(class, n, max) THEN n
                    ELSE IF Heal!ParseResponse(Heal!AnswerTo(answers, n)) THEN n + 1 ELSE f[n + 1]
  <2>1. CASE Stops(n)
    <3>1. Due(n) = n
      BY <1>2, <2>1
    <3>2. f[n] = IF ~Heal!ShouldAttempt(class, n, max) THEN n ELSE n + 1
      BY <3>1
    <3> HIDE DEF f
    <3> QED
      BY <2>1, <3>2, Zenon DEF Stops
  <2>2. CASE ~Stops(n)
    <3>1. n # max /\ n + 1 \in 0..max
      BY <1>1, <2>2
    <3>2. Due(n) = Due(n + 1)
      <4>1. Due(n) \in (n + 1)..max
        <5>1. Due(n) # n
          BY <1>2, <2>2
        <5> QED
          BY <1>2, <5>1
      <4>2. Due(n + 1) <= Due(n) /\ Due(n) <= Due(n + 1) /\ Due(n + 1) \in (n + 1)..max
        BY <1>2, <3>1, <4>1
      <4> QED
        BY <4>1, <4>2
    <3>3. f[n] = f[n + 1]
      BY <3>1, <3>2
    <3> HIDE DEF f
    <3> QED
      BY <2>2, <3>3, Zenon DEF Stops
  <2> QED
    BY <2>1, <2>2
<1>4. f = [n \in 0..max |-> f[n]]
  OBVIOUS
<1> HIDE DEF f
<1>5. f = [n \in 0..max |-> IF ~Heal!ShouldAttempt(class, n, max) THEN n
                            ELSE IF Heal!ParseResponse(Heal!AnswerTo(answers, n)) THEN n + 1 ELSE f[n + 1]]
  BY <1>3, <1>4
<1> QED
  BY <1>5, Zenon DEF Attempted

\* From wherever it stands, the attempts it makes in the end are bounded and all but the
\* last were in vain.
LEMMA AttemptedEnds ==
  ASSUME NEW class, NEW answers, NEW max \in Nat, NEW f, Attempted(f, class, answers, max), NEW n \in 0..max
  PROVE  f[n] \in n..max /\ \A i \in n..max : i + 1 < f[n] => ~Heal!ParseResponse(Heal!AnswerTo(answers, i))
<1> DEFINE Good(k) == f[k] \in k..max /\ \A i \in k..max : i + 1 < f[k] => ~Heal!ParseResponse(Heal!AnswerTo(answers, i))
           T == {j \in Nat : j \in 0..max /\ ~Good(max - j)}
<1>1. \A k \in 0..max : f[k] = IF ~Heal!ShouldAttempt(class, k, max) THEN k
                               ELSE IF Heal!ParseResponse(Heal!AnswerTo(answers, k)) THEN k + 1 ELSE f[k + 1]
  BY Zenon DEF Attempted
<1>2. T = {}
  <2> SUFFICES ASSUME T # {} PROVE FALSE
    OBVIOUS
  <2>1. PICK j \in T : \A y \in T : j <= y
    <3>1. T \subseteq Nat
      OBVIOUS
    <3> HIDE DEF T
    <3> QED
      BY <3>1, Smallest
  <2> DEFINE k == max - j
  <2>2. k \in 0..max /\ ~Good(k)
    BY <2>1
  <2>3. k # max => Good(k + 1)
    <3> SUFFICES ASSUME k # max PROVE Good(k + 1)
      OBVIOUS
    <3>1. j - 1 \in 0..max /\ max - (j - 1) = k + 1 /\ ~(j <= j - 1)
      BY <2>1
    <3>2. j - 1 \notin T
      BY <2>1, <3>1
    <3> HIDE DEF k
    <3> QED
      BY <3>1, <3>2
  <2> HIDE DEF k
  <2>4. Good(k)
    <3>1. CASE ~Heal!ShouldAttempt(class, k, max)
      BY <1>1, <2>2, <3>1
    <3>2. CASE Heal!ShouldAttempt(class, k, max) /\ Heal!ParseResponse(Heal!AnswerTo(answers, k))
      <4>1. f[k] = k + 1 /\ k < max
        BY <1>1, <2>2, <3>2 DEF Heal!ShouldAttempt
      <4> QED
        BY <2>2, <4>1
    <3>3. CASE Heal!ShouldAttempt(class, k, max) /\ ~Heal!ParseResponse(Heal!AnswerTo(answers, k))
      <4>1. f[k] = f[k + 1] /\ k < max
        BY <1>1, <2>2, <3>3 DEF Heal!ShouldAttempt
      <4>2. f[k + 1] \in (k + 1)..max
            /\ \A i \in (k + 1)..max : i + 1 < f[k + 1] => ~Heal!ParseResponse(Heal!AnswerTo(answers, i))
        BY <2>2, <2>3, <4>1
      <4>3. ASSUME NEW i \in k..max, i + 1 < f[k] PROVE ~Heal!ParseResponse(Heal!AnswerTo(answers, i))
        <5>1. i = k \/ i \in (k + 1)..max
          BY <2>2
        <5> QED
          BY <3>3, <4>1, <4>2, <4>3, <5>1
      <4>4. f[k] \in k..max
        BY <2>2, <4>1, <4>2
      <4> QED
        BY <4>3, <4>4
    <3> QED
      BY <3>1, <3>2, <3>3
  <2> QED
    BY <2>2, <2>4
<1>3. max - n \in 0..max /\ max - n \in Nat /\ max - (max - n) = n
  OBVIOUS
<1>4. Good(max - (max - n))
  <2> DEFINE j == max - n
  <2>1. j \in Nat /\ j \in 0..max /\ j \notin T
    BY <1>2, <1>3
  <2> HIDE DEF j, Good
  <2>2. Good(max - j)
    BY <2>1
  <2> QED
    BY <2>2 DEF j
<1> QED
  BY <1>3, <1>4

\* A recovery ends after at most max attempts and at once for a failure that no attempt
\* can mend, whatever the case of its text and however the agent answers; a failure that
\* is mended was so by the last answer (should_attempt_recovery, parse_recovery_response).
THEOREM RecoveriesEnd ==
  ASSUME NEW error, CaseAside(error), NEW code, NEW answers, Len(answers) \in Nat, NEW max \in Nat
  PROVE  Heal!RecoveryEnds(error, code, answers, max)
<1> DEFINE class == Heal!ClassifyFailure(error, code)
           Is(f) == f = [n \in 0..max |-> IF ~Heal!ShouldAttempt(Heal!ClassifyFailure(error, code), n, max) THEN n
                                          ELSE IF Heal!ParseResponse(Heal!AnswerTo(answers, n)) THEN n + 1 ELSE f[n + 1]]
           g == CHOOSE g : Is(g)
           n == Heal!Attempts(error, code, answers, max)
<1>1. n = g[0]
  BY Zenon DEF Heal!Attempts
<1>2. PICK f : Attempted(f, class, answers, max)
  BY AttemptedSome
<1>3. Is(f)
  BY <1>2, Zenon DEF Attempted
<1>4. Is(g)
  BY <1>3, Zenon
<1> HIDE DEF g
<1>5. Attempted(g, class, answers, max)
  BY <1>4, Zenon DEF Attempted
<1> HIDE DEF class, n
<1>6. g[0] \in 0..max /\ \A i \in 0..max : i + 1 < g[0] => ~Heal!ParseResponse(Heal!AnswerTo(answers, i))
  <2>1. 0 \in 0..max
    OBVIOUS
  <2> QED
    BY <1>5, <2>1, AttemptedEnds, Zenon
<1>7. n <= max /\ n \in Nat
  BY <1>1, <1>6
<1>8. code \in Heal!FatalCodes => n = 0
  <2> SUFFICES ASSUME code \in Heal!FatalCodes PROVE n = 0
    OBVIOUS
  <2>1. class = "unrecoverable"
    BY Zenon DEF Heal!ClassifyFailure, class
  <2>2. ~Heal!ShouldAttempt(class, 0, max)
    BY <2>1, Zenon DEF Heal!ShouldAttempt
  <2>3. g[0] = 0
    <3>1. 0 \in 0..max
      OBVIOUS
    <3> QED
      BY <2>2, <3>1, <1>5, Zenon DEF Attempted
  <2> QED
    BY <1>1, <2>3
<1>9. Heal!ClassifyFailure(Heal!Upper(error), code) = Heal!ClassifyFailure(error, code)
  <2>1. \A p : Heal!Mentions(Heal!Upper(error), p) <=> Heal!Mentions(error, p)
    <3>1. Heal!Lower(Heal!Upper(error)) = Heal!Lower(error)
      BY Zenon DEF CaseAside
    <3> QED
      BY <3>1, Zenon DEF Heal!Mentions
  <2> QED
    BY <2>1, Zenon DEF Heal!ClassifyFailure
<1>10. ASSUME NEW i \in 1..(n - 1), i <= Len(answers) PROVE ~Heal!ParseResponse(answers[i])
  <2>1. i - 1 \in 0..max /\ (i - 1) + 1 < g[0] /\ i - 1 < Len(answers) /\ (i - 1) + 1 = i
    BY <1>1, <1>7, <1>10
  <2>2. ~Heal!ParseResponse(Heal!AnswerTo(answers, i - 1))
    BY <1>6, <2>1
  <2>3. Heal!AnswerTo(answers, i - 1) = answers[i]
    BY <2>1 DEF Heal!AnswerTo
  <2> QED
    BY <2>2, <2>3
<1> QED
  BY <1>7, <1>8, <1>9, <1>10, Zenon DEF Heal!RecoveryEnds, n

-----------------------------------------------------------------------------
(* The pipe to the anchor: AnchorPipe.                                        *)

\* The first step that fails, or one more than there are steps.
LEMMA FirstFails ==
  ASSUME NEW faults
  PROVE  /\ Pipe!FirstFailing(faults) \in 1..9
         /\ \A i \in 1..(Pipe!FirstFailing(faults) - 1) : Pipe!Steps[i] \notin faults
         /\ Pipe!FirstFailing(faults) <= 8 => Pipe!Steps[Pipe!FirstFailing(faults)] \in faults
<1> DEFINE Is(n) == /\ \A i \in 1..(n - 1) : Pipe!Steps[i] \notin faults
                    /\ n <= 8 => Pipe!Steps[n] \in faults
<1>1. Len(Pipe!Steps) = 8
  BY DEF Pipe!Steps
<1>2. Pipe!FirstFailing(faults) = CHOOSE n \in 1..9 : Is(n)
  BY <1>1 DEF Pipe!FirstFailing
<1> DEFINE S1 == \A i \in 1..0 : Pipe!Steps[i] \notin faults
<1>3. \A n \in 0..8 : (\A i \in 1..n : Pipe!Steps[i] \notin faults) \/ \E m \in 1..n : Is(m)
  <2> DEFINE Q(n) == (\A i \in 1..n : Pipe!Steps[i] \notin faults) \/ \E m \in 1..n : Is(m)
  <2>1. Q(0)
    OBVIOUS
  <2>2. ASSUME NEW n \in 0..7, Q(n) PROVE Q(n + 1)
    BY <2>2
  <2> HIDE DEF Q
  <2>3. Q(1) /\ Q(2) /\ Q(3) /\ Q(4)
    BY <2>1, <2>2
  <2>4. Q(5) /\ Q(6) /\ Q(7) /\ Q(8)
    BY <2>2, <2>3
  <2> QED
    BY <2>1, <2>3, <2>4 DEF Q
<1>4. \E n \in 1..9 : Is(n)
  BY <1>3
<1> HIDE DEF Is
<1>5. Pipe!FirstFailing(faults) \in 1..9 /\ Is(Pipe!FirstFailing(faults))
  BY <1>2, <1>4
<1> QED
  BY <1>5 DEF Is

\* Whatever fails in the construction of a pipe, it is whole and nothing else is left of
\* it, or it is gone, and the error tells of what failed, a directory that stays
\* included (construct).
THEOREM PipesAreWholeOrGone ==
  ASSUME NEW faults
  PROVE  Pipe!PipeIsWholeOrGone(faults)
<1> DEFINE n == Pipe!FirstFailing(faults)
           done == {Pipe!Steps[i] : i \in 1..(n - 1)}
           tidied == {c \in Pipe!Cleanups : /\ c = "unlink fifo" => "make fifo" \in done
                                            /\ c = "close directory" => "open directory" \in done}
           failed == n <= Len(Pipe!Steps)
           bad == Pipe!Bad(failed, tidied \cap faults)
           opened == {e \in Pipe!Ends : Pipe!Opening[e] \in done}
           closed == IF bad THEN {Pipe!Closing[e] : e \in opened} ELSE {}
           told == (IF failed THEN {Pipe!Steps[n]} ELSE {}) \cup ((tidied \cup closed) \cap faults)
           out == Pipe!Construct(faults)
<1>1. /\ out.ok = ~bad /\ out.open = (IF bad THEN {} ELSE opened) /\ out.told = told
      /\ out.left = (IF "remove directory" \in faults THEN {"directory"} ELSE {})
  <2>1. out = [ok |-> ~bad, open |-> IF bad THEN {} ELSE opened,
               left |-> IF "remove directory" \in faults THEN {"directory"} ELSE {}, told |-> told]
    BY DEF Pipe!Construct
  <2> HIDE DEF bad, opened, told, out
  <2> QED
    BY <2>1
<1>2. n \in 1..9 /\ Len(Pipe!Steps) = 8
  BY FirstFails DEF Pipe!Steps
<1>3. bad <=> failed \/ tidied \cap faults # {}
  BY DEF Pipe!Bad
<1>4. "remove directory" \in tidied
  BY DEF Pipe!Cleanups
<1>5. ~failed => opened = {"reader", "writer"}
  <2>1. ASSUME ~failed PROVE n = 9
    BY <1>2, <2>1
  <2>2. Pipe!Steps[5] = "open reader" /\ Pipe!Steps[7] = "open writer"
    BY DEF Pipe!Steps
  <2>3. ~failed => "open reader" \in done /\ "open writer" \in done
    <3>1. SUFFICES ASSUME n = 9 PROVE Pipe!Steps[5] \in done /\ Pipe!Steps[7] \in done
      BY <2>1, <2>2
    <3> HIDE DEF n
    <3>2. 5 \in 1..(n - 1) /\ 7 \in 1..(n - 1)
      BY <3>1
    <3> QED
      BY <3>2, Zenon
  <2> HIDE DEF done, failed
  <2>4. Pipe!Ends = {"reader", "writer"} /\ Pipe!Opening["reader"] = "open reader" /\ Pipe!Opening["writer"] = "open writer"
    BY DEF Pipe!Ends, Pipe!Opening
  <2> QED
    BY <2>3, <2>4
<1> HIDE DEF n, done, tidied, bad, opened, failed, out
<1>6. ~bad => out.open = {"reader", "writer"} /\ out.left = {} /\ out.told = {}
  BY <1>1, <1>3, <1>4, <1>5
<1>7. bad => out.open = {} /\ out.told # {}
  BY <1>1, <1>3
<1>8. out.left # {} => "remove directory" \in out.told
  BY <1>1, <1>4
<1> QED
  BY <1>1, <1>6, <1>7, <1>8 DEF Pipe!PipeIsWholeOrGone, out
-----------------------------------------------------------------------------
(* All of the exchange with an agent.                                         *)

\* An exchange as there may be one: failures are texts whose case can be put aside,
\* prompts are sequences of characters of a positive width, environment variables hold
\* numbers the machine can hold, answers are sequences of symbols, texts of characters
\* of one to four bytes.
SomeExchange(q) ==
  /\ q.of = "failure" => CaseAside(q.error) /\ Len(q.answers) \in Nat /\ q.max \in Nat
  /\ q.of = "prompt" =>
       \E Chars : /\ Characters(Chars) /\ Guard \in Seq(Chars) /\ Footer \in Seq(Chars)
                  /\ q.p \in Seq(Chars) /\ q.s \in Seq(Chars) /\ Canonical(q.homes)
  /\ q.of = "waits" => NumberFits(q.env.retries) /\ NumberFits(q.env.base) /\ NumberFits(q.env.cap)
  /\ q.of = "answer" => \E S : q.before \in Seq(S) /\ q.v \in Seq(S) /\ q.v # <<>> /\ q.after \in Seq(S)
  /\ q.of = "text" => q.file \in FinalFiles /\ q.text \in Seq(1..4) /\ q.max \in Nat

\* Whatever passes between the runner and an agent, a prompt arrives whole, the waits grow
\* up to their cap, only JSON of the answer is taken for it, texts stay whole, recoveries
\* end and the pipe to the anchor is whole or gone (build_agent_command, backoff_delay,
\* parse_json_output, read_final_output, should_attempt_recovery, construct).
THEOREM AgentsAlwaysAskedAndHeard ==
  ASSUME MaxInline \in Nat, Preview \in Nat, Preview <= MaxInline,
         Bits \in Nat \ {0}, 600 <= Cmd!Top, MaxOutput \in Nat, SomeExchange(case)
  PROVE  AgentsAreAskedAndHeard
<1>1. ASSUME case.of = "failure" PROVE Heal!RecoveryEnds(case.error, case.code, case.answers, case.max)
  <2>1. CaseAside(case.error) /\ Len(case.answers) \in Nat /\ case.max \in Nat
    BY <1>1, Zenon DEF SomeExchange
  <2> QED
    BY <2>1, RecoveriesEnd, Zenon
<1>2. Pipe!PipeIsWholeOrGone(case.faults)
  BY PipesAreWholeOrGone, Zenon
<1>3. ASSUME case.of = "prompt"
      PROVE  Cmd!PromptArrivesWhole(case.o, case.p, case.s, case.d, case.own, case.homes)
  <2>1. PICK Chars : /\ Characters(Chars) /\ Guard \in Seq(Chars) /\ Footer \in Seq(Chars)
                     /\ case.p \in Seq(Chars) /\ case.s \in Seq(Chars) /\ Canonical(case.homes)
    BY <1>3, Zenon DEF SomeExchange
  <2> QED
    BY <2>1, PromptsArrive, Zenon
<1>4. ASSUME case.of = "waits" PROVE Cmd!WaitsGrowToTheCap(case.env)
  <2>1. NumberFits(case.env.retries) /\ NumberFits(case.env.base) /\ NumberFits(case.env.cap)
    BY <1>4, Zenon DEF SomeExchange
  <2> QED
    BY <2>1, WaitsGrow, Zenon
<1>5. ASSUME case.of = "answer"
      PROVE  /\ Ans!TakenFromTheAnswer(case.before \o case.v \o case.after)
             /\ Ans!TakenFromTheAnswer(case.before \o Tail(case.v) \o <<"fence">> \o case.after)
  <2>1. PICK S : case.before \in Seq(S) /\ case.v \in Seq(S) /\ case.v # <<>> /\ case.after \in Seq(S)
    BY <1>5, Zenon DEF SomeExchange
  <2> DEFINE T == S \cup {"fence"}
             fence == "fence"
  <2>2. case.before \in Seq(T) /\ case.v \in Seq(T) /\ case.v # <<>> /\ case.after \in Seq(T) /\ fence \in T
    <3>1. S \subseteq T /\ fence \in T
      OBVIOUS
    <3> HIDE DEF T
    <3>2. \A u \in Seq(S) : u \in Seq(T)
      BY <3>1, SeqMonotonic
    <3> QED
      BY <2>1, <3>1, <3>2, Zenon
  <2> HIDE DEF T, fence
  <2>3. /\ case.before \o case.v \o case.after \in Seq(T)
        /\ case.before \o Tail(case.v) \o <<fence>> \o case.after \in Seq(T)
    BY <2>2
  <2>4. \A t \in Seq(T) : Ans!TakenFromTheAnswer(t)
    BY JsonIsTaken, Zenon
  <2> QED
    BY <2>3, <2>4, Zenon DEF fence
<1>6. ASSUME case.of = "text" PROVE Ans!TextsStayWhole(case.file, case.text, case.max)
  <2>1. case.file \in FinalFiles /\ case.text \in Seq(1..4) /\ case.max \in Nat
    BY <1>6, Zenon DEF SomeExchange
  <2> QED
    BY <2>1, TextsAreKept, Zenon
<1> QED
  BY <1>1, <1>2, <1>3, <1>4, <1>5, <1>6, Zenon DEF AgentsAreAskedAndHeard
=============================================================================
