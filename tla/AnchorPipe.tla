----------------------------- MODULE AnchorPipe -----------------------------
(***************************************************************************)
(* The construction of a pipe to the anchor of a Codex group through a     *)
(* private FIFO (construct of src/adapters/codex_exec/anchor_fifo.rs):     *)
(* which of its steps and of its cleanup fail is the input.                *)
(***************************************************************************)
EXTENDS Naturals, Sequences, FiniteSets

\* Each step needs those before it; a check follows what it looks at.
Steps ==
  <<"open directory", "check directory", "make fifo", "check fifo",
    "open reader", "check reader", "open writer", "check writer">>
Cleanups == {"unlink fifo", "close directory", "remove directory"}
Opening == [reader |-> "open reader", writer |-> "open writer"]
Closing == [reader |-> "close reader", writer |-> "close writer"]
Ends == DOMAIN Opening
Faults == {Steps[i] : i \in 1..Len(Steps)} \cup Cleanups \cup {Closing[e] : e \in Ends}

FirstFailing(faults) ==
  CHOOSE n \in 1..(Len(Steps) + 1) :
    /\ \A i \in 1..(n - 1) : Steps[i] \notin faults
    /\ n <= Len(Steps) => Steps[n] \in faults

BadIfStepFailed(stepFailed, failures) == stepFailed
Bad(stepFailed, failures) == stepFailed \/ failures # {}

\* The error of the step and those of the cleanup are combined; the FIFO and its
\* directory go in any case, the endpoints unless both are to be returned.
Construct(faults) ==
  LET n == FirstFailing(faults)
      done == {Steps[i] : i \in 1..(n - 1)}
      tidied == {c \in Cleanups : /\ c = "unlink fifo" => "make fifo" \in done
                                  /\ c = "close directory" => "open directory" \in done}
      bad == Bad(n <= Len(Steps), tidied \cap faults)
      opened == {e \in Ends : Opening[e] \in done}
      closed == IF bad THEN {Closing[e] : e \in opened} ELSE {}
  IN  [ok |-> ~bad,
       open |-> IF bad THEN {} ELSE opened,
       left |-> IF "remove directory" \in faults THEN {"directory"} ELSE {},
       told |-> (IF n <= Len(Steps) THEN {Steps[n]} ELSE {}) \cup ((tidied \cup closed) \cap faults)]

\* Whatever subset of the steps fails, either both ends of the pipe are returned and
\* nothing else is left of its construction, or neither is open, and the error tells of
\* everything that failed on the way, the cleanup of the directory included.
PipeIsWholeOrGone(faults) ==
  LET out == Construct(faults)
  IN  /\ out.ok => out.open = {"reader", "writer"} /\ out.left = {} /\ out.told = {}
      /\ ~out.ok => out.open = {} /\ out.told # {}
      /\ out.left # {} => "remove directory" \in out.told
=============================================================================
