----------------------------- MODULE MCNestedRuns -----------------------------
(* Instances of NestedRuns. *)
EXTENDS NestedRuns

Step(id, calls, nonfatal, recovery) ==
  [id |-> id, calls |-> calls, nonfatal |-> nonfatal, recovery |-> recovery]

\* The root calls a recipe that calls itself; all ids differ.
Circle ==
  [main |-> <<Step("m1", "", TRUE, FALSE), Step("m2", "loop", FALSE, TRUE)>>,
   loop |-> <<Step("l1", "", FALSE, FALSE), Step("l2", "loop", TRUE, FALSE)>>]

\* The called recipe has a step with the id of a step of its caller.
SharedId ==
  [main |-> <<Step("build", "", FALSE, FALSE), Step("m2", "child", FALSE, FALSE)>>,
   child |-> <<Step("build", "", FALSE, FALSE)>>]

RootName == "main"
=============================================================================
