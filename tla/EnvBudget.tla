----------------------------- MODULE EnvBudget -----------------------------
(* The bytes an environment may take (measure_env_byte_budget of             *)
(* src/context.rs), from what the kernel gives arguments and environment     *)
(* together: sysconf(_SC_ARG_MAX), and a quarter of the stack if it is bound *)
(* (0 when it is not).                                                       *)
EXTENDS Integers

CONSTANTS Floor, Reserve \* ENV_BUDGET_FLOOR, ARGV_RESERVE_BYTES

Least(a, b) == IF a <= b THEN a ELSE b
Ceiling(argMax, stack) == IF stack \div 4 > 0 THEN Least(argMax, stack \div 4) ELSE argMax

EnvByteBudget(argMax, stack) ==
  IF argMax <= 0 \/ Ceiling(argMax, stack) - Reserve < Floor
    THEN Floor ELSE Ceiling(argMax, stack) - Reserve
=============================================================================
