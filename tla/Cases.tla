-------------------------------- MODULE Cases --------------------------------
(***************************************************************************)
(* The one variable of the properties of the pure functions: a case is a   *)
(* record that says which function is looked at (of) and with what input.  *)
(***************************************************************************)

VARIABLE case
=============================================================================
