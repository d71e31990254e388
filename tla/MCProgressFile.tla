---------------------------- MODULE MCProgressFile ----------------------------
(***************************************************************************)
(* Two callers: in processes of their own, or threads of one.              *)
(***************************************************************************)
EXTENDS ProgressFile, TLC

CONSTANTS a, b, p, q, s, t

MCCallers   == {a, b}
MCStreams   == {s, t}
MCStateFile == (a :> (s :> 1 @@ t :> 0)) @@ (b :> (s :> 2 @@ t :> 2))
TwoProcesses == {p, q}
Apart       == a :> p @@ b :> q

=============================================================================
