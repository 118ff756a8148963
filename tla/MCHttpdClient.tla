--------------------------- MODULE MCHttpdClient ----------------------------
(***************************************************************************)
(* HttpdClient with two task handles, two of the three trigger slots and   *)
(* a queue of two tasks: enough for a task with two handles, a successor   *)
(* that takes over one of them, and a batch with events for both.          *)
(***************************************************************************)
EXTENDS HttpdClient, TLC

HandleSymmetry == Permutations(Handles)
=============================================================================
