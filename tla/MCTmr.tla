------------------------------- MODULE MCTmr --------------------------------
(* The instance of Tmr that TLC checks.  Six owners are the fewest that    *)
(* let qse_tmr_delete() move the last event into another subtree, where it *)
(* has to go up.  Owners are interchangeable.                              *)
EXTENDS Tmr, TLC

Symmetry == Permutations(Ctx)

=============================================================================
