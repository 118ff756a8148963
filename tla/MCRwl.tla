------------------------------- MODULE MCRwl --------------------------------
(* The instances of Rwl that TLC checks.  Four threads let two sleepers of *)
(* one kind compete with one of the other while the fourth has the lock.   *)
EXTENDS Rwl

=============================================================================
