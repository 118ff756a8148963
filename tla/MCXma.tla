------------------------------- MODULE MCXma -------------------------------
(* Small zones for the allocator, aligned and not.                         *)
EXTENDS Xma
=============================================================================
