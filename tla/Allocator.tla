----------------------------- MODULE Allocator -----------------------------
(***************************************************************************)
(* What an allocator over a zone of memory promises its users: blocks that *)
(* lie in the zone and do not overlap, that stay where they are until they *)
(* are freed or resized, and that hold as many bytes as were asked for.    *)
(* Xma.tla, the model of lib/cmn/xma.c, implements it.                     *)
(***************************************************************************)
EXTENDS Naturals

CONSTANT Requests   \* the sizes that may be asked for

VARIABLES
  end,    \* the length of the zone
  live    \* the blocks in use: a function from addresses to the sizes asked for

avars == <<end, live>>

Region(a, n) == a..(a + n - 1)

(* n bytes at a lie in the zone and apart from the blocks `others'.        *)
Fits(a, n, others) ==
  /\ a + n <= end
  /\ \A b \in others : Region(a, n) \intersect Region(b, live[b]) = {}

Init ==
  /\ end \in Nat
  /\ live = [a \in {} |-> 0]

(* The block at a now has n bytes, beside the blocks `others'.             *)
Place(a, n, others) ==
  /\ live' = [b \in others \union {a} |-> IF b = a THEN n ELSE live[b]]
  /\ UNCHANGED end

(* A block of n bytes.  A refusal changes nothing.                         *)
Alloc(n) ==
  \E a \in 0..end \ DOMAIN live :
    /\ Fits(a, n, DOMAIN live)
    /\ Place(a, n, DOMAIN live)

Free(b) ==
  /\ live' = [a \in DOMAIN live \ {b} |-> live[a]]
  /\ UNCHANGED end

(* The block may move, in which case the old one is still in use while its *)
(* contents are copied: the new one does not overlap it.                   *)
Realloc(b, n) ==
  \/ /\ Fits(b, n, DOMAIN live \ {b})
     /\ Place(b, n, DOMAIN live \ {b})
  \/ \E a \in 0..end \ DOMAIN live :
       /\ Fits(a, n, DOMAIN live)
       /\ Place(a, n, DOMAIN live \ {b})

Next ==
  \/ \E n \in Requests : Alloc(n)
  \/ \E b \in DOMAIN live : Free(b)
  \/ \E b \in DOMAIN live, n \in Requests : Realloc(b, n)

Spec == Init /\ [][Next]_avars

=============================================================================
