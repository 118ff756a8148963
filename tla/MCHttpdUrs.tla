----------------------------- MODULE MCHttpdUrs -----------------------------
(* A table of three chains and sequence numbers that wrap around after     *)
(* four requests, so that a chain can hold three requests; three tasks,    *)
(* two of which have the same URL.                                         *)
EXTENDS HttpdUrs

MCurlsum(u) == u

MCUrlOf == [t \in Tasks |-> IF t = "t3" THEN "u2" ELSE "u1"]
=============================================================================
