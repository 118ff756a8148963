---------------------------- MODULE MCHttpdLoop -----------------------------
(***************************************************************************)
(* HttpdLoop with two clients and one server.  The clock runs to three     *)
(* times the idle limit, so that a client can be active, be found not idle *)
(* by its timer, and be purged when the timer fires for the second time.   *)
(***************************************************************************)
EXTENDS HttpdLoop
=============================================================================
