------------------------------ MODULE Callbacks ------------------------------
(***************************************************************************)
(* What the asynchronous services of the HTTP server promise to the tasks  *)
(* that use them (qse_httpd_resolvename() and qse_httpd_rewriteurl()).     *)
(*                                                                         *)
(* A call is refused at once, answered at once, or accepted.  An accepted  *)
(* call is answered exactly once, later, unless the server's loop ends     *)
(* first.  The service has no more than Limit calls outstanding.           *)
(***************************************************************************)
EXTENDS Naturals, FiniteSets

CONSTANTS
  Tasks,  \* the tasks that call the service
  Limit   \* the number of calls it may have outstanding

VARIABLE
  status  \* of each task's call

Statuses == {"new", "waiting", "told", "refused"}

Waiting == {t \in Tasks : status[t] = "waiting"}

CallbacksInit == status = [t \in Tasks |-> "new"]

(* The call is answered, or refused, before it returns.                    *)
AskAndReturn(t) ==
  /\ status[t] = "new"
  /\ \E s \in {"told", "refused"} : status' = [status EXCEPT ![t] = s]

Ask(t) ==
  /\ status[t] = "new"
  /\ Cardinality(Waiting) < Limit
  /\ status' = [status EXCEPT ![t] = "waiting"]

Tell(t) ==
  /\ status[t] = "waiting"
  /\ status' = [status EXCEPT ![t] = "told"]

(* A task that is through is replaced by another one.                      *)
Renew(t) ==
  /\ status[t] \in {"told", "refused"}
  /\ status' = [status EXCEPT ![t] = "new"]

(* The loop ends, and all tasks with it.                                   *)
EndAll == status' = [t \in Tasks |-> "new"]

CallbacksNext ==
  \/ \E t \in Tasks : AskAndReturn(t) \/ Ask(t) \/ Tell(t) \/ Renew(t)
  \/ EndAll

CallbacksSafety == CallbacksInit /\ [][CallbacksNext]_status

CallbacksSpec ==
  /\ CallbacksSafety
  /\ \A t \in Tasks : WF_status(Tell(t))
=============================================================================
