----------------------------- MODULE TimerQueue -----------------------------
(***************************************************************************)
(* What lib/cmn/tmr.c promises to its users, whatever the layout of the    *)
(* heap: a set of scheduled events, at most one per owner, from which      *)
(* qse_tmr_fire() takes the due events earliest first and stops only when  *)
(* nothing due is left.  Module Tmr, the binary heap, implements it.       *)
(***************************************************************************)
EXTENDS Integers

CONSTANTS
  Ctx,    \* the owners of events: httpd clients, dns and urs requests
  Times   \* the points in time an event can be scheduled for

VARIABLES
  pending,  \* the scheduled events, a set of records [ctx, when]
  phase,    \* "none", "fire" (loop of qse_tmr_fire), "handler", "clear"
  now       \* the time qse_tmr_fire() was called with

vars == <<pending, phase, now>>

Events == [ctx : Ctx, when : Times]

Phases == {"none", "fire", "handler", "clear"}

Init ==
  /\ pending = {}
  /\ phase = "none"
  /\ now \in Times

(* The timer may be changed by its user between two calls of               *)
(* qse_tmr_fire(), and by the handler of the event that has just fired.    *)
UserMayCall == phase \in {"none", "handler"}

Schedule(e) ==
  /\ UserMayCall
  /\ \A f \in pending : f.ctx # e.ctx
  /\ pending' = pending \union {e}
  /\ UNCHANGED <<phase, now>>

Cancel(e) ==
  /\ UserMayCall
  /\ pending' = pending \ {e}
  /\ UNCHANGED <<phase, now>>

Reschedule(e, t) ==
  /\ UserMayCall
  /\ pending' = (pending \ {e}) \union {[ctx |-> e.ctx, when |-> t]}
  /\ UNCHANGED <<phase, now>>

(* A call of qse_tmr_fire() begins.                                        *)
Fire(t) ==
  /\ phase = "none"
  /\ phase' = "fire"
  /\ now' = t
  /\ UNCHANGED pending

(* The event that fires is due, and no scheduled event is earlier.         *)
FireEvent(e) ==
  /\ phase = "fire"
  /\ e.when <= now
  /\ \A f \in pending : e.when <= f.when
  /\ pending' = pending \ {e}
  /\ phase' = "handler"
  /\ UNCHANGED now

HandlerReturns ==
  /\ phase = "handler"
  /\ phase' = "fire"
  /\ UNCHANGED <<pending, now>>

(* qse_tmr_fire() returns only when every due event has fired.             *)
FireReturns ==
  /\ phase = "fire"
  /\ \A f \in pending : f.when > now
  /\ phase' = "none"
  /\ UNCHANGED <<pending, now>>

Clear ==
  /\ phase = "none"
  /\ phase' = "clear"
  /\ UNCHANGED <<pending, now>>

ClearEvent(e) ==
  /\ phase = "clear"
  /\ pending' = pending \ {e}
  /\ UNCHANGED <<phase, now>>

ClearReturns ==
  /\ phase = "clear"
  /\ pending = {}
  /\ phase' = "none"
  /\ UNCHANGED <<pending, now>>

Next ==
  \/ \E e \in Events : Schedule(e)
  \/ \E e \in pending : Cancel(e)
  \/ \E e \in pending, t \in Times : Reschedule(e, t)
  \/ \E t \in Times : Fire(t)
  \/ \E e \in pending : FireEvent(e)
  \/ HandlerReturns
  \/ FireReturns
  \/ Clear
  \/ \E e \in pending : ClearEvent(e)
  \/ ClearReturns

Spec == Init /\ [][Next]_vars

=============================================================================
