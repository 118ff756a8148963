-------------------------------- MODULE Tmr ---------------------------------
(***************************************************************************)
(* The timer of lib/cmn/tmr.c: a binary min-heap of events ordered by      *)
(* their time, in which every owner remembers the position of its event    *)
(* (client->tmr_idle in httpd.c) so that it can delete it.  The heap tells *)
(* an owner about each move through the event's updater callback.          *)
(*                                                                         *)
(* sift_up() and sift_down() are modelled one loop iteration per step,     *)
(* because each iteration calls an updater: the assertions inside the      *)
(* updaters are evaluated in these intermediate states.                    *)
(***************************************************************************)
EXTENDS Integers

CONSTANTS
  Ctx,       \* owners of events; an owner has at most one event scheduled
  Times,     \* the values of the `when' field and of the time of firing
  InitCapa   \* the capacity given to qse_tmr_init()

ASSUME TmrAssumption ==
  /\ Times \subseteq Int
  /\ Times # {}
  /\ InitCapa \in Nat

VARIABLES
  size,    \* tmr->size
  capa,    \* tmr->capa
  event,   \* tmr->event[0 .. size-1]
  idx,     \* the position each owner remembers
  sift,    \* the sift loop in progress and its local variables
  phase,   \* "none", "fire" (loop of qse_tmr_fire), "handler", "clear"
  now      \* the time qse_tmr_fire() was called with

vars == <<size, capa, event, idx, sift, phase, now>>

(* QSE_TMR_INVALID_INDEX, (size_t)-1 in the code.                          *)
NoIndex == -1

Events == [ctx : Ctx, when : Times]

HEAP_PARENT(x) == (x - 1) \div 2
HEAP_LEFT(x)   == 2 * x + 1
HEAP_RIGHT(x)  == 2 * x + 2

YOUNGER_THAN(x, y) == x.when < y.when

NoSift == [dir |-> "none"]

(* The locals of a sift loop: the event in hand, the slot it would go to,  *)
(* the slot it came from and whether its owner is told with the updater    *)
(* (FALSE: the owner takes the returned index instead).                    *)
Sifts == [dir : {"up", "down"}, item : Events, index : Nat, old_index : Nat,
          notify : BOOLEAN]

Init ==
  /\ size = 0
  /\ capa = IF InitCapa = 0 THEN 1 ELSE InitCapa
  /\ event = [i \in {} |-> 0]
  /\ idx = [c \in Ctx |-> NoIndex]
  /\ sift = NoSift
  /\ phase = "none"
  /\ now \in Times

-----------------------------------------------------------------------------
(* The sift loops.                                                         *)

(* A call of the updater callback of the event of owner c.                 *)
updater(c, new_index) == [idx EXCEPT ![c] = new_index]

StartSift(dir, e, i, notify) ==
  sift' = [dir |-> dir, item |-> e, index |-> i, old_index |-> i,
           notify |-> notify]

MustGoUp ==
  /\ sift.index > 0
  /\ YOUNGER_THAN(sift.item, event[HEAP_PARENT(sift.index)])

(* The child a sift_down() step compares the event in hand with.           *)
YoungerChild ==
  LET left  == HEAP_LEFT(sift.index)
      right == HEAP_RIGHT(sift.index)
  IN  IF right < size /\ YOUNGER_THAN(event[right], event[left])
      THEN right ELSE left

MustGoDown ==
  /\ sift.index < size \div 2
  /\ ~ YOUNGER_THAN(sift.item, event[YoungerChild])

(* One iteration: the event at `from' moves to the slot of the event in    *)
(* hand, its owner is told, and the slot of the event in hand is `from'.   *)
MoveTo(from) ==
  /\ event' = [event EXCEPT ![sift.index] = event[from]]
  /\ idx' = updater(event[from].ctx, sift.index)
  /\ sift' = [sift EXCEPT !.index = from]
  /\ UNCHANGED <<size, capa, phase, now>>

sift_up ==
  /\ sift.dir = "up"
  /\ MustGoUp
  /\ MoveTo(HEAP_PARENT(sift.index))

sift_down ==
  /\ sift.dir = "down"
  /\ MustGoDown
  /\ MoveTo(YoungerChild)

(* The direction in which the heap is repaired when event e takes a slot   *)
(* that held event old; and a mutant that only ever repairs downwards.     *)
RepairDirection_DownOnly(e, old) == "down"

RepairDirection(e, old) == IF YOUNGER_THAN(e, old) THEN "up" ELSE "down"

(* Mutant: the owner is not told where the loop has put its event.         *)
Tell_Nobody == idx

(* The owner of the event in hand learns its slot from its updater, or     *)
(* from the value returned by qse_tmr_insert() and qse_tmr_update(), which *)
(* it stores.  There is no updater call when the event did not move.       *)
Tell ==
  IF sift.notify /\ sift.index = sift.old_index
  THEN idx
  ELSE updater(sift.item.ctx, sift.index)

(* The end of both loops.                                                  *)
SiftDone ==
  /\ \/ sift.dir = "up" /\ ~ MustGoUp
     \/ sift.dir = "down" /\ ~ MustGoDown
  /\ event' = [event EXCEPT ![sift.index] = sift.item]
  /\ idx' = Tell
  /\ sift' = NoSift
  /\ UNCHANGED <<size, capa, phase, now>>

-----------------------------------------------------------------------------
(* The operations.                                                         *)

(* A user of the timer calls it between two calls of qse_tmr_fire(), or    *)
(* from the handler of the event that has just fired.                      *)
UserMayCall == sift = NoSift /\ phase \in {"none", "handler"}

(* Mutant: the array grows one event too late.                             *)
GrowIfFull_Late == IF size > capa THEN 2 * capa ELSE capa

GrowIfFull == IF size >= capa THEN 2 * capa ELSE capa

(* A failing reallocation makes qse_tmr_insert() return before it has      *)
(* changed anything; the array is doubled otherwise.                       *)
qse_tmr_insert(e) ==
  /\ UserMayCall
  /\ idx[e.ctx] = NoIndex
  /\ capa' = GrowIfFull
  /\ size' = size + 1
  /\ event' = [i \in 0 .. size |-> IF i = size THEN e ELSE event[i]]
  /\ StartSift("up", e, size, FALSE)
  /\ UNCHANGED <<idx, phase, now>>

(* qse_tmr_delete() up to its sift loop: the last event takes the place of *)
(* the deleted one.                                                        *)
qse_tmr_delete(i) ==
  LET last == size - 1
      told == updater(event[i].ctx, NoIndex)
  IN  /\ size' = last
      /\ IF i = last
         THEN /\ event' = [j \in 0 .. last - 1 |-> event[j]]
              /\ idx' = told
              /\ sift' = NoSift
         ELSE /\ event' = [j \in 0 .. last - 1 |->
                             IF j = i THEN event[last] ELSE event[j]]
              /\ idx' = [told EXCEPT ![event[last].ctx] = i]
              /\ StartSift(RepairDirection(event[last], event[i]),
                           event[last], i, TRUE)
      /\ UNCHANGED <<capa, now>>

(* An owner cancels its event by the position it remembers.                *)
CancelEvent(c) ==
  /\ UserMayCall
  /\ idx[c] # NoIndex
  /\ qse_tmr_delete(idx[c])
  /\ UNCHANGED phase

qse_tmr_update(c, t) ==
  LET i == idx[c]
      e == [ctx |-> c, when |-> t]
  IN  /\ UserMayCall
      /\ i # NoIndex
      /\ event' = [event EXCEPT ![i] = e]
      /\ StartSift(RepairDirection(e, event[i]), e, i, FALSE)
      /\ UNCHANGED <<size, capa, idx, phase, now>>

(* Mutant: an event that falls due at the very time of the call waits.     *)
RootIsDue_Strict == size > 0 /\ event[0].when < now

RootIsDue == size > 0 /\ event[0].when <= now

(* qse_tmr_fire(): the call, its loop and the handler it calls.            *)
qse_tmr_fire(t) ==
  /\ sift = NoSift
  /\ phase = "none"
  /\ phase' = "fire"
  /\ now' = t
  /\ UNCHANGED <<size, capa, event, idx, sift>>

FireEvent ==
  /\ sift = NoSift
  /\ phase = "fire"
  /\ RootIsDue
  /\ qse_tmr_delete(0)
  /\ phase' = "handler"

HandlerReturns ==
  /\ sift = NoSift
  /\ phase = "handler"
  /\ phase' = "fire"
  /\ UNCHANGED <<size, capa, event, idx, sift, now>>

FireReturns ==
  /\ sift = NoSift
  /\ phase = "fire"
  /\ ~ RootIsDue
  /\ phase' = "none"
  /\ UNCHANGED <<size, capa, event, idx, sift, now>>

(* qse_tmr_clear(), also the first half of qse_tmr_fini().                 *)
qse_tmr_clear ==
  /\ sift = NoSift
  /\ phase = "none"
  /\ phase' = "clear"
  /\ UNCHANGED <<size, capa, event, idx, sift, now>>

ClearEvent ==
  /\ sift = NoSift
  /\ phase = "clear"
  /\ size > 0
  /\ qse_tmr_delete(0)
  /\ UNCHANGED phase

ClearReturns ==
  /\ sift = NoSift
  /\ phase = "clear"
  /\ size = 0
  /\ phase' = "none"
  /\ UNCHANGED <<size, capa, event, idx, sift, now>>

Next ==
  \/ sift_up
  \/ sift_down
  \/ SiftDone
  \/ \E e \in Events : qse_tmr_insert(e)
  \/ \E c \in Ctx : CancelEvent(c)
  \/ \E c \in Ctx, t \in Times : qse_tmr_update(c, t)
  \/ \E t \in Times : qse_tmr_fire(t)
  \/ FireEvent
  \/ HandlerReturns
  \/ FireReturns
  \/ qse_tmr_clear
  \/ ClearEvent
  \/ ClearReturns

Spec == Init /\ [][Next]_vars

-----------------------------------------------------------------------------
(* Properties.                                                             *)

(* The slots that hold a scheduled event: all of them, except that the     *)
(* slot of the event in hand of a sift loop holds a stale copy.            *)
Settled == {i \in 0 .. size - 1 : sift = NoSift \/ i # sift.index}

TypeOK ==
  /\ size \in Nat
  /\ capa \in Nat \ {0}
  /\ size <= capa
  /\ event \in [0 .. size - 1 -> Events]
  /\ idx \in [Ctx -> Nat \union {NoIndex}]
  /\ sift \in Sifts \union {NoSift}
  /\ sift # NoSift => sift.index < size /\ sift.old_index < size
  /\ phase \in {"none", "fire", "handler", "clear"}
  /\ now \in Times

(* The assertion `client->tmr_idle == old_index' of the updaters, and what *)
(* makes deleting by a remembered position safe: at every point, also in   *)
(* the middle of a sift loop, the owner of every settled event remembers   *)
(* exactly the slot its event is in, the owner of the event in hand        *)
(* remembers the slot it came from (or nothing yet, while it is inserted), *)
(* and an owner with no event remembers no slot.                           *)
OwnersKnowTheirSlots ==
  /\ \A i \in Settled : idx[event[i].ctx] = i
  /\ sift # NoSift =>
       /\ idx[sift.item.ctx] \in {sift.old_index, NoIndex}
       /\ sift.notify => idx[sift.item.ctx] = sift.old_index
       /\ \A i \in Settled : event[i].ctx # sift.item.ctx
  /\ \A c \in Ctx : idx[c] # NoIndex =>
       \/ sift # NoSift /\ sift.item.ctx = c
       \/ idx[c] \in Settled /\ event[idx[c]].ctx = c

(* The heap order of tmr->event, which qse_tmr_fire() and                  *)
(* qse_tmr_gettmout() rely on when they look only at event[0].  A sift     *)
(* loop may break it only around the slot it is working on, and only in    *)
(* the direction it is moving: going up, the event in hand is no later     *)
(* than what is below the slot; going down, it is no earlier than what is  *)
(* above.                                                                  *)
HeapOrder ==
  LET NotBelow(i, j) == ~ YOUNGER_THAN(event[i], event[j])
  IN  /\ \A i \in Settled \ {0} :
           HEAP_PARENT(i) \in Settled => NotBelow(i, HEAP_PARENT(i))
      /\ sift # NoSift =>
           \A i \in Settled : i > 0 /\ HEAP_PARENT(i) = sift.index =>
             /\ sift.index > 0 => NotBelow(i, HEAP_PARENT(sift.index))
             /\ sift.dir = "up" => ~ YOUNGER_THAN(event[i], sift.item)
      /\ sift # NoSift /\ sift.dir = "down" /\ sift.index > 0 =>
           ~ YOUNGER_THAN(sift.item, event[HEAP_PARENT(sift.index)])

(* Whenever no operation is in progress the root is the earliest event:   *)
(* the time-out qse_tmr_gettmout() computes from it never lets the main    *)
(* loop of httpd sleep past a deadline.                                    *)
RootIsEarliest ==
  sift = NoSift =>
    \A i \in 0 .. size - 1 : event[0].when <= event[i].when

(* The scheduled events, as the users of the timer see them.               *)
Pending ==
  {event[i] : i \in Settled} \union (IF sift = NoSift THEN {} ELSE {sift.item})

TQ == INSTANCE TimerQueue WITH pending <- Pending

(* Every step of the heap is a step of the abstract timer queue or leaves  *)
(* it as it is: no operation loses or duplicates an event, qse_tmr_fire()  *)
(* fires due events only, earliest first, and returns with none left, and  *)
(* qse_tmr_clear() returns with nothing scheduled.                         *)
ImplementsTimerQueue == TQ!Spec

=============================================================================
