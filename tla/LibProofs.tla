----------------------------- MODULE LibProofs ------------------------------
(***************************************************************************)
(* Proofs about two parts of the libraries below the server that share     *)
(* nothing: the timer queue of lib/cmn/tmr.c, for any set of owners, any   *)
(* times and any initial capacity, and the reader-writer lock of           *)
(* lib/si/rwl.c, for any finite set of threads.                            *)
(*                                                                         *)
(* The three invariants of the timer are inductive together.  HeapOrder    *)
(* speaks of the heap with the sifted event's slot left out, which is what *)
(* a sift loop preserves; OwnersKnowTheirSlots tells that an event is in   *)
(* one slot only, which the deletion of an event by its remembered slot    *)
(* needs.                                                                  *)
(***************************************************************************)
EXTENDS Tmr, Rwl, FiniteSetTheorems, WellFoundedInduction, TLAPS

(* Array indices of a binary heap.                                         *)

(* Every slot but the root is a child of its parent, which comes earlier.  *)
LEMMA HeapIndex ==
  \A i \in Nat \ {0} :
    /\ HEAP_PARENT(i) \in Nat
    /\ HEAP_PARENT(i) < i
    /\ i = HEAP_LEFT(HEAP_PARENT(i)) \/ i = HEAP_RIGHT(HEAP_PARENT(i))
  BY DEF HEAP_PARENT, HEAP_LEFT, HEAP_RIGHT

(* The children of a slot have it as their parent.                         *)
LEMMA ParentOfChild ==
  \A i \in Nat : 
    /\ HEAP_LEFT(i) \in Nat \ {0} /\ HEAP_PARENT(HEAP_LEFT(i)) = i
    /\ HEAP_RIGHT(i) \in Nat \ {0} /\ HEAP_PARENT(HEAP_RIGHT(i)) = i
  BY DEF HEAP_PARENT, HEAP_LEFT, HEAP_RIGHT

(* The loop condition of sift_down(), index < size / 2, says that there is *)
(* a left child.                                                           *)
LEMMA HalfBound ==
  \A i, n \in Nat : i < n \div 2 <=> HEAP_LEFT(i) < n
  BY DEF HEAP_LEFT

IInv == TypeOK /\ OwnersKnowTheirSlots /\ HeapOrder

(* The types of the parts of a sift loop in progress.                      *)
LEMMA SiftTyped ==
  ASSUME TypeOK, sift # NoSift
  PROVE  /\ sift \in Sifts
         /\ sift.dir \in {"up", "down"}
         /\ sift.item \in Events
         /\ sift.item.ctx \in Ctx /\ sift.item.when \in Int
         /\ sift.index \in 0 .. size - 1
         /\ sift.old_index \in 0 .. size - 1
         /\ sift.notify \in BOOLEAN
         /\ size \in Nat
<1>1. sift \in Sifts
  BY DEF TypeOK
<1>2. sift.item \in Events
  BY <1>1 DEF Sifts
<1>3. sift.item.ctx \in Ctx /\ sift.item.when \in Int
  BY <1>2, TmrAssumption DEF Events
<1> QED
  BY <1>1, <1>2, <1>3 DEF TypeOK, Sifts

(* A direction means that a loop is in progress.                           *)
LEMMA SiftingDir ==
  ASSUME sift.dir \in {"up", "down"}
  PROVE  sift # NoSift
  BY DEF NoSift

(* The types of an event in the heap.                                      *)
LEMMA EventTyped ==
  ASSUME TypeOK, NEW i \in 0 .. size - 1
  PROVE  event[i] \in Events /\ event[i].ctx \in Ctx /\ event[i].when \in Int
  BY TmrAssumption DEF TypeOK, Events

(* sift_down() compares with a child that no other child precedes.         *)
LEMMA YoungerChildIsChild ==
  ASSUME TypeOK, sift # NoSift, sift.index < size \div 2
  PROVE  /\ YoungerChild \in 1 .. size - 1
         /\ HEAP_PARENT(YoungerChild) = sift.index
         /\ YoungerChild > sift.index
         /\ \A i \in 1 .. size - 1 : HEAP_PARENT(i) = sift.index =>
              ~ YOUNGER_THAN(event[i], event[YoungerChild])
<1> DEFINE L == HEAP_LEFT(sift.index)
           R == HEAP_RIGHT(sift.index)
<1>0. sift.index \in Nat /\ size \in Nat
  BY SiftTyped
<1>1. L \in 1 .. size - 1 /\ R = L + 1 /\ L > sift.index
  BY <1>0, HalfBound DEF HEAP_LEFT, HEAP_RIGHT
<1>2. \A i \in 1 .. size - 1 : HEAP_PARENT(i) = sift.index => i = L \/ i = R
  BY <1>0, HeapIndex
<1>3. \A i \in 0 .. size - 1 : event[i].when \in Int
  BY EventTyped
<1>4. YoungerChild = IF R < size /\ YOUNGER_THAN(event[R], event[L])
                     THEN R ELSE L
  BY DEF YoungerChild
<1>5. HEAP_PARENT(L) = sift.index /\ HEAP_PARENT(R) = sift.index
  BY <1>0, ParentOfChild
<1> HIDE DEF L, R
<1> QED
  BY <1>0, <1>1, <1>2, <1>3, <1>4, <1>5 DEF YOUNGER_THAN

(* One iteration of a sift loop.                                           *)

(* Moving an event into the open slot preserves the types.                 *)
LEMMA MoveTyped ==
  ASSUME TypeOK, sift # NoSift, NEW from \in 0 .. size - 1, MoveTo(from)
  PROVE  TypeOK'
<1>1. event[from] \in Events /\ event[from].ctx \in Ctx
  BY EventTyped
<1>2. sift' \in Sifts /\ sift'.index = from /\ sift'.old_index = sift.old_index
  BY SiftTyped DEF MoveTo, Sifts
<1>3. event' \in [0 .. size - 1 -> Events]
  BY <1>1 DEF MoveTo, TypeOK
<1>4. idx' \in [Ctx -> Nat \union {NoIndex}]
  BY <1>1, SiftTyped DEF MoveTo, TypeOK, updater
<1> QED
  BY <1>2, <1>3, <1>4, SiftTyped DEF MoveTo, TypeOK

(* Moving an event into the open slot, and telling its owner, leaves every *)
(* owner but the sifted event's informed.                                  *)
LEMMA MoveOwners ==
  ASSUME TypeOK, OwnersKnowTheirSlots, sift # NoSift,
         NEW from \in 0 .. size - 1, from # sift.index, MoveTo(from)
  PROVE  OwnersKnowTheirSlots'
<1> DEFINE s == sift.index
           c == sift.item.ctx
<1>1. /\ s \in 0 .. size - 1 /\ sift' = [sift EXCEPT !.index = from]
      /\ sift' # NoSift /\ sift'.index = from /\ sift'.item = sift.item
      /\ sift'.old_index = sift.old_index /\ sift'.notify = sift.notify
      /\ size' = size
  BY SiftTyped DEF MoveTo, NoSift, Sifts
<1>2. Settled = (0 .. size - 1) \ {s} /\ Settled' = (0 .. size - 1) \ {from}
  BY <1>1 DEF Settled
<1>3. /\ DOMAIN event = 0 .. size - 1
      /\ \A i \in 0 .. size - 1 : event'[i] = IF i = s THEN event[from] ELSE event[i]
      /\ \A i \in 0 .. size - 1 : event[i].ctx \in Ctx
  BY <1>1, EventTyped DEF TypeOK, MoveTo
<1>4. \A d \in Ctx : idx'[d] = IF d = event[from].ctx THEN s ELSE idx[d]
  BY <1>3 DEF TypeOK, MoveTo, updater
<1>5. /\ \A i \in Settled : idx[event[i].ctx] = i
      /\ idx[c] \in {sift.old_index, NoIndex}
      /\ sift.notify => idx[c] = sift.old_index
      /\ \A i \in Settled : event[i].ctx # c
      /\ \A d \in Ctx : idx[d] # NoIndex =>
           \/ c = d
           \/ idx[d] \in Settled /\ event[idx[d]].ctx = d
  BY DEF OwnersKnowTheirSlots
<1>6. c \in Ctx
  BY SiftTyped DEF Events
<1> HIDE DEF s, c
<1>7. idx[event[from].ctx] = from /\ event[from].ctx # c
  BY <1>2, <1>5 DEF s
<1>8. \A i \in Settled' : idx'[event'[i].ctx] = i
  BY <1>2, <1>3, <1>4, <1>5, <1>7
<1>9. \A i \in Settled' : event'[i].ctx # c
  BY <1>2, <1>3, <1>4, <1>5, <1>7
<1>10. idx'[c] = idx[c]
  BY <1>4, <1>6, <1>7
<1>11. \A d \in Ctx : idx'[d] # NoIndex =>
           \/ c = d
           \/ idx'[d] \in Settled' /\ event'[idx'[d]].ctx = d
  <2> SUFFICES ASSUME NEW d \in Ctx, idx'[d] # NoIndex, c # d
               PROVE  idx'[d] \in Settled' /\ event'[idx'[d]].ctx = d
    OBVIOUS
  <2>1. CASE d = event[from].ctx
    BY <2>1, <1>1, <1>2, <1>3, <1>4 DEF s
  <2>2. CASE d # event[from].ctx
    <3>1. idx[d] \in Settled /\ event[idx[d]].ctx = d /\ idx'[d] = idx[d]
      BY <2>2, <1>4, <1>5
    <3> QED
      BY <3>1, <2>2, <1>2, <1>3
  <2> QED
    BY <2>1, <2>2
<1> QED
  BY <1>1, <1>5, <1>8, <1>9, <1>10, <1>11 DEF OwnersKnowTheirSlots, c

(* HeapOrder in terms of the times, for a sift loop in progress.           *)
HeapOrderSifting ==
  /\ \A i \in 1 .. size - 1 :
       i # sift.index /\ HEAP_PARENT(i) # sift.index =>
         event[HEAP_PARENT(i)].when <= event[i].when
  /\ \A i \in 1 .. size - 1 : HEAP_PARENT(i) = sift.index =>
       /\ sift.index > 0 =>
            event[HEAP_PARENT(sift.index)].when <= event[i].when
       /\ sift.dir = "up" => sift.item.when <= event[i].when
  /\ sift.dir = "down" /\ sift.index > 0 =>
       event[HEAP_PARENT(sift.index)].when <= sift.item.when

(* And between two operations.                                             *)
HeapOrderIdle ==
  \A i \in 1 .. size - 1 : event[HEAP_PARENT(i)].when <= event[i].when

(* HeapOrder in the form the proofs use: parent against child, and across  *)
(* the open slot.                                                          *)
LEMMA HeapOrderMeans ==
  TypeOK => (HeapOrder <=> IF sift = NoSift THEN HeapOrderIdle
                                            ELSE HeapOrderSifting)
<1> SUFFICES ASSUME TypeOK
             PROVE  HeapOrder <=> IF sift = NoSift THEN HeapOrderIdle
                                                   ELSE HeapOrderSifting
  OBVIOUS
<1>1. \A i \in 0 .. size - 1 : event[i].when \in Int
  BY EventTyped
<1>2. \A i \in 1 .. size - 1 : HEAP_PARENT(i) \in 0 .. size - 1 /\ HEAP_PARENT(i) < i
  BY HeapIndex DEF TypeOK
<1>3. CASE sift = NoSift
  <2>1. Settled = 0 .. size - 1 /\ size \in Nat
    BY <1>3 DEF Settled, TypeOK
  <2> QED
    BY <1>1, <1>2, <1>3, <2>1 DEF HeapOrder, HeapOrderIdle, YOUNGER_THAN
<1>4. CASE sift # NoSift
  <2>1. sift.index \in 0 .. size - 1 /\ size \in Nat /\ sift.item.when \in Int
    BY <1>4, SiftTyped
  <2>2. Settled = (0 .. size - 1) \ {sift.index}
    BY <1>4, <2>1 DEF Settled
  <2> QED
    BY <1>1, <1>2, <1>4, <2>1, <2>2 DEF HeapOrder, HeapOrderSifting, YOUNGER_THAN
<1> QED
  BY <1>3, <1>4

(* The effect of a move on the array.                                      *)
LEMMA MoveEffect ==
  ASSUME TypeOK, sift # NoSift, NEW from \in 0 .. size - 1, MoveTo(from)
  PROVE  /\ sift' # NoSift /\ sift'.index = from /\ sift'.item = sift.item
         /\ sift'.dir = sift.dir /\ size' = size
         /\ \A i \in 0 .. size - 1 :
              event'[i] = IF i = sift.index THEN event[from] ELSE event[i]
  BY SiftTyped DEF TypeOK, MoveTo, NoSift, Sifts

(* An iteration of sift_up() preserves the order.                          *)
LEMMA SiftUpHeap ==
  ASSUME TypeOK, HeapOrder, sift_up
  PROVE  HeapOrder'
<1> DEFINE s    == sift.index
           from == HEAP_PARENT(sift.index)
<1>1. /\ sift # NoSift /\ s \in 1 .. size - 1 /\ size \in Nat
      /\ sift.item.when \in Int /\ sift.dir = "up"
  <2>1. sift.dir = "up" /\ sift.index > 0
    BY DEF sift_up, MustGoUp
  <2>2. sift # NoSift
    BY <2>1, SiftingDir
  <2> QED
    BY <2>1, <2>2, SiftTyped
<1>2. from \in 0 .. size - 1 /\ from < s
  BY <1>1, HeapIndex
<1>3. MoveTo(from) /\ sift.item.when < event[from].when
  BY DEF sift_up, MustGoUp, YOUNGER_THAN
<1>4. TypeOK'
  BY <1>1, <1>2, <1>3, MoveTyped
<1>5. /\ sift' # NoSift /\ sift'.index = from /\ sift'.item = sift.item
      /\ sift'.dir = "up" /\ size' = size
      /\ \A i \in 0 .. size - 1 :
           event'[i].when = IF i = s THEN event[from].when ELSE event[i].when
  BY <1>1, <1>2, <1>3, MoveEffect
<1>6. \A i \in 0 .. size - 1 : event[i].when \in Int
  BY EventTyped
<1>7. \A i \in 1 .. size - 1 : HEAP_PARENT(i) \in 0 .. size - 1 /\ HEAP_PARENT(i) < i
  BY <1>1, HeapIndex
<1>8. /\ \A i \in 1 .. size - 1 : i # s /\ HEAP_PARENT(i) # s =>
           event[HEAP_PARENT(i)].when <= event[i].when
      /\ \A i \in 1 .. size - 1 : HEAP_PARENT(i) = s =>
           event[from].when <= event[i].when
  BY <1>1, HeapOrderMeans DEF HeapOrderSifting
<1> SUFFICES
       /\ \A i \in 1 .. size - 1 : i # from /\ HEAP_PARENT(i) # from =>
            event'[HEAP_PARENT(i)].when <= event'[i].when
       /\ \A i \in 1 .. size - 1 : HEAP_PARENT(i) = from =>
            /\ from > 0 => event'[HEAP_PARENT(from)].when <= event'[i].when
            /\ sift.item.when <= event'[i].when
  <2>1. (TypeOK => (HeapOrder <=> IF sift = NoSift THEN HeapOrderIdle
                                                  ELSE HeapOrderSifting))'
    BY HeapOrderMeans, PTL
  <2> QED
    BY <1>4, <1>5, <2>1 DEF HeapOrderSifting
<1> HIDE DEF s, from
<1>9. ASSUME NEW i \in 1 .. size - 1, i # from, HEAP_PARENT(i) # from
      PROVE  event'[HEAP_PARENT(i)].when <= event'[i].when
  BY <1>1, <1>2, <1>5, <1>6, <1>7, <1>8, <1>9 DEF s, from
<1>10. ASSUME NEW i \in 1 .. size - 1, HEAP_PARENT(i) = from
       PROVE  event[from].when <= event'[i].when
  BY <1>1, <1>2, <1>5, <1>6, <1>7, <1>8, <1>10 
<1>11. from > 0 => event'[HEAP_PARENT(from)].when <= event[from].when
  BY <1>1, <1>2, <1>5, <1>6, <1>7, <1>8
<1>12. \A i \in 0 .. size - 1 : event'[i].when \in Int
  BY <1>2, <1>5, <1>6
<1> QED
  BY <1>1, <1>2, <1>3, <1>6, <1>7, <1>9, <1>10, <1>11, <1>12


(* An iteration of sift_down() preserves the order.                        *)
LEMMA SiftDownHeap ==
  ASSUME TypeOK, HeapOrder, sift_down
  PROVE  HeapOrder'
<1> DEFINE s    == sift.index
           from == YoungerChild
<1>1. /\ sift # NoSift /\ s \in 0 .. size - 1 /\ size \in Nat
      /\ sift.item.when \in Int /\ sift.dir = "down"
  <2>1. sift.dir = "down"
    BY DEF sift_down
  <2>2. sift # NoSift
    BY <2>1, SiftingDir
  <2> QED
    BY <2>1, <2>2, SiftTyped
<1>2. /\ from \in 1 .. size - 1 /\ HEAP_PARENT(from) = s /\ from > s
      /\ \A i \in 1 .. size - 1 : HEAP_PARENT(i) = s =>
           ~ YOUNGER_THAN(event[i], event[from])
  BY <1>1, YoungerChildIsChild DEF sift_down, MustGoDown
<1> HIDE DEF from
<1>3. MoveTo(from) /\ ~ YOUNGER_THAN(sift.item, event[from])
  BY DEF sift_down, MustGoDown, from
<1>4. TypeOK'
  BY <1>1, <1>2, <1>3, MoveTyped
<1>5. /\ sift' # NoSift /\ sift'.index = from /\ sift'.item = sift.item
      /\ sift'.dir = "down" /\ size' = size
      /\ \A i \in 0 .. size - 1 :
           event'[i].when = IF i = s THEN event[from].when ELSE event[i].when
  BY <1>1, <1>2, <1>3, MoveEffect
<1>6. \A i \in 0 .. size - 1 : event[i].when \in Int
  BY EventTyped
<1>7. \A i \in 1 .. size - 1 : HEAP_PARENT(i) \in 0 .. size - 1 /\ HEAP_PARENT(i) < i
  BY <1>1, HeapIndex
<1>8. HeapOrderSifting
  BY <1>1, HeapOrderMeans
<1>9. /\ event[from].when <= sift.item.when
      /\ \A i \in 1 .. size - 1 : HEAP_PARENT(i) = s =>
           event[from].when <= event[i].when
  BY <1>1, <1>2, <1>3, <1>6 DEF YOUNGER_THAN
<1> SUFFICES
       /\ \A i \in 1 .. size - 1 : i # from /\ HEAP_PARENT(i) # from =>
            event'[HEAP_PARENT(i)].when <= event'[i].when
       /\ \A i \in 1 .. size - 1 : HEAP_PARENT(i) = from =>
            event'[s].when <= event'[i].when
       /\ event'[s].when <= sift.item.when
  <2>1. (TypeOK => (HeapOrder <=> IF sift = NoSift THEN HeapOrderIdle
                                                  ELSE HeapOrderSifting))'
    BY HeapOrderMeans, PTL
  <2> QED
    BY <1>2, <1>4, <1>5, <2>1 DEF HeapOrderSifting
<1>10. ASSUME NEW i \in 1 .. size - 1, i # from, HEAP_PARENT(i) # from
       PROVE  event'[HEAP_PARENT(i)].when <= event'[i].when
  <2>1. CASE i = s
    BY <2>1, <1>1, <1>2, <1>5, <1>7, <1>8, <1>10 DEF HeapOrderSifting
  <2>2. CASE HEAP_PARENT(i) = s
    BY <2>2, <1>1, <1>2, <1>5, <1>7, <1>9, <1>10
  <2>3. CASE i # s /\ HEAP_PARENT(i) # s
    BY <2>3, <1>1, <1>5, <1>7, <1>8, <1>10 DEF HeapOrderSifting
  <2> QED
    BY <2>1, <2>2, <2>3
<1>11. ASSUME NEW i \in 1 .. size - 1, HEAP_PARENT(i) = from
       PROVE  event'[s].when <= event'[i].when
  BY <1>1, <1>2, <1>5, <1>7, <1>8, <1>11 DEF HeapOrderSifting
<1> QED
  BY <1>1, <1>5, <1>9, <1>10, <1>11


-----------------------------------------------------------------------------
(* The end of a sift loop.                                                 *)

(* The end of a loop puts the sifted event into the open slot and tells    *)
(* its owner.                                                              *)
LEMMA SiftDoneTyped ==
  ASSUME TypeOK, OwnersKnowTheirSlots, SiftDone
  PROVE  /\ sift # NoSift
         /\ sift' = NoSift
         /\ size' = size
         /\ event' = [event EXCEPT ![sift.index] = sift.item]
         /\ \A d \in Ctx : idx'[d] = IF d = sift.item.ctx THEN sift.index
                                                          ELSE idx[d]
         /\ TypeOK'
<1>1. sift # NoSift
  BY SiftingDir DEF SiftDone
<1>2. /\ sift.index \in 0 .. size - 1 /\ sift.item \in Events
      /\ sift.item.ctx \in Ctx /\ sift.notify \in BOOLEAN /\ size \in Nat
  BY <1>1, SiftTyped
<1>3. sift.notify => idx[sift.item.ctx] = sift.old_index
  BY <1>1 DEF OwnersKnowTheirSlots
<1>4. /\ \A d \in Ctx : idx'[d] = IF d = sift.item.ctx THEN sift.index
                                                       ELSE idx[d]
      /\ idx' \in [Ctx -> Nat \union {NoIndex}]
  BY <1>2, <1>3 DEF SiftDone, Tell, updater, TypeOK
<1>5. event' \in [0 .. size - 1 -> Events]
  BY <1>2 DEF SiftDone, TypeOK
<1> QED
  BY <1>1, <1>4, <1>5 DEF SiftDone, TypeOK

(* When a loop ends, every owner is informed again.                        *)
LEMMA SiftDoneOwners ==
  ASSUME TypeOK, OwnersKnowTheirSlots, SiftDone
  PROVE  OwnersKnowTheirSlots'
<1> DEFINE s == sift.index
           c == sift.item.ctx
<1>1. /\ sift # NoSift /\ sift' = NoSift /\ size' = size
      /\ \A d \in Ctx : idx'[d] = IF d = c THEN s ELSE idx[d]
      /\ event' = [event EXCEPT ![s] = sift.item]
  BY SiftDoneTyped
<1>2. s \in 0 .. size - 1 /\ c \in Ctx /\ size \in Nat
  BY <1>1, SiftTyped
<1>3. Settled = (0 .. size - 1) \ {s} /\ Settled' = 0 .. size - 1
  BY <1>1, <1>2 DEF Settled
<1>4. /\ \A i \in 0 .. size - 1 : event'[i] = IF i = s THEN sift.item ELSE event[i]
      /\ \A i \in 0 .. size - 1 : event[i].ctx \in Ctx
  BY <1>1, <1>2, EventTyped DEF TypeOK
<1>5. /\ \A i \in Settled : idx[event[i].ctx] = i
      /\ \A i \in Settled : event[i].ctx # c
      /\ \A d \in Ctx : idx[d] # NoIndex =>
           \/ c = d
           \/ idx[d] \in Settled /\ event[idx[d]].ctx = d
  <2>1. sift # NoSift
    BY <1>1
  <2> QED
    BY <2>1 DEF OwnersKnowTheirSlots
<1> HIDE DEF s
<1>6. \A i \in Settled' : idx'[event'[i].ctx] = i
  BY <1>1, <1>2, <1>3, <1>4, <1>5
<1>7. \A d \in Ctx : idx'[d] # NoIndex => idx'[d] \in Settled' /\ event'[idx'[d]].ctx = d
  BY <1>1, <1>2, <1>3, <1>4, <1>5
<1> QED
  BY <1>1, <1>6, <1>7 DEF OwnersKnowTheirSlots

(* When a loop ends, the whole array is in heap order.                     *)
LEMMA SiftDoneHeap ==
  ASSUME TypeOK, OwnersKnowTheirSlots, HeapOrder, SiftDone
  PROVE  HeapOrder'
<1> DEFINE s == sift.index
           w == sift.item.when
<1>1. /\ sift # NoSift /\ sift' = NoSift /\ size' = size /\ TypeOK'
      /\ event' = [event EXCEPT ![s] = sift.item]
  BY SiftDoneTyped
<1>2. s \in 0 .. size - 1 /\ w \in Int /\ size \in Nat /\ sift.dir \in {"up", "down"}
  BY <1>1, SiftTyped
<1>3. \A i \in 0 .. size - 1 :
        event[i].when \in Int /\ event'[i].when = IF i = s THEN w ELSE event[i].when
  BY <1>1, <1>2, EventTyped DEF TypeOK
<1>4. \A i \in 1 .. size - 1 : HEAP_PARENT(i) \in 0 .. size - 1 /\ HEAP_PARENT(i) < i
  BY <1>2, HeapIndex
<1>5. HeapOrderSifting
  BY <1>1, HeapOrderMeans
<1>6. s > 0 => event[HEAP_PARENT(s)].when <= w
  BY <1>1, <1>2, <1>3, <1>4, <1>5
     DEF SiftDone, MustGoUp, YOUNGER_THAN, HeapOrderSifting
<1>7. ASSUME NEW i \in 1 .. size - 1, HEAP_PARENT(i) = s
      PROVE  w <= event[i].when
  <2>1. CASE sift.dir = "up"
    BY <2>1, <1>5, <1>7 DEF HeapOrderSifting
  <2>2. CASE sift.dir = "down"
    <3>1. s < size \div 2
      BY <1>2, <1>7, HeapIndex, HalfBound DEF HEAP_LEFT, HEAP_RIGHT
    <3>2. /\ YoungerChild \in 1 .. size - 1
          /\ ~ YOUNGER_THAN(event[i], event[YoungerChild])
      BY <1>1, <1>7, <3>1, YoungerChildIsChild
    <3>3. YOUNGER_THAN(sift.item, event[YoungerChild])
      BY <2>2, <3>1 DEF SiftDone, MustGoDown
    <3> QED
      BY <1>2, <1>3, <3>2, <3>3 DEF YOUNGER_THAN
  <2> QED
    BY <1>2, <2>1, <2>2
<1>8. ASSUME NEW i \in 1 .. size - 1
      PROVE  event'[HEAP_PARENT(i)].when <= event'[i].when
  BY <1>2, <1>3, <1>4, <1>5, <1>6, <1>7 DEF HeapOrderSifting
<1>9. (TypeOK => (HeapOrder <=> IF sift = NoSift THEN HeapOrderIdle
                                                ELSE HeapOrderSifting))'
  BY HeapOrderMeans, PTL
<1> QED
  BY <1>1, <1>8, <1>9 DEF HeapOrderIdle


-----------------------------------------------------------------------------
(* The steps that start a sift loop.                                       *)

(* What the invariants say when no loop is in progress.                    *)
LEMMA IdleOwners ==
  ASSUME TypeOK, OwnersKnowTheirSlots, sift = NoSift
  PROVE  /\ Settled = 0 .. size - 1
         /\ \A i \in 0 .. size - 1 : idx[event[i].ctx] = i
         /\ \A d \in Ctx : idx[d] # NoIndex =>
              idx[d] \in 0 .. size - 1 /\ event[idx[d]].ctx = d
<1>1. Settled = 0 .. size - 1
  BY DEF Settled
<1> QED
  BY <1>1 DEF OwnersKnowTheirSlots

(* A new event in slot i, all other slots as they were: the direction      *)
(* chosen by comparing it with the event it replaces is the right one.     *)
LEMMA RepairHeap ==
  ASSUME TypeOK, TypeOK', HeapOrder, sift = NoSift, sift' # NoSift,
         NEW n \in Nat, size' = n, n <= size, NEW i \in 0 .. n - 1,
         \A j \in 0 .. n - 1 : j # i => event'[j] = event[j],
         sift'.index = i,
         sift'.dir = RepairDirection(sift'.item, event[i])
  PROVE  HeapOrder'
<1> DEFINE w == sift'.item.when
<1>1. size \in Nat /\ i \in 0 .. size - 1
  BY DEF TypeOK
<1>2. \A j \in 0 .. size - 1 : event[j].when \in Int
  BY EventTyped
<1>3. \A j \in 1 .. size - 1 : HEAP_PARENT(j) \in 0 .. size - 1 /\ HEAP_PARENT(j) < j
  BY <1>1, HeapIndex
<1>4. \A j \in 1 .. size - 1 : event[HEAP_PARENT(j)].when <= event[j].when
  BY HeapOrderMeans DEF HeapOrderIdle
<1>5. w \in Int
  <2>1. sift' \in Sifts
    BY DEF TypeOK
  <2>2. sift'.item \in Events
    BY <2>1 DEF Sifts
  <2> QED
    BY <2>2, TmrAssumption DEF Events
<1>6. /\ sift'.dir = "up" => w < event[i].when
      /\ sift'.dir = "down" => event[i].when <= w
  BY <1>1, <1>2, <1>5 DEF RepairDirection, YOUNGER_THAN
<1>7. (TypeOK => (HeapOrder <=> IF sift = NoSift THEN HeapOrderIdle
                                                ELSE HeapOrderSifting))'
  BY HeapOrderMeans, PTL
<1>8. \A j \in 0 .. n - 1 : j # i => event'[j].when = event[j].when
  OBVIOUS
<1> SUFFICES
       /\ \A j \in 1 .. n - 1 : j # i /\ HEAP_PARENT(j) # i =>
            event'[HEAP_PARENT(j)].when <= event'[j].when
       /\ \A j \in 1 .. n - 1 : HEAP_PARENT(j) = i =>
            /\ i > 0 => event'[HEAP_PARENT(i)].when <= event'[j].when
            /\ sift'.dir = "up" => w <= event'[j].when
       /\ sift'.dir = "down" /\ i > 0 => event'[HEAP_PARENT(i)].when <= w
  BY <1>7 DEF HeapOrderSifting
<1> HIDE DEF w
<1>9. ASSUME NEW j \in 1 .. n - 1, j # i, HEAP_PARENT(j) # i
      PROVE  event'[HEAP_PARENT(j)].when <= event'[j].when
  BY <1>1, <1>3, <1>4, <1>8, <1>9
<1>10. i > 0 => event'[HEAP_PARENT(i)].when = event[HEAP_PARENT(i)].when
                /\ event[HEAP_PARENT(i)].when <= event[i].when
  <2> SUFFICES ASSUME i > 0
               PROVE  event'[HEAP_PARENT(i)].when = event[HEAP_PARENT(i)].when
                      /\ event[HEAP_PARENT(i)].when <= event[i].when
    OBVIOUS
  <2>1. HEAP_PARENT(i) \in 0 .. n - 1 /\ HEAP_PARENT(i) # i
    <3>1. i \in Nat \ {0} /\ i <= n - 1
      BY <1>1
    <3>2. HEAP_PARENT(i) \in Nat /\ HEAP_PARENT(i) < i
      BY <3>1, HeapIndex
    <3> QED
      BY <1>1, <3>1, <3>2
  <2> QED
    BY <2>1, <1>1, <1>4, <1>8
<1>11. ASSUME NEW j \in 1 .. n - 1, HEAP_PARENT(j) = i
       PROVE  event[i].when <= event'[j].when /\ event'[j].when \in Int
  BY <1>1, <1>2, <1>3, <1>4, <1>8, <1>11
<1> QED
  BY <1>1, <1>2, <1>3, <1>5, <1>6, <1>9, <1>10, <1>11


(* qse_tmr_insert() preserves the invariant.                               *)
LEMMA InsertInv ==
  ASSUME IInv, NEW e \in Events, qse_tmr_insert(e)
  PROVE  IInv'
<1> DEFINE n == size
<1>1. /\ TypeOK /\ OwnersKnowTheirSlots /\ HeapOrder /\ sift = NoSift
      /\ n \in Nat /\ idx[e.ctx] = NoIndex /\ e.ctx \in Ctx /\ e.when \in Int
  BY TmrAssumption DEF IInv, qse_tmr_insert, UserMayCall, TypeOK, Events
<1>2. /\ size' = n + 1
      /\ \A i \in 0 .. n : event'[i] = IF i = n THEN e ELSE event[i]
      /\ sift' = [dir |-> "up", item |-> e, index |-> n, old_index |-> n,
                  notify |-> FALSE]
      /\ idx' = idx /\ phase' = phase /\ now' = now
  BY DEF qse_tmr_insert, StartSift
<1>3. TypeOK'
  <2>1. sift' \in Sifts /\ sift'.index = n /\ sift'.old_index = n
    BY <1>1, <1>2 DEF Sifts
  <2>2. event' \in [0 .. n -> Events]
    BY <1>1 DEF qse_tmr_insert, TypeOK
  <2>3. capa' \in Nat /\ n + 1 <= capa'
    BY <1>1 DEF qse_tmr_insert, GrowIfFull, TypeOK
  <2>4. (0 .. n) = 0 .. size' - 1
    BY <1>1, <1>2
  <2> QED
    BY <1>1, <1>2, <2>1, <2>2, <2>3, <2>4 DEF TypeOK
<1>4. /\ sift' # NoSift /\ sift'.dir = "up" /\ sift'.item = e /\ sift'.index = n
      /\ sift'.old_index = n /\ sift'.notify = FALSE
  BY <1>2 DEF NoSift
<1>5. Settled' = 0 .. n - 1 /\ n \notin 0 .. n - 1
  BY <1>1, <1>2, <1>4 DEF Settled
<1>6. /\ \A i \in 0 .. n - 1 : idx[event[i].ctx] = i /\ event'[i] = event[i]
      /\ \A d \in Ctx : idx[d] # NoIndex =>
           idx[d] \in 0 .. n - 1 /\ event[idx[d]].ctx = d
  BY <1>1, <1>2, IdleOwners
<1>7. OwnersKnowTheirSlots'
  <2>1. \A i \in Settled' : idx'[event'[i].ctx] = i
    BY <1>2, <1>5, <1>6
  <2>2. \A i \in Settled' : event'[i].ctx # e.ctx
    BY <1>1, <1>5, <1>6 DEF NoIndex
  <2>3. \A d \in Ctx : idx'[d] # NoIndex =>
          idx'[d] \in Settled' /\ event'[idx'[d]].ctx = d
    BY <1>2, <1>5, <1>6
  <2> QED
    BY <1>1, <1>2, <1>4, <2>1, <2>2, <2>3 DEF OwnersKnowTheirSlots
<1>8. HeapOrder'
  <2>1. (TypeOK => (HeapOrder <=> IF sift = NoSift THEN HeapOrderIdle
                                                  ELSE HeapOrderSifting))'
    BY HeapOrderMeans, PTL
  <2>2. \A i \in 1 .. n - 1 : event[HEAP_PARENT(i)].when <= event[i].when
    BY <1>1, HeapOrderMeans DEF HeapOrderIdle
  <2>3. \A i \in 1 .. n : HEAP_PARENT(i) \in 0 .. n - 1
    BY <1>1, HeapIndex
  <2>4. \A i \in 1 .. n : HEAP_PARENT(i) # n
    BY <1>1, HeapIndex
  <2>5. \A i \in 1 .. n : i # n =>
          event'[HEAP_PARENT(i)].when <= event'[i].when
    BY <1>1, <1>6, <2>2, <2>3
  <2>6. (1 .. size' - 1) = 1 .. n
    BY <1>1, <1>2
  <2> QED
    BY <1>3, <1>4, <2>1, <2>4, <2>5, <2>6 DEF HeapOrderSifting
<1> QED
  BY <1>3, <1>7, <1>8 DEF IInv

(* qse_tmr_update() preserves the invariant.                               *)
LEMMA UpdateInv ==
  ASSUME IInv, NEW c \in Ctx, NEW t \in Times, qse_tmr_update(c, t)
  PROVE  IInv'
<1> DEFINE i == idx[c]
           e == [ctx |-> c, when |-> t]
<1>1. /\ TypeOK /\ OwnersKnowTheirSlots /\ HeapOrder /\ sift = NoSift
      /\ size \in Nat /\ i # NoIndex
  BY DEF IInv, qse_tmr_update, UserMayCall, TypeOK
<1>2. /\ \A j \in 0 .. size - 1 : idx[event[j].ctx] = j
      /\ \A d \in Ctx : idx[d] # NoIndex =>
           idx[d] \in 0 .. size - 1 /\ event[idx[d]].ctx = d
  BY <1>1, IdleOwners
<1>3. i \in 0 .. size - 1 /\ event[i].ctx = c
  BY <1>1, <1>2
<1>4. e \in Events /\ e.ctx = c
  BY DEF Events
<1> HIDE DEF i, e
<1>5. /\ event' = [event EXCEPT ![i] = e]
      /\ sift' = [dir |-> RepairDirection(e, event[i]), item |-> e,
                  index |-> i, old_index |-> i, notify |-> FALSE]
      /\ size' = size /\ idx' = idx /\ capa' = capa /\ phase' = phase /\ now' = now
  BY DEF qse_tmr_update, StartSift, i, e
<1>6. /\ sift' # NoSift /\ sift'.dir = RepairDirection(e, event[i])
      /\ sift'.item = e /\ sift'.index = i /\ sift'.old_index = i
      /\ sift'.notify = FALSE /\ sift' \in Sifts
  BY <1>3, <1>4, <1>5 DEF NoSift, Sifts, RepairDirection
<1>7. /\ \A j \in 0 .. size - 1 : event'[j] = IF j = i THEN e ELSE event[j]
      /\ event' \in [0 .. size - 1 -> Events]
  BY <1>1, <1>4, <1>5 DEF TypeOK
<1>8. TypeOK'
  BY <1>1, <1>3, <1>5, <1>6, <1>7 DEF TypeOK
<1>9. Settled' = (0 .. size - 1) \ {i}
  BY <1>5, <1>6 DEF Settled
<1>10. OwnersKnowTheirSlots'
  <2>1. \A j \in Settled' : idx'[event'[j].ctx] = j
    BY <1>2, <1>5, <1>7, <1>9
  <2>2. \A j \in Settled' : event'[j].ctx # c
    BY <1>2, <1>7, <1>9 DEF i
  <2>3. \A d \in Ctx : idx'[d] # NoIndex =>
          \/ c = d
          \/ idx'[d] \in Settled' /\ event'[idx'[d]].ctx = d
    BY <1>2, <1>3, <1>5, <1>7, <1>9
  <2>4. idx'[c] = i
    BY <1>5 DEF i
  <2> QED
    BY <1>4, <1>6, <2>1, <2>2, <2>3, <2>4 DEF OwnersKnowTheirSlots
<1>11. HeapOrder'
  BY <1>1, <1>3, <1>5, <1>6, <1>7, <1>8, RepairHeap
<1> QED
  BY <1>8, <1>10, <1>11 DEF IInv


(* qse_tmr_delete(), called by an owner, by qse_tmr_fire() or by           *)
(* qse_tmr_clear(), preserves the invariant.                               *)
LEMMA DeleteInv ==
  ASSUME IInv, sift = NoSift, NEW i \in 0 .. size - 1, qse_tmr_delete(i),
         phase' \in {"none", "fire", "handler", "clear"}
  PROVE  IInv'
<1> DEFINE last == size - 1
           c    == event[i].ctx
           cl   == event[last].ctx
<1>1. /\ TypeOK /\ OwnersKnowTheirSlots /\ HeapOrder
      /\ size \in Nat /\ last \in 0 .. size - 1 /\ last \in Nat
  BY DEF IInv, TypeOK
<1>2. /\ \A j \in 0 .. size - 1 : idx[event[j].ctx] = j
      /\ \A d \in Ctx : idx[d] # NoIndex =>
           idx[d] \in 0 .. size - 1 /\ event[idx[d]].ctx = d
  BY <1>1, IdleOwners
<1>3. /\ c \in Ctx /\ cl \in Ctx /\ event[last] \in Events
      /\ \A j \in 0 .. size - 1 : event[j] \in Events /\ event[j].ctx \in Ctx
  BY <1>1, EventTyped
<1>4. size' = last /\ capa' = capa /\ now' = now
  BY DEF qse_tmr_delete
<1>5. CASE i = last
  <2>1. /\ event' = [j \in 0 .. last - 1 |-> event[j]]
        /\ idx' = [idx EXCEPT ![c] = NoIndex] /\ sift' = NoSift
    BY <1>5 DEF qse_tmr_delete, updater
  <2>2. \A d \in Ctx : idx'[d] = IF d = c THEN NoIndex ELSE idx[d]
    BY <2>1, <1>1, <1>3 DEF TypeOK
  <2>3. TypeOK'
    BY <2>1, <1>1, <1>3, <1>4 DEF TypeOK
  <2>4. Settled' = 0 .. last - 1
    BY <2>1, <1>4 DEF Settled
  <2> HIDE DEF c
  <2>5. \A j \in Settled' : idx'[event'[j].ctx] = j
    BY <2>1, <2>2, <2>4, <1>1, <1>2, <1>3, <1>5 DEF c
  <2>6. \A d \in Ctx : idx'[d] # NoIndex =>
          idx'[d] \in Settled' /\ event'[idx'[d]].ctx = d
    <3> SUFFICES ASSUME NEW d \in Ctx, idx'[d] # NoIndex
                 PROVE  idx'[d] \in Settled' /\ event'[idx'[d]].ctx = d
      OBVIOUS
    <3>1. d # c /\ idx'[d] = idx[d]
      BY <2>2
    <3>2. idx[d] \in 0 .. size - 1 /\ event[idx[d]].ctx = d /\ idx[d] # last
      BY <3>1, <1>2, <1>5 DEF c
    <3> QED
      BY <3>1, <3>2, <2>1, <2>4, <1>1
  <2>7. OwnersKnowTheirSlots'
    BY <2>1, <2>5, <2>6 DEF OwnersKnowTheirSlots
  <2>8. HeapOrder'
    <3>1. (TypeOK => (HeapOrder <=> IF sift = NoSift THEN HeapOrderIdle
                                                    ELSE HeapOrderSifting))'
      BY HeapOrderMeans, PTL
    <3>2. \A j \in 1 .. size - 1 : event[HEAP_PARENT(j)].when <= event[j].when
      BY <1>1, HeapOrderMeans DEF HeapOrderIdle
    <3>3. \A j \in 1 .. last - 1 : HEAP_PARENT(j) \in 0 .. last - 1
      BY <1>1, HeapIndex
    <3>4. \A j \in 1 .. last - 1 : event'[HEAP_PARENT(j)].when <= event'[j].when
      BY <1>1, <2>1, <3>2, <3>3
    <3> QED
      BY <1>4, <2>1, <2>3, <3>1, <3>4 DEF HeapOrderIdle
  <2> QED
    BY <2>3, <2>7, <2>8 DEF IInv
<1>6. CASE i # last
  <2>0. i \in 0 .. last - 1
    BY <1>1, <1>6
  <2>1. /\ event' = [j \in 0 .. last - 1 |-> IF j = i THEN event[last] ELSE event[j]]
        /\ idx' = [[idx EXCEPT ![c] = NoIndex] EXCEPT ![cl] = i]
        /\ sift' = [dir |-> RepairDirection(event[last], event[i]),
                    item |-> event[last], index |-> i, old_index |-> i,
                    notify |-> TRUE]
    BY <1>6 DEF qse_tmr_delete, updater, StartSift
  <2>2. \A d \in Ctx : idx'[d] = IF d = cl THEN i
                                 ELSE IF d = c THEN NoIndex ELSE idx[d]
    BY <2>1, <1>1, <1>3 DEF TypeOK
  <2>3. /\ sift' # NoSift /\ sift'.dir = RepairDirection(event[last], event[i])
        /\ sift'.item = event[last] /\ sift'.index = i /\ sift'.old_index = i
        /\ sift'.notify = TRUE /\ sift' \in Sifts
    BY <2>1, <2>0, <1>3 DEF NoSift, Sifts, RepairDirection
  <2>4. event' \in [0 .. last - 1 -> Events]
    BY <2>1, <1>1, <1>3
  <2>5. idx' \in [Ctx -> Nat \union {NoIndex}]
    BY <2>1, <2>0, <1>1, <1>3 DEF TypeOK
  <2>6. TypeOK'
    BY <2>0, <2>3, <2>4, <2>5, <1>1, <1>4 DEF TypeOK
  <2>7. Settled' = (0 .. last - 1) \ {i}
    BY <2>3, <1>4 DEF Settled
  <2> HIDE DEF c, cl
  <2>8. \A j \in Settled' : event'[j] = event[j] /\ j \in 0 .. size - 1 /\ j # last
    BY <2>1, <2>7, <1>1
  <2>9. \A j \in Settled' : event[j].ctx # cl /\ event[j].ctx # c
    BY <2>7, <2>8, <1>1, <1>2 DEF c, cl
  <2>10. \A j \in Settled' : idx'[event'[j].ctx] = j
    BY <2>2, <2>8, <2>9, <1>2, <1>3
  <2>11. \A d \in Ctx : idx'[d] # NoIndex =>
          \/ cl = d
          \/ idx'[d] \in Settled' /\ event'[idx'[d]].ctx = d
    <3> SUFFICES ASSUME NEW d \in Ctx, idx'[d] # NoIndex, cl # d
                 PROVE  idx'[d] \in Settled' /\ event'[idx'[d]].ctx = d
      OBVIOUS
    <3>1. d # c /\ idx'[d] = idx[d]
      BY <2>2
    <3>2. /\ idx[d] \in 0 .. size - 1 /\ event[idx[d]].ctx = d
          /\ idx[d] # last /\ idx[d] # i
      BY <3>1, <1>2 DEF c, cl
    <3> QED
      BY <3>1, <3>2, <2>7, <2>8, <1>1
  <2>12. idx'[cl] = i
    BY <2>2, <1>3
  <2>13. OwnersKnowTheirSlots'
    BY <2>3, <2>8, <2>9, <2>10, <2>11, <2>12 DEF OwnersKnowTheirSlots, cl
  <2>14. HeapOrder'
    <3>1. \A j \in 0 .. last - 1 : j # i => event'[j] = event[j]
      BY <2>1
    <3>2. last <= size
      BY <1>1
    <3> HIDE DEF last
    <3> QED
      BY <1>1, <1>4, <2>0, <2>3, <2>6, <3>1, <3>2, RepairHeap
  <2> QED
    BY <2>6, <2>13, <2>14 DEF IInv
<1> QED
  BY <1>5, <1>6


-----------------------------------------------------------------------------
(* The inductive invariant.                                                *)

(* An empty heap satisfies the invariant.                                  *)
LEMMA InitInv == Init => IInv
<1> SUFFICES ASSUME Init PROVE IInv
  OBVIOUS
<1>1. sift = NoSift /\ size = 0 /\ idx = [c \in Ctx |-> NoIndex]
  BY DEF Init
<1>2. (0 .. size - 1) = {}
  BY <1>1
<1>3. event \in [0 .. size - 1 -> Events]
  BY <1>2 DEF Init
<1>4. TypeOK
  BY <1>1, <1>3, TmrAssumption DEF Init, TypeOK
<1>5. Settled = {}
  BY <1>2 DEF Settled
<1>6. OwnersKnowTheirSlots
  BY <1>1, <1>5 DEF OwnersKnowTheirSlots
<1>7. HeapOrder
  BY <1>1, <1>5 DEF HeapOrder
<1> QED
  BY <1>4, <1>6, <1>7 DEF IInv

(* The position an owner remembers is one of the heap.                     *)
LEMMA RememberedSlot ==
  ASSUME IInv, sift = NoSift, NEW c \in Ctx, idx[c] # NoIndex
  PROVE  idx[c] \in 0 .. size - 1 /\ event[idx[c]].ctx = c
  BY IdleOwners DEF IInv

(* Every step preserves the invariant.                                     *)
LEMMA StepInv == IInv /\ [Next]_vars => IInv'
<1> SUFFICES ASSUME IInv, [Next]_vars PROVE IInv'
  OBVIOUS
<1>0. /\ TypeOK /\ OwnersKnowTheirSlots /\ HeapOrder
  BY DEF IInv
<1>1. CASE sift_up
  <2>1. /\ sift # NoSift /\ sift.index \in 1 .. size - 1 /\ size \in Nat
    <3>1. sift.dir = "up" /\ sift.index > 0
      BY <1>1 DEF sift_up, MustGoUp
    <3> QED
      BY <1>0, <3>1, SiftingDir, SiftTyped
  <2>2. /\ HEAP_PARENT(sift.index) \in 0 .. size - 1
        /\ HEAP_PARENT(sift.index) # sift.index
        /\ MoveTo(HEAP_PARENT(sift.index))
    BY <1>1, <2>1, HeapIndex DEF sift_up
  <2> QED
    BY <1>0, <1>1, <2>1, <2>2, MoveTyped, MoveOwners, SiftUpHeap DEF IInv
<1>2. CASE sift_down
  <2>1. sift # NoSift
    BY <1>2, SiftingDir DEF sift_down
  <2>2. /\ YoungerChild \in 0 .. size - 1 /\ YoungerChild # sift.index
        /\ MoveTo(YoungerChild)
    BY <1>0, <1>2, <2>1, YoungerChildIsChild, SiftTyped DEF sift_down, MustGoDown
  <2> QED
    BY <1>0, <1>2, <2>1, <2>2, MoveTyped, MoveOwners, SiftDownHeap DEF IInv
<1>3. CASE SiftDone
  BY <1>0, <1>3, SiftDoneTyped, SiftDoneOwners, SiftDoneHeap DEF IInv
<1>4. CASE \E e \in Events : qse_tmr_insert(e)
  BY <1>4, InsertInv
<1>5. CASE \E c \in Ctx : CancelEvent(c)
  <2> PICK c \in Ctx : CancelEvent(c)
    BY <1>5
  <2>1. sift = NoSift /\ idx[c] # NoIndex /\ qse_tmr_delete(idx[c]) /\ phase' = phase
    BY DEF CancelEvent, UserMayCall
  <2>2. phase' \in {"none", "fire", "handler", "clear"}
    BY <1>0, <2>1 DEF TypeOK
  <2> QED
    BY <2>1, <2>2, RememberedSlot, DeleteInv
<1>6. CASE \E c \in Ctx, t \in Times : qse_tmr_update(c, t)
  BY <1>6, UpdateInv
<1>7. CASE FireEvent
  <2>1. sift = NoSift /\ 0 \in 0 .. size - 1 /\ qse_tmr_delete(0) /\ phase' = "handler"
    BY <1>0, <1>7 DEF FireEvent, RootIsDue, TypeOK
  <2> QED
    BY <2>1, DeleteInv
<1>8. CASE ClearEvent
  <2>1. sift = NoSift /\ 0 \in 0 .. size - 1 /\ qse_tmr_delete(0) /\ phase' = "clear"
    BY <1>0, <1>8 DEF ClearEvent, TypeOK
  <2> QED
    BY <2>1, DeleteInv
<1>9. ASSUME UNCHANGED <<size, capa, event, idx, sift>>,
             phase' \in {"none", "fire", "handler", "clear"}, now' \in Times
      PROVE  IInv'
  <2>1. TypeOK'
    BY <1>0, <1>9 DEF TypeOK
  <2>2. Settled' = Settled
    BY <1>9 DEF Settled
  <2>3. OwnersKnowTheirSlots'
    BY <1>0, <1>9, <2>2 DEF OwnersKnowTheirSlots
  <2>4. HeapOrder'
    BY <1>0, <1>9, <2>2 DEF HeapOrder
  <2> QED
    BY <2>1, <2>3, <2>4 DEF IInv
<1>10. CASE \/ \E t \in Times : qse_tmr_fire(t)
            \/ HandlerReturns
            \/ FireReturns
            \/ qse_tmr_clear
            \/ ClearReturns
            \/ UNCHANGED vars
  <2>1. /\ UNCHANGED <<size, capa, event, idx, sift>>
        /\ phase' \in {"none", "fire", "handler", "clear"}
        /\ now' \in Times
    BY <1>0, <1>10 DEF qse_tmr_fire, HandlerReturns, FireReturns, qse_tmr_clear,
                       ClearReturns, vars, TypeOK
  <2> QED
    BY <1>9, <2>1
<1> QED
  BY <1>1, <1>2, <1>3, <1>4, <1>5, <1>6, <1>7, <1>8, <1>10 DEF Next

(* The conjunction of types, informed owners and heap order is an          *)
(* invariant of tmr.c.                                                     *)
THEOREM SpecInv == Spec => []IInv
  BY InitInv, StepInv, PTL DEF Spec

(* The array has room for every event at all times, and the heap only ever *)
(* indexes it inside its bounds: tmr.c under every sequence of calls of    *)
(* its users, of the handlers it calls included.                           *)
THEOREM TypeCorrect == Spec => []TypeOK
  BY SpecInv, PTL DEF IInv

(* The assertions of the updaters of httpd hold in every call tmr.c makes. *)
THEOREM OwnersCorrect == Spec => []OwnersKnowTheirSlots
  BY SpecInv, PTL DEF IInv

(* The sift loops restore the heap order they break.                       *)
THEOREM HeapCorrect == Spec => []HeapOrder
  BY SpecInv, PTL DEF IInv


-----------------------------------------------------------------------------
(* The root of the heap.                                                   *)

(* Of the events before the root the one in the lowest slot would have to  *)
(* precede its parent.                                                     *)
LEMMA RootEarliest == IInv => RootIsEarliest
<1> SUFFICES ASSUME IInv, sift = NoSift, NEW k \in 0 .. size - 1,
                    ~ (event[0].when <= event[k].when)
             PROVE  FALSE
  BY DEF RootIsEarliest
<1> DEFINE T == {i \in 0 .. size - 1 : event[i].when < event[0].when}
<1>1. TypeOK /\ HeapOrder /\ size \in Nat
  BY DEF IInv, TypeOK
<1>2. \A i \in 0 .. size - 1 : event[i].when \in Int
  BY <1>1, EventTyped
<1>3. k \in T /\ T \subseteq Nat
  BY <1>1, <1>2
<1>4. PICK x \in T : \A y \in T : ~ (<<y, x>> \in OpToRel(<, Nat))
  <2> HIDE DEF T
  <2>1. T # {}
    BY <1>3
  <2> QED
    BY <1>3, <2>1, NatLessThanWellFounded, WFMin
<1>5. \A y \in T : ~ (y < x)
  BY <1>3, <1>4 DEF OpToRel
<1>6. x \in 1 .. size - 1
  BY <1>1, <1>2
<1>7. HEAP_PARENT(x) \in 0 .. size - 1 /\ HEAP_PARENT(x) < x
  BY <1>1, <1>6, HeapIndex
<1>8. event[HEAP_PARENT(x)].when <= event[x].when
  BY <1>1, <1>6, HeapOrderMeans DEF HeapOrderIdle
<1>9. HEAP_PARENT(x) \in T
  <2>1. event[x].when < event[0].when /\ 0 \in 0 .. size - 1
    BY <1>1, <1>6
  <2>2. /\ event[HEAP_PARENT(x)].when \in Int /\ event[x].when \in Int
        /\ event[0].when \in Int
    BY <1>2, <1>6, <1>7, <2>1
  <2>3. event[HEAP_PARENT(x)].when < event[0].when
    BY <1>8, <2>1, <2>2
  <2> QED
    BY <1>7, <2>3
<1> QED
  BY <1>5, <1>7, <1>9

(* Looking at event[0] alone is enough for qse_tmr_fire() and              *)
(* qse_tmr_gettmout(): no heap of any size hides an earlier event.         *)
THEOREM RootCorrect == Spec => []RootIsEarliest
  BY SpecInv, RootEarliest, PTL

-----------------------------------------------------------------------------
(* The heap implements the abstract timer queue.                           *)

(* Between the calls, the pending events are those of the array.           *)
LEMMA PendingIdle ==
  ASSUME sift = NoSift
  PROVE  Pending = {event[i] : i \in 0 .. size - 1}
  BY DEF Pending, Settled

(* An iteration of a sift loop neither loses nor repeats an event.         *)
LEMMA MoveKeepsPending ==
  ASSUME TypeOK, sift # NoSift, NEW from \in 0 .. size - 1,
         from # sift.index, MoveTo(from)
  PROVE  Pending' = Pending
<1> DEFINE s == sift.index
<1>1. /\ s \in 0 .. size - 1 /\ sift' # NoSift /\ sift'.index = from
      /\ sift'.item = sift.item /\ size' = size
      /\ \A i \in 0 .. size - 1 : event'[i] = IF i = s THEN event[from] ELSE event[i]
  BY SiftTyped, MoveEffect
<1>2. Settled = (0 .. size - 1) \ {s} /\ Settled' = (0 .. size - 1) \ {from}
  BY <1>1 DEF Settled
<1>3. Pending = {event[i] : i \in Settled} \union {sift.item}
  BY DEF Pending
<1>4. Pending' = {event'[i] : i \in Settled'} \union {sift.item}
  BY <1>1 DEF Pending
<1>5. {event'[i] : i \in Settled'} = {event[i] : i \in Settled}
  <2> HIDE DEF s
  <2>1. ASSUME NEW i \in Settled' PROVE \E j \in Settled : event'[i] = event[j]
    BY <1>1, <1>2 DEF s
  <2>2. ASSUME NEW j \in Settled PROVE \E i \in Settled' : event'[i] = event[j]
    BY <1>1, <1>2 DEF s
  <2> QED
    BY <2>1, <2>2
<1> QED
  BY <1>3, <1>4, <1>5

(* Nor does the end of a loop.                                             *)
LEMMA SiftDoneKeepsPending ==
  ASSUME TypeOK, OwnersKnowTheirSlots, SiftDone
  PROVE  Pending' = Pending
<1> DEFINE s == sift.index
<1>1. /\ sift # NoSift /\ sift' = NoSift /\ size' = size
      /\ event' = [event EXCEPT ![s] = sift.item]
  BY SiftDoneTyped
<1>2. s \in 0 .. size - 1
  BY <1>1, SiftTyped
<1>3. \A i \in 0 .. size - 1 : event'[i] = IF i = s THEN sift.item ELSE event[i]
  BY <1>1, <1>2 DEF TypeOK
<1>4. Settled = (0 .. size - 1) \ {s} /\ Settled' = 0 .. size - 1
  BY <1>1, <1>2 DEF Settled
<1>5. Pending = {event[i] : i \in Settled} \union {sift.item}
  BY <1>1 DEF Pending
<1>6. Pending' = {event'[i] : i \in Settled'}
  BY <1>1 DEF Pending
<1> HIDE DEF s
<1> QED
  BY <1>2, <1>3, <1>4, <1>5, <1>6

(* qse_tmr_delete() removes the event in the slot it is given and no       *)
(* other.                                                                  *)
LEMMA DeletePending ==
  ASSUME IInv, sift = NoSift, NEW i \in 0 .. size - 1, qse_tmr_delete(i)
  PROVE  event[i] \in Pending /\ Pending' = Pending \ {event[i]} /\ now' = now
<1> DEFINE last == size - 1
<1>1. TypeOK /\ OwnersKnowTheirSlots /\ size \in Nat /\ last \in 0 .. size - 1
  BY DEF IInv, TypeOK
<1>2. \A j \in 0 .. size - 1 : idx[event[j].ctx] = j
  BY <1>1, IdleOwners
<1>3. Pending = {event[j] : j \in 0 .. size - 1}
  BY PendingIdle
<1>4. \A j, k \in 0 .. size - 1 : event[j] = event[k] => j = k
  BY <1>2
<1>5. size' = last /\ now' = now
  BY DEF qse_tmr_delete
<1>6. CASE i = last
  <2>1. event' = [j \in 0 .. last - 1 |-> event[j]] /\ sift' = NoSift
    BY <1>6 DEF qse_tmr_delete
  <2>2. Pending' = {event'[j] : j \in 0 .. last - 1}
    BY <1>5, <2>1 DEF Pending, Settled
  <2>3. Pending' = {event[j] : j \in 0 .. last - 1}
    BY <2>1, <2>2
  <2> QED
    BY <1>1, <1>3, <1>4, <1>5, <1>6, <2>3
<1>7. CASE i # last
  <2>1. /\ event' = [j \in 0 .. last - 1 |-> IF j = i THEN event[last] ELSE event[j]]
        /\ sift' # NoSift /\ sift'.item = event[last] /\ sift'.index = i
    BY <1>7 DEF qse_tmr_delete, StartSift, NoSift
  <2>2. Pending' = {event'[j] : j \in (0 .. last - 1) \ {i}} \union {event[last]}
    <3>1. Settled' = (0 .. last - 1) \ {i}
      BY <1>5, <2>1 DEF Settled
    <3> QED
      BY <2>1, <3>1 DEF Pending
  <2>3. \A j \in (0 .. last - 1) \ {i} : event'[j] = event[j]
    BY <2>1
  <2>4. Pending' = {event[j] : j \in (0 .. last - 1) \ {i}} \union {event[last]}
    BY <2>2, <2>3
  <2> QED
    BY <1>1, <1>3, <1>4, <1>5, <1>7, <2>4
<1> QED
  BY <1>6, <1>7


(* An empty heap is an empty queue.                                        *)
LEMMA InitRefines == Init => TQ!Init
<1> SUFFICES ASSUME Init PROVE TQ!Init
  OBVIOUS
<1>1. sift = NoSift /\ size = 0
  BY DEF Init
<1>2. Pending = {}
  BY <1>1, PendingIdle
<1> QED
  BY <1>2 DEF Init, TQ!Init

(* Every step of the heap is a step of the queue or leaves it alone.       *)
LEMMA StepRefines == IInv /\ [Next]_vars => [TQ!Next]_(TQ!vars)
<1> SUFFICES ASSUME IInv, [Next]_vars PROVE [TQ!Next]_(TQ!vars)
  OBVIOUS
<1>0. TypeOK /\ OwnersKnowTheirSlots /\ HeapOrder /\ size \in Nat
  BY DEF IInv, TypeOK
<1>1. CASE sift_up
  <2>1. /\ sift # NoSift /\ sift.index \in 1 .. size - 1
    <3>1. sift.dir = "up" /\ sift.index > 0
      BY <1>1 DEF sift_up, MustGoUp
    <3> QED
      BY <1>0, <3>1, SiftingDir, SiftTyped
  <2>2. /\ HEAP_PARENT(sift.index) \in 0 .. size - 1
        /\ HEAP_PARENT(sift.index) # sift.index
        /\ MoveTo(HEAP_PARENT(sift.index))
    BY <1>0, <1>1, <2>1, HeapIndex DEF sift_up
  <2>3. Pending' = Pending
    BY <1>0, <2>1, <2>2, MoveKeepsPending
  <2> QED
    BY <2>2, <2>3 DEF MoveTo, TQ!vars
<1>2. CASE sift_down
  <2>1. sift # NoSift
    BY <1>2, SiftingDir DEF sift_down
  <2>2. /\ YoungerChild \in 0 .. size - 1 /\ YoungerChild # sift.index
        /\ MoveTo(YoungerChild)
    BY <1>0, <1>2, <2>1, YoungerChildIsChild, SiftTyped DEF sift_down, MustGoDown
  <2>3. Pending' = Pending
    BY <1>0, <2>1, <2>2, MoveKeepsPending
  <2> QED
    BY <2>2, <2>3 DEF MoveTo, TQ!vars
<1>3. CASE SiftDone
  BY <1>0, <1>3, SiftDoneKeepsPending DEF SiftDone, TQ!vars
<1>4. CASE \E e \in Events : qse_tmr_insert(e)
  <2> PICK e \in Events : qse_tmr_insert(e)
    BY <1>4
  <2>1. /\ sift = NoSift /\ phase \in {"none", "handler"} /\ idx[e.ctx] = NoIndex
        /\ size' = size + 1 /\ phase' = phase /\ now' = now
        /\ event' = [i \in 0 .. size |-> IF i = size THEN e ELSE event[i]]
        /\ sift' # NoSift /\ sift'.item = e /\ sift'.index = size
    BY DEF qse_tmr_insert, UserMayCall, StartSift, NoSift
  <2>2. Pending = {event[i] : i \in 0 .. size - 1}
    BY <2>1, PendingIdle
  <2>3. \A i \in 0 .. size - 1 : idx[event[i].ctx] = i /\ i # NoIndex
    BY <1>0, <2>1, IdleOwners DEF NoIndex
  <2>4. \A f \in Pending : f.ctx # e.ctx
    BY <2>1, <2>2, <2>3
  <2>5. Settled' = 0 .. size - 1
    BY <1>0, <2>1 DEF Settled
  <2>6. \A i \in 0 .. size - 1 : event'[i] = event[i]
    BY <1>0, <2>1
  <2>7. Pending' = {event'[i] : i \in 0 .. size - 1} \union {e}
    BY <2>1, <2>5 DEF Pending
  <2>8. Pending' = Pending \union {e}
    BY <2>2, <2>6, <2>7
  <2>9. TQ!Schedule(e)
    BY <2>1, <2>4, <2>8 DEF TQ!Schedule, TQ!UserMayCall
  <2> QED
    BY <2>9 DEF TQ!Next, TQ!Events, Events
<1>5. CASE \E c \in Ctx : CancelEvent(c)
  <2> PICK c \in Ctx : CancelEvent(c)
    BY <1>5
  <2>1. /\ sift = NoSift /\ idx[c] # NoIndex /\ qse_tmr_delete(idx[c])
        /\ phase' = phase /\ phase \in {"none", "handler"}
    BY DEF CancelEvent, UserMayCall
  <2>2. idx[c] \in 0 .. size - 1
    BY <2>1, RememberedSlot
  <2>3. /\ event[idx[c]] \in Pending /\ Pending' = Pending \ {event[idx[c]]}
        /\ now' = now
    BY <2>1, <2>2, DeletePending
  <2>4. TQ!Cancel(event[idx[c]])
    BY <2>1, <2>3 DEF TQ!Cancel, TQ!UserMayCall
  <2> QED
    BY <2>3, <2>4 DEF TQ!Next
<1>6. CASE \E c \in Ctx, t \in Times : qse_tmr_update(c, t)
  <2> PICK c \in Ctx, t \in Times : qse_tmr_update(c, t)
    BY <1>6
  <2> DEFINE i == idx[c]
             e == [ctx |-> c, when |-> t]
  <2>1. /\ sift = NoSift /\ i # NoIndex /\ phase \in {"none", "handler"}
        /\ event' = [event EXCEPT ![i] = e] /\ size' = size
        /\ phase' = phase /\ now' = now
        /\ sift' # NoSift /\ sift'.item = e /\ sift'.index = i
    BY DEF qse_tmr_update, UserMayCall, StartSift, NoSift
  <2>2. i \in 0 .. size - 1 /\ event[i].ctx = c
    BY <2>1, RememberedSlot
  <2> HIDE DEF i, e
  <2>3. Pending = {event[j] : j \in 0 .. size - 1}
    BY <2>1, PendingIdle
  <2>4. Settled' = (0 .. size - 1) \ {i}
    BY <2>1 DEF Settled
  <2>5. \A j \in Settled' : event'[j] = event[j]
    BY <1>0, <2>1, <2>4 DEF TypeOK
  <2>6. Pending' = {event[j] : j \in (0 .. size - 1) \ {i}} \union {e}
    BY <2>1, <2>4, <2>5 DEF Pending
  <2>7. \A j, k \in 0 .. size - 1 : event[j] = event[k] => j = k
    BY <1>0, <2>1, IdleOwners
  <2>8. event[i] \in Pending /\ Pending' = (Pending \ {event[i]}) \union {e}
    BY <2>2, <2>3, <2>6, <2>7
  <2>9. TQ!Reschedule(event[i], t)
    BY <2>1, <2>2, <2>8 DEF TQ!Reschedule, TQ!UserMayCall, e
  <2> QED
    BY <2>8, <2>9 DEF TQ!Next
<1>7. CASE \E t \in Times : qse_tmr_fire(t)
  <2> PICK t \in Times : qse_tmr_fire(t)
    BY <1>7
  <2>1. Pending' = Pending
    BY DEF qse_tmr_fire, Pending, Settled
  <2>2. TQ!Fire(t)
    BY <2>1 DEF qse_tmr_fire, TQ!Fire
  <2> QED
    BY <2>2 DEF TQ!Next
<1>8. CASE FireEvent
  <2>1. /\ sift = NoSift /\ 0 \in 0 .. size - 1 /\ event[0].when <= now
        /\ qse_tmr_delete(0) /\ phase = "fire" /\ phase' = "handler"
    BY <1>0, <1>8 DEF FireEvent, RootIsDue
  <2>2. event[0] \in Pending /\ Pending' = Pending \ {event[0]} /\ now' = now
    BY <2>1, DeletePending
  <2>3. \A f \in Pending : event[0].when <= f.when
    BY <2>1, RootEarliest, PendingIdle DEF RootIsEarliest
  <2>4. TQ!FireEvent(event[0])
    BY <2>1, <2>2, <2>3 DEF TQ!FireEvent
  <2> QED
    BY <2>2, <2>4 DEF TQ!Next
<1>9. CASE HandlerReturns
  <2>1. Pending' = Pending
    BY <1>9 DEF HandlerReturns, Pending, Settled
  <2>2. TQ!HandlerReturns
    BY <1>9, <2>1 DEF HandlerReturns, TQ!HandlerReturns
  <2> QED
    BY <2>2 DEF TQ!Next
<1>10. CASE FireReturns
  <2>1. Pending' = Pending /\ Pending = {event[i] : i \in 0 .. size - 1}
    BY <1>10, PendingIdle DEF FireReturns, Pending, Settled
  <2>2. \A i \in 0 .. size - 1 : event[0].when <= event[i].when
    BY <1>10, RootEarliest DEF RootIsEarliest, FireReturns
  <2>3. \A i \in 0 .. size - 1 : event[i].when \in Int /\ event[0].when \in Int
    BY <1>0, EventTyped
  <2>4. now \in Int
    BY <1>0, TmrAssumption DEF TypeOK
  <2>5. \A i \in 0 .. size - 1 : event[i].when > now
    BY <1>0, <1>10, <2>2, <2>3, <2>4 DEF FireReturns, RootIsDue
  <2>6. TQ!FireReturns
    BY <1>10, <2>1, <2>5 DEF FireReturns, TQ!FireReturns
  <2> QED
    BY <2>6 DEF TQ!Next
<1>11. CASE qse_tmr_clear
  <2>1. Pending' = Pending
    BY <1>11 DEF qse_tmr_clear, Pending, Settled
  <2>2. TQ!Clear
    BY <1>11, <2>1 DEF qse_tmr_clear, TQ!Clear
  <2> QED
    BY <2>2 DEF TQ!Next
<1>12. CASE ClearEvent
  <2>1. /\ sift = NoSift /\ 0 \in 0 .. size - 1 /\ qse_tmr_delete(0)
        /\ phase = "clear" /\ phase' = phase
    BY <1>0, <1>12 DEF ClearEvent
  <2>2. event[0] \in Pending /\ Pending' = Pending \ {event[0]} /\ now' = now
    BY <2>1, DeletePending
  <2>3. TQ!ClearEvent(event[0])
    BY <2>1, <2>2 DEF TQ!ClearEvent
  <2> QED
    BY <2>2, <2>3 DEF TQ!Next
<1>13. CASE ClearReturns
  <2>1. Pending' = Pending
    BY <1>13 DEF ClearReturns, Pending, Settled
  <2>2. Pending = {}
    BY <1>13, PendingIdle DEF ClearReturns
  <2>3. TQ!ClearReturns
    BY <1>13, <2>1, <2>2 DEF ClearReturns, TQ!ClearReturns
  <2> QED
    BY <2>3 DEF TQ!Next
<1>14. CASE UNCHANGED vars
  BY <1>14 DEF vars, Pending, Settled, TQ!vars
<1> QED
  BY <1>1, <1>2, <1>3, <1>4, <1>5, <1>6, <1>7, <1>8, <1>9, <1>10, <1>11, <1>12,
     <1>13, <1>14 DEF Next

(* For any number of owners and any times, the binary heap with its sift   *)
(* loops, callbacks and remembered positions behaves as the abstract queue *)
(* of module TimerQueue.                                                   *)
THEOREM Refinement == Spec => ImplementsTimerQueue
  BY InitRefines, StepRefines, SpecInv, PTL DEF Spec, ImplementsTimerQueue, TQ!Spec

-----------------------------------------------------------------------------
(* The reader-writer lock.                                                 *)

Asleep == At("rsleep") \union At("wsleep")

(* Only a waiting call has a deadline, and writers only if they may.       *)
Deadlines ==
  \A t \in Threads : deadline[t] # "none" =>
    /\ pc[t] \in {"rsleep", "rwoken", "wsleep", "wwoken"}
    /\ pc[t] \in {"wsleep", "wwoken"} => TimedWriters

RwlInv == RwlTypeOK /\ CountsMatch /\ WriterIsAlone /\ Deadlines

-----------------------------------------------------------------------------
(* Counting.                                                               *)

(* Sets of threads are finite and can be counted.                          *)
LEMMA FinitePart ==
  ASSUME NEW S \in SUBSET Threads
  PROVE  IsFiniteSet(S) /\ Cardinality(S) \in Nat /\ (Cardinality(S) = 0 <=> S = {})
<1>1. IsFiniteSet(S)
  BY RwlAssumption, FS_Subset
<1> QED
  BY <1>1, FS_CardinalityType, FS_EmptySet

(* One thread joins or leaves a set.                                       *)
LEMMA CountOne ==
  ASSUME NEW S \in SUBSET Threads, NEW t \in Threads
  PROVE  /\ Cardinality(S) \in Nat
         /\ Cardinality(S \union {t}) = Cardinality(S) + 1 - (IF t \in S THEN 1 ELSE 0)
         /\ Cardinality(S \ {t}) = Cardinality(S) - (IF t \in S THEN 1 ELSE 0)
<1>1. IsFiniteSet(S) /\ Cardinality(S) \in Nat
  BY FinitePart
<1>2. Cardinality(S \union {t}) = IF t \in S THEN Cardinality(S) ELSE Cardinality(S) + 1
  BY <1>1, FS_AddElement
<1>3. Cardinality(S \ {t}) = IF t \in S THEN Cardinality(S) - 1 ELSE Cardinality(S)
  BY <1>1, FS_RemoveElement
<1> QED
  BY <1>1, <1>2, <1>3

(* A thread changes its state and wakes sleepers.                          *)
LEMMA BecomeEffect ==
  ASSUME RwlTypeOK, NEW t \in Threads, NEW s \in States, NEW W \in SUBSET Asleep,
         t \notin W, Become(t, s, W)
  PROVE  /\ pc' \in [Threads -> States]
         /\ pc'[t] = s
         /\ \A u \in Threads \ {t} :
              /\ u \notin W => pc'[u] = pc[u]
              /\ u \in W /\ pc[u] = "rsleep" => pc'[u] = "rwoken"
              /\ u \in W /\ pc[u] = "wsleep" => pc'[u] = "wwoken"
              /\ pc'[u] = "reading" <=> pc[u] = "reading"
              /\ pc'[u] = "writing" <=> pc[u] = "writing"
              /\ pc'[u] \in {"rsleep", "rwoken"} <=> pc[u] \in {"rsleep", "rwoken"}
              /\ pc'[u] \in {"wsleep", "wwoken"} <=> pc[u] \in {"wsleep", "wwoken"}
<1>1. W \subseteq Threads /\ \A u \in W : pc[u] \in {"rsleep", "wsleep"}
  BY DEF Asleep, At
<1>2. \A u \in Threads : pc'[u] = IF u = t THEN s
           ELSE IF u \in W THEN (IF pc[u] = "rsleep" THEN "rwoken" ELSE "wwoken")
           ELSE pc[u]
  BY DEF Become
<1>3. pc' \in [Threads -> States]
  BY <1>1 DEF Become, RwlTypeOK, States
<1> QED
  BY <1>1, <1>2, <1>3 DEF RwlTypeOK, States

(* If the counters are adjusted for the thread that changes its state,     *)
(* they still count exactly: waking sleepers does not change who waits.    *)
LEMMA CountsStep ==
  ASSUME RwlTypeOK, CountsMatch, NEW t \in Threads, NEW s \in States,
         NEW W \in SUBSET Asleep, t \notin W, Become(t, s, W),
         ractive_count' = ractive_count + (IF s = "reading" THEN 1 ELSE 0)
                                        - (IF pc[t] = "reading" THEN 1 ELSE 0),
         wactive_count' = wactive_count + (IF s = "writing" THEN 1 ELSE 0)
                                        - (IF pc[t] = "writing" THEN 1 ELSE 0),
         rwait_count' = rwait_count
                          + (IF s \in {"rsleep", "rwoken"} THEN 1 ELSE 0)
                          - (IF pc[t] \in {"rsleep", "rwoken"} THEN 1 ELSE 0),
         wwait_count' = wwait_count
                          + (IF s \in {"wsleep", "wwoken"} THEN 1 ELSE 0)
                          - (IF pc[t] \in {"wsleep", "wwoken"} THEN 1 ELSE 0)
  PROVE  /\ CountsMatch'
         /\ {rwait_count, wwait_count, ractive_count, wactive_count}' \subseteq Nat
<1> DEFINE RD == At("reading")
           WR == At("writing")
           RW == At("rsleep") \union At("rwoken")
           WW == At("wsleep") \union At("wwoken")
<1>1. /\ pc'[t] = s
      /\ \A u \in Threads \ {t} :
           /\ pc'[u] = "reading" <=> pc[u] = "reading"
           /\ pc'[u] = "writing" <=> pc[u] = "writing"
           /\ pc'[u] \in {"rsleep", "rwoken"} <=> pc[u] \in {"rsleep", "rwoken"}
           /\ pc'[u] \in {"wsleep", "wwoken"} <=> pc[u] \in {"wsleep", "wwoken"}
  BY BecomeEffect
<1>2. RD' = IF s = "reading" THEN RD \union {t}
                                        ELSE RD \ {t}
  BY <1>1 DEF At
<1>3. WR' = IF s = "writing" THEN WR \union {t}
                                        ELSE WR \ {t}
  BY <1>1 DEF At
<1>4. RW' = IF s \in {"rsleep", "rwoken"} THEN RW \union {t} ELSE RW \ {t}
  BY <1>1 DEF At
<1>5. WW' = IF s \in {"wsleep", "wwoken"} THEN WW \union {t} ELSE WW \ {t}
  BY <1>1 DEF At
<1>6. /\ RD \in SUBSET Threads /\ WR \in SUBSET Threads
      /\ RW \in SUBSET Threads /\ WW \in SUBSET Threads
      /\ t \in RD <=> pc[t] = "reading"
      /\ t \in WR <=> pc[t] = "writing"
      /\ t \in RW <=> pc[t] \in {"rsleep", "rwoken"}
      /\ t \in WW <=> pc[t] \in {"wsleep", "wwoken"}
  BY DEF At
<1> HIDE DEF RD, WR, RW, WW
<1>7. ractive_count' = Cardinality(RD')
  <2>1. ractive_count = Cardinality(RD)
    BY DEF CountsMatch, RD
  <2>2. /\ Cardinality(RD) \in Nat
        /\ Cardinality(RD \union {t})
             = Cardinality(RD) + 1 - (IF t \in RD THEN 1 ELSE 0)
        /\ Cardinality(RD \ {t})
             = Cardinality(RD) - (IF t \in RD THEN 1 ELSE 0)
    BY <1>6, CountOne
  <2> QED
    BY <1>2, <1>6, <2>1, <2>2
<1>8. wactive_count' = Cardinality(WR')
  <2>1. wactive_count = Cardinality(WR)
    BY DEF CountsMatch, WR
  <2>2. /\ Cardinality(WR) \in Nat
        /\ Cardinality(WR \union {t})
             = Cardinality(WR) + 1 - (IF t \in WR THEN 1 ELSE 0)
        /\ Cardinality(WR \ {t})
             = Cardinality(WR) - (IF t \in WR THEN 1 ELSE 0)
    BY <1>6, CountOne
  <2> QED
    BY <1>3, <1>6, <2>1, <2>2
<1>9. rwait_count' = Cardinality(RW')
  <2>1. rwait_count = Cardinality(RW)
    BY DEF CountsMatch, RW
  <2>2. /\ Cardinality(RW) \in Nat
        /\ Cardinality(RW \union {t})
             = Cardinality(RW) + 1 - (IF t \in RW THEN 1 ELSE 0)
        /\ Cardinality(RW \ {t})
             = Cardinality(RW) - (IF t \in RW THEN 1 ELSE 0)
    BY <1>6, CountOne
  <2> QED
    BY <1>4, <1>6, <2>1, <2>2
<1>10. wwait_count' = Cardinality(WW')
  <2>1. wwait_count = Cardinality(WW)
    BY DEF CountsMatch, WW
  <2>2. /\ Cardinality(WW) \in Nat
        /\ Cardinality(WW \union {t})
             = Cardinality(WW) + 1 - (IF t \in WW THEN 1 ELSE 0)
        /\ Cardinality(WW \ {t})
             = Cardinality(WW) - (IF t \in WW THEN 1 ELSE 0)
    BY <1>6, CountOne
  <2> QED
    BY <1>5, <1>6, <2>1, <2>2
<1>11. CountsMatch'
  BY <1>7, <1>8, <1>9, <1>10 DEF CountsMatch, RD, WR, RW, WW
<1>12. /\ RD' \in SUBSET Threads /\ WR' \in SUBSET Threads
       /\ RW' \in SUBSET Threads /\ WW' \in SUBSET Threads
  BY <1>2, <1>3, <1>4, <1>5, <1>6
<1> QED
  BY <1>7, <1>8, <1>9, <1>10, <1>11, <1>12, FinitePart


-----------------------------------------------------------------------------
(* The shape of a step.                                                    *)

(* Thread t goes to state s and wakes the sleepers in W; the counters      *)
(* follow, and a thread gets the lock only when the counters let it.       *)
Step(t, s, W) ==
  /\ t \notin W
  /\ Become(t, s, W)
  /\ ractive_count' = ractive_count + (IF s = "reading" THEN 1 ELSE 0)
                                    - (IF pc[t] = "reading" THEN 1 ELSE 0)
  /\ wactive_count' = wactive_count + (IF s = "writing" THEN 1 ELSE 0)
                                    - (IF pc[t] = "writing" THEN 1 ELSE 0)
  /\ rwait_count' = rwait_count
                      + (IF s \in {"rsleep", "rwoken"} THEN 1 ELSE 0)
                      - (IF pc[t] \in {"rsleep", "rwoken"} THEN 1 ELSE 0)
  /\ wwait_count' = wwait_count
                      + (IF s \in {"wsleep", "wwoken"} THEN 1 ELSE 0)
                      - (IF pc[t] \in {"wsleep", "wwoken"} THEN 1 ELSE 0)
  /\ s = "reading" => wactive_count = 0
  /\ s = "writing" => wactive_count = 0 /\ ractive_count = 0
  /\ s = "rsleep" => ReaderMustWait
  /\ s = "wsleep" => WriterMustWait
  /\ s = "rwoken" => pc[t] \in {"rsleep", "rwoken"}
  /\ s = "wwoken" => pc[t] \in {"wsleep", "wwoken"}
  /\ s = "idle" => \/ pc[t] = "rwoken" /\ ReaderMustWait
                   \/ pc[t] = "wwoken" /\ WriterMustWait /\ TimedWriters
                   \/ pc[t] \in {"reading", "writing"}
  /\ pc[t] = "reading" =>
       s = "idle" /\ (LastReaderOut /\ At("wsleep") # {} => W \cap At("wsleep") # {})
  /\ pc[t] = "writing" =>
       /\ s = "idle" /\ At("rsleep") \subseteq W
       /\ At("wsleep") # {} => W \cap At("wsleep") # {}
  /\ pc[t] = "wwoken" => s \in {"wwoken", "wsleep", "writing", "idle"}
  /\ pc[t] = "wsleep" => s = "wwoken"


(* What the counters tell about the threads.                               *)
LEMMA CountsMean ==
  ASSUME RwlTypeOK, CountsMatch
  PROVE  /\ ractive_count \in Nat /\ wactive_count \in Nat
         /\ rwait_count \in Nat /\ wwait_count \in Nat
         /\ \A t \in Threads :
              /\ pc[t] = "reading" => ractive_count > 0
              /\ pc[t] = "writing" => wactive_count > 0
              /\ pc[t] \in {"rsleep", "rwoken"} => rwait_count > 0
              /\ pc[t] \in {"wsleep", "wwoken"} => wwait_count > 0
<1> DEFINE RD == At("reading")
           WR == At("writing")
           RW == At("rsleep") \union At("rwoken")
           WW == At("wsleep") \union At("wwoken")
<1>1. /\ RD \in SUBSET Threads /\ WR \in SUBSET Threads
      /\ RW \in SUBSET Threads /\ WW \in SUBSET Threads
      /\ \A t \in Threads :
              /\ pc[t] = "reading" => RD # {}
              /\ pc[t] = "writing" => WR # {}
              /\ pc[t] \in {"rsleep", "rwoken"} => RW # {}
              /\ pc[t] \in {"wsleep", "wwoken"} => WW # {}
  BY DEF At
<1>2. /\ ractive_count = Cardinality(RD) /\ wactive_count = Cardinality(WR)
      /\ rwait_count = Cardinality(RW) /\ wwait_count = Cardinality(WW)
  BY DEF CountsMatch
<1> HIDE DEF RD, WR, RW, WW
<1>3. /\ Cardinality(RD) \in Nat /\ (Cardinality(RD) = 0 <=> RD = {})
      /\ Cardinality(WR) \in Nat /\ (Cardinality(WR) = 0 <=> WR = {})
      /\ Cardinality(RW) \in Nat /\ (Cardinality(RW) = 0 <=> RW = {})
      /\ Cardinality(WW) \in Nat /\ (Cardinality(WW) = 0 <=> WW = {})
  BY <1>1, FinitePart
<1> QED
  BY <1>1, <1>2, <1>3

(* A step preserves exact counts and exclusion.                            *)
LEMMA StepPreserves ==
  ASSUME RwlTypeOK, CountsMatch, WriterIsAlone,
         NEW t \in Threads, NEW s \in States, NEW W \in SUBSET Asleep, Step(t, s, W)
  PROVE  CountsMatch' /\ WriterIsAlone' /\ pc' \in [Threads -> States]
         /\ {rwait_count, wwait_count, ractive_count, wactive_count}' \subseteq Nat
<1>1. /\ CountsMatch'
      /\ {rwait_count, wwait_count, ractive_count, wactive_count}' \subseteq Nat
  BY CountsStep DEF Step
<1>2. /\ pc' \in [Threads -> States]
      /\ pc'[t] = s
      /\ \A u \in Threads \ {t} :
           /\ pc'[u] = "reading" <=> pc[u] = "reading"
           /\ pc'[u] = "writing" <=> pc[u] = "writing"
  BY BecomeEffect DEF Step
<1>3. /\ s = "reading" => wactive_count = 0
      /\ s = "writing" => wactive_count = 0 /\ ractive_count = 0
  BY DEF Step
<1>4. \A u \in Threads :
        /\ pc[u] = "reading" => ractive_count > 0
        /\ pc[u] = "writing" => wactive_count > 0
  BY CountsMean
<1>5. \A u, v \in Threads : u # v /\ pc[u] = "writing" =>
                              pc[v] # "reading" /\ pc[v] # "writing"
  BY DEF WriterIsAlone, At
<1>6. ractive_count \in Nat /\ wactive_count \in Nat
  BY CountsMean
<1>7. \A u, v \in Threads : u # v /\ pc'[u] = "writing" =>
                              pc'[v] # "reading" /\ pc'[v] # "writing"
  BY <1>2, <1>3, <1>4, <1>5, <1>6
<1>8. WriterIsAlone'
  BY <1>7 DEF WriterIsAlone, At
<1> QED
  BY <1>1, <1>2, <1>8

(* A step leaves no reader asleep that could read.                         *)
LEMMA StepKeepsReadersAwake ==
  ASSUME RwlTypeOK, CountsMatch, NoReaderSleepsInVain, ~ (PREFER_WRITER /\ TimedWriters),
         NEW t \in Threads, NEW s \in States, NEW W \in SUBSET Asleep, Step(t, s, W)
  PROVE  NoReaderSleepsInVain'
<1> SUFFICES ASSUME NEW u \in Threads, pc'[u] = "rsleep"
             PROVE  wactive_count' > 0 \/ (PREFER_WRITER /\ wwait_count' > 0)
  BY DEF NoReaderSleepsInVain, At, ReaderMustWait
<1>1. /\ pc'[t] = s
      /\ u # t => pc[u] = "rsleep" /\ u \notin W
  <2>1. pc'[t] = s
    BY BecomeEffect DEF Step
  <2>2. u # t => pc[u] = "rsleep" /\ u \notin W
    <3> SUFFICES ASSUME u # t PROVE pc[u] = "rsleep" /\ u \notin W
      OBVIOUS
    <3>1. W \subseteq Asleep /\ \A v \in Asleep : pc[v] \in {"rsleep", "wsleep"}
      BY DEF Asleep, At
    <3> QED
      BY <3>1, BecomeEffect DEF Step
  <2> QED
    BY <2>1, <2>2
<1>2. ractive_count \in Nat /\ wactive_count \in Nat /\ wwait_count \in Nat
  BY CountsMean
<1>3. pc[t] \in States
  BY DEF RwlTypeOK
<1>4. ReaderMustWait
  BY <1>1 DEF Step, NoReaderSleepsInVain, At
<1>5. CASE wactive_count > 0
  <2>1. pc[t] # "writing"
    BY <1>1 DEF Step, At
  <2> QED
    BY <1>2, <1>5, <2>1 DEF Step
<1>6. CASE PREFER_WRITER /\ wwait_count > 0
  BY <1>1, <1>2, <1>3, <1>6, CountsMean, RwlAssumption DEF Step, At, States
<1> QED
  BY <1>4, <1>5, <1>6 DEF ReaderMustWait


(* A step leaves no writer asleep with nobody to wake it.                  *)
LEMMA StepRemembersWriters ==
  ASSUME RwlTypeOK, CountsMatch, NoWriterForgotten,
         NEW t \in Threads, NEW s \in States, NEW W \in SUBSET Asleep, Step(t, s, W)
  PROVE  NoWriterForgotten'
<1> SUFFICES ASSUME NEW u \in Threads, pc'[u] = "wsleep",
                    ractive_count' = 0, wactive_count' = 0
             PROVE  \E v \in Threads : pc'[v] = "wwoken"
  <2>1. CountsMatch' /\ {ractive_count, wactive_count}' \subseteq Nat
    BY CountsStep DEF Step
  <2> QED
    BY <2>1 DEF NoWriterForgotten, At
<1>1. /\ pc'[t] = s
      /\ u # t => pc[u] = "wsleep" /\ u \notin W
      /\ \A v \in Threads \ {t} :
           /\ v \in W /\ pc[v] = "wsleep" => pc'[v] = "wwoken"
           /\ v \notin W => pc'[v] = pc[v]
  <2>1. W \subseteq Asleep /\ \A v \in Asleep : pc[v] \in {"rsleep", "wsleep"}
    BY DEF Asleep, At
  <2> QED
    BY <2>1, BecomeEffect DEF Step
<1>2. ractive_count \in Nat /\ wactive_count \in Nat /\ wwait_count \in Nat
  BY CountsMean
<1>3. pc[t] \in States /\ t \notin W
  BY DEF RwlTypeOK, Step
<1>4. ASSUME W \cap At("wsleep") # {}
      PROVE  \E v \in Threads : pc'[v] = "wwoken"
  <2> PICK v \in W : v \in At("wsleep")
    BY <1>4
  <2> QED
    BY <1>1, <1>3 DEF At
<1>5. CASE u = t
  <2>1. WriterMustWait /\ s = "wsleep"
    BY <1>1, <1>5 DEF Step
  <2>2. pc[t] \notin {"reading", "writing"}
    BY <2>1 DEF Step
  <2> QED
    BY <1>2, <2>1, <2>2 DEF Step, WriterMustWait
<1>6. CASE u # t
  <2>1. At("wsleep") # {} /\ wwait_count > 0
    BY <1>1, <1>6, CountsMean DEF At
  <2>2. \/ ractive_count > 0
        \/ wactive_count > 0
        \/ \E v \in Threads : pc[v] = "wwoken"
    BY <2>1 DEF NoWriterForgotten, At
  <2>3. CASE ractive_count > 0
    <3>1. pc[t] = "reading" /\ ractive_count = 1
      BY <1>2, <2>3 DEF Step
    <3>2. W \cap At("wsleep") # {}
      BY <2>1, <3>1 DEF Step, LastReaderOut
    <3> QED
      BY <1>4, <3>2
  <2>4. CASE wactive_count > 0
    <3>1. pc[t] = "writing"
      BY <1>2, <2>4 DEF Step
    <3>2. W \cap At("wsleep") # {}
      BY <2>1, <3>1 DEF Step
    <3> QED
      BY <1>4, <3>2
  <2>5. CASE (\E v \in Threads : pc[v] = "wwoken") /\ ractive_count = 0 /\ wactive_count = 0
    <3> PICK v \in Threads : pc[v] = "wwoken"
      BY <2>5
    <3>1. CASE v = t
      <4>1. s \in {"wwoken", "wsleep", "writing", "idle"}
        BY <3>1 DEF Step
      <4>2. s # "writing"
        BY <1>2, <3>1 DEF Step
      <4>3. s # "wsleep" /\ s # "idle"
        BY <2>5, <3>1 DEF Step, WriterMustWait
      <4> QED
        BY <1>1, <4>1, <4>2, <4>3
    <3>2. CASE v # t
      <4>1. v \notin W
        BY DEF Asleep, At
      <4> QED
        BY <1>1, <3>2, <4>1
    <3> QED
      BY <3>1, <3>2
  <2> QED
    BY <1>2, <2>2, <2>3, <2>4, <2>5
<1> QED
  BY <1>5, <1>6

-----------------------------------------------------------------------------
(* Every action is such a step.                                            *)

(* Spurious wake-ups and expiring times are such steps.                    *)
LEMMA WakeShape ==
  ASSUME RwlInv, NEW t \in Threads, SpuriousWakeup(t) \/ Expire(t)
  PROVE  \E s \in States, W \in SUBSET Asleep : Step(t, s, W)
<1> DEFINE s == CASE pc[t] = "rsleep" -> "rwoken"
                  [] pc[t] = "wsleep" -> "wwoken"
                  [] OTHER -> pc[t]
<1>1. RwlTypeOK /\ CountsMatch /\ Deadlines /\ pc[t] \in States
  BY DEF RwlInv, RwlTypeOK
<1>2. pc[t] \in {"rsleep", "rwoken", "wsleep", "wwoken"}
  BY <1>1 DEF SpuriousWakeup, Expire, Deadlines
<1>3. Become(t, s, {}) /\ UNCHANGED counts
  BY DEF SpuriousWakeup, Expire
<1>4. \/ pc[t] \in {"rsleep", "rwoken"} /\ s = "rwoken"
      \/ pc[t] \in {"wsleep", "wwoken"} /\ s = "wwoken"
  BY <1>2
<1> HIDE DEF s
<1>5. s \in States /\ {} \in SUBSET Asleep
  BY <1>4 DEF States
<1>6. /\ ractive_count \in Nat /\ wactive_count \in Nat
      /\ rwait_count \in Nat /\ wwait_count \in Nat
  BY <1>1, CountsMean
<1>7. Step(t, s, {})
  BY <1>3, <1>4, <1>6 DEF Step, counts
<1> QED
  BY <1>5, <1>7

(* So are the steps of qse_rwl_lockr().                                    *)
LEMMA ReaderShape ==
  ASSUME RwlInv, NEW t \in Threads, NEW timed,
         qse_rwl_lockr(t, timed) \/ ReaderResumes(t)
  PROVE  \E s \in States, W \in SUBSET Asleep : Step(t, s, W)
<1>1. /\ ractive_count \in Nat /\ wactive_count \in Nat
      /\ rwait_count \in Nat /\ wwait_count \in Nat
  BY CountsMean DEF RwlInv
<1>2. {} \in SUBSET Asleep
  OBVIOUS
<1>3. CASE qse_rwl_lockr(t, timed)
  <2>1. CASE ~ ReaderMustWait
    <3>1. Step(t, "reading", {})
      BY <1>1, <1>3, <2>1 DEF qse_rwl_lockr, GetReadLock, ReaderMustWait, Step
    <3> QED
      BY <1>2, <3>1 DEF States
  <2>2. CASE ReaderMustWait
    <3>1. Step(t, "rsleep", {})
      BY <1>1, <1>3, <2>2 DEF qse_rwl_lockr, Step
    <3> QED
      BY <1>2, <3>1 DEF States
  <2> QED
    BY <2>1, <2>2
<1>4. CASE ReaderResumes(t)
  <2>1. CASE ~ ReaderMustWait
    <3>1. Step(t, "reading", {})
      BY <1>1, <1>4, <2>1 DEF ReaderResumes, GetReadLock, ReaderMustWait, Step
    <3> QED
      BY <1>2, <3>1 DEF States
  <2>2. CASE ReaderMustWait /\ deadline[t] = "passed"
    <3>1. Step(t, "idle", {})
      BY <1>1, <1>4, <2>2 DEF ReaderResumes, Step
    <3> QED
      BY <1>2, <3>1 DEF States
  <2>3. CASE ReaderMustWait /\ deadline[t] # "passed"
    <3>1. Step(t, "rsleep", {})
      BY <1>1, <1>4, <2>3 DEF ReaderResumes, Step, counts
    <3> QED
      BY <1>2, <3>1 DEF States
  <2> QED
    BY <2>1, <2>2, <2>3
<1> QED
  BY <1>3, <1>4

(* So are the steps of qse_rwl_lockw().                                    *)
LEMMA WriterShape ==
  ASSUME RwlInv, NEW t \in Threads, NEW timed,
         qse_rwl_lockw(t, timed) \/ WriterResumes(t)
  PROVE  \E s \in States, W \in SUBSET Asleep : Step(t, s, W)
<1>1. /\ ractive_count \in Nat /\ wactive_count \in Nat
      /\ rwait_count \in Nat /\ wwait_count \in Nat
  BY CountsMean DEF RwlInv
<1>2. {} \in SUBSET Asleep
  OBVIOUS
<1>3. CASE qse_rwl_lockw(t, timed)
  <2>1. CASE ~ WriterMustWait
    <3>1. Step(t, "writing", {})
      BY <1>1, <1>3, <2>1 DEF qse_rwl_lockw, GetWriteLock, WriterMustWait, Step
    <3> QED
      BY <1>2, <3>1 DEF States
  <2>2. CASE WriterMustWait
    <3>1. Step(t, "wsleep", {})
      BY <1>1, <1>3, <2>2 DEF qse_rwl_lockw, Step
    <3> QED
      BY <1>2, <3>1 DEF States
  <2> QED
    BY <2>1, <2>2
<1>4. CASE WriterResumes(t)
  <2>1. CASE ~ WriterMustWait
    <3>1. Step(t, "writing", {})
      BY <1>1, <1>4, <2>1 DEF WriterResumes, GetWriteLock, WriterMustWait, Step
    <3> QED
      BY <1>2, <3>1 DEF States
  <2>2. CASE WriterMustWait /\ deadline[t] = "passed"
    <3>0. TimedWriters
      BY <1>4, <2>2 DEF WriterResumes, RwlInv, Deadlines
    <3>1. Step(t, "idle", {})
      BY <1>1, <1>4, <2>2, <3>0 DEF WriterResumes, WriterGivesUp, Step
    <3> QED
      BY <1>2, <3>1 DEF States
  <2>3. CASE WriterMustWait /\ deadline[t] # "passed"
    <3>1. Step(t, "wsleep", {})
      BY <1>1, <1>4, <2>3 DEF WriterResumes, Step, counts
    <3> QED
      BY <1>2, <3>1 DEF States
  <2> QED
    BY <2>1, <2>2, <2>3
<1> QED
  BY <1>3, <1>4

(* So are qse_rwl_unlockr() and qse_rwl_unlockw().                         *)
LEMMA UnlockShape ==
  ASSUME RwlInv, NEW t \in Threads, qse_rwl_unlockr(t) \/ qse_rwl_unlockw(t)
  PROVE  \E s \in States, W \in SUBSET Asleep : Step(t, s, W)
<1>1. /\ ractive_count \in Nat /\ wactive_count \in Nat
      /\ rwait_count \in Nat /\ wwait_count \in Nat
      /\ At("rsleep") # {} => rwait_count > 0
      /\ At("wsleep") # {} => wwait_count > 0
  BY CountsMean DEF RwlInv, At
<1>2. "idle" \in States
  BY DEF States
<1>3. CASE qse_rwl_unlockr(t)
  <2>1. PICK W \in (IF LastReaderOut THEN qse_cnd_signal(At("wsleep")) ELSE {{}}) :
          Become(t, "idle", W)
    BY <1>3 DEF qse_rwl_unlockr
  <2>2. /\ W \subseteq At("wsleep")
        /\ LastReaderOut /\ At("wsleep") # {} => W \cap At("wsleep") # {}
    BY DEF qse_cnd_signal
  <2>3. W \in SUBSET Asleep /\ t \notin W
    BY <1>3, <2>2 DEF Asleep, At, qse_rwl_unlockr
  <2>4. Step(t, "idle", W)
    BY <1>1, <1>3, <2>1, <2>2, <2>3 DEF Step, qse_rwl_unlockr
  <2> QED
    BY <1>2, <2>3, <2>4
<1>4. CASE qse_rwl_unlockw(t)
  <2>1. PICK W \in Wakeups : Become(t, "idle", W)
    BY <1>4 DEF qse_rwl_unlockw
  <2>2. /\ W \subseteq Asleep /\ At("rsleep") \subseteq W
        /\ At("wsleep") # {} => W \cap At("wsleep") # {}
    BY <1>1 DEF Wakeups, qse_cnd_signal, qse_cnd_broadcast, Asleep
  <2>3. W \in SUBSET Asleep /\ t \notin W
    BY <1>4, <2>2 DEF Asleep, At, qse_rwl_unlockw
  <2>4. Step(t, "idle", W)
    BY <1>1, <1>4, <2>1, <2>2, <2>3 DEF Step, qse_rwl_unlockw
  <2> QED
    BY <1>2, <2>3, <2>4
<1> QED
  BY <1>3, <1>4


-----------------------------------------------------------------------------
(* The invariants.                                                         *)

(* So is every step of the lock.                                           *)
LEMMA NextShape ==
  ASSUME RwlInv, RwlNext
  PROVE  \E t \in Threads, s \in States, W \in SUBSET Asleep : Step(t, s, W)
  BY WakeShape, ReaderShape, WriterShape, UnlockShape DEF RwlNext

(* Deadlines stay with calls that wait, and with writers only if they may  *)
(* have one.                                                               *)
LEMMA DeadlinesStep ==
  ASSUME RwlInv, RwlNext
  PROVE  /\ deadline' \in [Threads -> {"none", "ahead", "passed"}]
         /\ Deadlines'
<1>1. RwlTypeOK /\ Deadlines
  BY DEF RwlInv
<1> PICK t \in Threads :
    \/ SpuriousWakeup(t)
    \/ Expire(t)
    \/ \E timed \in {FALSE, TimedReaders} : qse_rwl_lockr(t, timed)
    \/ ReaderResumes(t)
    \/ qse_rwl_unlockr(t)
    \/ \E timed \in {FALSE, TimedWriters} : qse_rwl_lockw(t, timed)
    \/ WriterResumes(t)
    \/ qse_rwl_unlockw(t)
  BY DEF RwlNext
<1>2. /\ deadline' \in [Threads -> {"none", "ahead", "passed"}]
      /\ \A u \in Threads \ {t} : deadline'[u] = deadline[u]
  BY <1>1 DEF SpuriousWakeup, Expire, qse_rwl_lockr, ReaderResumes, qse_rwl_unlockr,
     qse_rwl_lockw, WriterResumes, qse_rwl_unlockw, GetReadLock, GetWriteLock,
     WriterGivesUp, RwlTypeOK
<1>3. deadline'[t] # "none" =>
        /\ pc'[t] \in {"rsleep", "rwoken", "wsleep", "wwoken"}
        /\ pc'[t] \in {"wsleep", "wwoken"} => TimedWriters
  BY <1>1, RwlAssumption
     DEF SpuriousWakeup, Expire, qse_rwl_lockr, ReaderResumes, qse_rwl_unlockr,
     qse_rwl_lockw, WriterResumes, qse_rwl_unlockw, GetReadLock, GetWriteLock,
     WriterGivesUp, RwlTypeOK, Become, Deadlines
<1>4. \A u \in Threads \ {t} :
        /\ pc[u] \in {"rsleep", "rwoken"} => pc'[u] \in {"rsleep", "rwoken"}
        /\ pc[u] \in {"wsleep", "wwoken"} => pc'[u] \in {"wsleep", "wwoken"}
        /\ pc'[u] \in {"wsleep", "wwoken"} => pc[u] \in {"wsleep", "wwoken"}
  <2>1. PICK s \in States, W \in SUBSET Asleep : Step(t, s, W)
    BY WakeShape, ReaderShape, WriterShape, UnlockShape
  <2> QED
    BY <1>1, <2>1, BecomeEffect DEF Step
<1> QED
  BY <1>1, <1>2, <1>3, <1>4 DEF Deadlines

(* An unused lock satisfies all invariants.                                *)
LEMMA RwlInitInv == RwlInit => RwlInv /\ NoReaderSleepsInVain /\ NoWriterForgotten
<1> SUFFICES ASSUME RwlInit PROVE RwlInv /\ NoReaderSleepsInVain /\ NoWriterForgotten
  OBVIOUS
<1>1. \A s \in States \ {"idle"} : At(s) = {}
  BY DEF RwlInit, At
<1>2. /\ At("reading") = {} /\ At("writing") = {} /\ At("rsleep") = {}
      /\ At("rwoken") = {} /\ At("wsleep") = {} /\ At("wwoken") = {}
  BY <1>1 DEF States
<1>3. CountsMatch
  BY <1>2, FS_EmptySet DEF RwlInit, CountsMatch
<1>4. RwlTypeOK /\ WriterIsAlone /\ Deadlines
  BY <1>2 DEF RwlInit, RwlTypeOK, WriterIsAlone, Deadlines, States
<1> QED
  BY <1>2, <1>3, <1>4 DEF RwlInv, NoReaderSleepsInVain, NoWriterForgotten

(* The invariants depend on the variables only.                            *)
LEMMA StutterInv ==
  ASSUME UNCHANGED rwlvars
  PROVE  /\ RwlInv => RwlInv'
         /\ NoReaderSleepsInVain => NoReaderSleepsInVain'
         /\ NoWriterForgotten => NoWriterForgotten'
<1>1. \A s : At(s)' = At(s)
  BY DEF rwlvars, At
<1> QED
  BY <1>1 DEF rwlvars, counts, RwlInv, RwlTypeOK, CountsMatch, WriterIsAlone, Deadlines, At,
              NoReaderSleepsInVain, NoWriterForgotten, ReaderMustWait

(* Every step preserves types, counts, exclusion and deadlines.            *)
LEMMA RwlStepInv == RwlInv /\ [RwlNext]_rwlvars => RwlInv'
<1> SUFFICES ASSUME RwlInv, [RwlNext]_rwlvars PROVE RwlInv'
  OBVIOUS
<1>1. CASE RwlNext
  <2>1. PICK t \in Threads, s \in States, W \in SUBSET Asleep : Step(t, s, W)
    BY <1>1, NextShape
  <2>2. /\ CountsMatch' /\ WriterIsAlone' /\ pc' \in [Threads -> States]
        /\ {rwait_count, wwait_count, ractive_count, wactive_count}' \subseteq Nat
    BY <2>1, StepPreserves DEF RwlInv
  <2> QED
    BY <1>1, <2>2, DeadlinesStep DEF RwlInv, RwlTypeOK
<1> QED
  BY <1>1, StutterInv

(* Every step keeps readers awake, if preferred writers do not time out.   *)
LEMMA StepReaders ==
  ~ (PREFER_WRITER /\ TimedWriters) =>
    (RwlInv /\ NoReaderSleepsInVain /\ [RwlNext]_rwlvars => NoReaderSleepsInVain')
<1> SUFFICES ASSUME ~ (PREFER_WRITER /\ TimedWriters),
                    RwlInv, NoReaderSleepsInVain, [RwlNext]_rwlvars
             PROVE  NoReaderSleepsInVain'
  OBVIOUS
<1>1. CASE RwlNext
  BY <1>1, NextShape, StepKeepsReadersAwake DEF RwlInv
<1> QED
  BY <1>1, StutterInv

(* Every step remembers the writers.                                       *)
LEMMA StepWriters == RwlInv /\ NoWriterForgotten /\ [RwlNext]_rwlvars => NoWriterForgotten'
<1> SUFFICES ASSUME RwlInv, NoWriterForgotten, [RwlNext]_rwlvars
             PROVE  NoWriterForgotten'
  OBVIOUS
<1>1. CASE RwlNext
  BY <1>1, NextShape, StepRemembersWriters DEF RwlInv
<1> QED
  BY <1>1, StutterInv

(* Types, exact counts, exclusion and deadlines are invariants of rwl.c.   *)
THEOREM RwlSpecInv == RwlSpec => []RwlInv
  BY RwlInitInv, RwlStepInv, PTL DEF RwlSpec

(* The four counters of the lock count the threads exactly, for any number *)
(* of threads and any choice of flags and waiting times.                   *)
THEOREM CountsCorrect == RwlSpec => []CountsMatch
  BY RwlSpecInv, PTL DEF RwlInv

(* qse_rwl_lockw() gives exclusive access.                                 *)
THEOREM Exclusion == RwlSpec => []WriterIsAlone
  BY RwlSpecInv, PTL DEF RwlInv

(* No writer sleeps on while the lock is free and nobody has been woken    *)
(* for it, whatever times out.                                             *)
THEOREM WritersRemembered == RwlSpec => []NoWriterForgotten
  BY RwlSpecInv, RwlInitInv, StepWriters, PTL DEF RwlSpec

(* No reader sleeps while it could read, provided that writers which are   *)
(* preferred do not give up: qse_rwl_lockw() wakes no reader when it times *)
(* out.                                                                    *)
THEOREM ReadersAwake ==
  ASSUME ~ (PREFER_WRITER /\ TimedWriters)
  PROVE  RwlSpec => []NoReaderSleepsInVain
<1>1. RwlInv /\ NoReaderSleepsInVain /\ [RwlNext]_rwlvars => NoReaderSleepsInVain'
  BY StepReaders
<1> QED
  BY <1>1, RwlSpecInv, RwlInitInv, PTL DEF RwlSpec

=============================================================================
