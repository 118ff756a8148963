-------------------------- MODULE HttpdLoopProofs ---------------------------
(***************************************************************************)
(* Proofs about the main loop of lib/http/httpd.c for any sets of clients  *)
(* and servers, any idle limit and any length of time.                     *)
(***************************************************************************)
EXTENDS HttpdLoop, SequenceTheorems, TLAPS

(* In which states of the loop the timer fires and clients can be bad.     *)
Control ==
  /\ state # "fire" => phase = "none" /\ firing = {}
  /\ state = "fire" => phase \in {"fire", "handler"} /\ now = clock
  /\ firing # {} => phase = "handler"
  /\ state \in {"stopped", "poll", "broken"} => bad = <<>>
  /\ batch \intersect Clients \subseteq open
  /\ ursopen => ursactive

NoFuture == \A c \in open : last_active[c] <= clock

Unarmed(c) == \A e \in pending \union firing : e.ctx # c

AllDiffer(l) == \A i, j \in 1..Len(l) : i # j => l[i] # l[j]

(* The status says whether a client is on the list of bad clients.  One    *)
(* that has got through its handshake and is bad is not idle, or its timer *)
(* is not armed: the timer does not purge it.                              *)
BadInv ==
  /\ AllDiffer(bad)
  /\ \A c \in ToSet(bad) : Has(c, "BAD")
  /\ \A c \in open : Has(c, "BAD") => c \in ToSet(bad)
  /\ \A c \in ToSet(bad) : Has(c, "READY") => c \in open
  /\ state = "dispatch" => ToSet(bad) \subseteq open
  /\ state \in {"dispatch", "fire"} =>
       \A c \in ToSet(bad) : Has(c, "READY") => last_active[c] = clock \/ Unarmed(c)

(* One event per client, and none later than twice the idle limit after    *)
(* the client's last activity.                                             *)
TimerInv ==
  /\ IdleTimerIsArmed
  /\ \A e, f \in pending : e.ctx = f.ctx => e = f
  /\ \A e \in firing, f \in pending : e.ctx # f.ctx
  /\ \A e, f \in firing : e = f
  /\ \A e \in pending : e.when < last_active[e.ctx] + 2 * IdleLimit

IInv ==
  /\ ListInActivityOrder   \* which includes TypeOK
  /\ Control
  /\ NoFuture
  /\ BadInv
  /\ TimerInv
  /\ IdleClientsGo
  /\ LoopLeavesNothing
-----------------------------------------------------------------------------
(* Lists.                                                                  *)

IsOrdered(l, f) ==
  \A i, j \in 1..Len(l) : i < j => l[i] # l[j] /\ f[l[i]] <= f[l[j]]

(* The members of a list by their positions.                               *)
LEMMA Members ==
  ASSUME NEW S, NEW l \in Seq(S)
  PROVE  /\ ToSet(l) = {l[i] : i \in 1..Len(l)}
         /\ ToSet(l) \subseteq S
         /\ Len(l) \in Nat
         /\ l = <<>> <=> ToSet(l) = {}
<1>1. DOMAIN l = 1..Len(l) /\ Len(l) \in Nat /\ \A i \in 1..Len(l) : l[i] \in S
  BY LenProperties, ElementOfSeq
<1>2. l = <<>> <=> Len(l) = 0
  BY EmptySeq
<1>3. ToSet(l) = {l[i] : i \in 1..Len(l)}
  BY <1>1 DEF ToSet
<1>4. ToSet(l) \subseteq S
  BY <1>1, <1>3
<1>5. Len(l) = 0 <=> ToSet(l) = {}
  <2>1. Len(l) # 0 => 1 \in 1..Len(l)
    BY <1>1
  <2>2. Len(l) = 0 => 1..Len(l) = {}
    BY <1>1
  <2> QED
    BY <1>3, <2>1, <2>2
<1> QED
  BY <1>1, <1>2, <1>3, <1>4, <1>5

(* A client is linked in front of a list that does not hold it.            *)
LEMMA PrependList ==
  ASSUME NEW S, NEW l \in Seq(S), NEW c \in S, c \notin ToSet(l), AllDiffer(l)
  PROVE  /\ <<c>> \o l \in Seq(S)
         /\ ToSet(<<c>> \o l) = ToSet(l) \union {c}
         /\ AllDiffer(<<c>> \o l)
<1> DEFINE r == <<c>> \o l
<1>1. <<c>> \in Seq(S) /\ Len(<<c>>) = 1 /\ <<c>>[1] = c
  OBVIOUS
<1>2. /\ r \in Seq(S) /\ Len(r) = Len(l) + 1 /\ Len(l) \in Nat
      /\ \A i \in 1..Len(r) : r[i] = IF i = 1 THEN c ELSE l[i - 1]
  BY <1>1, ConcatProperties, LenProperties
<1> HIDE DEF r
<1>3. ToSet(r) = {r[i] : i \in 1..Len(r)} /\ ToSet(l) = {l[i] : i \in 1..Len(l)}
  BY <1>2, Members
<1>4. ToSet(r) = ToSet(l) \union {c}
  <2>1. \A i \in 1..Len(l) : l[i] = r[i + 1] /\ i + 1 \in 1..Len(r)
    BY <1>2
  <2>2. c = r[1] /\ 1 \in 1..Len(r)
    BY <1>2
  <2>3. \A i \in 1..Len(r) : i # 1 => i - 1 \in 1..Len(l)
    BY <1>2
  <2> QED
    BY <1>2, <1>3, <2>1, <2>2, <2>3
<1>5. AllDiffer(r)
  <2> SUFFICES ASSUME NEW i \in 1..Len(r), NEW j \in 1..Len(r), i # j
               PROVE  r[i] # r[j]
    BY DEF AllDiffer
  <2>1. \A k \in 1..Len(r) : k # 1 => k - 1 \in 1..Len(l) /\ r[k] = l[k - 1]
    BY <1>2
  <2>2. \A k \in 1..Len(r) : k # 1 => r[k] # c
    BY <1>3, <2>1
  <2>3. r[1] = c
    BY <1>2
  <2>4. CASE i # 1 /\ j # 1
    <3>1. i - 1 \in 1..Len(l) /\ j - 1 \in 1..Len(l) /\ i - 1 # j - 1
      BY <1>2, <2>1, <2>4
    <3>2. l[i - 1] # l[j - 1]
      BY <3>1 DEF AllDiffer
    <3> QED
      BY <2>1, <2>4, <3>2
  <2> QED
    BY <2>2, <2>3, <2>4
<1> QED
  BY <1>2, <1>4, <1>5 DEF r

(* The first client of a list leaves it.                                   *)
LEMMA TailList ==
  ASSUME NEW S, NEW l \in Seq(S), l # <<>>, AllDiffer(l)
  PROVE  /\ Head(l) \in ToSet(l) /\ Tail(l) \in Seq(S)
         /\ ToSet(Tail(l)) = ToSet(l) \ {Head(l)}
         /\ AllDiffer(Tail(l))
<1> DEFINE r == Tail(l)
<1>1. /\ r \in Seq(S) /\ Len(r) = Len(l) - 1 /\ Len(l) \in Nat \ {0}
      /\ \A i \in 1..Len(r) : r[i] = l[i + 1]
      /\ Head(l) = l[1]
  BY HeadTailProperties, EmptySeq
<1> HIDE DEF r
<1>2. ToSet(r) = {r[i] : i \in 1..Len(r)} /\ ToSet(l) = {l[i] : i \in 1..Len(l)}
  BY <1>1, Members
<1>3. AllDiffer(r)
  BY <1>1 DEF AllDiffer
<1>4. ToSet(r) = ToSet(l) \ {l[1]}
  <2>1. \A i \in 1..Len(r) : i + 1 \in 1..Len(l) /\ l[i + 1] # l[1]
    BY <1>1 DEF AllDiffer
  <2>2. \A i \in 1..Len(l) : l[i] # l[1] => i - 1 \in 1..Len(r) /\ r[i - 1] = l[i]
    BY <1>1
  <2> QED
    BY <1>1, <1>2, <2>1, <2>2
<1> QED
  BY <1>1, <1>2, <1>3, <1>4 DEF r

(* A client is unlinked from a list.                                       *)
LEMMA RemoveList ==
  ASSUME NEW S, NEW l \in Seq(S), NEW f, IsOrdered(l, f), NEW c \in ToSet(l)
  PROVE  /\ RemoveFirst(l, c) \in Seq(S)
         /\ ToSet(RemoveFirst(l, c)) = ToSet(l) \ {c}
         /\ IsOrdered(RemoveFirst(l, c), f)
<1> DEFINE n == Len(l)
           r == RemoveFirst(l, c)
<1>1. n \in Nat /\ ToSet(l) = {l[i] : i \in 1..n}
  BY Members
<1>2. PICK p \in 1..n : l[p] = c
  BY <1>1
<1>3. \A i \in 1..n : l[i] = c => i = p
  BY <1>1, <1>2 DEF IsOrdered
<1>4. r = SubSeq(l, 1, p - 1) \o SubSeq(l, p + 1, n)
  <2>1. {i \in 1..n : l[i] = c} = {p}
    BY <1>2, <1>3
  <2>2. Min({p}) = p
    BY DEF Min
  <2>3. SelectInSeq(l, LAMBDA v : v = c) = p
    BY <2>1, <2>2 DEF SelectInSeq
  <2> QED
    BY <1>2, <2>3 DEF RemoveFirst, RemoveAt
<1>5. /\ SubSeq(l, 1, p - 1) \in Seq(S) /\ Len(SubSeq(l, 1, p - 1)) = p - 1
      /\ \A i \in 1..(p - 1) : SubSeq(l, 1, p - 1)[i] = l[i]
  BY <1>1, SubSeqProperties
<1>6. /\ SubSeq(l, p + 1, n) \in Seq(S) /\ Len(SubSeq(l, p + 1, n)) = n - p
      /\ \A i \in 1..(n - p) : SubSeq(l, p + 1, n)[i] = l[p + i]
  BY <1>1, SubSeqProperties
<1>7. /\ r \in Seq(S) /\ Len(r) = n - 1
      /\ \A i \in 1..(n - 1) : i < p => r[i] = l[i]
      /\ \A i \in 1..(n - 1) : i >= p => r[i] = l[i + 1]
  <2> DEFINE a == SubSeq(l, 1, p - 1)
             b == SubSeq(l, p + 1, n)
  <2>1. /\ r \in Seq(S) /\ Len(r) = Len(a) + Len(b)
        /\ \A i \in 1..(Len(a) + Len(b)) :
             r[i] = IF i <= Len(a) THEN a[i] ELSE b[i - Len(a)]
    <3>1. a \in Seq(S) /\ b \in Seq(S) /\ r = a \o b
      BY <1>4, <1>5, <1>6
    <3> HIDE DEF a, b, r
    <3> QED
      BY <3>1, ConcatProperties
  <2> HIDE DEF a, b, r
  <2>2. Len(a) = p - 1 /\ Len(b) = n - p
    BY <1>5, <1>6 DEF a, b
  <2>3. \A i \in 1..(n - 1) : i < p => r[i] = l[i]
    BY <1>1, <1>5, <2>1, <2>2 DEF a
  <2>4. ASSUME NEW i \in 1..(n - 1), i >= p PROVE r[i] = l[i + 1]
    <3>1. i - (p - 1) \in 1..(n - p) /\ p + (i - (p - 1)) = i + 1
      BY <1>1, <2>4
    <3>2. r[i] = b[i - (p - 1)]
      BY <1>1, <2>1, <2>2, <2>4
    <3> QED
      BY <1>6, <3>1, <3>2 DEF b
  <2> QED
    BY <1>1, <2>1, <2>2, <2>3, <2>4
<1> HIDE DEF r, n
<1>8. ToSet(r) = {r[i] : i \in 1..(n - 1)}
  BY <1>7, Members
<1>9. ToSet(r) = ToSet(l) \ {c}
  <2>1. \A i \in 1..n : i # p =>
          \E j \in 1..(n - 1) : r[j] = l[i]
    <3> SUFFICES ASSUME NEW i \in 1..n, i # p
                 PROVE  \E j \in 1..(n - 1) : r[j] = l[i]
      OBVIOUS
    <3>1. CASE i < p
      BY <1>1, <1>7, <3>1
    <3>2. CASE i > p
      <4>1. i - 1 \in 1..(n - 1) /\ r[i - 1] = l[i]
        BY <1>1, <1>7, <3>2
      <4> QED
        BY <4>1
    <3> QED
      BY <1>1, <3>1, <3>2
  <2>2. \A j \in 1..(n - 1) : \E i \in 1..n : i # p /\ r[j] = l[i]
    <3> SUFFICES ASSUME NEW j \in 1..(n - 1)
                 PROVE  \E i \in 1..n : i # p /\ r[j] = l[i]
      OBVIOUS
    <3>1. CASE j < p
      BY <1>1, <1>7, <3>1
    <3>2. CASE j >= p
      <4>1. j + 1 \in 1..n /\ j + 1 # p /\ r[j] = l[j + 1]
        BY <1>1, <1>7, <3>2
      <4> QED
        BY <4>1
    <3> QED
      BY <1>1, <3>1, <3>2
  <2>3. \A i \in 1..n : i # p <=> l[i] # c
    BY <1>2, <1>3
  <2>4. \A x \in ToSet(r) : x \in ToSet(l) /\ x # c
    BY <1>1, <1>8, <2>2, <2>3
  <2>5. \A x \in ToSet(l) : x # c => x \in ToSet(r)
    BY <1>1, <1>8, <2>1, <2>3
  <2> QED
    BY <2>4, <2>5
<1>10. IsOrdered(r, f)
  <2> SUFFICES ASSUME NEW i \in 1..(n - 1), NEW j \in 1..(n - 1), i < j
               PROVE  r[i] # r[j] /\ f[r[i]] <= f[r[j]]
    BY <1>7 DEF IsOrdered
  <2>1. \A k, m \in 1..n : k < m => l[k] # l[m] /\ f[l[k]] <= f[l[m]]
    BY DEF IsOrdered, n
  <2>2. CASE j < p
    BY <1>1, <1>7, <2>1, <2>2
  <2>3. CASE i < p /\ j >= p
    <3>1. i \in 1..n /\ j + 1 \in 1..n /\ i < j + 1
      BY <1>1, <2>3
    <3>2. r[i] = l[i] /\ r[j] = l[j + 1]
      BY <1>7, <2>3
    <3> QED
      BY <2>1, <3>1, <3>2
  <2>4. CASE i >= p
    <3>1. i + 1 \in 1..n /\ j + 1 \in 1..n /\ i + 1 < j + 1
      BY <1>1, <2>4
    <3>2. j >= p
      BY <1>1, <2>4
    <3>3. \A k \in 1..(n - 1) : k >= p => r[k] = l[k + 1]
      BY <1>1, <1>7
    <3>4. r[i] = l[i + 1] /\ r[j] = l[j + 1]
      BY <2>4, <3>2, <3>3
    <3> QED
      BY <2>1, <3>1, <3>4
  <2> QED
    BY <1>1, <2>2, <2>3, <2>4
<1> QED
  BY <1>7, <1>9, <1>10 DEF r

(* A client that is as recently active as any goes to the tail.            *)
LEMMA AppendList ==
  ASSUME NEW l \in Seq(Clients), NEW f \in [Clients -> Nat], IsOrdered(l, f),
         NEW c \in Clients, c \notin ToSet(l), NEW t \in Nat,
         \A d \in ToSet(l) : f[d] <= t
  PROVE  /\ Append(l, c) \in Seq(Clients)
         /\ ToSet(Append(l, c)) = ToSet(l) \union {c}
         /\ IsOrdered(Append(l, c), [f EXCEPT ![c] = t])
<1> DEFINE n == Len(l)
           r == Append(l, c)
<1>1. /\ r \in Seq(Clients) /\ Len(r) = n + 1 /\ n \in Nat
      /\ \A i \in 1..n : r[i] = l[i]
      /\ r[n + 1] = c
  BY AppendProperties, LenProperties
<1> HIDE DEF r
<1>2. ToSet(r) = {r[i] : i \in 1..(n + 1)} /\ ToSet(l) = {l[i] : i \in 1..n}
  BY <1>1, Members
<1>3. \A i \in 1..n : l[i] \in Clients /\ l[i] # c /\ f[l[i]] <= t
  BY <1>2, Members
<1> HIDE DEF n
<1>4. ToSet(r) = ToSet(l) \union {c}
  <2>1. n + 1 \in 1..(n + 1) /\ \A i \in 1..n : i \in 1..(n + 1)
    BY <1>1
  <2>2. \A i \in 1..(n + 1) : i \in 1..n \/ i = n + 1
    BY <1>1
  <2> QED
    BY <1>1, <1>2, <2>1, <2>2
<1>5. IsOrdered(r, [f EXCEPT ![c] = t])
  <2> DEFINE g == [f EXCEPT ![c] = t]
  <2> SUFFICES ASSUME NEW i \in 1..(n + 1), NEW j \in 1..(n + 1), i < j
               PROVE  r[i] # r[j] /\ g[r[i]] <= g[r[j]]
    BY <1>1 DEF IsOrdered
  <2>1. i \in 1..n /\ r[i] = l[i] /\ g[r[i]] = f[l[i]]
    <3>1. i \in 1..n
      BY <1>1
    <3> QED
      BY <1>1, <1>3, <3>1
  <2>2. CASE j = n + 1
    BY <1>1, <1>3, <2>1, <2>2
  <2>3. CASE j \in 1..n
    BY <1>1, <1>3, <2>1, <2>3 DEF IsOrdered, n
  <2> QED
    BY <1>1, <2>2, <2>3
<1> QED
  BY <1>1, <1>4, <1>5 DEF r

-----------------------------------------------------------------------------
(* The inductive invariant.                                                *)

USE HttpdLoopAssumption

(* The invariant holds before the first loop.                              *)
LEMMA InitInv == Init => IInv
<1> SUFFICES ASSUME Init PROVE IInv
  OBVIOUS
<1>1. list = <<>> /\ bad = <<>> /\ open = {} /\ pending = {} /\ firing = {}
  BY DEF Init
<1>2. <<>> \in Seq(Clients) /\ Len(<<>>) = 0 /\ 1..0 = {} /\ ToSet(<<>>) = {}
  <2>1. <<>> \in Seq(Clients)
    OBVIOUS
  <2>2. ToSet(<<>>) = {}
    BY <2>1, Members
  <2> QED
    BY <2>1, <2>2
<1>3. TypeOK
  BY <1>2 DEF Init, TypeOK, Timer!Phases
<1>4. ListInActivityOrder
  BY <1>1, <1>2, <1>3 DEF ListInActivityOrder
<1>5. Control
  BY <1>1 DEF Control, Init
<1>6. NoFuture /\ IdleClientsGo
  BY <1>1 DEF NoFuture, IdleClientsGo
<1>7. BadInv
  BY <1>1, <1>2 DEF BadInv, AllDiffer
<1>8. TimerInv
  BY <1>1 DEF TimerInv, IdleTimerIsArmed
<1>9. LoopLeavesNothing
  BY DEF Init, LoopLeavesNothing
<1> QED
  BY <1>4, <1>5, <1>6, <1>7, <1>8, <1>9 DEF IInv

(* A step that leaves the clients and the timer alone.                     *)
LEMMA QuietStep ==
  ASSUME IInv, TypeOK', Control', LoopLeavesNothing',
         UNCHANGED <<clock, conn, pending, firing>>,
         state' = "dispatch" => state = "dispatch" \/ bad = <<>>,
         state' = "fire" => state \in {"dispatch", "fire"}
  PROVE  IInv'
<1>1. ListInActivityOrder'
  BY DEF IInv, ListInActivityOrder, conn
<1>2. NoFuture' /\ IdleClientsGo'
  BY DEF IInv, NoFuture, IdleClientsGo, conn
<1>3. BadInv'
  <2>1. bad = <<>> => ToSet(bad) = {}
    BY Members DEF IInv, ListInActivityOrder, TypeOK
  <2>2. UNCHANGED <<clock, open, bad, status, last_active, pending, firing>>
    BY DEF conn
  <2> QED
    BY <2>1, <2>2 DEF IInv, BadInv, Has, Unarmed
<1>4. TimerInv'
  BY DEF IInv, TimerInv, IdleTimerIsArmed, conn
<1> QED
  BY <1>1, <1>2, <1>3, <1>4 DEF IInv

(* Steps of the loop that only change where it is.                         *)
LEMMA StartLoopInv ==
  ASSUME IInv, NEW S \in SUBSET Servers, NEW urs \in BOOLEAN, StartLoop(S, urs)
  PROVE  IInv'
<1>1. TypeOK'
  BY DEF IInv, ListInActivityOrder, TypeOK, StartLoop, conn, timer
<1>2. Control'
  BY DEF IInv, Control, StartLoop, conn, timer
<1>3. LoopLeavesNothing'
  BY DEF IInv, LoopLeavesNothing, StartLoop, conn, timer
<1> QED
  BY <1>1, <1>2, <1>3, QuietStep DEF IInv, Control, StartLoop, timer

(* The loop is asked to stop.                                              *)
LEMMA StopInv ==
  ASSUME IInv, qse_httpd_stop
  PROVE  IInv'
<1>1. TypeOK'
  BY DEF IInv, ListInActivityOrder, TypeOK, qse_httpd_stop, conn, timer
<1>2. Control' /\ LoopLeavesNothing'
  BY DEF IInv, Control, LoopLeavesNothing, qse_httpd_stop, conn, timer
<1> QED
  BY <1>1, <1>2, QuietStep DEF qse_httpd_stop, timer

(* The poll fails.                                                         *)
LEMMA PollFailsInv ==
  ASSUME IInv, PollFails
  PROVE  IInv'
<1>1. TypeOK'
  BY DEF IInv, ListInActivityOrder, TypeOK, PollFails, conn, timer
<1>2. Control' /\ LoopLeavesNothing'
  BY DEF IInv, Control, LoopLeavesNothing, PollFails, conn, timer
<1> QED
  BY <1>1, <1>2, QuietStep DEF PollFails, timer

(* A connection cannot be accepted.                                        *)
LEMMA AcceptFailsInv ==
  ASSUME IInv, NEW s, AcceptFails(s)
  PROVE  IInv'
<1>1. TypeOK'
  BY DEF IInv, ListInActivityOrder, TypeOK, AcceptFails, conn, timer
<1>2. Control' /\ LoopLeavesNothing'
  BY DEF IInv, Control, LoopLeavesNothing, AcceptFails, conn, timer
<1> QED
  BY <1>1, <1>2, QuietStep DEF AcceptFails, timer

(* All events of the batch are dispatched, and the timer is about to fire. *)
LEMMA StartFiringInv ==
  ASSUME IInv, StartFiring
  PROVE  IInv'
<1>1. TypeOK'
  BY DEF IInv, ListInActivityOrder, TypeOK, StartFiring, conn, Timer!Fire, Timer!Phases,
         AllDispatched
<1>2. Control' /\ LoopLeavesNothing'
  BY DEF IInv, Control, LoopLeavesNothing, StartFiring, conn, Timer!Fire
<1> QED
  BY <1>1, <1>2, QuietStep DEF StartFiring, Timer!Fire

(* A handler of the timer returns.                                         *)
LEMMA HandlerReturnsInv ==
  ASSUME IInv, HandlerReturns
  PROVE  IInv'
<1>1. TypeOK'
  BY DEF IInv, ListInActivityOrder, TypeOK, HandlerReturns, conn, Timer!HandlerReturns,
         Timer!Phases
<1>2. Control' /\ LoopLeavesNothing'
  BY DEF IInv, Control, LoopLeavesNothing, HandlerReturns, conn, Timer!HandlerReturns
<1> QED
  BY <1>1, <1>2, QuietStep DEF HandlerReturns, Timer!HandlerReturns

(* No event is due any more.                                               *)
LEMMA EndFiringInv ==
  ASSUME IInv, EndFiring
  PROVE  IInv'
<1>1. TypeOK'
  BY DEF IInv, ListInActivityOrder, TypeOK, EndFiring, conn, Timer!FireReturns,
         Timer!Phases
<1>2. Control' /\ LoopLeavesNothing'
  BY DEF IInv, Control, LoopLeavesNothing, EndFiring, conn, Timer!FireReturns
<1> QED
  BY <1>1, <1>2, QuietStep DEF EndFiring, Timer!FireReturns

(* There are no bad clients left, and the loop goes on.                    *)
LEMMA NextIterationInv ==
  ASSUME IInv, NextIteration
  PROVE  IInv'
<1>1. TypeOK'
  BY DEF IInv, ListInActivityOrder, TypeOK, NextIteration, conn, timer
<1>2. Control' /\ LoopLeavesNothing'
  BY DEF IInv, Control, LoopLeavesNothing, NextIteration, conn, timer
<1> QED
  BY <1>1, <1>2, QuietStep DEF NextIteration, timer

(* The end of the loop frees every client, so that no timer is left.       *)
LEMMA EndLoopInv ==
  ASSUME IInv, EndLoop
  PROVE  IInv'
<1>1. bad = <<>> /\ ToSet(bad) = {} /\ firing = {} /\ ToSet(list) = open
  BY Members DEF IInv, Control, EndLoop, ListInActivityOrder, TypeOK
<1>2. open' = {} /\ list' = <<>> /\ pending' = {} /\ UNCHANGED <<bad, firing>>
  BY <1>1 DEF IInv, TimerInv, IdleTimerIsArmed, EndLoop, TimersLeft
<1>3. list' \in Seq(Clients) /\ ToSet(list') = {}
  <2>1. <<>> \in Seq(Clients)
    OBVIOUS
  <2> QED
    BY <1>2, <2>1, Members
<1>4. TypeOK'
  BY <1>2, <1>3 DEF IInv, ListInActivityOrder, TypeOK, EndLoop, ServersLeft
<1>5. ListInActivityOrder'
  BY <1>2, <1>3, <1>4, EmptySeq DEF ListInActivityOrder
<1>6. Control'
  BY <1>1, <1>2 DEF IInv, Control, EndLoop, ListInActivityOrder, TypeOK
<1>7. NoFuture' /\ IdleClientsGo' /\ TimerInv'
  BY <1>1, <1>2 DEF NoFuture, IdleClientsGo, TimerInv, IdleTimerIsArmed
<1>8. BadInv'
  BY <1>1, <1>2 DEF IInv, BadInv, EndLoop
<1>9. LoopLeavesNothing'
  BY <1>1, <1>2 DEF IInv, Control, LoopLeavesNothing, EndLoop, ServersLeft,
                    ListInActivityOrder, TypeOK
<1> QED
  BY <1>4, <1>5, <1>6, <1>7, <1>8, <1>9 DEF IInv

(* The poll: the clock does not run past the events of the clients.        *)
LEMMA PollInv ==
  ASSUME IInv, NEW t \in clock..MaxTime, NEW B \in SUBSET (active \union ToSet(list)),
         Poll(t, B)
  PROVE  IInv'
<1>1. bad = <<>> /\ ToSet(bad) = {} /\ firing = {} /\ ToSet(list) = open
  BY Members DEF IInv, Control, Poll, ListInActivityOrder, TypeOK
<1>2. t \in Nat /\ clock \in Nat /\ clock <= t /\ clock' = t
  BY DEF IInv, ListInActivityOrder, TypeOK, Poll
<1>3. UNCHANGED <<open, list, bad, status, last_active, firing, pending, phase, now>>
  BY DEF Poll, conn, timer
<1>4. TypeOK'
  BY <1>1, <1>2, <1>3 DEF IInv, ListInActivityOrder, TypeOK, Poll
<1>5. ListInActivityOrder'
  BY <1>3, <1>4 DEF IInv, ListInActivityOrder
<1>6. Control'
  BY <1>1, <1>3 DEF IInv, Control, Poll, ListInActivityOrder, TypeOK
<1>7. NoFuture'
  BY <1>2, <1>3 DEF IInv, NoFuture, ListInActivityOrder, TypeOK
<1>8. BadInv'
  BY <1>1, <1>3 DEF IInv, BadInv, Has
<1>9. TimerInv'
  BY <1>3 DEF IInv, TimerInv, IdleTimerIsArmed
<1>10. IdleClientsGo'
  <2> SUFFICES ASSUME NEW c \in open PROVE t - last_active[c] < 2 * IdleLimit
    BY <1>2, <1>3 DEF IdleClientsGo
  <2>1. PICK e \in pending : e.ctx = c
    BY <1>1 DEF IInv, TimerInv, IdleTimerIsArmed
  <2>2. t <= e.when \/ t = clock
    BY <2>1 DEF Poll, WakesBy
  <2>3. e.when < last_active[c] + 2 * IdleLimit
    BY <2>1 DEF IInv, TimerInv
  <2>4. clock - last_active[c] < 2 * IdleLimit
    BY DEF IInv, IdleClientsGo
  <2>5. e.when \in Nat /\ last_active[c] \in Nat
    BY DEF IInv, ListInActivityOrder, TypeOK, Timer!Events
  <2> QED
    BY <1>2, <2>2, <2>3, <2>4, <2>5
<1>11. LoopLeavesNothing'
  BY DEF Poll, LoopLeavesNothing
<1> QED
  BY <1>5, <1>6, <1>7, <1>8, <1>9, <1>10, <1>11 DEF IInv

(* A client is accepted.                                                   *)
LEMMA AcceptInv ==
  ASSUME IInv, NEW s \in batch \intersect Servers, NEW c \in Clients, NEW ready \in BOOLEAN,
         accept_client(s, c, ready)
  PROVE  IInv'
<1> DEFINE e == [ctx |-> c, when |-> clock + IdleLimit]
<1>1. TypeOK
  BY DEF IInv, ListInActivityOrder
<1>2. /\ open' = open \union {c} /\ c \notin open
      /\ pending' = pending \union {e}
      /\ last_active' = [last_active EXCEPT ![c] = clock]
      /\ status' = [status EXCEPT ![c] = IF ready THEN {"READY"} ELSE {}]
      /\ state = "dispatch"
      /\ UNCHANGED <<state, clock, bad, firing, phase, now>>
  BY DEF accept_client
<1>3. /\ list' \in Seq(Clients)
      /\ ToSet(list') = open'
      /\ IsOrdered(list', last_active')
  <2>1. /\ list \in Seq(Clients) /\ last_active \in [Clients -> Nat] /\ clock \in Nat
        /\ ToSet(list) = open /\ IsOrdered(list, last_active)
    BY DEF IInv, ListInActivityOrder, TypeOK, IsOrdered
  <2>2. \A d \in ToSet(list) : last_active[d] <= clock
    BY <2>1 DEF IInv, NoFuture
  <2> QED
    BY <2>1, <2>2, AppendList DEF accept_client
<1>4. e \in Timer!Events /\ e.ctx = c /\ e.when = clock + IdleLimit
  BY <1>1 DEF TypeOK, Timer!Events
<1> HIDE DEF e
<1>5. \A f \in pending \union firing : f.ctx # c
  BY <1>2 DEF IInv, TimerInv, IdleTimerIsArmed
<1>6. c \notin ToSet(bad) /\ ToSet(bad) \subseteq open /\ ToSet(bad) \subseteq Clients
  BY <1>1, <1>2, Members DEF IInv, BadInv, TypeOK
<1>7. /\ \A d \in Clients : d # c => status'[d] = status[d] /\ last_active'[d] = last_active[d]
      /\ last_active'[c] = clock /\ "BAD" \notin status'[c]
  BY <1>1, <1>2 DEF TypeOK
<1>8. ListInActivityOrder'
  <2>1. TypeOK'
    BY <1>1, <1>2, <1>3, <1>4 DEF TypeOK, accept_client
  <2> QED
    BY <1>3, <2>1 DEF ListInActivityOrder, IsOrdered
<1>9. Control'
  BY <1>2 DEF IInv, Control, accept_client
<1>10. NoFuture' /\ IdleClientsGo'
  BY <1>1, <1>2, <1>7 DEF IInv, NoFuture, IdleClientsGo, TypeOK
<1>11. BadInv'
  BY <1>2, <1>4, <1>5, <1>6, <1>7, <1>1 DEF IInv, BadInv, Has, Unarmed, TypeOK
<1>12. TimerInv'
  <2>1. IdleTimerIsArmed'
    BY <1>2, <1>4 DEF IInv, TimerInv, IdleTimerIsArmed
  <2>2. \A f \in pending' : f.when < last_active'[f.ctx] + 2 * IdleLimit
    <3>1. clock + IdleLimit < clock + 2 * IdleLimit
      BY <1>1 DEF TypeOK
    <3>2. \A f \in pending : f.ctx \in Clients /\ f.ctx # c
      BY <1>1, <1>5 DEF TypeOK, Timer!Events
    <3> QED
      BY <1>2, <1>4, <1>7, <3>1, <3>2 DEF IInv, TimerInv
  <2> QED
    BY <1>2, <1>4, <1>5, <2>1, <2>2 DEF IInv, TimerInv
<1>13. LoopLeavesNothing'
  BY <1>2 DEF LoopLeavesNothing
<1> QED
  BY <1>8, <1>9, <1>10, <1>11, <1>12, <1>13 DEF IInv

(* What mark_bad_client() does to the list of bad clients.                 *)
LEMMA MarkBad ==
  ASSUME IInv, NEW c \in open, mark_bad_client(c)
  PROVE  /\ bad' \in Seq(Clients)
         /\ ToSet(bad') = ToSet(bad) \union {c}
         /\ AllDiffer(bad')
         /\ status' \in [Clients -> SUBSET {"READY", "BAD"}]
         /\ status'[c] = status[c] \union {"BAD"}
         /\ \A d \in Clients : d # c => status'[d] = status[d]
<1>1. /\ c \in Clients /\ bad \in Seq(Clients) /\ AllDiffer(bad)
      /\ Has(c, "BAD") <=> c \in ToSet(bad)
      /\ status \in [Clients -> SUBSET {"READY", "BAD"}]
  BY DEF IInv, ListInActivityOrder, TypeOK, BadInv
<1>2. CASE Has(c, "BAD")
  <2>1. bad' = bad
    BY <1>2 DEF mark_bad_client, MarkedBad
  <2> QED
    BY <1>1, <1>2, <2>1 DEF mark_bad_client
<1>3. CASE ~ Has(c, "BAD")
  <2>1. bad' = <<c>> \o bad
    BY <1>3 DEF mark_bad_client, MarkedBad
  <2>2. bad' \in Seq(Clients) /\ ToSet(bad') = ToSet(bad) \union {c} /\ AllDiffer(bad')
    BY <1>1, <1>3, <2>1, PrependList
  <2> QED
    BY <1>1, <2>2 DEF mark_bad_client
<1> QED
  BY <1>2, <1>3

(* What move_client_to_tail() does to the client list.                     *)
LEMMA MoveToTail ==
  ASSUME IInv, NEW c \in open
  PROVE  /\ MovedToTail(c) \in Seq(Clients)
         /\ ToSet(MovedToTail(c)) = open
         /\ IsOrdered(MovedToTail(c), Touched(c))
<1> DEFINE r == RemoveFirst(list, c)
<1>1. /\ c \in Clients /\ list \in Seq(Clients) /\ ToSet(list) = open
      /\ last_active \in [Clients -> Nat] /\ clock \in Nat
      /\ IsOrdered(list, last_active)
  BY DEF IInv, ListInActivityOrder, TypeOK, IsOrdered
<1>2. r \in Seq(Clients) /\ ToSet(r) = open \ {c} /\ IsOrdered(r, last_active)
  BY <1>1, RemoveList
<1>3. \A d \in ToSet(r) : last_active[d] <= clock
  BY <1>2 DEF IInv, NoFuture
<1>4. c \notin ToSet(r) /\ (open \ {c}) \union {c} = open
  BY <1>2
<1> HIDE DEF r
<1>5. /\ Append(r, c) \in Seq(Clients)
      /\ ToSet(Append(r, c)) = ToSet(r) \union {c}
      /\ IsOrdered(Append(r, c), [last_active EXCEPT ![c] = clock])
  BY <1>1, <1>2, <1>3, <1>4, AppendList
<1> QED
  BY <1>2, <1>4, <1>5 DEF MovedToTail, Touched, r

(* An event of a client: whichever of its branches is taken, the client is *)
(* bad if its status says so, and a bad client that is ready was touched.  *)
LEMMA ClientEvent ==
  ASSUME IInv, NEW c \in batch \intersect Clients, state = "dispatch",
         batch' = batch \ {c},
         UNCHANGED <<state, clock, stopreq, active, ursactive, ursopen, open, firing, timer>>,
         \/ list' = list /\ last_active' = last_active
         \/ list' = MovedToTail(c) /\ last_active' = Touched(c),
         bad' \in Seq(Clients), AllDiffer(bad'),
         ToSet(bad') \subseteq ToSet(bad) \union {c},
         ToSet(bad) \subseteq ToSet(bad'),
         status' \in [Clients -> SUBSET {"READY", "BAD"}],
         \A d \in Clients : d # c => status'[d] = status[d],
         "BAD" \in status'[c] <=> c \in ToSet(bad'),
         c \in ToSet(bad') /\ "READY" \in status'[c] => last_active'[c] = clock
  PROVE  IInv'
<1>1. TypeOK /\ c \in open /\ c \in Clients
  BY DEF IInv, ListInActivityOrder, Control
<1>2. /\ list' \in Seq(Clients) /\ ToSet(list') = open
      /\ IsOrdered(list', last_active')
      /\ last_active' \in [Clients -> Nat]
  <2>1. /\ list \in Seq(Clients) /\ ToSet(list) = open /\ IsOrdered(list, last_active)
        /\ last_active \in [Clients -> Nat] /\ clock \in Nat
    BY DEF IInv, ListInActivityOrder, TypeOK, IsOrdered
  <2>2. Touched(c) \in [Clients -> Nat]
    BY <2>1 DEF Touched
  <2> QED
    BY <1>1, <2>1, <2>2, MoveToTail
<1>3. ListInActivityOrder'
  <2>1. TypeOK'
    BY <1>1, <1>2 DEF TypeOK, timer
  <2> QED
    BY <1>2, <2>1 DEF ListInActivityOrder, IsOrdered
<1>4. Control'
  BY <1>1 DEF IInv, Control, timer
<1>5. /\ \A d \in Clients : d # c => last_active'[d] = last_active[d]
      /\ last_active[c] <= last_active'[c] /\ last_active'[c] <= clock
  BY <1>1 DEF IInv, NoFuture, TypeOK, Touched
<1>6. NoFuture' /\ IdleClientsGo'
  <2> SUFFICES ASSUME NEW d \in open
               PROVE  last_active'[d] <= clock /\ clock - last_active'[d] < 2 * IdleLimit
    BY DEF NoFuture, IdleClientsGo
  <2>1. last_active[d] <= clock /\ clock - last_active[d] < 2 * IdleLimit
    BY DEF IInv, NoFuture, IdleClientsGo
  <2>2. last_active[d] <= last_active'[d] /\ last_active'[d] <= clock
    BY <1>1, <1>5, <2>1 DEF TypeOK
  <2> QED
    BY <1>1, <1>2, <2>1, <2>2 DEF TypeOK
<1>7. BadInv'
  <2>1. ToSet(bad) \subseteq Clients /\ ToSet(bad) \subseteq open
    BY <1>1, Members DEF IInv, BadInv, TypeOK
  <2>2. \A d \in ToSet(bad') : d = c \/ (d \in ToSet(bad) /\ d \in Clients)
    BY <2>1
  <2>3. \A d \in ToSet(bad') : "BAD" \in status'[d]
    BY <2>2 DEF IInv, BadInv, Has
  <2>4. \A d \in open : "BAD" \in status'[d] => d \in ToSet(bad')
    BY <1>1 DEF IInv, BadInv, Has, TypeOK
  <2>5. \A d \in ToSet(bad') : d \in open
    BY <1>1, <2>1, <2>2
  <2>6. \A d \in ToSet(bad') : "READY" \in status'[d] => last_active'[d] = clock \/ Unarmed(d)
    BY <1>5, <2>2 DEF IInv, BadInv, Has
  <2> QED
    BY <2>3, <2>4, <2>5, <2>6 DEF BadInv, Has, Unarmed, timer
<1>8. TimerInv'
  <2>1. \A e \in pending : e.when < last_active'[e.ctx] + 2 * IdleLimit
    <3> SUFFICES ASSUME NEW e \in pending
                 PROVE  e.when < last_active'[e.ctx] + 2 * IdleLimit
      OBVIOUS
    <3>1. e.ctx \in Clients /\ e.when \in Nat
      BY <1>1 DEF TypeOK, Timer!Events
    <3>2. e.when < last_active[e.ctx] + 2 * IdleLimit
      BY DEF IInv, TimerInv
    <3>3. last_active[e.ctx] <= last_active'[e.ctx]
      BY <1>1, <1>5, <3>1 DEF TypeOK
    <3> QED
      BY <1>1, <1>2, <3>1, <3>2, <3>3 DEF TypeOK
  <2>2. IdleTimerIsArmed'
    BY DEF IInv, TimerInv, IdleTimerIsArmed, timer
  <2> QED
    BY <2>1, <2>2 DEF IInv, TimerInv, timer
<1>9. LoopLeavesNothing'
  BY DEF LoopLeavesNothing
<1> QED
  BY <1>3, <1>4, <1>6, <1>7, <1>8, <1>9 DEF IInv

(* An event of a client is dispatched: it is touched, or marked bad, or    *)
(* both.                                                                   *)
LEMMA PerformInv ==
  ASSUME IInv, NEW c \in batch \intersect Clients, perform_client_task(c)
  PROVE  IInv'
<1>1. /\ c \in open /\ c \in Clients /\ bad \in Seq(Clients) /\ AllDiffer(bad)
      /\ status \in [Clients -> SUBSET {"READY", "BAD"}]
      /\ Has(c, "BAD") <=> c \in ToSet(bad)
      /\ last_active \in [Clients -> Nat]
  BY DEF IInv, ListInActivityOrder, TypeOK, Control, BadInv
<1>2. /\ state = "dispatch" /\ batch' = batch \ {c}
      /\ UNCHANGED <<state, clock, stopreq, active, ursactive, ursopen, firing, timer>>
  BY DEF perform_client_task
<1>3. Touched(c)[c] = clock
  BY <1>1 DEF Touched
<1>4. CASE UNCHANGED conn
  <2>1. TypeOK'
    BY <1>2, <1>4 DEF IInv, ListInActivityOrder, TypeOK, conn, timer
  <2>2. Control' /\ LoopLeavesNothing'
    BY <1>2, <1>4 DEF IInv, Control, LoopLeavesNothing, conn, timer
  <2> QED
    BY <1>2, <1>4, <2>1, <2>2, QuietStep DEF timer
<1>5. CASE /\ ~ Has(c, "BAD") /\ ~ Has(c, "READY")
           /\ mark_bad_client(c)
           /\ UNCHANGED <<open, list, last_active>>
  BY <1>1, <1>2, <1>5, MarkBad, ClientEvent DEF Has
<1>6. CASE /\ ~ Has(c, "BAD")
           /\ status' = [status EXCEPT ![c] = @ \union {"READY"}]
           /\ last_active' = Touched(c)
           /\ list' = MovedToTail(c)
           /\ UNCHANGED <<open, bad>>
  <2>1. /\ status' \in [Clients -> SUBSET {"READY", "BAD"}]
        /\ status'[c] = status[c] \union {"READY"}
        /\ \A d \in Clients : d # c => status'[d] = status[d]
    BY <1>1, <1>6
  <2> QED
    BY <1>1, <1>2, <1>3, <1>6, <2>1, ClientEvent DEF Has
<1>7. CASE /\ ~ Has(c, "BAD")
           /\ last_active' = Touched(c)
           /\ list' = MovedToTail(c)
           /\ UNCHANGED <<open, bad, status>>
  BY <1>1, <1>2, <1>3, <1>7, ClientEvent DEF Has
<1>8. CASE /\ mark_bad_client(c)
           /\ last_active' = Touched(c)
           /\ list' = MovedToTail(c)
           /\ UNCHANGED open
  BY <1>1, <1>2, <1>3, <1>8, MarkBad, ClientEvent
<1> QED
  BY <1>4, <1>5, <1>6, <1>7, <1>8 DEF perform_client_task

(* The earliest event is taken from the timer.                             *)
LEMMA FireEventInv ==
  ASSUME IInv, NEW e \in pending, FireEvent(e)
  PROVE  IInv'
<1>1. TypeOK
  BY DEF IInv, ListInActivityOrder
<1>2. /\ state = "fire" /\ phase = "fire" /\ phase' = "handler"
      /\ pending' = pending \ {e} /\ firing' = {e} /\ firing = {}
      /\ UNCHANGED <<state, clock, stopreq, active, ursactive, ursopen, batch, conn, now>>
  BY DEF IInv, Control, FireEvent, Timer!FireEvent
<1>3. UNCHANGED <<open, list, bad, status, last_active>>
  BY <1>2 DEF conn
<1>4. pending' \union firing' = pending \union firing
  BY <1>2
<1>5. ListInActivityOrder'
  <2>1. TypeOK'
    BY <1>1, <1>2, <1>3 DEF TypeOK, Timer!Phases
  <2> QED
    BY <1>3, <2>1 DEF IInv, ListInActivityOrder
<1>6. Control' /\ LoopLeavesNothing'
  BY <1>2, <1>3 DEF IInv, Control, LoopLeavesNothing
<1>7. NoFuture' /\ IdleClientsGo'
  BY <1>2, <1>3 DEF IInv, NoFuture, IdleClientsGo
<1>8. BadInv'
  BY <1>2, <1>3, <1>4 DEF IInv, BadInv, Has, Unarmed
<1>9. TimerInv'
  <2>1. IdleTimerIsArmed'
    BY <1>3, <1>4 DEF IInv, TimerInv, IdleTimerIsArmed
  <2> QED
    BY <1>2, <1>3, <2>1 DEF IInv, TimerInv
<1> QED
  BY <1>5, <1>6, <1>7, <1>8, <1>9 DEF IInv

(* What purge_client() does to the client list.                            *)
LEMMA PurgeList ==
  ASSUME IInv, NEW c \in open, purge_client(c)
  PROVE  /\ list' \in Seq(Clients)
         /\ ToSet(list') = open'
         /\ IsOrdered(list', last_active')
         /\ open' = open \ {c} /\ UNCHANGED <<status, last_active>>
         /\ pending' = {e \in pending : e.ctx # c}
<1>1. list \in Seq(Clients) /\ ToSet(list) = open /\ IsOrdered(list, last_active)
  BY DEF IInv, ListInActivityOrder, TypeOK, IsOrdered
<1>2. list' = RemoveFirst(list, c) /\ open' = open \ {c} /\ UNCHANGED <<status, last_active>>
  BY DEF purge_client
<1>3. /\ RemoveFirst(list, c) \in Seq(Clients)
      /\ ToSet(RemoveFirst(list, c)) = ToSet(list) \ {c}
      /\ IsOrdered(RemoveFirst(list, c), last_active)
  BY <1>1, RemoveList
<1>4. pending' = {e \in pending : e.ctx # c}
  BY DEF purge_client, TimersLeft
<1> QED
  BY <1>1, <1>2, <1>3, <1>4

(* A bad client that is ready is not idle or its timer is not armed: the   *)
(* idle timer never purges it.                                             *)
LEMMA IdleHandleInv ==
  ASSUME IInv, NEW e \in firing, tmr_idle_handle(e)
  PROVE  IInv'
<1> DEFINE c == e.ctx
<1>1. TypeOK
  BY DEF IInv, ListInActivityOrder
<1>2. /\ state = "fire" /\ phase = "handler" /\ now = clock
      /\ firing = {e} /\ firing' = {}
      /\ UNCHANGED <<state, clock, stopreq, active, ursactive, ursopen, batch>>
  BY DEF IInv, Control, TimerInv, tmr_idle_handle
<1>3. c \in open /\ c \in Clients /\ clock \in Nat /\ last_active[c] \in Nat
  BY <1>1, <1>2 DEF IInv, TimerInv, IdleTimerIsArmed, TypeOK
<1>4. \A f \in pending : f.ctx # c
  BY <1>2 DEF IInv, TimerInv
<1>5. ToSet(bad) \subseteq Clients
  BY <1>1, Members DEF TypeOK
<1> HIDE DEF c
<1>6. CASE /\ IsIdle(c)
           /\ purge_client(c)
           /\ UNCHANGED <<bad, phase, now>>
  <2>1. /\ list' \in Seq(Clients) /\ ToSet(list') = open' /\ IsOrdered(list', last_active')
        /\ open' = open \ {c} /\ UNCHANGED <<status, last_active>>
        /\ pending' = {f \in pending : f.ctx # c}
    BY <1>3, <1>6, PurgeList
  <2>2. pending' = pending
    BY <1>4, <2>1
  <2>3. c \in ToSet(bad) => ~ Has(c, "READY")
    <3>1. last_active[c] # clock
      BY <1>2, <1>3, <1>6 DEF IsIdle
    <3>2. ~ Unarmed(c)
      BY DEF Unarmed, c
    <3> QED
      BY <1>2, <3>1, <3>2 DEF IInv, BadInv
  <2>4. ListInActivityOrder'
    <3>1. TypeOK'
      BY <1>1, <1>2, <1>6, <2>1, <2>2 DEF TypeOK
    <3> QED
      BY <2>1, <3>1 DEF ListInActivityOrder, IsOrdered
  <2>5. Control' /\ LoopLeavesNothing'
    BY <1>1, <1>2, <1>6, <2>1 DEF IInv, Control, LoopLeavesNothing, TypeOK
  <2>6. NoFuture' /\ IdleClientsGo'
    BY <1>2, <2>1 DEF IInv, NoFuture, IdleClientsGo
  <2>7. BadInv'
    BY <1>2, <1>6, <2>1, <2>2, <2>3 DEF IInv, BadInv, Has, Unarmed
  <2>8. TimerInv'
    <3>1. IdleTimerIsArmed'
      BY <1>2, <1>4, <1>6, <2>1, <2>2 DEF IInv, TimerInv, IdleTimerIsArmed, c
    <3> QED
      BY <1>2, <2>1, <2>2, <3>1 DEF IInv, TimerInv
  <2> QED
    BY <2>4, <2>5, <2>6, <2>7, <2>8 DEF IInv
<1>7. CASE /\ ~ IsIdle(c)
           /\ Timer!Schedule(Rearmed(e))
           /\ UNCHANGED conn
  <2>1. UNCHANGED <<open, list, bad, status, last_active>>
    BY <1>7 DEF conn
  <2> DEFINE g == [ctx |-> c, when |-> clock + IdleLimit]
  <2>2. pending' = pending \union {g} /\ UNCHANGED <<phase, now>>
    BY <1>2, <1>7 DEF Timer!Schedule, Rearmed, c
  <2>3. g \in Timer!Events /\ g.ctx = c /\ g.when = clock + IdleLimit
    BY <1>3 DEF Timer!Events
  <2>4. clock - last_active[c] < IdleLimit
    BY <1>2, <1>3, <1>7 DEF IsIdle
  <2> HIDE DEF g
  <2>5. ListInActivityOrder'
    <3>1. TypeOK'
      BY <1>1, <1>2, <2>1, <2>2, <2>3 DEF TypeOK
    <3> QED
      BY <2>1, <3>1 DEF IInv, ListInActivityOrder
  <2>6. Control' /\ LoopLeavesNothing'
    BY <1>2, <2>1, <2>2 DEF IInv, Control, LoopLeavesNothing
  <2>7. NoFuture' /\ IdleClientsGo'
    BY <1>2, <2>1 DEF IInv, NoFuture, IdleClientsGo
  <2>8. BadInv'
    <3>1. \A d \in ToSet(bad) : Unarmed(d) => Unarmed(d)'
      BY <1>2, <2>2, <2>3 DEF Unarmed, c
    <3> QED
      BY <1>2, <2>1, <3>1 DEF IInv, BadInv, Has
  <2>9. TimerInv'
    <3>1. IdleTimerIsArmed'
      BY <1>2, <1>3, <2>1, <2>2, <2>3 DEF IInv, TimerInv, IdleTimerIsArmed, c
    <3>2. g.when < last_active[c] + 2 * IdleLimit
      BY <1>3, <2>3, <2>4
    <3> QED
      BY <1>2, <1>4, <2>1, <2>2, <2>3, <3>1, <3>2 DEF IInv, TimerInv
  <2> QED
    BY <2>5, <2>6, <2>7, <2>8, <2>9 DEF IInv
<1>8. CASE /\ ~ IsIdle(c)
           /\ mark_bad_client(c)
           /\ UNCHANGED <<open, list, last_active, timer>>
  <2>1. /\ bad' \in Seq(Clients) /\ ToSet(bad') = ToSet(bad) \union {c} /\ AllDiffer(bad')
        /\ status' \in [Clients -> SUBSET {"READY", "BAD"}]
        /\ status'[c] = status[c] \union {"BAD"}
        /\ \A d \in Clients : d # c => status'[d] = status[d]
    BY <1>3, <1>8, MarkBad
  <2>2. UNCHANGED <<open, list, last_active, pending, phase, now>>
    BY <1>8 DEF timer
  <2>3. ListInActivityOrder'
    <3>1. TypeOK'
      BY <1>1, <1>2, <2>1, <2>2 DEF TypeOK
    <3> QED
      BY <2>2, <3>1 DEF IInv, ListInActivityOrder
  <2>4. Control' /\ LoopLeavesNothing'
    BY <1>2, <2>2 DEF IInv, Control, LoopLeavesNothing
  <2>5. NoFuture' /\ IdleClientsGo'
    BY <1>2, <2>2 DEF IInv, NoFuture, IdleClientsGo
  <2>6. BadInv'
    <3>1. \A d \in ToSet(bad') : d = c \/ (d \in ToSet(bad) /\ d \in Clients)
      BY <1>5, <2>1
    <3>2. \A d \in ToSet(bad') : "BAD" \in status'[d]
      BY <2>1, <3>1 DEF IInv, BadInv, Has
    <3>3. \A d \in open : "BAD" \in status'[d] => d \in ToSet(bad')
      BY <1>1, <2>1 DEF IInv, BadInv, Has, TypeOK
    <3>4. \A d \in ToSet(bad') : "READY" \in status'[d] => d \in open
      BY <1>3, <2>1, <3>1 DEF IInv, BadInv, Has
    <3>5. \A f \in pending' \union firing' : f \in pending
      BY <1>2, <2>2
    <3>6. Unarmed(c)'
      BY <1>4, <3>5 DEF Unarmed
    <3>7. \A d \in ToSet(bad) : Unarmed(d) => Unarmed(d)'
      BY <3>5 DEF Unarmed
    <3>8. \A d \in ToSet(bad') : "READY" \in status'[d] => last_active[d] = clock \/ Unarmed(d)'
      BY <1>2, <3>1, <3>6, <3>7, <2>1 DEF IInv, BadInv, Has
    <3> QED
      BY <1>2, <2>1, <2>2, <3>2, <3>3, <3>4, <3>8 DEF BadInv, Has
  <2>7. TimerInv'
    <3>1. IdleTimerIsArmed'
      BY <1>2, <2>1, <2>2 DEF IInv, TimerInv, IdleTimerIsArmed, c
    <3> QED
      BY <1>2, <2>2, <3>1 DEF IInv, TimerInv
  <2> QED
    BY <2>3, <2>4, <2>5, <2>6, <2>7 DEF IInv
<1> QED
  BY <1>6, <1>7, <1>8 DEF tmr_idle_handle, c

(* The first one of the bad clients is purged.                             *)
LEMMA PurgeBadInv ==
  ASSUME IInv, purge_bad_clients
  PROVE  IInv'
<1> DEFINE c == Head(bad)
<1>1. TypeOK
  BY DEF IInv, ListInActivityOrder
<1>2. /\ state = "purge" /\ phase = "none" /\ firing = {} /\ bad # <<>>
      /\ UNCHANGED <<clock, stopreq, active, ursactive, ursopen, batch, firing>>
  BY DEF IInv, Control, purge_bad_clients
<1>3. /\ c \in ToSet(bad) /\ Tail(bad) \in Seq(Clients)
      /\ ToSet(Tail(bad)) = ToSet(bad) \ {c} /\ AllDiffer(Tail(bad))
  BY <1>1, <1>2, TailList DEF IInv, BadInv, TypeOK
<1>4. batch = {}
  BY <1>1, <1>2 DEF TypeOK
<1>5. CASE c \in open /\ bad' = Tail(bad) /\ purge_client(c) /\ UNCHANGED <<state, phase, now>>
  <2> HIDE DEF c
  <2>1. /\ list' \in Seq(Clients) /\ ToSet(list') = open' /\ IsOrdered(list', last_active')
        /\ open' = open \ {c} /\ UNCHANGED <<status, last_active>>
        /\ pending' = {f \in pending : f.ctx # c}
    BY <1>5, PurgeList
  <2>2. ListInActivityOrder'
    <3>1. TypeOK'
      BY <1>1, <1>2, <1>3, <1>5, <2>1 DEF TypeOK
    <3> QED
      BY <2>1, <3>1 DEF ListInActivityOrder, IsOrdered
  <2>3. Control' /\ LoopLeavesNothing'
    BY <1>2, <1>4, <1>5 DEF IInv, Control, LoopLeavesNothing
  <2>4. NoFuture' /\ IdleClientsGo'
    BY <1>2, <2>1 DEF IInv, NoFuture, IdleClientsGo
  <2>5. BadInv'
    BY <1>2, <1>3, <1>5, <2>1 DEF IInv, BadInv, Has
  <2>6. TimerInv'
    <3>1. IdleTimerIsArmed'
      BY <1>2, <1>3, <1>5, <2>1 DEF IInv, TimerInv, IdleTimerIsArmed
    <3> QED
      BY <1>2, <2>1, <3>1 DEF IInv, TimerInv
  <2> QED
    BY <2>2, <2>3, <2>4, <2>5, <2>6 DEF IInv
<1>6. CASE state' = "undefined" /\ UNCHANGED <<conn, timer>>
  <2>1. TypeOK'
    BY <1>1, <1>2, <1>4, <1>6 DEF TypeOK, conn, timer
  <2>2. Control' /\ LoopLeavesNothing'
    BY <1>2, <1>6 DEF IInv, Control, LoopLeavesNothing, conn, timer
  <2> QED
    BY <1>2, <1>6, <2>1, <2>2, QuietStep DEF timer
<1> QED
  BY <1>5, <1>6 DEF purge_bad_clients

(* Every step keeps the invariant.                                         *)
LEMMA StepInv == IInv /\ [Next]_vars => IInv'
<1> SUFFICES ASSUME IInv, [Next]_vars PROVE IInv'
  OBVIOUS
<1>1. CASE UNCHANGED vars
  <2>1. TypeOK'
    BY <1>1 DEF IInv, ListInActivityOrder, TypeOK, vars, conn, timer
  <2>2. Control' /\ LoopLeavesNothing'
    BY <1>1 DEF IInv, Control, LoopLeavesNothing, vars, conn, timer
  <2> QED
    BY <1>1, <2>1, <2>2, QuietStep DEF vars, timer
<1>2. CASE Iterate
  BY <1>2, PollInv, AcceptInv, AcceptFailsInv, PerformInv, StartFiringInv, FireEventInv,
     IdleHandleInv, HandlerReturnsInv, EndFiringInv, PurgeBadInv, NextIterationInv DEF Iterate
<1>3. CASE Next
  BY <1>2, <1>3, StartLoopInv, StopInv, PollFailsInv, EndLoopInv DEF Next
<1> QED
  BY <1>1, <1>3

-----------------------------------------------------------------------------
(* Theorems.                                                               *)

(* The invariant always holds.                                             *)
LEMMA IInvHolds == Spec => []IInv
  BY InitInv, StepInv, PTL DEF Spec

(* The client list always holds the allocated clients, each once, in the   *)
(* order of their last activity, whatever is accepted, touched, moved to   *)
(* the tail by move_client_to_tail() and purged.                           *)
THEOREM ListCorrect == Spec => []ListInActivityOrder
<1>1. IInv => ListInActivityOrder
  BY DEF IInv
<1> QED
  BY <1>1, IInvHolds, PTL

(* purge_bad_clients() never frees a client a second time that has got     *)
(* through its handshake.                                                  *)
THEOREM FreedOnce == Spec => []ReadyAreFreedOnce
<1>1. IInv => ReadyAreFreedOnce
  BY DEF IInv, BadInv, ReadyAreFreedOnce, AllDiffer
<1> QED
  BY <1>1, IInvHolds, PTL

(* A timer event refers to an allocated client, and every client has its   *)
(* idle timer armed or is about to be purged as bad.                       *)
THEOREM TimerArmed == Spec => []IdleTimerIsArmed
<1>1. IInv => IdleTimerIsArmed
  BY DEF IInv, TimerInv
<1> QED
  BY <1>1, IInvHolds, PTL

(* With any idle limit and any number of clients, an idle client is gone   *)
(* before twice the limit is over.                                         *)
THEOREM IdleLimitHolds == Spec => []IdleClientsGo
<1>1. IInv => IdleClientsGo
  BY DEF IInv
<1> QED
  BY <1>1, IInvHolds, PTL

(* The assertions at the ends of qse_httpd_loop() hold.                    *)
THEOREM NothingLeft == Spec => []LoopLeavesNothing
<1>1. IInv => LoopLeavesNothing
  BY DEF IInv
<1> QED
  BY <1>1, IInvHolds, PTL

=============================================================================
