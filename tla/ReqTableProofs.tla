--------------------------- MODULE ReqTableProofs ---------------------------
(***************************************************************************)
(* What the operations on the table of pending requests preserve, for any  *)
(* number of chunks, chains and sequence numbers.                          *)
(*                                                                         *)
(* The first facts are about the chunks alone.  Then the chains: a chain   *)
(* is described by the sequence its pointers run through, Linked(c, x),    *)
(* which is what the recursive Walk finds.  Linking puts a member in front *)
(* of such a sequence, unlinking takes one out of any place.               *)
(***************************************************************************)
EXTENDS ReqTable, FiniteSetTheorems, NaturalsInduction, WellFoundedInduction, TLAPS

(* Every request asks about what its task is concerned with.               *)
AsksFor(Of) ==
  \A r \in Chunks : req[r].ctx \in Tasks => req[r].name = Of[req[r].ctx]

(* What a request asks, and for whom, stays until it is freed.             *)
KeepsQuestion(r) ==
  /\ req'[r].ctx = req[r].ctx /\ req'[r].name = req[r].name

(* A chain index is within the array.                                      *)
LEMMA XidInRange == ASSUME NEW s \in Nat PROVE xid(s) \in Slots
  BY ReqTableAssumption DEF xid, Slots

(* The next sequence number is within its range.                           *)
LEMMA NextSeqInRange ==
  ASSUME PointersTyped PROVE NextSeq \in 0..(SEQ_RANGE_SIZE - 1)
  BY ReqTableAssumption DEF PointersTyped, NextSeq

(* A freed chunk is typed and is nobody's.                                 *)
LEMMA FreedEffect ==
  ASSUME NEW request \in Request
  PROVE  Freed(request) \in Request /\ Freed(request).ctx \notin Tasks
  BY ReqTableAssumption DEF Freed, FreeChunk, Request, Pointers, NULL

(* Questions that are kept or dropped still concern their tasks.           *)
LEMMA KeepsAsksFor ==
  ASSUME NEW CONSTANT Of, AsksFor(Of),
         \A r \in Chunks : KeepsQuestion(r) \/ req'[r].ctx \notin Tasks
  PROVE  AsksFor(Of)'
  BY DEF AsksFor, KeepsQuestion

(* Linking a typed request that concerns its task.                         *)
LEMMA LinkKeeps ==
  ASSUME NEW CONSTANT Of, PointersTyped, AsksFor(Of),
         NEW r \in Chunks, NEW request \in Request,
         request.ctx \in Tasks => request.name = Of[request.ctx],
         Link(r, request), seq' = NextSeq
  PROVE  PointersTyped' /\ AsksFor(Of)'
<1> DEFINE old == reqs[xid(request.seq)]
<1>1. old \in Pointers
  BY XidInRange, ReqTableAssumption DEF PointersTyped, Request
<1>2. \A q \in Chunks : req[q] \in Request
  BY DEF PointersTyped
<1>3. [request EXCEPT !.next = old] \in Request
  BY <1>1 DEF Request
<1>4. \A q \in Chunks : [req[q] EXCEPT !.prev = r] \in Request
  BY <1>2 DEF Request, Pointers
<1>5. req' \in [Chunks -> Request]
  BY <1>2, <1>3, <1>4 DEF Link
<1>6. reqs' \in [Slots -> Pointers]
  BY DEF Link, PointersTyped, Pointers
<1>7. \A q \in Chunks \ {r} : KeepsQuestion(q)
  BY <1>2 DEF Link, KeepsQuestion, Request
<1>8. req'[r].ctx = request.ctx /\ req'[r].name = request.name
  BY DEF Link, Request
<1>9. AsksFor(Of)'
  BY <1>7, <1>8 DEF AsksFor, KeepsQuestion
<1> QED
  BY <1>5, <1>6, <1>9, NextSeqInRange DEF PointersTyped

(* Unlinking a request.                                                    *)
LEMMA UnlinkKeeps ==
  ASSUME NEW CONSTANT Of, PointersTyped, AsksFor(Of),
         NEW r \in Chunks, NEW x, NEW request \in Request,
         Unlink(r, x, request), UNCHANGED seq
  PROVE  PointersTyped' /\ AsksFor(Of)'
<1>1. \A q \in Chunks : req[q] \in Request
  BY DEF PointersTyped
<1>2. req[r].next \in Pointers /\ req[r].prev \in Pointers
  BY <1>1 DEF Request
<1>3. Freed(request) \in Request /\ Freed(request).ctx \notin Tasks
  BY FreedEffect
<1>4. req'[r] = Freed(request)
  BY DEF Unlink
<1>5. ASSUME NEW q \in Chunks, q # r
      PROVE  req'[q] \in Request /\ KeepsQuestion(q)
  <2>1. PICK n \in Pointers, p \in Pointers :
          req'[q] = [req[q] EXCEPT !.next = n, !.prev = p]
    <3> DEFINE n == IF ~ (r = reqs[x]) /\ q = req[r].prev THEN req[r].next
                    ELSE req[q].next
               p == IF q = req[r].next THEN req[r].prev ELSE req[q].prev
    <3>1. n \in Pointers /\ p \in Pointers
      BY <1>1, <1>2, <1>5 DEF Request
    <3>2. req'[q] = [req[q] EXCEPT !.next = n, !.prev = p]
      BY <1>1, <1>5 DEF Unlink, Request
    <3> QED
      BY <3>1, <3>2
  <2> QED
    BY <1>1, <1>5, <2>1 DEF Request, KeepsQuestion
<1>6. req' \in [Chunks -> Request]
  <2>1. req' = [q \in Chunks |-> req'[q]]
    BY DEF Unlink
  <2> QED
    BY <1>3, <1>4, <1>5, <2>1
<1>7. reqs' \in [Slots -> Pointers]
  BY <1>2 DEF Unlink, PointersTyped
<1>8. AsksFor(Of)'
  BY <1>3, <1>4, <1>5, KeepsAsksFor
<1> QED
  BY <1>6, <1>7, <1>8 DEF PointersTyped

(* Sending a request again.                                                *)
LEMMA ResentKeeps ==
  ASSUME NEW CONSTANT Of, PointersTyped, AsksFor(Of),
         NEW r \in Chunks, req[r].retries > 0, Resent(r)
  PROVE  PointersTyped' /\ AsksFor(Of)'
<1>1. \A q \in Chunks : req[q] \in Request
  BY DEF PointersTyped
<1>2. req' = [req EXCEPT ![r] = [req[r] EXCEPT !.retries = req[r].retries - 1,
                                               !.timed = TRUE]]
  BY <1>1 DEF Resent, PointersTyped, Request
<1>3. [req[r] EXCEPT !.retries = req[r].retries - 1, !.timed = TRUE] \in Request
  <2>1. req[r] \in Request /\ req[r].retries \in Nat
    BY <1>1 DEF Request
  <2>2. \A n \in Nat : [req[r] EXCEPT !.retries = n, !.timed = TRUE] \in Request
    BY <2>1 DEF Request
  <2>3. req[r].retries - 1 \in Nat
    BY <2>1
  <2> QED
    BY <2>2, <2>3, Zenon
<1>4. req' \in [Chunks -> Request]
  BY <1>2, <1>3 DEF PointersTyped
<1>5. \A q \in Chunks : KeepsQuestion(q)
  BY <1>1, <1>2 DEF KeepsQuestion, Request, PointersTyped
<1> QED
  BY <1>4, <1>5, KeepsAsksFor DEF PointersTyped, Resent

(* Freeing all of the chains.                                              *)
LEMMA FreeAllKeeps ==
  ASSUME NEW CONSTANT Of, PointersTyped, AsksFor(Of), FreeAll, UNCHANGED seq
  PROVE  PointersTyped' /\ AsksFor(Of)'
<1>1. \A q \in Chunks : req[q] \in Request
  BY DEF PointersTyped
<1>2. \A q \in Chunks : remove_tmr_tmout(req[q]) \in Request
  BY <1>1 DEF remove_tmr_tmout, Request
<1>3. \A q \in Chunks :
        /\ req'[q] \in Request
        /\ KeepsQuestion(q) \/ req'[q].ctx \notin Tasks
  BY <1>1, <1>2, FreedEffect DEF FreeAll, KeepsQuestion
<1>4. req' \in [Chunks -> Request]
  BY <1>3 DEF FreeAll
<1>5. reqs' \in [Slots -> Pointers]
  BY DEF FreeAll, Pointers
<1> QED
  BY <1>3, <1>4, <1>5, KeepsAsksFor DEF PointersTyped

(* Clearing a new context.                                                 *)
LEMMA ClearedKeeps ==
  ASSUME NEW CONSTANT Of, PointersTyped, AsksFor(Of), Cleared, UNCHANGED req
  PROVE  PointersTyped' /\ AsksFor(Of)'
  BY ReqTableAssumption DEF PointersTyped, AsksFor, Cleared, Pointers

(* The table is empty at first.                                            *)
LEMMA TableInitTyped ==
  ASSUME NEW CONSTANT Of, TableInit PROVE PointersTyped /\ AsksFor(Of)
<1>1. FreeChunk \in Request /\ FreeChunk.ctx \notin Tasks
  BY ReqTableAssumption DEF FreeChunk, Request, Pointers, NULL
<1> QED
  BY <1>1, ReqTableAssumption DEF TableInit, PointersTyped, AsksFor, Pointers

-----------------------------------------------------------------------------
(* The shape of the chains.                                                *)

(* The i-th member of a sequence, or NULL behind and before its ends.      *)
At(c, i) == IF i \in 1..Len(c) THEN c[i] ELSE NULL

OneToOne(c) == \A i, j \in 1..Len(c) : c[i] = c[j] => i = j

(* The member of a chain at position i is linked to its neighbours.        *)
LinkedAt(c, x, i) ==
  /\ xid(req[c[i]].seq) = x
  /\ req[c[i]].next = At(c, i + 1)
  /\ req[c[i]].prev = At(c, i - 1)

(* The pointers from the head of chain x on run through c, both ways.      *)
Linked(c, x) ==
  /\ c \in Seq(Chunks)
  /\ OneToOne(c)
  /\ reqs[x] = At(c, 1)
  /\ \A i \in 1..Len(c) : LinkedAt(c, x, i)

(* What the recursive definition of Walk says of a function.               *)
WalkStep(f, n) ==
  [r \in Chunks \union {NULL} |->
     IF n = 0 \/ r = NULL THEN <<>> ELSE <<r>> \o f[n - 1][req[r].next]]

IsWalk(f, k) == f = [n \in 0..k |-> WalkStep(f, n)]

(* Such a function can be prolonged.                                       *)
LEMMA WalkLonger ==
  ASSUME NEW k \in Nat, NEW f, IsWalk(f, k),
         NEW g, g = [n \in 0..(k + 1) |-> WalkStep(f, n)]
  PROVE  IsWalk(g, k + 1)
<1>1. ASSUME NEW n \in 0..k PROVE g[n] = f[n]
  <2>1. n \in 0..(k + 1)
    OBVIOUS
  <2>2. g[n] = WalkStep(f, n)
    BY <2>1
  <2>3. f[n] = WalkStep(f, n)
    BY DEF IsWalk
  <2> QED
    BY <2>2, <2>3
<1>2. ASSUME NEW n \in 0..(k + 1) PROVE WalkStep(f, n) = WalkStep(g, n)
  <2>1. CASE n = 0
    BY <2>1 DEF WalkStep
  <2>2. CASE n # 0
    <3>1. n - 1 \in 0..k
      BY <2>2
    <3>2. g[n - 1] = f[n - 1]
      BY <1>1, <3>1
    <3> QED
      BY <3>2 DEF WalkStep
  <2> QED
    BY <2>1, <2>2
<1> QED
  BY <1>2 DEF IsWalk

(* There is one of every length: a least length without one would not be   *)
(* 0, and could be reached from the length before.                         *)
LEMMA WalkExists == \A k \in Nat : \E f : IsWalk(f, k)
<1> DEFINE T == {k \in Nat : ~ \E f : IsWalk(f, k)}
<1> SUFFICES ASSUME T # {} PROVE FALSE
  OBVIOUS
<1>1. PICK k \in T : \A y \in T : ~ (<<y, k>> \in OpToRel(<, Nat))
  <2>1. T \subseteq Nat
    OBVIOUS
  <2> HIDE DEF T
  <2> QED
    BY <2>1, NatLessThanWellFounded, WFMin
<1>2. k \in Nat /\ ~ \E f : IsWalk(f, k)
  OBVIOUS
<1>3. \A y \in T : ~ (y < k)
  BY <1>1 DEF OpToRel
<1>4. k # 0
  <2> DEFINE g == [n \in 0..0 |-> [r \in Chunks \union {NULL} |-> <<>>]]
  <2>1. IsWalk(g, 0)
    BY DEF IsWalk, WalkStep
  <2> QED
    BY <1>2, <2>1
<1>5. k - 1 \in Nat /\ k - 1 < k /\ (k - 1) + 1 = k
  BY <1>2, <1>4
<1>6. PICK f : IsWalk(f, k - 1)
  BY <1>3, <1>5
<1> DEFINE g == [n \in 0..((k - 1) + 1) |-> WalkStep(f, n)]
<1>7. IsWalk(g, (k - 1) + 1)
  BY <1>5, <1>6, WalkLonger
<1> HIDE DEF g
<1> QED
  BY <1>2, <1>5, <1>7

(* Hence Walk is the function its definition describes.                    *)
LEMMA WalkDef == IsWalk(Walk, Cardinality(Chunks))
<1> DEFINE P(f) ==
      f = [n \in 0..Cardinality(Chunks) |->
             [r \in Chunks \union {NULL} |->
                IF n = 0 \/ r = NULL THEN <<>>
                ELSE <<r>> \o f[n - 1][req[r].next]]]
<1>1. Cardinality(Chunks) \in Nat
  BY FS_CardinalityType, ReqTableAssumption
<1>2. PICK g : IsWalk(g, Cardinality(Chunks))
  BY <1>1, WalkExists
<1>3. P(g)
  BY <1>2 DEF IsWalk, WalkStep
<1>4. Walk = CHOOSE f : P(f)
  BY DEF Walk
<1> HIDE DEF P
<1>5. P(CHOOSE f : P(f))
  BY <1>3
<1>6. P(Walk)
  BY <1>4, <1>5
<1> QED
  BY <1>6 DEF P, IsWalk, WalkStep

(* A chain is no longer than there are chunks.                             *)
LEMMA ChainLength ==
  ASSUME NEW c \in Seq(Chunks), OneToOne(c)
  PROVE  Len(c) \in Nat /\ Len(c) <= Cardinality(Chunks)
<1>1. Len(c) \in Nat /\ c \in [1..Len(c) -> Chunks]
  OBVIOUS
<1>2. c \in Injection(1..Len(c), Chunks)
  BY <1>1 DEF Injection, IsInjective, OneToOne
<1>3. Cardinality(1..Len(c)) <= Cardinality(Chunks)
  BY <1>2, FS_Injection, ReqTableAssumption
<1>4. Cardinality(1..Len(c)) = Len(c)
  BY <1>1, FS_Interval
<1> QED
  BY <1>1, <1>3, <1>4

(* The members of a chain from position i on.                              *)
Rest(c, i) == SubSeq(c, i, Len(c))

(* One step of the walk: nothing behind the end, and otherwise a member in *)
(* front of the members behind it.                                         *)
LEMMA RestOf ==
  ASSUME NEW c \in Seq(Chunks)
  PROVE  /\ Rest(c, Len(c) + 1) = <<>>
         /\ \A i \in 1..Len(c) : Rest(c, i) = <<c[i]>> \o Rest(c, i + 1)
         /\ Rest(c, 1) = c
<1>1. Rest(c, Len(c) + 1) = <<>>
  BY DEF Rest
<1>2. ASSUME NEW i \in 1..Len(c) PROVE Rest(c, i) = <<c[i]>> \o Rest(c, i + 1)
  <2> DEFINE a == Rest(c, i)
             b == Rest(c, i + 1)
  <2>1. /\ a \in Seq(Chunks) /\ Len(a) = Len(c) + 1 - i
        /\ \A j \in 1..Len(a) : a[j] = c[i + j - 1]
    BY DEF Rest
  <2>2. /\ b \in Seq(Chunks) /\ Len(b) = Len(c) - i
        /\ \A j \in 1..Len(b) : b[j] = c[(i + 1) + j - 1]
    BY DEF Rest
  <2> HIDE DEF a, b
  <2>3. c[i] \in Chunks
    OBVIOUS
  <2> DEFINE d == <<c[i]>> \o b
  <2>4. /\ d \in Seq(Chunks) /\ Len(d) = 1 + Len(b)
        /\ d[1] = c[i]
        /\ \A j \in 2..Len(d) : d[j] = b[j - 1]
    BY <2>2, <2>3
  <2> HIDE DEF d
  <2>5. Len(d) = Len(a)
    BY <2>1, <2>2, <2>4
  <2>6. ASSUME NEW j \in 1..Len(a) PROVE d[j] = a[j]
    <3>1. CASE j = 1
      BY <2>1, <2>4, <3>1
    <3>2. CASE j # 1
      <4>1. j \in 2..Len(d) /\ j - 1 \in 1..Len(b)
        BY <2>1, <2>2, <2>4, <2>5, <3>2
      <4>2. d[j] = c[(i + 1) + (j - 1) - 1]
        BY <2>2, <2>4, <4>1
      <4>3. (i + 1) + (j - 1) - 1 = i + j - 1
        BY <4>1
      <4> QED
        BY <2>1, <4>2, <4>3
    <3> QED
      BY <3>1, <3>2
  <2>7. d = a
    BY <2>1, <2>4, <2>5, <2>6
  <2> QED
    BY <2>7 DEF a, b, d
<1>3. Rest(c, 1) = c
  BY DEF Rest
<1> QED
  BY <1>1, <1>2, <1>3

(* The walk along a chain meets its members from any position on, by the   *)
(* least length of a walk that would not.                                  *)
LEMMA WalkFollows ==
  ASSUME NEW x, NEW c, Linked(c, x)
  PROVE  \A m \in 0..Cardinality(Chunks), i \in 1..(Len(c) + 1) :
           Len(c) + 1 - i <= m => Walk[m][At(c, i)] = Rest(c, i)
<1> DEFINE N == Cardinality(Chunks)
           Strays(m) == \E i \in 1..(Len(c) + 1) :
                          /\ Len(c) + 1 - i <= m
                          /\ Walk[m][At(c, i)] # Rest(c, i)
           T == {m \in 0..N : Strays(m)}
<1>1. N \in Nat
  BY FS_CardinalityType, ReqTableAssumption
<1>2. c \in Seq(Chunks) /\ Len(c) \in Nat /\ \A i \in 1..Len(c) : LinkedAt(c, x, i)
  BY DEF Linked
<1>3. \A m \in 0..N, r \in Chunks \union {NULL} :
        Walk[m][r] = IF m = 0 \/ r = NULL THEN <<>> ELSE <<r>> \o Walk[m - 1][req[r].next]
  <2> TAKE m \in 0..N, r \in Chunks \union {NULL}
  <2> DEFINE f == Walk
  <2>1. f = [n \in 0..N |-> WalkStep(f, n)]
    BY WalkDef DEF IsWalk
  <2> HIDE DEF f
  <2>2. f[m] = WalkStep(f, m)
    BY <2>1
  <2>3. f[m][r] = IF m = 0 \/ r = NULL THEN <<>> ELSE <<r>> \o f[m - 1][req[r].next]
    BY <2>2 DEF WalkStep
  <2> QED
    BY <2>3 DEF f
<1> HIDE DEF N
<1> SUFFICES ASSUME T # {} PROVE FALSE
  BY DEF N
<1>4. PICK m \in T : \A y \in T : ~ (<<y, m>> \in OpToRel(<, Nat))
  <2>1. T \subseteq Nat
    BY <1>1
  <2> HIDE DEF T
  <2> QED
    BY <2>1, NatLessThanWellFounded, WFMin
<1>5. m \in 0..N /\ Strays(m)
  OBVIOUS
<1>6. \A y \in 0..N : y < m => ~ Strays(y)
  <2> SUFFICES ASSUME NEW y \in 0..N, y < m, Strays(y) PROVE FALSE
    OBVIOUS
  <2>1. y \in T
    OBVIOUS
  <2>2. y \in Nat /\ m \in Nat
    BY <1>1, <1>5
  <2> HIDE DEF T
  <2>3. ~ (<<y, m>> \in OpToRel(<, Nat))
    BY <1>4, <2>1
  <2> QED
    BY <2>2, <2>3 DEF OpToRel
<1>7. PICK i \in 1..(Len(c) + 1) :
        Len(c) + 1 - i <= m /\ Walk[m][At(c, i)] # Rest(c, i)
  BY <1>5
<1>8. CASE i = Len(c) + 1
  <2>1. At(c, i) = NULL
    BY <1>2, <1>8 DEF At
  <2>2. Walk[m][At(c, i)] = <<>>
    BY <1>3, <1>5, <2>1
  <2> QED
    BY <1>2, <1>7, <1>8, <2>2, RestOf
<1>9. CASE i # Len(c) + 1
  <2>1. i \in 1..Len(c) /\ i + 1 \in 1..(Len(c) + 1)
    BY <1>2, <1>9
  <2>2. At(c, i) = c[i] /\ c[i] \in Chunks /\ c[i] # NULL
    BY <1>2, <2>1, ReqTableAssumption DEF At, NULL
  <2>3. m # 0 /\ m - 1 \in 0..N /\ m - 1 < m /\ Len(c) + 1 - (i + 1) <= m - 1
    BY <1>1, <1>2, <1>5, <1>7, <2>1
  <2>4. Walk[m][c[i]] = <<c[i]>> \o Walk[m - 1][req[c[i]].next]
    BY <1>3, <1>5, <2>2, <2>3
  <2>5. req[c[i]].next = At(c, i + 1)
    BY <1>2, <2>1 DEF LinkedAt
  <2>6. Walk[m - 1][At(c, i + 1)] = Rest(c, i + 1)
    BY <1>6, <2>1, <2>3
  <2>7. Walk[m][c[i]] = <<c[i]>> \o Rest(c, i + 1)
    BY <2>4, <2>5, <2>6
  <2> QED
    BY <1>2, <1>7, <2>1, <2>2, <2>7, RestOf
<1> QED
  BY <1>8, <1>9

(* So Chain(x) is the chain that the pointers from reqs[x] on run through. *)
LEMMA ChainIs == ASSUME NEW x, NEW c, Linked(c, x) PROVE Chain(x) = c
<1>1. c \in Seq(Chunks) /\ OneToOne(c) /\ reqs[x] = At(c, 1)
  BY DEF Linked
<1>2. Len(c) \in Nat /\ Len(c) <= Cardinality(Chunks) /\ Cardinality(Chunks) \in Nat
  BY <1>1, ChainLength, FS_CardinalityType, ReqTableAssumption
<1>3. /\ Cardinality(Chunks) \in 0..Cardinality(Chunks)
      /\ 1 \in 1..(Len(c) + 1) /\ Len(c) + 1 - 1 <= Cardinality(Chunks)
  BY <1>2
<1>4. Walk[Cardinality(Chunks)][At(c, 1)] = Rest(c, 1)
  BY <1>3, WalkFollows
<1> QED
  BY <1>1, <1>4, RestOf DEF Chain

-----------------------------------------------------------------------------
(* The soundness of the table.                                             *)

In(c, r) == \E i \in 1..Len(c) : c[i] = r

(* The requests that belong to chain x.                                    *)
Belongs(r, x) == r \in Allocated /\ xid(req[r].seq) = x

(* The pointers of chain x run through c, which has what belongs there.    *)
ChainOf(c, x) == Linked(c, x) /\ \A r \in Chunks : In(c, r) <=> Belongs(r, x)

ChainsLinked == \A x \in Slots : \E c : ChainOf(c, x)

TimersFit == \A r \in Chunks : req[r].timed <=> r \in Allocated

Counted ==
  /\ req_count = Cardinality(Allocated)
  /\ req_count \in 0..COUNTOF_reqs
  /\ active \in BOOLEAN
  /\ ~ active => Allocated = {}

SoundTable == ChainsLinked /\ TimersFit /\ Counted

(* What a request asks, and where it belongs, stays.                       *)
SameRequest(r) ==
  /\ req'[r].seq = req[r].seq
  /\ req'[r].name = req[r].name
  /\ req'[r].timed = req[r].timed
  /\ req'[r].ctx = req[r].ctx

SamePointers(r) == req'[r].next = req[r].next /\ req'[r].prev = req[r].prev

(* A request that stays belongs where it belonged.                         *)
LEMMA SameBelongs ==
  ASSUME NEW r \in Chunks, SameRequest(r), NEW x
  PROVE  Belongs(r, x)' <=> Belongs(r, x)
  BY DEF SameRequest, Belongs, Allocated, xid

(* A chain whose members are left alone stays.                             *)
LEMMA ChainStays ==
  ASSUME NEW x, NEW c, ChainOf(c, x), reqs'[x] = reqs[x],
         \A q \in Chunks : In(c, q) => SameRequest(q) /\ SamePointers(q),
         \A q \in Chunks : Belongs(q, x)' <=> Belongs(q, x)
  PROVE  ChainOf(c, x)'
<1>1. Linked(c, x)'
  <2>1. c \in Seq(Chunks) /\ OneToOne(c)
    BY DEF ChainOf, Linked
  <2>2. reqs'[x] = At(c, 1)
    BY DEF ChainOf, Linked
  <2>3. ASSUME NEW i \in 1..Len(c) PROVE LinkedAt(c, x, i)'
    <3>1. c[i] \in Chunks
      BY <2>1
    <3>2. In(c, c[i])
      BY DEF In
    <3>3. SameRequest(c[i]) /\ SamePointers(c[i])
      BY <3>1, <3>2
    <3>4. LinkedAt(c, x, i)
      BY DEF ChainOf, Linked
    <3> QED
      BY <3>3, <3>4 DEF LinkedAt, SameRequest, SamePointers, xid
  <2> QED
    BY <2>1, <2>2, <2>3 DEF Linked
<1> QED
  BY <1>1 DEF ChainOf

(* What linking does to the chunks.                                        *)
LinkEffect(r, request) ==
  LET old == reqs[xid(request.seq)]
  IN  /\ req'[r].seq = request.seq /\ req'[r].name = request.name
      /\ req'[r].timed = request.timed /\ req'[r].ctx = request.ctx
      /\ req'[r].next = old /\ req'[r].prev = request.prev
      /\ \A q \in Chunks \ {r} :
           /\ SameRequest(q)
           /\ req'[q].next = req[q].next
           /\ req'[q].prev = IF q = old THEN r ELSE req[q].prev

(* Link has this effect.                                                   *)
LEMMA LinkDoes ==
  ASSUME PointersTyped, NEW r \in Chunks, NEW request \in Request, Link(r, request)
  PROVE  LinkEffect(r, request)
<1> DEFINE old == reqs[xid(request.seq)]
<1>1. \A q \in Chunks : req[q] \in Request
  BY DEF PointersTyped
<1>2. req'[r] = [request EXCEPT !.next = old]
  BY DEF Link
<1>3. ASSUME NEW q \in Chunks \ {r}
      PROVE  /\ SameRequest(q)
             /\ req'[q].next = req[q].next
             /\ req'[q].prev = IF q = old THEN r ELSE req[q].prev
  <2>1. req'[q] = IF q = old THEN [req[q] EXCEPT !.prev = r] ELSE req[q]
    BY DEF Link
  <2> QED
    BY <1>1, <2>1 DEF Request, SameRequest
<1>4. /\ req'[r].seq = request.seq /\ req'[r].name = request.name
      /\ req'[r].timed = request.timed /\ req'[r].ctx = request.ctx
      /\ req'[r].next = old /\ req'[r].prev = request.prev
  BY <1>2 DEF Request
<1> QED
  BY <1>3, <1>4 DEF LinkEffect

(* The requests afterwards are those before and the new one.               *)
LEMMA LinkAllocates ==
  ASSUME NEW r \in Chunks \ Allocated, NEW request, request.name # NULL,
         LinkEffect(r, request)
  PROVE  Allocated' = Allocated \union {r}
<1>1. ASSUME NEW q \in Chunks PROVE q \in Allocated' <=> q \in Allocated \union {r}
  <2>1. CASE q = r
    BY <2>1 DEF LinkEffect, Allocated
  <2>2. CASE q # r
    BY <2>2 DEF LinkEffect, Allocated, SameRequest
  <2> QED
    BY <2>1, <2>2
<1>2. Allocated' \subseteq Chunks /\ Allocated \subseteq Chunks
  BY DEF Allocated
<1> QED
  BY <1>1, <1>2

(* A sequence with another member in front.                                *)
IsPrepended(d, r, c) ==
  /\ d \in Seq(Chunks) /\ OneToOne(d)
  /\ Len(d) = Len(c) + 1
  /\ d[1] = r
  /\ \A i \in 1..Len(c) : d[i + 1] = c[i]
  /\ \A q : In(d, q) <=> q = r \/ In(c, q)

(* Putting a new member in front.                                          *)
LEMMA Prepend ==
  ASSUME NEW c \in Seq(Chunks), OneToOne(c), NEW r \in Chunks, ~ In(c, r)
  PROVE  IsPrepended(<<r>> \o c, r, c)
<1> DEFINE d == <<r>> \o c
<1>1. /\ d \in Seq(Chunks) /\ Len(d) = Len(c) + 1 /\ Len(c) \in Nat
      /\ d[1] = r /\ \A i \in 1..Len(c) : d[i + 1] = c[i]
  OBVIOUS
<1> HIDE DEF d
<1>2. ASSUME NEW i \in 2..Len(d) PROVE i - 1 \in 1..Len(c) /\ d[i] = c[i - 1]
  <2>1. i - 1 \in 1..Len(c) /\ (i - 1) + 1 = i
    BY <1>1
  <2>2. d[(i - 1) + 1] = c[i - 1]
    BY <1>1, <2>1
  <2> QED
    BY <2>1, <2>2
<1>3. \A i \in 2..Len(d) : d[i] # r
  BY <1>2 DEF In
<1>4. OneToOne(d)
  <2> SUFFICES ASSUME NEW i \in 1..Len(d), NEW j \in 1..Len(d), d[i] = d[j]
               PROVE  i = j
    BY DEF OneToOne
  <2>1. CASE i = 1 \/ j = 1
    <3>1. (i = 1 \/ i \in 2..Len(d)) /\ (j = 1 \/ j \in 2..Len(d))
      BY <1>1
    <3> QED
      BY <1>1, <1>3, <2>1, <3>1
  <2>2. CASE i # 1 /\ j # 1
    <3>1. i \in 2..Len(d) /\ j \in 2..Len(d)
      BY <1>1, <2>2
    <3>2. i - 1 \in 1..Len(c) /\ j - 1 \in 1..Len(c) /\ c[i - 1] = c[j - 1]
      BY <1>2, <3>1
    <3>3. i - 1 = j - 1
      BY <3>2 DEF OneToOne
    <3> QED
      BY <3>1, <3>3
  <2> QED
    BY <2>1, <2>2
<1>5. ASSUME NEW q PROVE In(d, q) <=> q = r \/ In(c, q)
  <2>1. ASSUME In(d, q) PROVE q = r \/ In(c, q)
    <3>1. PICK i \in 1..Len(d) : d[i] = q
      BY <2>1 DEF In
    <3>2. i = 1 \/ i \in 2..Len(d)
      BY <1>1
    <3> QED
      BY <1>1, <1>2, <3>1, <3>2 DEF In
  <2>2. ASSUME q = r PROVE In(d, q)
    <3>1. 1 \in 1..Len(d)
      BY <1>1
    <3> QED
      BY <1>1, <2>2, <3>1 DEF In
  <2>3. ASSUME In(c, q) PROVE In(d, q)
    <3>1. PICK i \in 1..Len(c) : c[i] = q
      BY <2>3 DEF In
    <3>2. i + 1 \in 1..Len(d) /\ d[i + 1] = q
      BY <1>1, <3>1
    <3> QED
      BY <3>2 DEF In
  <2> QED
    BY <2>1, <2>2, <2>3
<1>6. IsPrepended(d, r, c)
  BY <1>1, <1>4, <1>5 DEF IsPrepended
<1> QED
  BY <1>6 DEF d

(* Linking in front of a chain.                                            *)
LEMMA LinkChain ==
  ASSUME NEW r \in Chunks \ Allocated, NEW request, request.prev = NULL,
         request.name # NULL,
         LinkEffect(r, request), NEW c, ChainOf(c, xid(request.seq)),
         reqs'[xid(request.seq)] = r,
         NEW d, IsPrepended(d, r, c)
  PROVE  ChainOf(d, xid(request.seq))'
<1> DEFINE x == xid(request.seq)
<1>1. /\ c \in Seq(Chunks) /\ Len(c) \in Nat /\ OneToOne(c)
      /\ reqs[x] = At(c, 1) /\ \A i \in 1..Len(c) : LinkedAt(c, x, i)
  BY DEF ChainOf, Linked
<1>2. /\ d \in Seq(Chunks) /\ Len(d) = Len(c) + 1
      /\ d[1] = r /\ \A i \in 1..Len(c) : d[i + 1] = c[i]
  BY DEF IsPrepended
<1>3. \A q \in Chunks : In(c, q) <=> Belongs(q, x)
  BY DEF ChainOf
<1>4. ~ In(c, r)
  BY <1>3 DEF Belongs
<1>5. LinkedAt(d, x, 1)'
  <2>1. req'[d[1]].next = At(d, 1 + 1)
    <3>1. req'[d[1]].next = At(c, 1)
      BY <1>1, <1>2 DEF LinkEffect
    <3>2. CASE Len(c) = 0
      BY <1>1, <1>2, <3>1, <3>2 DEF At
    <3>3. CASE Len(c) # 0
      <4>1. 1 \in 1..Len(c) /\ 1 + 1 \in 1..Len(d)
        BY <1>1, <1>2, <3>3
      <4> QED
        BY <1>2, <3>1, <4>1 DEF At
    <3> QED
      BY <3>2, <3>3
  <2>2. req'[d[1]].prev = At(d, 1 - 1)
    BY <1>1, <1>2 DEF LinkEffect, At
  <2>3. xid(req'[d[1]].seq) = x
    BY <1>2 DEF LinkEffect
  <2> QED
    BY <2>1, <2>2, <2>3 DEF LinkedAt, xid
<1>6. ASSUME NEW i \in 1..Len(c) PROVE LinkedAt(d, x, i + 1)'
  <2> DEFINE q == c[i]
  <2>1. q \in Chunks \ {r} /\ d[i + 1] = q
    BY <1>1, <1>2, <1>4 DEF In
  <2>2. LinkedAt(c, x, i)
    BY <1>1
  <2>3. /\ SameRequest(q) /\ req'[q].next = req[q].next
        /\ req'[q].prev = IF q = reqs[x] THEN r ELSE req[q].prev
    BY <2>1 DEF LinkEffect
  <2>4. xid(req'[q].seq) = x
    BY <2>2, <2>3 DEF LinkedAt, SameRequest
  <2>5. req'[q].next = At(d, (i + 1) + 1)
    <3>1. req'[q].next = At(c, i + 1)
      BY <2>2, <2>3 DEF LinkedAt
    <3>2. CASE i = Len(c)
      BY <1>1, <1>2, <3>1, <3>2 DEF At
    <3>3. CASE i # Len(c)
      <4>1. i + 1 \in 1..Len(c) /\ (i + 1) + 1 \in 1..Len(d)
        BY <1>1, <1>2, <3>3
      <4> QED
        BY <1>2, <3>1, <4>1 DEF At
    <3> QED
      BY <3>2, <3>3
  <2>6. req'[q].prev = At(d, (i + 1) - 1)
    <3>1. i \in 1..Len(d) /\ (i + 1) - 1 = i /\ 1 \in 1..Len(c)
      BY <1>1, <1>2
    <3>2. At(d, i) = d[i] /\ reqs[x] = c[1]
      BY <1>1, <3>1 DEF At
    <3>3. CASE i = 1
      BY <1>2, <2>3, <3>1, <3>2, <3>3
    <3>4. CASE i # 1
      <4>1. i - 1 \in 1..Len(c) /\ (i - 1) + 1 = i
        BY <1>1, <3>4
      <4>2. d[i] = c[i - 1]
        BY <1>2, <4>1
      <4>3. q # c[1]
        BY <1>1, <3>1, <3>4 DEF OneToOne
      <4>4. req'[q].prev = req[q].prev
        BY <2>3, <3>2, <4>3
      <4>5. req[q].prev = At(c, i - 1)
        BY <2>2 DEF LinkedAt
      <4>6. At(c, i - 1) = c[i - 1]
        BY <4>1 DEF At
      <4> QED
        BY <3>1, <3>2, <4>2, <4>4, <4>5, <4>6
    <3> QED
      BY <3>3, <3>4
  <2> QED
    BY <2>1, <2>4, <2>5, <2>6 DEF LinkedAt, xid
<1>7. ASSUME NEW i \in 1..Len(d) PROVE LinkedAt(d, x, i)'
  <2>1. CASE i = 1
    BY <1>5, <2>1
  <2>2. CASE i # 1
    <3>1. i - 1 \in 1..Len(c) /\ (i - 1) + 1 = i
      BY <1>1, <1>2, <2>2
    <3>2. LinkedAt(d, x, (i - 1) + 1)'
      BY <1>6, <3>1
    <3> QED
      BY <3>1, <3>2
  <2> QED
    BY <2>1, <2>2
<1>8. reqs'[x] = At(d, 1)
  BY <1>1, <1>2 DEF At
<1>9. Linked(d, x)'
  BY <1>2, <1>7, <1>8 DEF Linked, IsPrepended
<1>10. ASSUME NEW q \in Chunks PROVE In(d, q) <=> Belongs(q, x)'
  <2>1. In(d, q) <=> q = r \/ In(c, q)
    BY DEF IsPrepended
  <2>2. CASE q = r
    <3>1. Belongs(q, x)'
      BY <2>2 DEF LinkEffect, Belongs, Allocated, xid
    <3> QED
      BY <2>1, <2>2, <3>1
  <2>3. CASE q # r
    <3>1. SameRequest(q)
      BY <2>3 DEF LinkEffect
    <3> QED
      BY <1>3, <2>1, <2>3, <3>1, SameBelongs
  <2> QED
    BY <2>2, <2>3
<1> QED
  BY <1>9, <1>10 DEF ChainOf

(* The requests are finitely many.                                         *)
LEMMA AllocatedFinite == IsFiniteSet(Allocated) /\ Cardinality(Allocated) \in Nat
<1>1. Allocated \in SUBSET Chunks
  BY DEF Allocated
<1>2. IsFiniteSet(Allocated)
  BY <1>1, FS_Subset, ReqTableAssumption
<1> QED
  BY <1>2, FS_CardinalityType

(* Linking a new request keeps the table sound.                            *)
LEMMA LinkSound ==
  ASSUME PointersTyped, SoundTable, active, ~ Full, UNCHANGED active,
         NEW r \in Chunks \ Allocated, NEW request \in Request,
         request.prev = NULL, request.name # NULL, request.timed = TRUE,
         Link(r, request)
  PROVE  SoundTable' /\ Allocated' = Allocated \union {r} /\ LinkEffect(r, request)
<1> DEFINE x == xid(request.seq)
<1>1. LinkEffect(r, request)
  BY LinkDoes
<1>2. Allocated' = Allocated \union {r}
  BY <1>1, LinkAllocates
<1>3. request.seq \in Nat /\ x \in Slots
  BY XidInRange, ReqTableAssumption DEF Request
<1>4. reqs' = [reqs EXCEPT ![x] = r] /\ reqs \in [Slots -> Pointers]
  BY DEF Link, PointersTyped
<1>5. ASSUME NEW y \in Slots PROVE \E d : ChainOf(d, y)'
  <2>1. PICK c : ChainOf(c, y)
    BY DEF SoundTable, ChainsLinked
  <2>2. c \in Seq(Chunks) /\ OneToOne(c)
    BY <2>1 DEF ChainOf, Linked
  <2>3. ~ In(c, r)
    BY <2>1 DEF ChainOf, Belongs
  <2>4. CASE y = x
    <3>1. reqs'[x] = r
      BY <1>3, <1>4
    <3>2. IsPrepended(<<r>> \o c, r, c)
      BY <2>2, <2>3, Prepend
    <3>3. PICK d : IsPrepended(d, r, c)
      BY <3>2
    <3>4. ChainOf(d, x)'
      BY <1>1, <2>1, <2>4, <3>1, <3>3, LinkChain
    <3> QED
      BY <2>4, <3>4
  <2>5. CASE y # x
    <3>1. reqs'[y] = reqs[y]
      BY <1>3, <1>4, <2>5
    <3>2. PICK e : ChainOf(e, x)
      BY <1>3 DEF SoundTable, ChainsLinked
    <3>3. ASSUME NEW q \in Chunks, In(c, q) PROVE q # reqs[x]
      <4>1. Belongs(q, y)
        BY <2>1, <3>3 DEF ChainOf
      <4>2. SUFFICES ASSUME q = reqs[x] PROVE FALSE
        OBVIOUS
      <4>3. reqs[x] = At(e, 1) /\ q # NULL
        BY <3>2, ReqTableAssumption DEF ChainOf, Linked, NULL
      <4>4. In(e, q)
        BY <4>2, <4>3 DEF At, In
      <4> QED
        BY <2>5, <3>2, <4>1, <4>4 DEF ChainOf, Belongs
    <3>4. \A q \in Chunks : In(c, q) => SameRequest(q) /\ SamePointers(q)
      BY <1>1, <2>3, <3>3 DEF LinkEffect, SamePointers
    <3>5. ASSUME NEW q \in Chunks PROVE Belongs(q, y)' <=> Belongs(q, y)
      <4>1. CASE q = r
        BY <1>1, <2>5, <4>1 DEF LinkEffect, Belongs, xid
      <4>2. CASE q # r
        BY <1>1, <4>2, SameBelongs DEF LinkEffect
      <4> QED
        BY <4>1, <4>2
    <3>6. ChainOf(c, y)'
      BY <2>1, <3>1, <3>4, <3>5, ChainStays
    <3> QED
      BY <3>6
  <2> QED
    BY <2>4, <2>5
<1>6. ChainsLinked'
  BY <1>5 DEF ChainsLinked
<1>7. TimersFit'
  <2> SUFFICES ASSUME NEW q \in Chunks PROVE req'[q].timed <=> q \in Allocated'
    BY DEF TimersFit
  <2>1. CASE q = r
    BY <1>1, <1>2, <2>1 DEF LinkEffect
  <2>2. CASE q # r
    BY <1>1, <1>2, <2>2 DEF LinkEffect, SameRequest, SoundTable, TimersFit
  <2> QED
    BY <2>1, <2>2
<1>8. Counted'
  <2>1. Cardinality(Allocated') = Cardinality(Allocated) + 1
    BY <1>2, AllocatedFinite, FS_AddElement
  <2>2. req_count' = req_count + 1
    BY DEF Link
  <2>3. req_count = Cardinality(Allocated) /\ req_count \in 0..COUNTOF_reqs /\ active'
    BY DEF SoundTable, Counted
  <2>4. req_count' \in 0..COUNTOF_reqs
    BY <2>2, <2>3, ReqTableAssumption DEF Full
  <2> QED
    BY <2>1, <2>2, <2>3, <2>4 DEF Counted
<1> QED
  BY <1>1, <1>2, <1>6, <1>7, <1>8 DEF SoundTable

(* What unlinking does to the chunks.                                      *)
UnlinkEffect(r, x) ==
  /\ req'[r].name = NULL /\ ~ req'[r].timed
  /\ \A q \in Chunks \ {r} :
       /\ SameRequest(q)
       /\ req'[q].next = IF r # reqs[x] /\ q = req[r].prev THEN req[r].next
                         ELSE req[q].next
       /\ req'[q].prev = IF q = req[r].next THEN req[r].prev ELSE req[q].prev

(* Unlink has this effect, if the timer event has been removed.            *)
LEMMA UnlinkDoes ==
  ASSUME PointersTyped, NEW r \in Chunks, NEW x, NEW request \in Request,
         ~ request.timed, Unlink(r, x, request)
  PROVE  UnlinkEffect(r, x)
<1>1. \A q \in Chunks : req[q] \in Request
  BY DEF PointersTyped
<1>2. req'[r].name = NULL /\ ~ req'[r].timed
  <2>1. req'[r] = Freed(request)
    BY DEF Unlink
  <2> QED
    BY <2>1 DEF Freed, FreeChunk
<1>3. ASSUME NEW q \in Chunks \ {r}
      PROVE  /\ SameRequest(q)
             /\ req'[q].next = IF r # reqs[x] /\ q = req[r].prev THEN req[r].next
                               ELSE req[q].next
             /\ req'[q].prev = IF q = req[r].next THEN req[r].prev ELSE req[q].prev
  <2> DEFINE n == IF ~ (r = reqs[x]) /\ q = req[r].prev THEN req[r].next
                  ELSE req[q].next
             p == IF q = req[r].next THEN req[r].prev ELSE req[q].prev
  <2>1. req'[q] = [req[q] EXCEPT !.next = n, !.prev = p]
    BY <1>1 DEF Unlink, Request
  <2>2. req[q] \in Request
    BY <1>1
  <2>3. req'[q].next = n /\ req'[q].prev = p
    <3> HIDE DEF n, p
    <3> QED
      BY <2>1, <2>2 DEF Request
  <2>4. SameRequest(q)
    <3> HIDE DEF n, p
    <3> QED
      BY <2>1, <2>2 DEF Request, SameRequest
  <2> QED
    BY <2>3, <2>4
<1> QED
  BY <1>2, <1>3 DEF UnlinkEffect

(* The requests afterwards are those before without that one.              *)
LEMMA UnlinkFrees ==
  ASSUME NEW r \in Chunks, NEW x, UnlinkEffect(r, x)
  PROVE  Allocated' = Allocated \ {r}
<1>1. ASSUME NEW q \in Chunks PROVE q \in Allocated' <=> q \in Allocated \ {r}
  <2>1. CASE q = r
    BY <2>1 DEF UnlinkEffect, Allocated
  <2>2. CASE q # r
    BY <2>2 DEF UnlinkEffect, Allocated, SameRequest
  <2> QED
    BY <2>1, <2>2
<1>2. Allocated' \subseteq Chunks /\ Allocated \subseteq Chunks
  BY DEF Allocated
<1> QED
  BY <1>1, <1>2

(* A sequence without its k-th member.                                     *)
IsCut(d, k, c) ==
  /\ d \in Seq(Chunks) /\ OneToOne(d)
  /\ Len(d) = Len(c) - 1
  /\ \A i \in 1..Len(d) : d[i] = IF i < k THEN c[i] ELSE c[i + 1]
  /\ \A q : In(d, q) <=> q # c[k] /\ In(c, q)

(* There is such a sequence for every member of a chain.                   *)
LEMMA Cut ==
  ASSUME NEW c \in Seq(Chunks), OneToOne(c), NEW k \in 1..Len(c)
  PROVE  \E d : IsCut(d, k, c)
<1> DEFINE d == [i \in 1..(Len(c) - 1) |-> IF i < k THEN c[i] ELSE c[i + 1]]
<1>1. Len(c) \in Nat /\ Len(c) - 1 \in Nat
  OBVIOUS
<1>2. \A i \in 1..(Len(c) - 1) : i \in 1..Len(c) /\ i + 1 \in 1..Len(c)
  BY <1>1
<1>3. d \in Seq(Chunks) /\ Len(d) = Len(c) - 1
  <2>1. \A i \in 1..(Len(c) - 1) : d[i] \in Chunks
    BY <1>2
  <2> QED
    BY <1>1, <2>1
<1>4. \A i \in 1..Len(d) : d[i] = IF i < k THEN c[i] ELSE c[i + 1]
  BY <1>3
<1> HIDE DEF d
<1> DEFINE s(i) == IF i < k THEN i ELSE i + 1
<1>5. ASSUME NEW i \in 1..Len(d)
      PROVE  s(i) \in 1..Len(c) /\ s(i) # k /\ d[i] = c[s(i)]
  <2>1. s(i) \in 1..Len(c) /\ s(i) # k
    BY <1>1, <1>3
  <2> QED
    BY <1>4, <2>1
<1>6. OneToOne(d)
  <2> SUFFICES ASSUME NEW i \in 1..Len(d), NEW j \in 1..Len(d), d[i] = d[j]
               PROVE  i = j
    BY DEF OneToOne
  <2>1. s(i) = s(j)
    <3> HIDE DEF s
    <3> QED
      BY <1>5 DEF OneToOne
  <2> QED
    BY <2>1
<1>7. ASSUME NEW q PROVE In(d, q) <=> q # c[k] /\ In(c, q)
  <2>1. ASSUME In(d, q) PROVE q # c[k] /\ In(c, q)
    <3>1. PICK i \in 1..Len(d) : d[i] = q
      BY <2>1 DEF In
    <3>2. s(i) \in 1..Len(c) /\ s(i) # k /\ q = c[s(i)]
      BY <1>5, <3>1
    <3> HIDE DEF s
    <3> QED
      BY <3>2 DEF In, OneToOne
  <2>2. ASSUME q # c[k], In(c, q) PROVE In(d, q)
    <3>1. PICK j \in 1..Len(c) : c[j] = q
      BY <2>2 DEF In
    <3>2. j # k
      BY <2>2, <3>1
    <3>3. CASE j < k
      <4>1. j \in 1..Len(d)
        BY <1>1, <1>3, <3>3
      <4>2. d[j] = q
        BY <1>4, <3>1, <3>3, <4>1
      <4> QED
        BY <4>1, <4>2 DEF In
    <3>4. CASE ~ (j < k)
      <4>1. j - 1 \in 1..Len(d) /\ ~ (j - 1 < k) /\ (j - 1) + 1 = j
        BY <1>1, <1>3, <3>2, <3>4
      <4>2. d[j - 1] = q
        BY <1>4, <3>1, <4>1
      <4> QED
        BY <4>1, <4>2 DEF In
    <3> QED
      BY <3>3, <3>4
  <2> QED
    BY <2>1, <2>2
<1> QED
  BY <1>3, <1>4, <1>6, <1>7 DEF IsCut

(* The members next to the cut have moved together.                        *)
LEMMA CutAt ==
  ASSUME NEW c \in Seq(Chunks), NEW k \in 1..Len(c), NEW d, IsCut(d, k, c),
         NEW i \in Nat
  PROVE  At(d, i) = IF i < k THEN At(c, i) ELSE At(c, i + 1)
<1>1. /\ Len(c) \in Nat /\ Len(d) = Len(c) - 1
      /\ \A j \in 1..Len(d) : d[j] = IF j < k THEN c[j] ELSE c[j + 1]
  BY DEF IsCut
<1>2. CASE i \in 1..Len(d)
  <2>1. At(d, i) = IF i < k THEN c[i] ELSE c[i + 1]
    BY <1>1, <1>2 DEF At
  <2>2. i \in 1..Len(c) /\ i + 1 \in 1..Len(c)
    BY <1>1, <1>2
  <2> QED
    BY <2>1, <2>2 DEF At
<1>3. CASE i \notin 1..Len(d)
  <2>1. At(d, i) = NULL
    BY <1>3 DEF At
  <2>2. CASE i < k
    <3>1. i \notin 1..Len(c)
      BY <1>1, <1>3, <2>2
    <3> QED
      BY <2>1, <2>2, <3>1 DEF At
  <2>3. CASE ~ (i < k)
    <3>1. i + 1 \notin 1..Len(c)
      BY <1>1, <1>3, <2>3
    <3> QED
      BY <2>1, <2>3, <3>1 DEF At
  <2> QED
    BY <2>2, <2>3
<1> QED
  BY <1>2, <1>3

(* Members of a chain are where they are.                                  *)
LEMMA AtMember ==
  ASSUME NEW c \in Seq(Chunks), OneToOne(c), NEW j \in 1..Len(c), NEW i \in Int
  PROVE  c[j] = At(c, i) <=> i = j
<1>1. c[j] \in Chunks /\ c[j] # NULL
  BY ReqTableAssumption DEF NULL
<1> QED
  BY <1>1 DEF At, OneToOne

(* Unlinking the k-th request of a chain.                                  *)
LEMMA UnlinkChain ==
  ASSUME NEW x, NEW c, ChainOf(c, x), NEW k \in 1..Len(c), UnlinkEffect(c[k], x),
         reqs'[x] = IF c[k] = reqs[x] THEN req[c[k]].next ELSE reqs[x],
         NEW d, IsCut(d, k, c)
  PROVE  ChainOf(d, x)'
<1> DEFINE r == c[k]
<1>1. /\ c \in Seq(Chunks) /\ Len(c) \in Nat /\ OneToOne(c)
      /\ reqs[x] = At(c, 1) /\ \A i \in 1..Len(c) : LinkedAt(c, x, i)
  BY DEF ChainOf, Linked
<1>2. /\ d \in Seq(Chunks) /\ Len(d) = Len(c) - 1 /\ OneToOne(d)
      /\ \A i \in 1..Len(d) : d[i] = IF i < k THEN c[i] ELSE c[i + 1]
  BY DEF IsCut
<1>3. \A i \in Nat : At(d, i) = IF i < k THEN At(c, i) ELSE At(c, i + 1)
  BY <1>1, CutAt
<1>4. req[r].next = At(c, k + 1) /\ req[r].prev = At(c, k - 1)
  BY <1>1 DEF LinkedAt
<1>5. r = reqs[x] <=> k = 1
  <2>1. r = At(c, 1) <=> 1 = k
    BY <1>1, AtMember
  <2> QED
    BY <1>1, <2>1
<1>6. reqs'[x] = At(d, 1)
  <2>1. CASE k = 1
    BY <1>3, <1>4, <1>5, <2>1
  <2>2. CASE k # 1
    BY <1>1, <1>3, <1>5, <2>2
  <2> QED
    BY <2>1, <2>2
<1>7. ASSUME NEW j \in 1..Len(c), j # k
      PROVE  /\ c[j] \in Chunks \ {r}
             /\ xid(req'[c[j]].seq) = x
             /\ req'[c[j]].next = IF j = k - 1 THEN At(c, k + 1) ELSE At(c, j + 1)
             /\ req'[c[j]].prev = IF j = k + 1 THEN At(c, k - 1) ELSE At(c, j - 1)
  <2>1. c[j] \in Chunks \ {r}
    BY <1>1, <1>7 DEF OneToOne
  <2>2. LinkedAt(c, x, j)
    BY <1>1
  <2>3. /\ SameRequest(c[j])
        /\ req'[c[j]].next = IF r # reqs[x] /\ c[j] = req[r].prev THEN req[r].next
                             ELSE req[c[j]].next
        /\ req'[c[j]].prev = IF c[j] = req[r].next THEN req[r].prev
                             ELSE req[c[j]].prev
    BY <2>1 DEF UnlinkEffect
  <2>4. c[j] = At(c, k - 1) <=> k - 1 = j
    BY <1>1, AtMember
  <2>5. c[j] = At(c, k + 1) <=> k + 1 = j
    BY <1>1, AtMember
  <2>6. k - 1 = j => k # 1
    BY <1>1
  <2>7. xid(req'[c[j]].seq) = x
    BY <2>2, <2>3 DEF LinkedAt, SameRequest
  <2>8. req[c[j]].next = At(c, j + 1) /\ req[c[j]].prev = At(c, j - 1)
    BY <2>2 DEF LinkedAt
  <2>9. req'[c[j]].next = IF j = k - 1 THEN At(c, k + 1) ELSE At(c, j + 1)
    BY <1>4, <1>5, <2>3, <2>4, <2>6, <2>8
  <2>10. req'[c[j]].prev = IF j = k + 1 THEN At(c, k - 1) ELSE At(c, j - 1)
    BY <1>4, <2>3, <2>5, <2>8
  <2> QED
    BY <2>1, <2>7, <2>9, <2>10
<1>8. ASSUME NEW i \in 1..Len(d) PROVE LinkedAt(d, x, i)'
  <2>1. CASE i < k
    <3>1. i \in 1..Len(c) /\ i # k /\ d[i] = c[i]
      BY <1>1, <1>2, <2>1
    <3>2. req'[d[i]].next = At(d, i + 1)
      <4>1. CASE i = k - 1
        <5>1. i + 1 = k /\ k \in Nat /\ ~ (k < k)
          BY <1>1, <4>1
        <5>2. At(d, i + 1) = At(c, k + 1)
          BY <1>3, <5>1
        <5> QED
          BY <1>7, <3>1, <4>1, <5>2
      <4>2. CASE i # k - 1
        <5>1. i + 1 \in Nat /\ i + 1 < k
          BY <1>1, <2>1, <4>2
        <5>2. At(d, i + 1) = At(c, i + 1)
          BY <1>3, <5>1
        <5> QED
          BY <1>7, <3>1, <4>2, <5>2
      <4> QED
        BY <4>1, <4>2
    <3>3. req'[d[i]].prev = At(d, i - 1)
      <4>1. i - 1 \in Nat /\ i - 1 < k /\ i # k + 1
        BY <1>1, <2>1
      <4>2. At(d, i - 1) = At(c, i - 1)
        BY <1>3, <4>1
      <4> QED
        BY <1>7, <3>1, <4>1, <4>2
    <3>4. xid(req'[d[i]].seq) = x
      BY <1>7, <3>1
    <3> QED
      BY <3>2, <3>3, <3>4 DEF LinkedAt, xid
  <2>2. CASE ~ (i < k)
    <3>1. i + 1 \in 1..Len(c) /\ i + 1 # k /\ d[i] = c[i + 1]
      BY <1>1, <1>2, <2>2
    <3>2. req'[d[i]].next = At(d, i + 1)
      <4>1. i + 1 \in Nat /\ ~ (i + 1 < k) /\ i + 1 # k - 1
        BY <1>1, <2>2
      <4>2. At(d, i + 1) = At(c, (i + 1) + 1)
        BY <1>3, <4>1
      <4> QED
        BY <1>7, <3>1, <4>1, <4>2
    <3>3. req'[d[i]].prev = At(d, i - 1)
      <4>1. i - 1 \in Nat
        BY <1>1
      <4>2. CASE i = k
        <5>1. i - 1 < k /\ i + 1 = k + 1
          BY <1>1, <4>2
        <5>2. At(d, i - 1) = At(c, k - 1)
          BY <1>3, <4>1, <4>2, <5>1
        <5> QED
          BY <1>7, <3>1, <5>1, <5>2
      <4>3. CASE i # k
        <5>1. ~ (i - 1 < k) /\ i + 1 # k + 1 /\ (i - 1) + 1 = (i + 1) - 1
          BY <1>1, <2>2, <4>3
        <5>2. At(d, i - 1) = At(c, (i + 1) - 1)
          BY <1>3, <4>1, <5>1
        <5> QED
          BY <1>7, <3>1, <5>1, <5>2
      <4> QED
        BY <4>2, <4>3
    <3>4. xid(req'[d[i]].seq) = x
      BY <1>7, <3>1
    <3> QED
      BY <3>2, <3>3, <3>4 DEF LinkedAt, xid
  <2> QED
    BY <2>1, <2>2
<1>9. Linked(d, x)'
  BY <1>2, <1>6, <1>8 DEF Linked
<1>10. ASSUME NEW q \in Chunks PROVE In(d, q) <=> Belongs(q, x)'
  <2>1. In(d, q) <=> q # r /\ In(c, q)
    BY DEF IsCut
  <2>2. CASE q = r
    <3>1. ~ Belongs(q, x)'
      BY <2>2 DEF UnlinkEffect, Belongs, Allocated
    <3> QED
      BY <2>1, <2>2, <3>1
  <2>3. CASE q # r
    <3>1. SameRequest(q)
      BY <2>3 DEF UnlinkEffect
    <3>2. In(c, q) <=> Belongs(q, x)
      BY DEF ChainOf
    <3> QED
      BY <2>1, <2>3, <3>1, <3>2, SameBelongs
  <2> QED
    BY <2>2, <2>3
<1> QED
  BY <1>9, <1>10 DEF ChainOf

(* Unlinking a request from the chain it belongs to keeps the table sound. *)
LEMMA UnlinkSound ==
  ASSUME PointersTyped, SoundTable, UNCHANGED active,
         NEW x \in Slots, NEW r \in Chunks, Belongs(r, x),
         NEW request \in Request, ~ request.timed,
         Unlink(r, x, request)
  PROVE  SoundTable' /\ Allocated' = Allocated \ {r} /\ UnlinkEffect(r, x)
<1>1. UnlinkEffect(r, x)
  BY UnlinkDoes
<1>2. Allocated' = Allocated \ {r}
  BY <1>1, UnlinkFrees
<1>3. /\ reqs \in [Slots -> Pointers]
      /\ reqs' = IF r = reqs[x] THEN [reqs EXCEPT ![x] = req[r].next] ELSE reqs
  BY DEF Unlink, PointersTyped
<1>4. PICK c : ChainOf(c, x)
  BY DEF SoundTable, ChainsLinked
<1>5. /\ c \in Seq(Chunks) /\ Len(c) \in Nat /\ OneToOne(c) /\ reqs[x] = At(c, 1)
      /\ \A i \in 1..Len(c) : LinkedAt(c, x, i)
  BY <1>4 DEF ChainOf, Linked
<1>6. PICK k \in 1..Len(c) : c[k] = r
  BY <1>4 DEF ChainOf, In
<1>7. \E d : ChainOf(d, x)'
  <2>1. PICK d : IsCut(d, k, c)
    BY <1>5, Cut
  <2>2. reqs'[x] = IF c[k] = reqs[x] THEN req[c[k]].next ELSE reqs[x]
    BY <1>3, <1>6
  <2>3. UnlinkEffect(c[k], x)
    BY <1>1, <1>6
  <2>4. ChainOf(d, x)'
    BY <1>4, <2>1, <2>2, <2>3, UnlinkChain
  <2> QED
    BY <2>4
<1>8. ASSUME NEW y \in Slots, y # x PROVE \E d : ChainOf(d, y)'
  <2>1. PICK e : ChainOf(e, y)
    BY DEF SoundTable, ChainsLinked
  <2>2. reqs'[y] = reqs[y]
    BY <1>3, <1>8
  <2>3. \A q \in Chunks : In(c, q) => xid(req[q].seq) = x
    BY <1>4 DEF ChainOf, Belongs
  <2>4. \A q \in Chunks : In(e, q) => xid(req[q].seq) = y
    BY <2>1 DEF ChainOf, Belongs
  <2>5. ASSUME NEW q \in Chunks, In(e, q) PROVE SameRequest(q) /\ SamePointers(q)
    <3>1. ~ In(c, q)
      BY <1>8, <2>3, <2>4, <2>5
    <3>2. \A i : q # At(c, i)
      BY <3>1, ReqTableAssumption DEF At, In, NULL
    <3>3. q # r /\ q # req[r].next /\ q # req[r].prev
      BY <1>5, <1>6, <3>1, <3>2 DEF LinkedAt, In
    <3> QED
      BY <1>1, <3>3 DEF UnlinkEffect, SamePointers
  <2>6. ASSUME NEW q \in Chunks PROVE Belongs(q, y)' <=> Belongs(q, y)
    <3>1. CASE q = r
      <4>1. ~ Belongs(q, y)'
        BY <1>2, <3>1 DEF Belongs
      <4> QED
        BY <1>8, <3>1, <4>1 DEF Belongs
    <3>2. CASE q # r
      BY <1>1, <3>2, SameBelongs DEF UnlinkEffect
    <3> QED
      BY <3>1, <3>2
  <2>7. ChainOf(e, y)'
    BY <2>1, <2>2, <2>5, <2>6, ChainStays
  <2> QED
    BY <2>7
<1>9. ChainsLinked'
  BY <1>7, <1>8 DEF ChainsLinked
<1>10. TimersFit'
  <2> SUFFICES ASSUME NEW q \in Chunks PROVE req'[q].timed <=> q \in Allocated'
    BY DEF TimersFit
  <2>1. CASE q = r
    BY <1>1, <1>2, <2>1 DEF UnlinkEffect
  <2>2. CASE q # r
    BY <1>1, <1>2, <2>2 DEF UnlinkEffect, SameRequest, SoundTable, TimersFit
  <2> QED
    BY <2>1, <2>2
<1>11. Counted'
  <2>1. r \in Allocated
    BY DEF Belongs
  <2>2. Cardinality(Allocated') = Cardinality(Allocated) - 1
    BY <1>2, <2>1, AllocatedFinite, FS_RemoveElement
  <2>3. Cardinality(Allocated) # 0
    BY <2>1, AllocatedFinite, FS_EmptySet
  <2>4. /\ req_count' = req_count - 1 /\ req_count = Cardinality(Allocated)
        /\ req_count \in 0..COUNTOF_reqs /\ active \in BOOLEAN
        /\ ~ active => Allocated = {}
    BY DEF Unlink, SoundTable, Counted
  <2>5. req_count' \in 0..COUNTOF_reqs
    BY <2>3, <2>4, ReqTableAssumption
  <2>6. active' \in BOOLEAN /\ (~ active' => Allocated' = {})
    BY <1>2, <2>4
  <2> QED
    BY <2>2, <2>4, <2>5, <2>6 DEF Counted
<1> QED
  BY <1>1, <1>2, <1>9, <1>10, <1>11 DEF SoundTable

(* A step that leaves the chains alone keeps the table sound.              *)
LEMMA SameSound ==
  ASSUME SoundTable, \A q \in Chunks : SameRequest(q) /\ SamePointers(q),
         UNCHANGED <<active, reqs, req_count>>
  PROVE  SoundTable' /\ Allocated' = Allocated
<1>1. Allocated' = Allocated
  BY DEF Allocated, SameRequest
<1>2. ASSUME NEW x \in Slots PROVE \E c : ChainOf(c, x)'
  <2>1. PICK c : ChainOf(c, x)
    BY DEF SoundTable, ChainsLinked
  <2>2. \A q \in Chunks : Belongs(q, x)' <=> Belongs(q, x)
    BY SameBelongs
  <2>3. ChainOf(c, x)'
    BY <2>1, <2>2, ChainStays
  <2> QED
    BY <2>3
<1>3. ChainsLinked'
  BY <1>2 DEF ChainsLinked
<1>4. TimersFit'
  BY <1>1 DEF TimersFit, SoundTable, SameRequest
<1>5. Counted'
  BY <1>1 DEF Counted, SoundTable
<1> QED
  BY <1>1, <1>3, <1>4, <1>5 DEF SoundTable

(* The chains that Walk finds are the ones the pointers run through, and   *)
(* together they hold the requests.                                        *)
LEMMA ChainBelongs ==
  ASSUME SoundTable, NEW x \in Slots
  PROVE  ChainOf(Chain(x), x)
<1>1. PICK c : ChainOf(c, x)
  BY DEF SoundTable, ChainsLinked
<1>2. Chain(x) = c
  BY <1>1, ChainIs DEF ChainOf
<1> QED
  BY <1>1, <1>2

(* What is reached from the heads is what is allocated.                    *)
LEMMA PendingIsAllocated ==
  ASSUME PointersTyped, SoundTable PROVE Pending = Allocated
<1>1. ASSUME NEW r \in Pending PROVE r \in Allocated
  <2>1. PICK x \in Slots : r \in ToSet(Chain(x))
    BY DEF Pending
  <2>2. ChainOf(Chain(x), x)
    BY ChainBelongs
  <2>3. Chain(x) \in Seq(Chunks)
    BY <2>2 DEF ChainOf, Linked
  <2>4. r \in Chunks /\ In(Chain(x), r)
    BY <2>1, <2>3 DEF ToSet, In
  <2> QED
    BY <2>2, <2>4 DEF ChainOf, Belongs
<1>2. ASSUME NEW r \in Allocated PROVE r \in Pending
  <2>1. r \in Chunks
    BY DEF Allocated
  <2>2. PICK x \in Slots : x = xid(req[r].seq)
    BY <2>1, XidInRange, ReqTableAssumption DEF PointersTyped, Request
  <2>3. ChainOf(Chain(x), x)
    BY ChainBelongs
  <2>4. Chain(x) \in Seq(Chunks) /\ In(Chain(x), r)
    BY <2>1, <2>2, <2>3 DEF ChainOf, Linked, Belongs
  <2>5. r \in ToSet(Chain(x))
    BY <2>4 DEF ToSet, In
  <2> QED
    BY <2>5 DEF Pending
<1> QED
  BY <1>1, <1>2

(* What the run checks of the table follows.                               *)
LEMMA SoundMeans ==
  ASSUME PointersTyped, SoundTable
  PROVE  TableIsSound /\ TableTypeOK /\ Pending = Allocated
<1>1. Pending = Allocated
  BY PendingIsAllocated
<1>2. TableTypeOK
  BY DEF TableTypeOK, SoundTable, Counted
<1>3. ASSUME NEW x \in Slots, NEW i \in 1..Len(Chain(x))
      PROVE  /\ xid(req[Chain(x)[i]].seq) = x
             /\ req[Chain(x)[i]].prev = IF i = 1 THEN NULL ELSE Chain(x)[i - 1]
             /\ i = Len(Chain(x)) => req[Chain(x)[i]].next = NULL
  <2>1. PICK c : c = Chain(x) /\ ChainOf(c, x)
    BY ChainBelongs
  <2>2. c \in Seq(Chunks) /\ Len(c) \in Nat /\ i \in 1..Len(c) /\ LinkedAt(c, x, i)
    BY <2>1 DEF ChainOf, Linked
  <2>3. At(c, i - 1) = IF i = 1 THEN NULL ELSE c[i - 1]
    BY <2>2 DEF At
  <2>4. i = Len(c) => At(c, i + 1) = NULL
    BY <2>2 DEF At
  <2> QED
    BY <2>1, <2>2, <2>3, <2>4 DEF LinkedAt
<1>4. ChainsAreSound
  BY <1>1, <1>3 DEF ChainsAreSound
<1>5. {r \in Chunks : req[r].timed} = Allocated
  BY DEF SoundTable, TimersFit, Allocated
<1> QED
  BY <1>1, <1>2, <1>4, <1>5 DEF TableIsSound, SoundTable, Counted

(* A request that an answer finds in a chain belongs there.                *)
LEMMA FirstBelongs ==
  ASSUME SoundTable, NEW x \in Slots, NEW r \in Chunks, NEW matching,
         IsFirst(r, x, matching)
  PROVE  Belongs(r, x)
<1>1. ChainOf(Chain(x), x)
  BY ChainBelongs
<1>2. In(Chain(x), r)
  BY DEF IsFirst, In
<1> QED
  BY <1>1, <1>2 DEF ChainOf

(* A request whose timer event fires belongs to the chain of its number.   *)
LEMMA TimedBelongs ==
  ASSUME PointersTyped, SoundTable, NEW r \in Chunks, req[r].timed
  PROVE  Belongs(r, xid(req[r].seq)) /\ xid(req[r].seq) \in Slots
<1>1. xid(req[r].seq) \in Slots
  BY XidInRange, ReqTableAssumption DEF PointersTyped, Request
<1> QED
  BY <1>1 DEF Belongs, SoundTable, TimersFit

(* A table without requests is sound if no head points anywhere.           *)
LEMMA EmptyChains ==
  ASSUME reqs = [x \in Slots |-> NULL], Allocated = {} PROVE ChainsLinked
<1> SUFFICES ASSUME NEW x \in Slots PROVE \E c : ChainOf(c, x)
  BY DEF ChainsLinked
<1>1. PICK c : c = <<>>
  OBVIOUS
<1>2. c \in Seq(Chunks) /\ Len(c) = 0
  BY <1>1
<1>3. 1..Len(c) = {}
  BY <1>2
<1>4. ChainOf(c, x)
  BY <1>2, <1>3 DEF ChainOf, Linked, OneToOne, At, In, Belongs
<1> QED
  BY <1>4

(* So is one that has just been emptied.                                   *)
LEMMA EmptiedChains ==
  ASSUME reqs' = [x \in Slots |-> NULL], Allocated' = {} PROVE ChainsLinked'
<1> SUFFICES ASSUME NEW x \in Slots PROVE \E c : ChainOf(c, x)'
  BY DEF ChainsLinked
<1>1. PICK c : c = <<>>
  OBVIOUS
<1>2. c \in Seq(Chunks) /\ Len(c) = 0
  BY <1>1
<1>3. 1..Len(c) = {}
  BY <1>2
<1>4. ChainOf(c, x)'
  BY <1>2, <1>3 DEF ChainOf, Linked, OneToOne, At, In, Belongs
<1> QED
  BY <1>4

(* Closing: everything is freed.                                           *)
LEMMA FreeAllSound ==
  ASSUME PointersTyped, SoundTable, FreeAll, active' = FALSE
  PROVE  SoundTable' /\ Allocated' = {}
<1>1. Pending = Allocated
  BY PendingIsAllocated
<1>2. ASSUME NEW r \in Chunks PROVE req'[r].name = NULL /\ ~ req'[r].timed
  <2>1. CASE r \in Allocated
    <3>1. req'[r] = Freed(remove_tmr_tmout(req[r]))
      BY <1>1, <2>1 DEF FreeAll
    <3>2. ~ remove_tmr_tmout(req[r]).timed
      BY DEF remove_tmr_tmout, PointersTyped, Request
    <3> QED
      BY <3>1, <3>2 DEF Freed, FreeChunk
  <2>2. CASE r \notin Allocated
    <3>1. req'[r] = req[r]
      BY <1>1, <2>2 DEF FreeAll
    <3> QED
      BY <2>2, <3>1 DEF Allocated, SoundTable, TimersFit
  <2> QED
    BY <2>1, <2>2
<1>3. Allocated' = {}
  BY <1>2 DEF Allocated
<1>4. ChainsLinked'
  BY <1>3, EmptiedChains DEF FreeAll
<1>5. TimersFit'
  BY <1>2, <1>3 DEF TimersFit
<1>6. Counted'
  <2>1. req_count' = req_count - Cardinality(Allocated) /\ req_count = Cardinality(Allocated)
    BY <1>1 DEF FreeAll, SoundTable, Counted
  <2>2. req_count' = 0
    BY <2>1, AllocatedFinite
  <2>3. Cardinality(Allocated') = 0
    BY <1>3, FS_EmptySet
  <2>4. 0 \in 0..COUNTOF_reqs
    BY ReqTableAssumption
  <2>5. active' \in BOOLEAN
    OBVIOUS
  <2> QED
    BY <1>3, <2>2, <2>3, <2>4, <2>5, Zenon DEF Counted
<1> QED
  BY <1>3, <1>4, <1>5, <1>6 DEF SoundTable

(* Opening: a cleared context, when there are no requests.                 *)
LEMMA ClearedSound ==
  ASSUME SoundTable, ~ active, active' = TRUE, Cleared, UNCHANGED req
  PROVE  SoundTable' /\ Allocated' = {} /\ Allocated = {}
<1>1. Allocated = {}
  BY DEF SoundTable, Counted
<1>2. Allocated' = {}
  BY <1>1 DEF Allocated
<1>3. ChainsLinked'
  BY <1>2, EmptiedChains DEF Cleared
<1>4. TimersFit'
  BY <1>1, <1>2 DEF TimersFit, SoundTable
<1>5. Counted'
  BY <1>2, FS_EmptySet, ReqTableAssumption DEF Counted, Cleared
<1> QED
  BY <1>1, <1>2, <1>3, <1>4, <1>5 DEF SoundTable

(* The table at first.                                                     *)
LEMMA TableInitSound == ASSUME TableInit PROVE SoundTable /\ Allocated = {}
<1>1. \A r \in Chunks : req[r].name = NULL /\ ~ req[r].timed
  BY DEF TableInit, FreeChunk
<1>2. Allocated = {}
  BY <1>1 DEF Allocated
<1>3. ChainsLinked
  BY <1>2, EmptyChains DEF TableInit
<1>4. TimersFit
  BY <1>1, <1>2 DEF TimersFit
<1>5. Counted
  <2>1. 0 \in 0..COUNTOF_reqs
    BY ReqTableAssumption
  <2>2. active = FALSE /\ req_count = 0 /\ Cardinality(Allocated) = 0
    BY <1>2, FS_EmptySet DEF TableInit
  <2> QED
    BY <1>2, <2>1, <2>2, Zenon DEF Counted
<1> QED
  BY <1>2, <1>3, <1>4, <1>5 DEF SoundTable

(* The chunks are left alone.                                              *)
LEMMA Untouched ==
  ASSUME UNCHANGED req PROVE \A q \in Chunks : SameRequest(q) /\ SamePointers(q)
  BY DEF SameRequest, SamePointers

(* The timer event is removed before a request is freed.                   *)
LEMMA Untimed ==
  ASSUME PointersTyped, NEW r \in Chunks
  PROVE  /\ remove_tmr_tmout(req[r]) \in Request /\ ~ remove_tmr_tmout(req[r]).timed
         /\ [req[r] EXCEPT !.timed = FALSE] \in Request
         /\ ~ [req[r] EXCEPT !.timed = FALSE].timed
<1>1. req[r] \in Request
  BY DEF PointersTyped
<1> QED
  BY <1>1 DEF remove_tmr_tmout, Request

-----------------------------------------------------------------------------
(* Requests and the tasks that wait for them.                              *)

(* Requests are for different tasks, and these are the ones that wait.     *)
OneEach(waits) ==
  /\ \A r \in Allocated : req[r].ctx \in waits
  /\ \A t \in waits : \E r \in Allocated : req[r].ctx = t
  /\ \A r, q \in Allocated : req[r].ctx = req[q].ctx => r = q

(* As many requests are pending as tasks wait.                             *)
LEMMA OneEachMeans ==
  ASSUME PointersTyped, SoundTable, NEW waits, OneEach(waits)
  PROVE  /\ OneRequestPerWaiter(waits)
         /\ Cardinality(Allocated) = Cardinality(waits)
<1>1. Pending = Allocated
  BY PendingIsAllocated
<1> DEFINE f == [r \in Allocated |-> req[r].ctx]
<1>2. f \in Bijection(Allocated, waits)
  <2>1. f \in [Allocated -> waits]
    BY DEF OneEach
  <2>2. \A r, q \in Allocated : f[r] = f[q] => r = q
    BY DEF OneEach
  <2>3. \A t \in waits : \E r \in Allocated : f[r] = t
    BY DEF OneEach
  <2> HIDE DEF f
  <2> QED
    BY <2>1, <2>2, <2>3 DEF Bijection, Injection, Surjection, IsInjective
<1>3. ExistsBijection(Allocated, waits)
  BY <1>2 DEF ExistsBijection
<1>4. Cardinality(waits) = Cardinality(Allocated)
  BY <1>3, AllocatedFinite, FS_Bijection
<1>5. {req[r].ctx : r \in Allocated} = waits
  BY DEF OneEach
<1> QED
  BY <1>1, <1>4, <1>5 DEF OneRequestPerWaiter

(* A new request for a task that did not wait.                             *)
LEMMA LinkOneEach ==
  ASSUME NEW before, NEW after, OneEach(before), NEW r \in Chunks \ Allocated,
         NEW request, LinkEffect(r, request),
         Allocated' = Allocated \union {r},
         request.ctx \notin before, after = before \union {request.ctx}
  PROVE  OneEach(after)'
<1>1. req'[r].ctx = request.ctx
  BY DEF LinkEffect
<1>2. \A q \in Allocated : q # r /\ req'[q].ctx = req[q].ctx
  BY DEF LinkEffect, SameRequest, Allocated
<1>3. \A q \in Allocated' : req'[q].ctx \in after
  BY <1>1, <1>2 DEF OneEach
<1>4. \A t \in after : \E q \in Allocated' : req'[q].ctx = t
  BY <1>1, <1>2 DEF OneEach
<1>5. \A p, q \in Allocated' : req'[p].ctx = req'[q].ctx => p = q
  BY <1>1, <1>2 DEF OneEach
<1> QED
  BY <1>3, <1>4, <1>5 DEF OneEach

(* A request that goes, and its task waits no more.                        *)
LEMMA UnlinkOneEach ==
  ASSUME NEW before, NEW after, OneEach(before), NEW r \in Allocated, NEW x,
         UnlinkEffect(r, x), Allocated' = Allocated \ {r},
         after = before \ {req[r].ctx}
  PROVE  OneEach(after)'
<1>1. \A q \in Allocated' : q \in Allocated /\ q # r /\ req'[q].ctx = req[q].ctx
  BY DEF UnlinkEffect, SameRequest, Allocated
<1>2. \A q \in Allocated' : req'[q].ctx \in after
  BY <1>1 DEF OneEach
<1>3. \A t \in after : \E q \in Allocated' : req'[q].ctx = t
  BY <1>1 DEF OneEach
<1>4. \A p, q \in Allocated' : req'[p].ctx = req'[q].ctx => p = q
  BY <1>1 DEF OneEach
<1> QED
  BY <1>2, <1>3, <1>4 DEF OneEach

(* No request changes, and nobody begins or ends to wait.                  *)
LEMMA SameOneEach ==
  ASSUME NEW waits, OneEach(waits), \A q \in Chunks : SameRequest(q)
  PROVE  OneEach(waits)'
<1>1. Allocated' = Allocated
  BY DEF Allocated, SameRequest
<1>2. \A q \in Allocated : req'[q].ctx = req[q].ctx
  BY DEF Allocated, SameRequest
<1> QED
  BY <1>1, <1>2 DEF OneEach

(* No requests, and nobody waits.                                          *)
LEMMA NoneEach == ASSUME Allocated' = {} PROVE OneEach({})'
  BY DEF OneEach
=============================================================================
