------------------------------ MODULE XmaProofs ------------------------------
(***************************************************************************)
(* Proofs about the allocator, for every size of the zone, every alignment *)
(* and number of fixed chains, and every set of requests:                  *)
(*   - TilesTheZone, ChainsHold, SearchComplete: the three invariants;     *)
(*   - Refinement: the allocator implements Allocator.                     *)
(*                                                                         *)
(* A handler of the code passes through states in which a free block is    *)
(* on no chain, the block behind a resized one holds a stale prev_size, or *)
(* two free blocks are neighbours.  Mid(x, S, T, F) says that the zone x   *)
(* is sound but for this: the blocks behind S need not know the size in    *)
(* front of them, the blocks of T may have free neighbours, and the chains *)
(* hold the blocks of F.  The counters are followed as debts (AllocDue,    *)
(* AvailDue, NusedDue, NfreeDue): counter minus what it should be.         *)
(* Good(x) is Mid with no exemption and nothing due.  Each helper of Xma   *)
(* is proved to lead from Mid to Mid, each operation from Good to Good,    *)
(* and the inductive invariant IInv adds that every user's request lies    *)
(* within its block.                                                       *)
(*                                                                         *)
(* The sums of sizes are the library's recursive sum; that it exists and   *)
(* may be taken in any order is proved by induction over the size of the   *)
(* set, written without an operator parameter (SumExists, AnyFirst).       *)
(***************************************************************************)
EXTENDS Xma, FiniteSetTheorems, NaturalsInduction, WellFoundedInduction, TLAPS

-----------------------------------------------------------------------------
(* Sizes and their classes.                                                *)

(* A power of two is as many as there are sets of bits.                    *)
LEMMA PowerIsNat == ASSUME NEW n \in Nat PROVE 2^n \in Nat
<1>1. IsFiniteSet(1..n) /\ Cardinality(1..n) = n
  BY FS_Interval
<1>2. Cardinality(SUBSET (1..n)) = 2^n /\ IsFiniteSet(SUBSET (1..n))
  BY <1>1, FS_SUBSET
<1> QED
  BY <1>2, FS_CardinalityType

(* A positive power of two is at least two.                                 *)
LEMMA PowerIsTwo == ASSUME NEW n \in Nat \ {0} PROVE 2 <= 2^n
<1>1. IsFiniteSet(1..n) /\ Cardinality(1..n) = n
  BY FS_Interval
<1>2. Cardinality(SUBSET (1..n)) = 2^n /\ IsFiniteSet(SUBSET (1..n))
  BY <1>1, FS_SUBSET
<1>3. {{}, {1}} \subseteq SUBSET (1..n)
  OBVIOUS
<1>4. Cardinality({{}, {1}}) = 2
  <2>1. {{}, {1}} = {{}} \union {{1}} /\ {1} \notin {{}}
    OBVIOUS
  <2>2. IsFiniteSet({{}}) /\ Cardinality({{}}) = 1
    BY FS_Singleton
  <2>3. Cardinality({{}} \union {{1}}) = Cardinality({{}}) + 1
    BY <2>1, <2>2, FS_AddElement, Zenon
  <2> QED
    BY <2>1, <2>2, <2>3
<1>5. Cardinality({{}, {1}}) <= Cardinality(SUBSET (1..n))
  BY <1>2, <1>3, FS_Subset
<1> QED
  BY <1>2, <1>4, <1>5

(* What is used of the constants.                                          *)
LEMMA Constants ==
  /\ SIZE_BITS \in Nat \ {0} /\ ALIGN \in Nat /\ ALIGN >= 2 /\ FIXED \in Nat \ {0}
  /\ 2^SIZE_BITS \in Nat /\ ALIGN < 2^SIZE_BITS
<1>1. SIZE_BITS \in Nat
  BY XmaAssumption
<1>2. PICK i \in 1..SIZE_BITS : ALIGN = 2^i
  BY XmaAssumption
<1>3. PICK j \in 0..SIZE_BITS : FIXED = 2^j
  BY XmaAssumption
<1>4. ALIGN \in Nat /\ ALIGN >= 2
  BY <1>1, <1>2, PowerIsNat, PowerIsTwo
<1>5. FIXED \in Nat \ {0}
  <2>1. FIXED \in Nat
    BY <1>1, <1>3, PowerIsNat
  <2>2. CASE j = 0
    BY <1>3, <2>2
  <2>3. CASE j # 0
    <3>1. j \in Nat \ {0}
      BY <1>1, <2>3
    <3> QED
      BY <1>3, <2>1, <3>1, PowerIsTwo
  <2> QED
    BY <2>2, <2>3
<1> QED
  BY <1>1, <1>2, <1>4, <1>5, PowerIsNat, XmaAssumption

(* A non-empty set of natural numbers has a least member.                  *)
LEMMA LeastExists ==
  ASSUME NEW S \in SUBSET Nat, S # {}
  PROVE  Min(S) \in S /\ \A k \in S : Min(S) <= k
<1>1. PICK m \in S : \A y \in S : ~ (<<y, m>> \in OpToRel(<, Nat))
  BY NatLessThanWellFounded, WFMin
<1>2. \A y \in S : ~ (y < m)
  BY <1>1 DEF OpToRel
<1>3. m \in S /\ \A k \in S : m <= k
  BY <1>2
<1> QED
  BY <1>3 DEF Min

(* The sizes a block can have.                                             *)
Sizes == {n \in Nat : ALIGN <= n /\ n < 2^SIZE_BITS}

(* szlog2 is the position of the highest bit: the first k with n < 2^(k+1). *)
LEMMA Log ==
  ASSUME NEW n \in Nat, n < 2^SIZE_BITS
  PROVE  /\ szlog2(n) \in Nat /\ szlog2(n) < SIZE_BITS
         /\ n < 2^(szlog2(n) + 1)
         /\ \A k \in 0..SIZE_BITS : n < 2^(k + 1) => szlog2(n) <= k
         /\ n >= 2 => szlog2(n) >= 1
<1> DEFINE S == {k \in 0..SIZE_BITS : n < 2^(k + 1)}
<1>1. SIZE_BITS - 1 \in S
  <2>1. SIZE_BITS - 1 \in 0..SIZE_BITS /\ (SIZE_BITS - 1) + 1 = SIZE_BITS
    BY Constants
  <2> QED
    BY <2>1
<1>2. S \in SUBSET Nat
  BY Constants
<1>3. Min(S) \in S /\ \A k \in S : Min(S) <= k
  BY <1>1, <1>2, LeastExists
<1>4. szlog2(n) = Min(S)
  BY DEF szlog2
<1>5. szlog2(n) \in S /\ \A k \in S : szlog2(n) <= k
  BY <1>3, <1>4
<1>6. szlog2(n) \in 0..SIZE_BITS /\ n < 2^(szlog2(n) + 1)
  BY <1>5
<1>7. \A k \in 0..SIZE_BITS : n < 2^(k + 1) => szlog2(n) <= k
  BY <1>5
<1>8. szlog2(n) <= SIZE_BITS - 1
  BY <1>1, <1>5
<1>9. ASSUME n >= 2 PROVE szlog2(n) # 0
  <2> SUFFICES ASSUME szlog2(n) = 0 PROVE FALSE
    OBVIOUS
  <2>1. szlog2(n) + 1 = 1
    OBVIOUS
  <2>2. n < 2^1
    BY <1>6, <2>1, Zenon
  <2>3. 2^1 = 2
    OBVIOUS
  <2>4. n < 2
    BY <2>2, <2>3, Zenon
  <2> QED
    BY <1>9, <2>4
<1> QED
  BY <1>6, <1>7, <1>8, <1>9, Constants

(* A larger size has no lower highest bit.                                  *)
LEMMA LogMonotone ==
  ASSUME NEW m \in Nat, NEW n \in Nat, m <= n, n < 2^SIZE_BITS
  PROVE  szlog2(m) <= szlog2(n)
<1>1. szlog2(n) \in Nat /\ szlog2(n) < SIZE_BITS /\ n < 2^(szlog2(n) + 1)
  BY Log
<1>2. 2^SIZE_BITS \in Nat /\ 2^(szlog2(n) + 1) \in Nat
  BY <1>1, Constants, PowerIsNat
<1>3. m < 2^SIZE_BITS /\ m < 2^(szlog2(n) + 1)
  BY <1>1, <1>2
<1>4. szlog2(n) \in 0..SIZE_BITS
  BY <1>1, Constants
<1> QED
  BY <1>3, <1>4, Log

(* Rounding up reaches a multiple that is large enough and not far away.   *)
LEMMA AlignToIs ==
  ASSUME NEW n \in Nat
  PROVE  /\ AlignTo(n) \in Nat /\ n <= AlignTo(n) /\ AlignTo(n) < n + ALIGN
         /\ \E q \in Nat : AlignTo(n) = q * ALIGN
<1>1. ALIGN \in Nat \ {0}
  BY Constants
<1>2. PICK m \in Nat : m = n + ALIGN - 1
  BY <1>1
<1>3. PICK q \in Nat : q = m \div ALIGN
  BY <1>1
<1>4. q * ALIGN <= m /\ m < q * ALIGN + ALIGN /\ q * ALIGN \in Nat
  BY <1>1, <1>3
<1>5. AlignTo(n) = q * ALIGN
  BY <1>2, <1>3 DEF AlignTo
<1>6. PICK p \in Nat : p = q * ALIGN
  BY <1>4
<1> QED
  BY <1>1, <1>2, <1>4, <1>5, <1>6

(* A request, rounded up, is a size, and a multiple of ALIGN.              *)
LEMMA RoundUpIs ==
  ASSUME NEW n \in Requests
  PROVE  /\ n \in Nat /\ RoundUp(n) \in Sizes /\ n <= RoundUp(n)
         /\ \E q \in Nat : RoundUp(n) = q * ALIGN
<1>1. 2^SIZE_BITS \in Nat /\ ALIGN \in Nat /\ ALIGN >= 2 /\ ALIGN < 2^SIZE_BITS
  BY Constants
<1>2. n \in 0..(2^SIZE_BITS - ALIGN)
  BY XmaAssumption
<1>3. PICK m \in Nat : m = Max2(n, MINALLOCSIZE)
  BY <1>1, <1>2 DEF Max2, MINALLOCSIZE
<1>4. n <= m /\ ALIGN <= m /\ (m = n \/ m = ALIGN)
  BY <1>1, <1>2, <1>3 DEF Max2, MINALLOCSIZE
<1>5. RoundUp(n) = AlignTo(m)
  BY <1>3 DEF RoundUp
<1>6. /\ AlignTo(m) \in Nat /\ m <= AlignTo(m) /\ AlignTo(m) < m + ALIGN
      /\ \E q \in Nat : AlignTo(m) = q * ALIGN
  BY AlignToIs
<1>7. AlignTo(m) < 2^SIZE_BITS
  <2>1. CASE m = n
    BY <1>1, <1>2, <1>6, <2>1
  <2>2. CASE m = ALIGN
    <3>1. AlignTo(m) = ALIGN
      <4>1. PICK q \in Nat : AlignTo(m) = q * ALIGN
        BY <1>6
      <4>2. q * ALIGN < 2 * ALIGN /\ ALIGN <= q * ALIGN
        BY <1>1, <1>6, <2>2, <4>1
      <4>3. q < 2 /\ q > 0
        BY <1>1, <4>2
      <4> QED
        BY <1>1, <4>1, <4>3
    <3> QED
      BY <1>1, <3>1
  <2> QED
    BY <1>4, <2>1, <2>2
<1> QED
  BY <1>1, <1>2, <1>4, <1>5, <1>6, <1>7 DEF Sizes

(* Division is monotone.                                                   *)
LEMMA DivMonotone ==
  ASSUME NEW m \in Nat, NEW n \in Nat, m <= n
  PROVE  /\ m \div ALIGN \in Nat /\ n \div ALIGN \in Nat
         /\ m \div ALIGN <= n \div ALIGN
<1>1. ALIGN \in Nat \ {0}
  BY Constants
<1>2. PICK p \in Nat, q \in Nat : p = m \div ALIGN /\ q = n \div ALIGN
  BY <1>1
<1>3. p * ALIGN <= m /\ n < (q + 1) * ALIGN
  BY <1>1, <1>2
<1>4. p * ALIGN < (q + 1) * ALIGN
  <2>1. p * ALIGN \in Int /\ (q + 1) * ALIGN \in Int
    BY <1>1
  <2> QED
    BY <1>3, <2>1
<1>5. p < q + 1
  BY <1>1, <1>4
<1> QED
  BY <1>2, <1>5

Small(n) == (n \div ALIGN) - 1 < FIXED

(* The class of a size, small or large.  The last two classes are never    *)
(* used.                                                                   *)
LEMMA Class ==
  ASSUME NEW n \in Sizes
  PROVE  /\ getxfi(n) \in 0..(XFIMAX - 2)
         /\ Small(n) => getxfi(n) = (n \div ALIGN) - 1 /\ getxfi(n) < FIXED
         /\ ~ Small(n) => /\ getxfi(n) = szlog2(n) - szlog2(FIXED * ALIGN) + FIXED
                          /\ getxfi(n) >= FIXED
<1>1. /\ SIZE_BITS \in Nat \ {0} /\ ALIGN \in Nat /\ ALIGN >= 2 /\ FIXED \in Nat \ {0}
      /\ 2^SIZE_BITS \in Nat
  BY Constants
<1>2. n \in Nat /\ ALIGN <= n /\ n < 2^SIZE_BITS
  BY DEF Sizes
<1>3. PICK q \in Nat : q = n \div ALIGN
  BY <1>1, <1>2
<1>4. q * ALIGN <= n /\ n < (q + 1) * ALIGN
  BY <1>1, <1>2, <1>3
<1>5. q >= 1
  <2> SUFFICES ASSUME q = 0 PROVE FALSE
    OBVIOUS
  <2> QED
    BY <1>1, <1>2, <1>4
<1>6. ASSUME Small(n)
      PROVE  /\ getxfi(n) = q - 1 /\ getxfi(n) < FIXED
             /\ getxfi(n) \in 0..(XFIMAX - 2)
  BY <1>1, <1>3, <1>5, <1>6 DEF Small, getxfi, XFIMAX
<1>7. ASSUME ~ Small(n)
      PROVE  /\ getxfi(n) = szlog2(n) - szlog2(FIXED * ALIGN) + FIXED
             /\ getxfi(n) >= FIXED
             /\ getxfi(n) \in 0..(XFIMAX - 2)
  <2>1. q - 1 >= FIXED
    BY <1>1, <1>3, <1>7 DEF Small
  <2>2. PICK f \in Nat : f = FIXED * ALIGN
    BY <1>1
  <2>3. FIXED * ALIGN <= q * ALIGN
    BY <1>1, <2>1
  <2>4. f <= n
    BY <1>1, <1>2, <1>4, <2>2, <2>3
  <2>5. f >= 2
    BY <1>1, <2>2
  <2>6. f < 2^SIZE_BITS
    BY <1>1, <1>2, <2>4
  <2>7. szlog2(f) \in Nat /\ szlog2(f) >= 1
    BY <2>5, <2>6, Log
  <2>8. szlog2(n) \in Nat /\ szlog2(n) < SIZE_BITS
    BY <1>2, Log
  <2>9. szlog2(f) <= szlog2(n)
    BY <1>2, <2>4, LogMonotone
  <2> DEFINE class == szlog2(n) - szlog2(f) + FIXED
  <2>10. class >= FIXED /\ class \in 0..(XFIMAX - 2)
    BY <1>1, <2>7, <2>8, <2>9 DEF XFIMAX
  <2>11. XFIMAX \in Nat
    BY <1>1 DEF XFIMAX
  <2>12. getxfi(n) = IF class > XFIMAX THEN XFIMAX ELSE class
    BY <1>1, <1>3, <2>1, <2>2 DEF getxfi
  <2> HIDE DEF class
  <2>13. getxfi(n) = class
    BY <2>10, <2>11, <2>12
  <2> QED
    BY <2>2, <2>10, <2>13 DEF class
<1>8. XFIMAX \in Nat
  BY <1>1 DEF XFIMAX
<1> QED
  BY <1>1, <1>3, <1>6, <1>7, <1>8

(* A larger size is of no lower class.                                     *)
LEMMA ClassMonotone ==
  ASSUME NEW m \in Sizes, NEW n \in Sizes, m <= n
  PROVE  getxfi(m) <= getxfi(n)
<1>1. m \in Nat /\ n \in Nat /\ n < 2^SIZE_BITS /\ m < 2^SIZE_BITS
  BY DEF Sizes
<1>2. /\ m \div ALIGN \in Nat /\ n \div ALIGN \in Nat
      /\ m \div ALIGN <= n \div ALIGN
  BY <1>1, DivMonotone
<1>3. FIXED \in Nat /\ XFIMAX \in Nat
  BY Constants DEF XFIMAX
<1>4. getxfi(m) \in Int /\ getxfi(n) \in Int
  BY Class, <1>3
<1>5. CASE Small(n)
  <2>1. Small(m)
    BY <1>2, <1>3, <1>5 DEF Small
  <2> QED
    BY <1>2, <1>5, <2>1, Class
<1>6. CASE ~ Small(n) /\ Small(m)
  BY <1>3, <1>4, <1>6, Class
<1>7. CASE ~ Small(n) /\ ~ Small(m)
  <2>1. szlog2(m) <= szlog2(n) /\ szlog2(m) \in Nat /\ szlog2(n) \in Nat
    BY <1>1, LogMonotone, Log
  <2>2. PICK d : d = szlog2(FIXED * ALIGN)
    OBVIOUS
  <2>3. getxfi(m) = szlog2(m) - d + FIXED /\ getxfi(n) = szlog2(n) - d + FIXED
    BY <1>7, <2>2, Class
  <2>4. d \in Int
    <3>1. PICK f \in Nat : f = FIXED * ALIGN
      BY Constants
    <3>2. f <= n
      <4>1. PICK q \in Nat : q = n \div ALIGN
        BY <1>2
      <4>2. q * ALIGN <= n
        BY <1>1, <4>1, Constants
      <4>3. FIXED <= q
        BY <1>3, <1>7, <4>1 DEF Small
      <4>4. FIXED * ALIGN <= q * ALIGN
        BY <1>3, <4>3, Constants
      <4>5. q * ALIGN \in Nat
        BY Constants
      <4> QED
        BY <1>1, <3>1, <4>2, <4>4, <4>5
    <3>3. f < 2^SIZE_BITS
      BY <1>1, <3>2, Constants
    <3> QED
      BY <2>2, <3>1, <3>3, Log
  <2> QED
    BY <1>3, <2>1, <2>3, <2>4
<1> QED
  BY <1>5, <1>6, <1>7

(* A block of the class of a small request is large enough for it.         *)
LEMMA SmallFits ==
  ASSUME NEW m \in Sizes, NEW n \in Sizes, NEW q \in Nat, m = q * ALIGN,
         getxfi(m) < FIXED, getxfi(m) = getxfi(n)
  PROVE  m <= n
<1>1. FIXED \in Nat /\ ALIGN \in Nat \ {0} /\ m \in Nat /\ n \in Nat
  BY Constants DEF Sizes
<1>2. getxfi(m) \in Int /\ getxfi(n) \in Int
  BY Class, Constants DEF XFIMAX
<1>3. Small(m) /\ Small(n)
  BY <1>1, <1>2, Class
<1>4. PICK p \in Nat : p = n \div ALIGN
  BY <1>1
<1>5. PICK r \in Nat : r = m \div ALIGN
  BY <1>1
<1>6. p = r
  BY <1>3, <1>4, <1>5, Class
<1>7. r * ALIGN <= m /\ m < (r + 1) * ALIGN
  BY <1>1, <1>5
<1>8. q < r + 1
  <2>1. q * ALIGN < (r + 1) * ALIGN
    BY <1>7
  <2> QED
    BY <1>1, <2>1
<1>9. q * ALIGN <= r * ALIGN
  BY <1>1, <1>8
<1>10. r * ALIGN <= n
  BY <1>1, <1>4, <1>6
<1>11. r * ALIGN \in Nat /\ q * ALIGN \in Nat
  BY <1>1
<1> QED
  BY <1>1, <1>9, <1>10, <1>11

-----------------------------------------------------------------------------
(* What the operations do to the headers.                                  *)

Blocks(x) == DOMAIN x.blk

Header ==
  [prev_size : Nat, free : BOOLEAN, size : Nat, free_prev : Int, free_next : Int]

Stat == [alloc : Int, avail : Int, nused : Int, nfree : Int]

IsRecord(x) == x = [end |-> x.end, blk |-> x.blk, xfree |-> x.xfree, stat |-> x.stat]

Typed(x) ==
  /\ IsRecord(x)
  /\ x.end \in Nat
  /\ Blocks(x) \subseteq Nat
  /\ x.blk \in [Blocks(x) -> Header]
  /\ x.xfree \in [0..XFIMAX -> Int]
  /\ x.stat \in Stat

SameBlock(x, y, a) ==
  /\ y.blk[a].size = x.blk[a].size
  /\ y.blk[a].free = x.blk[a].free
  /\ y.blk[a].prev_size = x.blk[a].prev_size

SameLinks(x, y, a) ==
  /\ y.blk[a].free_prev = x.blk[a].free_prev
  /\ y.blk[a].free_next = x.blk[a].free_next

(* Only links, and heads of chains, are different.                         *)
SameTiling(x, y) ==
  /\ Typed(y) /\ y.end = x.end /\ y.stat = x.stat /\ Blocks(y) = Blocks(x)
  /\ \A a \in Blocks(x) : SameBlock(x, y, a)

DetachEffect(x, b, y) ==
  LET p == x.blk[b].free_prev
      n == x.blk[b].free_next
  IN  /\ SameTiling(x, y)
      /\ y.xfree = IF p = NULL THEN [x.xfree EXCEPT ![getxfi(x.blk[b].size)] = n]
                   ELSE x.xfree
      /\ \A a \in Blocks(x) :
           /\ y.blk[a].free_next = IF a = p THEN n ELSE x.blk[a].free_next
           /\ y.blk[a].free_prev = IF a # p /\ a = n THEN p ELSE x.blk[a].free_prev

(* Replacing the blocks leaves the other three parts of the zone.           *)
LEMMA WithBlk ==
  ASSUME NEW x, IsRecord(x), NEW blk
  PROVE  [x EXCEPT !.blk = blk] =
           [end |-> x.end, blk |-> blk, xfree |-> x.xfree, stat |-> x.stat]
  BY DEF IsRecord

(* Replacing blocks and chain heads leaves the end and the counters.        *)
LEMMA WithXfreeBlk ==
  ASSUME NEW x, IsRecord(x), NEW blk, NEW xfree
  PROVE  [x EXCEPT !.xfree = xfree, !.blk = blk] =
           [end |-> x.end, blk |-> blk, xfree |-> xfree, stat |-> x.stat]
<1>1. PICK e, b, f, s : x = [end |-> e, blk |-> b, xfree |-> f, stat |-> s]
  BY DEF IsRecord
<1>2. [x EXCEPT !.xfree = xfree] = [end |-> e, blk |-> b, xfree |-> xfree, stat |-> s]
  BY <1>1
<1>3. [x EXCEPT !.xfree = xfree, !.blk = blk] = [[x EXCEPT !.xfree = xfree] EXCEPT !.blk = blk]
  OBVIOUS
<1>4. PICK y : y = [end |-> e, blk |-> b, xfree |-> xfree, stat |-> s]
  OBVIOUS
<1>5. [y EXCEPT !.blk = blk] = [end |-> e, blk |-> blk, xfree |-> xfree, stat |-> s]
  BY <1>4
<1>6. x.end = e /\ x.stat = s
  BY <1>1
<1> QED
  BY <1>2, <1>3, <1>4, <1>5, <1>6, Zenon

(* Replacing the counters leaves the rest of the zone.                      *)
LEMMA WithStat ==
  ASSUME NEW x, IsRecord(x), NEW stat
  PROVE  [x EXCEPT !.stat = stat] =
           [end |-> x.end, blk |-> x.blk, xfree |-> x.xfree, stat |-> stat]
  BY DEF IsRecord

(* detach_from_freelist rewrites one head or two links, nothing else.       *)
LEMMA DetachDoes ==
  ASSUME NEW x, Typed(x), NEW b \in Blocks(x)
  PROVE  DetachEffect(x, b, detach_from_freelist(x, b))
<1> DEFINE p == x.blk[b].free_prev
           n == x.blk[b].free_next
           y == detach_from_freelist(x, b)
           blk == [a \in Blocks(x) |->
                    IF a = p THEN [x.blk[a] EXCEPT !.free_next = n]
                    ELSE IF a = n THEN [x.blk[a] EXCEPT !.free_prev = p]
                    ELSE x.blk[a]]
           xfree == IF p = NULL THEN [x.xfree EXCEPT ![getxfi(x.blk[b].size)] = n]
                    ELSE x.xfree
<1>1. \A a \in Blocks(x) : x.blk[a] \in Header
  BY DEF Typed
<1>2. p \in Int /\ n \in Int
  BY <1>1 DEF Header
<1>3. y = [end |-> x.end, blk |-> blk, xfree |-> xfree, stat |-> x.stat]
  <2>1. y = [x EXCEPT !.xfree = xfree, !.blk = blk]
    BY Zenon DEF detach_from_freelist, Blocks
  <2> HIDE DEF y, blk, xfree
  <2> QED
    BY <2>1, WithXfreeBlk DEF Typed
<1>4. xfree \in [0..XFIMAX -> Int]
  BY <1>2 DEF Typed
<1> HIDE DEF p, n
<1>5. \A a \in Blocks(x) : /\ blk[a] \in Header
                           /\ blk[a].size = x.blk[a].size
                           /\ blk[a].free = x.blk[a].free
                           /\ blk[a].prev_size = x.blk[a].prev_size
  BY <1>1, <1>2 DEF Header
<1>6. \A a \in Blocks(x) :
           /\ blk[a].free_next = IF a = p THEN n ELSE x.blk[a].free_next
           /\ blk[a].free_prev = IF a # p /\ a = n THEN p ELSE x.blk[a].free_prev
  BY <1>1, <1>2 DEF Header
<1>7. DOMAIN blk = Blocks(x) /\ blk \in [Blocks(x) -> Header]
  BY <1>5
<1> HIDE DEF blk, xfree, y
<1>8. /\ y.end = x.end /\ y.blk = blk /\ y.xfree = xfree /\ y.stat = x.stat
      /\ IsRecord(y)
  BY <1>3 DEF IsRecord
<1>9. SameTiling(x, y)
  BY <1>4, <1>5, <1>7, <1>8 DEF SameTiling, Typed, SameBlock, Blocks
<1>10. /\ y.xfree = xfree
       /\ \A a \in Blocks(x) :
           /\ y.blk[a].free_next = IF a = p THEN n ELSE x.blk[a].free_next
           /\ y.blk[a].free_prev = IF a # p /\ a = n THEN p ELSE x.blk[a].free_prev
  BY <1>6, <1>8
<1> QED
  BY <1>9, <1>10 DEF DetachEffect, y, xfree, p, n

AttachEffect(x, b, y) ==
  LET xfi == getxfi(x.blk[b].size)
      old == x.xfree[xfi]
  IN  /\ SameTiling(x, y)
      /\ y.xfree = [x.xfree EXCEPT ![xfi] = b]
      /\ \A a \in Blocks(x) :
           /\ y.blk[a].free_next = IF a = b THEN old ELSE x.blk[a].free_next
           /\ y.blk[a].free_prev = IF a = b THEN NULL
                                   ELSE IF a = old THEN b ELSE x.blk[a].free_prev

(* attach_to_freelist rewrites one head and two links, nothing else.        *)
LEMMA AttachDoes ==
  ASSUME NEW x, Typed(x), NEW b \in Blocks(x), x.blk[b].size \in Sizes
  PROVE  AttachEffect(x, b, attach_to_freelist(x, b))
<1> DEFINE xfi == getxfi(x.blk[b].size)
           old == x.xfree[xfi]
           y == attach_to_freelist(x, b)
           blk == [a \in Blocks(x) |->
                    IF a = b THEN [x.blk[a] EXCEPT !.free_prev = NULL, !.free_next = old]
                    ELSE IF a = old THEN [x.blk[a] EXCEPT !.free_prev = b]
                    ELSE x.blk[a]]
           xfree == [x.xfree EXCEPT ![xfi] = b]
<1>1. \A a \in Blocks(x) : x.blk[a] \in Header
  BY DEF Typed
<1>2. b \in Int /\ old \in Int /\ NULL \in Int
  <2>1. xfi \in 0..XFIMAX
    BY Class, Constants DEF XFIMAX
  <2> HIDE DEF xfi
  <2>2. old \in Int
    BY <2>1 DEF Typed
  <2>3. b \in Nat
    BY DEF Typed
  <2> QED
    BY <2>2, <2>3 DEF NULL
<1>3. y = [end |-> x.end, blk |-> blk, xfree |-> xfree, stat |-> x.stat]
  <2>1. y = [x EXCEPT !.xfree = xfree, !.blk = blk]
    BY Zenon DEF attach_to_freelist, Blocks
  <2> HIDE DEF y, blk, xfree
  <2> QED
    BY <2>1, WithXfreeBlk DEF Typed
<1>4. xfree \in [0..XFIMAX -> Int]
  BY <1>2 DEF Typed
<1> HIDE DEF old, xfi
<1>5. \A a \in Blocks(x) : /\ blk[a] \in Header
                           /\ blk[a].size = x.blk[a].size
                           /\ blk[a].free = x.blk[a].free
                           /\ blk[a].prev_size = x.blk[a].prev_size
  BY <1>1, <1>2 DEF Header
<1>6. \A a \in Blocks(x) :
           /\ blk[a].free_next = IF a = b THEN old ELSE x.blk[a].free_next
           /\ blk[a].free_prev = IF a = b THEN NULL
                                 ELSE IF a = old THEN b ELSE x.blk[a].free_prev
  BY <1>1, <1>2 DEF Header
<1>7. DOMAIN blk = Blocks(x) /\ blk \in [Blocks(x) -> Header]
  BY <1>5
<1> HIDE DEF blk, xfree, y
<1>8. /\ y.end = x.end /\ y.blk = blk /\ y.xfree = xfree /\ y.stat = x.stat
      /\ IsRecord(y)
  BY <1>3 DEF IsRecord
<1>9. SameTiling(x, y)
  BY <1>4, <1>5, <1>7, <1>8 DEF SameTiling, Typed, SameBlock, Blocks
<1>10. /\ y.xfree = xfree
       /\ \A a \in Blocks(x) :
           /\ y.blk[a].free_next = IF a = b THEN old ELSE x.blk[a].free_next
           /\ y.blk[a].free_prev = IF a = b THEN NULL
                                   ELSE IF a = old THEN b ELSE x.blk[a].free_prev
  BY <1>6, <1>8
<1> QED
  BY <1>9, <1>10 DEF AttachEffect, y, xfree, old, xfi

(* The headers are replaced, and nothing else.                             *)
Reblocked(x, y, blk) ==
  /\ Typed(y) /\ y.end = x.end /\ y.stat = x.stat /\ y.xfree = x.xfree
  /\ y.blk = blk

(* A zone whose headers are replaced by well-typed headers is well typed.   *)
LEMMA NewBlk ==
  ASSUME NEW x, Typed(x), NEW E \in SUBSET Nat, NEW blk \in [E -> Header]
  PROVE  Reblocked(x, [x EXCEPT !.blk = blk], blk)
<1> DEFINE y == [x EXCEPT !.blk = blk]
<1>1. y = [end |-> x.end, blk |-> blk, xfree |-> x.xfree, stat |-> x.stat]
  BY WithBlk DEF Typed
<1> HIDE DEF y
<1>2. /\ y.end = x.end /\ y.blk = blk /\ y.xfree = x.xfree /\ y.stat = x.stat
      /\ IsRecord(y)
  BY <1>1 DEF IsRecord
<1>3. Reblocked(x, y, blk)
  BY <1>2 DEF Reblocked, Typed, Blocks
<1> QED
  BY <1>3 DEF y

(* Nothing is different but headers.                                       *)
Beside(x, y) ==
  /\ Typed(y) /\ y.end = x.end /\ y.stat = x.stat /\ y.xfree = x.xfree

TellEffect(x, b, y) ==
  /\ Beside(x, y) /\ Blocks(y) = Blocks(x)
  /\ \A a \in Blocks(x) :
       /\ y.blk[a].size = x.blk[a].size /\ y.blk[a].free = x.blk[a].free
       /\ SameLinks(x, y, a)
       /\ y.blk[a].prev_size = IF a = next_mblk(x, b) /\ a < x.end
                               THEN x.blk[b].size ELSE x.blk[a].prev_size

(* TellNext writes the prev_size of the block behind, nothing else.         *)
LEMMA TellDoes ==
  ASSUME NEW x, Typed(x), NEW b \in Blocks(x),
         next_mblk(x, b) < x.end => next_mblk(x, b) \in Blocks(x)
  PROVE  TellEffect(x, b, TellNext(x, b))
<1> DEFINE z == next_mblk(x, b)
<1>1. \A a \in Blocks(x) : x.blk[a] \in Header
  BY DEF Typed
<1>2. x.blk[b].size \in Nat
  BY <1>1 DEF Header
<1>3. CASE z < x.end
  <2> DEFINE blk == [x.blk EXCEPT ![z].prev_size = x.blk[b].size]
             y == [x EXCEPT !.blk = blk]
  <2>1. TellNext(x, b) = y
    BY <1>3, Zenon DEF TellNext
  <2>2. z \in Blocks(x)
    BY <1>3
  <2> HIDE DEF z
  <2>3. \A a \in Blocks(x) :
          /\ blk[a] \in Header
          /\ blk[a].size = x.blk[a].size /\ blk[a].free = x.blk[a].free
          /\ blk[a].free_prev = x.blk[a].free_prev
          /\ blk[a].free_next = x.blk[a].free_next
          /\ blk[a].prev_size = IF a = z THEN x.blk[b].size ELSE x.blk[a].prev_size
    BY <1>1, <1>2, <2>2 DEF Header, Typed
  <2>4. blk \in [Blocks(x) -> Header] /\ DOMAIN blk = Blocks(x)
    BY <2>3 DEF Typed
  <2> HIDE DEF blk
  <2>5. Reblocked(x, y, blk)
    BY <2>4, NewBlk DEF Typed
  <2> HIDE DEF y
  <2>6. TellEffect(x, b, y)
    BY <1>3, <2>3, <2>4, <2>5 DEF TellEffect, Reblocked, Beside, Blocks, SameLinks, z
  <2> QED
    BY <2>1, <2>6
<1>4. CASE ~ (z < x.end)
  <2>1. TellNext(x, b) = x
    BY <1>4, Zenon DEF TellNext
  <2>2. TellEffect(x, b, x)
    BY <1>4 DEF TellEffect, Beside, SameLinks
  <2> QED
    BY <2>1, <2>2
<1> QED
  BY <1>3, <1>4

SwallowEffect(x, b, y) ==
  LET n == next_mblk(x, b)
  IN  /\ Beside(x, y) /\ Blocks(y) = Blocks(x) \ {n}
      /\ \A a \in Blocks(x) \ {n} :
           /\ y.blk[a].size = IF a = b THEN x.blk[b].size + MBLKHDRSIZE + x.blk[n].size
                              ELSE x.blk[a].size
           /\ y.blk[a].free = x.blk[a].free /\ y.blk[a].prev_size = x.blk[a].prev_size
           /\ SameLinks(x, y, a)

(* Swallow drops the header behind b and adds its bytes to b.               *)
LEMMA SwallowDoes ==
  ASSUME NEW x, Typed(x), NEW b \in Blocks(x), next_mblk(x, b) \in Blocks(x)
  PROVE  SwallowEffect(x, b, Swallow(x, b))
<1> DEFINE n == next_mblk(x, b)
           size == x.blk[b].size + MBLKHDRSIZE + x.blk[n].size
           blk == [a \in Blocks(x) \ {n} |->
                     IF a = b THEN [x.blk[a] EXCEPT !.size = size] ELSE x.blk[a]]
           y == [x EXCEPT !.blk = blk]
<1>1. \A a \in Blocks(x) : x.blk[a] \in Header
  BY DEF Typed
<1>2. size \in Nat
  BY <1>1, Constants DEF Header, MBLKHDRSIZE
<1>3. Swallow(x, b) = y
  BY Zenon DEF Swallow, Blocks
<1> HIDE DEF n, size
<1>4. \A a \in Blocks(x) \ {n} :
        /\ blk[a] \in Header
        /\ blk[a].size = IF a = b THEN size ELSE x.blk[a].size
        /\ blk[a].free = x.blk[a].free /\ blk[a].prev_size = x.blk[a].prev_size
        /\ blk[a].free_prev = x.blk[a].free_prev
        /\ blk[a].free_next = x.blk[a].free_next
  BY <1>1, <1>2 DEF Header
<1>5. blk \in [Blocks(x) \ {n} -> Header] /\ DOMAIN blk = Blocks(x) \ {n}
  BY <1>4
<1> HIDE DEF blk
<1>6. Blocks(x) \ {n} \in SUBSET Nat
  BY DEF Typed
<1>7. Reblocked(x, y, blk)
  BY <1>5, <1>6, NewBlk
<1> HIDE DEF y
<1>8. SwallowEffect(x, b, y)
  BY <1>4, <1>5, <1>7 DEF SwallowEffect, Reblocked, Beside, Blocks, SameLinks, n, size
<1> QED
  BY <1>3, <1>8

SetFreeEffect(x, b, free, y) ==
  /\ Beside(x, y) /\ Blocks(y) = Blocks(x)
  /\ \A a \in Blocks(x) :
       /\ y.blk[a].size = x.blk[a].size /\ y.blk[a].prev_size = x.blk[a].prev_size
       /\ y.blk[a].free = IF a = b THEN free ELSE x.blk[a].free
       /\ a # b => SameLinks(x, y, a)

(* SetFree writes the one bit of the one block.                             *)
LEMMA SetFreeDoes ==
  ASSUME NEW x, Typed(x), NEW b \in Blocks(x), NEW free \in BOOLEAN
  PROVE  SetFreeEffect(x, b, free, SetFree(x, b, free))
<1> DEFINE h == [x.blk[b] EXCEPT !.free = free, !.free_prev = NULL, !.free_next = NULL]
           blk == [x.blk EXCEPT ![b] = h]
           y == [x EXCEPT !.blk = blk]
<1>1. \A a \in Blocks(x) : x.blk[a] \in Header
  BY DEF Typed
<1>2. SetFree(x, b, free) = y
  BY Zenon DEF SetFree
<1>3. NULL \in Int
  BY DEF NULL
<1>4. /\ h \in Header /\ h.free = free
      /\ h.size = x.blk[b].size /\ h.prev_size = x.blk[b].prev_size
  BY <1>1, <1>3 DEF Header
<1> HIDE DEF h
<1>5. blk \in [Blocks(x) -> Header] /\ DOMAIN blk = Blocks(x)
  BY <1>4 DEF Typed
<1>6. \A a \in Blocks(x) : blk[a] = IF a = b THEN h ELSE x.blk[a]
  BY DEF Typed
<1> HIDE DEF blk
<1>7. Reblocked(x, y, blk)
  BY <1>5, NewBlk DEF Typed
<1> HIDE DEF y
<1>8. SetFreeEffect(x, b, free, y)
  BY <1>4, <1>5, <1>6, <1>7 DEF SetFreeEffect, Reblocked, Beside, Blocks, SameLinks
<1> QED
  BY <1>2, <1>8

(* SplitOff before the new block is put on its chain.                      *)
Broken(x, b, size, rest) ==
  LET y == b + MBLKHDRSIZE + size
      left == [prev_size |-> size, free |-> TRUE, size |-> rest,
               free_prev |-> NULL, free_next |-> NULL]
  IN  [x EXCEPT !.blk = [a \in DOMAIN @ \union {y} |->
                           IF a = y THEN left
                           ELSE IF a = b THEN [@[a] EXCEPT !.size = size]
                           ELSE @[a]]]

(* SplitOff breaks the block and then lists the remainder.                  *)
LEMMA SplitIs ==
  ASSUME NEW x, NEW b, NEW size, NEW rest
  PROVE  SplitOff(x, b, size, rest) =
           attach_to_freelist(Broken(x, b, size, rest), b + MBLKHDRSIZE + size)
  BY Zenon DEF SplitOff, Broken

BrokenEffect(x, b, size, rest, z) ==
  LET y == b + MBLKHDRSIZE + size
  IN  /\ Beside(x, z) /\ Blocks(z) = Blocks(x) \union {y}
      /\ \A a \in Blocks(x) :
           /\ z.blk[a].size = IF a = b THEN size ELSE x.blk[a].size
           /\ z.blk[a].free = x.blk[a].free /\ z.blk[a].prev_size = x.blk[a].prev_size
           /\ SameLinks(x, z, a)
      /\ z.blk[y].size = rest /\ z.blk[y].free = TRUE /\ z.blk[y].prev_size = size

(* Breaking a block writes its size and one new header.                     *)
LEMMA BrokenDoes ==
  ASSUME NEW x, Typed(x), NEW b \in Blocks(x), NEW size \in Nat, NEW rest \in Nat,
         b + MBLKHDRSIZE + size \notin Blocks(x)
  PROVE  BrokenEffect(x, b, size, rest, Broken(x, b, size, rest))
<1> DEFINE y == b + MBLKHDRSIZE + size
           left == [prev_size |-> size, free |-> TRUE, size |-> rest,
                    free_prev |-> NULL, free_next |-> NULL]
           blk == [a \in Blocks(x) \union {y} |->
                     IF a = y THEN left
                     ELSE IF a = b THEN [x.blk[a] EXCEPT !.size = size]
                     ELSE x.blk[a]]
           z == [x EXCEPT !.blk = blk]
<1>1. \A a \in Blocks(x) : x.blk[a] \in Header
  BY DEF Typed
<1>2. Broken(x, b, size, rest) = z
  BY Zenon DEF Broken, Blocks
<1>3. y \in Nat /\ b \in Nat
  BY Constants DEF Typed, MBLKHDRSIZE
<1>4. /\ left \in Header /\ left.size = rest /\ left.free = TRUE
      /\ left.prev_size = size
  BY DEF Header, NULL
<1>5. y \notin Blocks(x)
  OBVIOUS
<1> HIDE DEF y, left
<1>6. \A a \in Blocks(x) :
        /\ blk[a] \in Header
        /\ blk[a].size = IF a = b THEN size ELSE x.blk[a].size
        /\ blk[a].free = x.blk[a].free /\ blk[a].prev_size = x.blk[a].prev_size
        /\ blk[a].free_prev = x.blk[a].free_prev
        /\ blk[a].free_next = x.blk[a].free_next
  BY <1>1, <1>5 DEF Header
<1>7. blk[y] = left
  OBVIOUS
<1>8. blk \in [Blocks(x) \union {y} -> Header] /\ DOMAIN blk = Blocks(x) \union {y}
  BY <1>4, <1>6
<1> HIDE DEF blk
<1>9. Blocks(x) \union {y} \in SUBSET Nat
  BY <1>3 DEF Typed
<1>10. Reblocked(x, z, blk)
  BY <1>8, <1>9, NewBlk
<1> HIDE DEF z
<1>11. BrokenEffect(x, b, size, rest, z)
  BY <1>4, <1>6, <1>7, <1>8, <1>10
     DEF BrokenEffect, Reblocked, Beside, Blocks, SameLinks, y
<1> QED
  BY <1>2, <1>11

CountEffect(x, alloc, avail, nused, nfree, y) ==
  /\ Typed(y) /\ y.end = x.end /\ y.blk = x.blk /\ y.xfree = x.xfree
  /\ y.stat = [alloc |-> x.stat.alloc + alloc, avail |-> x.stat.avail + avail,
               nused |-> x.stat.nused + nused, nfree |-> x.stat.nfree + nfree]

(* Count adds to the four counters, nothing else.                           *)
LEMMA CountDoes ==
  ASSUME NEW x, Typed(x), NEW alloc \in Int, NEW avail \in Int,
         NEW nused \in Int, NEW nfree \in Int
  PROVE  CountEffect(x, alloc, avail, nused, nfree, Count(x, alloc, avail, nused, nfree))
<1> DEFINE stat == [alloc |-> x.stat.alloc + alloc, avail |-> x.stat.avail + avail,
                    nused |-> x.stat.nused + nused, nfree |-> x.stat.nfree + nfree]
           y == [x EXCEPT !.stat = stat]
<1>1. Count(x, alloc, avail, nused, nfree) = y
  BY Zenon DEF Count
<1>2. x.stat \in Stat
  BY DEF Typed
<1>3. stat \in Stat
  BY <1>2 DEF Stat
<1> HIDE DEF stat
<1>4. y = [end |-> x.end, blk |-> x.blk, xfree |-> x.xfree, stat |-> stat]
  BY WithStat DEF Typed
<1> HIDE DEF y
<1>5. /\ y.end = x.end /\ y.blk = x.blk /\ y.xfree = x.xfree /\ y.stat = stat
      /\ IsRecord(y)
  BY <1>4 DEF IsRecord
<1>6. Typed(y)
  BY <1>3, <1>5 DEF Typed, Blocks
<1> QED
  BY <1>1, <1>5, <1>6 DEF CountEffect, stat

-----------------------------------------------------------------------------
(* The tiling.                                                             *)

Tiled(x) ==
  /\ 0 \in Blocks(x)
  /\ x.end - MBLKHDRSIZE < 2^SIZE_BITS
  /\ \A a \in Blocks(x) : x.blk[a].size >= MINALLOCSIZE
  /\ \A a \in Blocks(x) :
       \/ next_mblk(x, a) = x.end
       \/ next_mblk(x, a) \in Blocks(x) /\ next_mblk(x, a) < x.end
  /\ \A a \in Blocks(x) \ {0} : \E p \in Blocks(x) : next_mblk(x, p) = a
  /\ \A a, c \in Blocks(x) : a < c => next_mblk(x, a) <= c

(* The blocks behind all but those of S know the size of the one before.   *)
Known(x, S) ==
  /\ x.blk[0].prev_size = 0
  /\ \A a \in Blocks(x) \ S :
       next_mblk(x, a) \in Blocks(x) =>
         x.blk[next_mblk(x, a)].prev_size = x.blk[a].size

(* No two neighbours, but for those of S, are free.                        *)
Apart(x, S) ==
  \A a \in Blocks(x) \ S :
    next_mblk(x, a) \in Blocks(x) \ S =>
      ~ (x.blk[a].free /\ x.blk[next_mblk(x, a)].free)

(* A block's successor lies strictly behind it, by header and size.         *)
LEMMA Ahead ==
  ASSUME NEW x, Typed(x)
  PROVE  \A a \in Blocks(x) :
           /\ a \in Nat /\ x.blk[a].size \in Nat /\ x.blk[a].free \in BOOLEAN
           /\ next_mblk(x, a) \in Nat /\ a < next_mblk(x, a)
           /\ next_mblk(x, a) = a + MBLKHDRSIZE + x.blk[a].size
<1> SUFFICES ASSUME NEW a \in Blocks(x)
             PROVE  /\ a \in Nat /\ x.blk[a].size \in Nat /\ x.blk[a].free \in BOOLEAN
                    /\ next_mblk(x, a) \in Nat /\ a < next_mblk(x, a)
                    /\ next_mblk(x, a) = a + MBLKHDRSIZE + x.blk[a].size
  OBVIOUS
<1>1. x.blk[a] \in Header /\ a \in Nat
  BY DEF Typed
<1>2. x.blk[a].size \in Nat /\ x.blk[a].free \in BOOLEAN
  BY <1>1 DEF Header
<1>3. MBLKHDRSIZE \in Nat /\ MBLKHDRSIZE > 0
  BY Constants DEF MBLKHDRSIZE
<1>4. next_mblk(x, a) = a + MBLKHDRSIZE + x.blk[a].size
  BY DEF next_mblk
<1> QED
  BY <1>1, <1>2, <1>3, <1>4

(* Blocks are before the end, and of sizes that have a class.              *)
LEMMA Inside ==
  ASSUME NEW x, Typed(x), Tiled(x), NEW a \in Blocks(x)
  PROVE  /\ next_mblk(x, a) <= x.end /\ a < x.end
         /\ x.blk[a].size \in Sizes
         /\ next_mblk(x, a) < x.end <=> next_mblk(x, a) \in Blocks(x)
<1>1. /\ a \in Nat /\ x.blk[a].size \in Nat
      /\ next_mblk(x, a) \in Nat /\ a < next_mblk(x, a)
      /\ next_mblk(x, a) = a + MBLKHDRSIZE + x.blk[a].size
  BY Ahead
<1>2. x.end \in Nat /\ ALIGN \in Nat /\ 2^SIZE_BITS \in Nat
  BY Constants DEF Typed
<1>3. \A c \in Blocks(x) : next_mblk(x, c) <= x.end
  BY <1>2, Ahead DEF Tiled
<1>4. next_mblk(x, a) <= x.end
  BY <1>3
<1>5. x.blk[a].size >= ALIGN /\ x.end - ALIGN < 2^SIZE_BITS
  BY DEF Tiled, MINALLOCSIZE, MBLKHDRSIZE
<1>6. x.blk[a].size \in Sizes
  BY <1>1, <1>2, <1>4, <1>5 DEF Sizes, MBLKHDRSIZE
<1>7. ASSUME next_mblk(x, a) \in Blocks(x) PROVE next_mblk(x, a) < x.end
  <2>1. PICK c \in Blocks(x) : c = next_mblk(x, a)
    BY <1>7
  <2>2. c < next_mblk(x, c) /\ next_mblk(x, c) <= x.end /\ next_mblk(x, c) \in Nat
    BY <1>3, Ahead
  <2> QED
    BY <1>1, <1>2, <2>1, <2>2
<1>8. next_mblk(x, a) < x.end => next_mblk(x, a) \in Blocks(x)
  BY <1>1, <1>2 DEF Tiled
<1> QED
  BY <1>1, <1>2, <1>4, <1>6, <1>7, <1>8

(* The block before another is the only one that ends there.               *)
LEMMA OneBefore ==
  ASSUME NEW x, Typed(x), Tiled(x), NEW a \in Blocks(x), NEW c \in Blocks(x),
         next_mblk(x, a) = next_mblk(x, c)
  PROVE  a = c
<1>1. /\ a \in Nat /\ c \in Nat /\ a < next_mblk(x, a) /\ c < next_mblk(x, c)
      /\ next_mblk(x, a) \in Nat
  BY Ahead
<1>2. /\ a < c => next_mblk(x, a) <= c
      /\ c < a => next_mblk(x, c) <= a
  BY DEF Tiled
<1> QED
  BY <1>1, <1>2

(* The block before, as it is found by prev_mblk.                          *)
LEMMA Before ==
  ASSUME NEW x, Typed(x), Tiled(x), Known(x, {}), NEW b \in Blocks(x)
  PROVE  /\ prev_mblk(x, b) >= 0 <=> b # 0
         /\ b # 0 => /\ prev_mblk(x, b) \in Blocks(x)
                     /\ next_mblk(x, prev_mblk(x, b)) = b
<1>1. prev_mblk(x, b) = b - (MBLKHDRSIZE + x.blk[b].prev_size)
  BY DEF prev_mblk
<1>2. MBLKHDRSIZE \in Nat /\ MBLKHDRSIZE > 0
  BY Constants DEF MBLKHDRSIZE
<1>3. CASE b = 0
  <2>1. x.blk[b].prev_size = 0
    BY <1>3 DEF Known
  <2> QED
    BY <1>1, <1>2, <1>3, <2>1
<1>4. CASE b # 0
  <2>1. PICK p \in Blocks(x) : next_mblk(x, p) = b
    BY <1>4 DEF Tiled
  <2>2. x.blk[b].prev_size = x.blk[p].size
    BY <2>1 DEF Known
  <2>3. /\ p \in Nat /\ x.blk[p].size \in Nat
        /\ next_mblk(x, p) = p + MBLKHDRSIZE + x.blk[p].size
    BY Ahead
  <2>4. prev_mblk(x, b) = p
    BY <1>1, <1>2, <2>1, <2>2, <2>3
  <2> QED
    BY <1>4, <2>1, <2>3, <2>4
<1> QED
  BY <1>3, <1>4

(* The same blocks, of the same sizes.                                     *)
SameSizes(x, y) ==
  /\ y.end = x.end /\ Blocks(y) = Blocks(x)
  /\ \A a \in Blocks(x) : y.blk[a].size = x.blk[a].size

(* Tiling only depends on where the blocks are and on their sizes.          *)
LEMMA SameTiled ==
  ASSUME NEW x, NEW y, SameSizes(x, y), Tiled(x)
  PROVE  Tiled(y) /\ \A a \in Blocks(x) : next_mblk(y, a) = next_mblk(x, a)
<1>1. \A a \in Blocks(x) : next_mblk(y, a) = next_mblk(x, a)
  BY DEF SameSizes, next_mblk
<1>2. Tiled(y)
  BY <1>1 DEF Tiled, SameSizes
<1> QED
  BY <1>1, <1>2

(* So does prev_size, while no prev_size is written.                        *)
LEMMA SameKnown ==
  ASSUME NEW x, NEW y, SameSizes(x, y), Tiled(x), NEW S, Known(x, S),
         \A a \in Blocks(x) : y.blk[a].prev_size = x.blk[a].prev_size
  PROVE  Known(y, S)
<1>1. \A a \in Blocks(x) : next_mblk(y, a) = next_mblk(x, a)
  BY SameTiled
<1>2. 0 \in Blocks(x)
  BY DEF Tiled
<1> QED
  BY <1>1, <1>2 DEF Known, SameSizes

(* No two free neighbours, while the bits outside S are not written.        *)
LEMMA SameApart ==
  ASSUME NEW x, NEW y, SameSizes(x, y), Tiled(x), NEW S, Apart(x, S),
         \A a \in Blocks(x) \ S : y.blk[a].free = x.blk[a].free
  PROVE  Apart(y, S)
<1>1. \A a \in Blocks(x) : next_mblk(y, a) = next_mblk(x, a)
  BY SameTiled
<1> QED
  BY <1>1 DEF Apart, SameSizes

(* The block behind b has been told.                                       *)
LEMMA TellKnown ==
  ASSUME NEW x, NEW b \in Blocks(x), Typed(x), Tiled(x), Known(x, {b}),
         NEW y, TellEffect(x, b, y)
  PROVE  SameSizes(x, y) /\ Known(y, {})
<1>1. SameSizes(x, y)
  BY DEF TellEffect, SameSizes, Beside
<1>2. \A a \in Blocks(x) : next_mblk(y, a) = next_mblk(x, a)
  BY <1>1, SameTiled
<1>3. y.blk[0].prev_size = 0
  <2>1. 0 \in Blocks(x) /\ b \in Nat /\ b < next_mblk(x, b) /\ next_mblk(x, b) \in Nat
    BY Ahead DEF Tiled
  <2>2. 0 # next_mblk(x, b)
    BY <2>1
  <2> QED
    BY <2>1, <2>2 DEF Known, TellEffect
<1>4. ASSUME NEW a \in Blocks(x), next_mblk(x, a) \in Blocks(x)
      PROVE  y.blk[next_mblk(x, a)].prev_size = x.blk[a].size
  <2>1. next_mblk(x, a) < x.end
    BY <1>4, Inside
  <2>2. CASE a = b
    BY <1>4, <2>1, <2>2 DEF TellEffect
  <2>3. CASE a # b
    <3>1. next_mblk(x, a) # next_mblk(x, b)
      BY <2>3, OneBefore
    <3> QED
      BY <1>4, <2>3, <3>1 DEF TellEffect, Known
  <2> QED
    BY <2>2, <2>3
<1> QED
  BY <1>1, <1>2, <1>3, <1>4 DEF Known, SameSizes

(* A block takes in the one behind it.                                     *)
LEMMA SwallowTiled ==
  ASSUME NEW x, NEW b \in Blocks(x), Typed(x), Tiled(x), next_mblk(x, b) \in Blocks(x),
         NEW y, SwallowEffect(x, b, y)
  PROVE  /\ Tiled(y) /\ b \in Blocks(y)
         /\ next_mblk(y, b) = next_mblk(x, next_mblk(x, b))
         /\ \A a \in Blocks(y) \ {b} : next_mblk(y, a) = next_mblk(x, a)
         /\ \A a \in Blocks(y) \ {b} : next_mblk(y, a) # next_mblk(x, b)
         /\ Known(x, {b}) => Known(y, {b})
         /\ Apart(x, {b}) => Apart(y, {b})
<1>1. PICK n \in Blocks(x) : n = next_mblk(x, b)
  OBVIOUS
<1>2. \A a \in Blocks(x) :
           /\ a \in Nat /\ x.blk[a].size \in Nat
           /\ next_mblk(x, a) \in Nat /\ a < next_mblk(x, a)
           /\ next_mblk(x, a) = a + MBLKHDRSIZE + x.blk[a].size
  BY Ahead
<1>3. Typed(y) /\ Blocks(y) = Blocks(x) \ {n} /\ y.end = x.end
  BY <1>1 DEF SwallowEffect, Beside
<1>4. b # n /\ b \in Blocks(y)
  BY <1>1, <1>2, <1>3
<1>5. /\ y.blk[b].size = x.blk[b].size + MBLKHDRSIZE + x.blk[n].size
      /\ \A a \in Blocks(y) \ {b} : y.blk[a].size = x.blk[a].size
  BY <1>1, <1>3, <1>4 DEF SwallowEffect
<1>6. MBLKHDRSIZE \in Nat /\ MINALLOCSIZE \in Nat
  BY Constants DEF MBLKHDRSIZE, MINALLOCSIZE
<1>7. next_mblk(y, b) = next_mblk(x, n)
  <2>1. next_mblk(y, b) = b + MBLKHDRSIZE + y.blk[b].size
    BY DEF next_mblk
  <2> QED
    BY <1>1, <1>2, <1>5, <1>6, <2>1
<1>8. \A a \in Blocks(y) \ {b} : next_mblk(y, a) = next_mblk(x, a)
  BY <1>5 DEF next_mblk
<1>9. \A a \in Blocks(y) \ {b} : next_mblk(y, a) # n
  BY <1>1, <1>3, <1>8, OneBefore
<1>10. \A a \in Blocks(x) : 
         \/ next_mblk(x, a) = x.end
         \/ next_mblk(x, a) \in Blocks(x) /\ next_mblk(x, a) < x.end
  BY DEF Tiled
<1>11. 0 \in Blocks(y) /\ x.end - MBLKHDRSIZE < 2^SIZE_BITS
  <2>1. 0 \in Blocks(x) /\ 0 # n
    BY <1>1, <1>2 DEF Tiled
  <2> QED
    BY <1>3, <2>1 DEF Tiled
<1>12. \A a \in Blocks(y) : y.blk[a].size >= MINALLOCSIZE
  <2>1. x.blk[b].size >= MINALLOCSIZE /\ \A a \in Blocks(y) : x.blk[a].size >= MINALLOCSIZE
    BY <1>3 DEF Tiled
  <2>2. y.blk[b].size >= MINALLOCSIZE
    BY <1>2, <1>5, <1>6, <2>1
  <2> QED
    BY <1>5, <2>1, <2>2
<1>13. \A a \in Blocks(y) :
         \/ next_mblk(y, a) = y.end
         \/ next_mblk(y, a) \in Blocks(y) /\ next_mblk(y, a) < y.end
  <2>1. n < next_mblk(x, n)
    BY <1>2
  <2>2. next_mblk(x, n) # n
    BY <1>2
  <2> QED
    BY <1>3, <1>7, <1>8, <1>9, <1>10, <2>2
<1>14. ASSUME NEW a \in Blocks(y) \ {0} PROVE \E p \in Blocks(y) : next_mblk(y, p) = a
  <2>1. PICK p \in Blocks(x) : next_mblk(x, p) = a
    BY <1>3 DEF Tiled
  <2>2. CASE p = n
    BY <1>4, <1>7, <2>1, <2>2
  <2>3. CASE p = b
    BY <1>1, <1>3, <2>1, <2>3
  <2>4. CASE p # n /\ p # b
    BY <1>3, <1>8, <2>1, <2>4
  <2> QED
    BY <2>2, <2>3, <2>4
<1>15. ASSUME NEW a \in Blocks(y), NEW c \in Blocks(y), a < c
       PROVE  next_mblk(y, a) <= c
  <2>1. a \in Blocks(x) /\ c \in Blocks(x) /\ c # n
    BY <1>3
  <2>2. \A d, e \in Blocks(x) : d < e => next_mblk(x, d) <= e
    BY DEF Tiled
  <2>3. CASE a # b
    BY <1>8, <1>15, <2>1, <2>2, <2>3
  <2>4. CASE a = b
    <3>1. n <= c
      BY <1>1, <1>15, <2>1, <2>2, <2>4
    <3>2. n < c
      BY <1>2, <2>1, <3>1
    <3> QED
      BY <1>7, <2>1, <2>2, <2>4, <3>2
  <2> QED
    BY <2>3, <2>4
<1>16. Tiled(y)
  BY <1>3, <1>11, <1>12, <1>13, <1>14, <1>15 DEF Tiled
<1>17. ASSUME Known(x, {b}) PROVE Known(y, {b})
  <2>1. \A a \in Blocks(y) : y.blk[a].prev_size = x.blk[a].prev_size
    BY <1>1, <1>3 DEF SwallowEffect
  <2> QED
    BY <1>3, <1>5, <1>8, <1>11, <1>17, <2>1 DEF Known
<1>18. ASSUME Apart(x, {b}) PROVE Apart(y, {b})
  <2>1. \A a \in Blocks(y) : y.blk[a].free = x.blk[a].free
    BY <1>1, <1>3 DEF SwallowEffect
  <2> QED
    BY <1>3, <1>8, <1>18, <2>1 DEF Apart
<1> QED
  BY <1>1, <1>4, <1>7, <1>8, <1>9, <1>16, <1>17, <1>18

(* Where a block can be broken there is no header yet.                     *)
LEMMA NoHeader ==
  ASSUME NEW x, NEW b \in Blocks(x), Typed(x), Tiled(x), NEW r \in Nat,
         b < r, r < next_mblk(x, b)
  PROVE  r \notin Blocks(x)
<1> SUFFICES ASSUME r \in Blocks(x) PROVE FALSE
  OBVIOUS
<1>1. next_mblk(x, b) <= r /\ next_mblk(x, b) \in Nat
  BY Ahead DEF Tiled
<1> QED
  BY <1>1

(* A block is broken into two.                                             *)
LEMMA BrokenTiled ==
  ASSUME NEW x, NEW b \in Blocks(x), Typed(x), Tiled(x),
         NEW size \in Nat, NEW rest \in Nat, size >= MINALLOCSIZE, rest >= MINALLOCSIZE,
         x.blk[b].size = size + MBLKHDRSIZE + rest,
         NEW y, BrokenEffect(x, b, size, rest, y)
  PROVE  LET r == b + MBLKHDRSIZE + size
         IN  /\ Tiled(y) /\ b \in Blocks(y) /\ r \in Blocks(y) /\ r \notin Blocks(x)
             /\ next_mblk(y, b) = r /\ next_mblk(y, r) = next_mblk(x, b)
             /\ \A a \in Blocks(x) \ {b} : next_mblk(y, a) = next_mblk(x, a)
             /\ \A a \in Blocks(x) : next_mblk(x, a) # r
             /\ Known(x, {b}) => Known(y, {r})
             /\ Apart(x, {b}) /\ (next_mblk(x, b) \in Blocks(x) => ~ x.blk[next_mblk(x, b)].free)
                  => Apart(y, {b})
<1>1. MBLKHDRSIZE \in Nat /\ MBLKHDRSIZE > 0 /\ MINALLOCSIZE \in Nat
  BY Constants DEF MBLKHDRSIZE, MINALLOCSIZE
<1>2. \A a \in Blocks(x) :
           /\ a \in Nat /\ x.blk[a].size \in Nat
           /\ next_mblk(x, a) \in Nat /\ a < next_mblk(x, a)
           /\ next_mblk(x, a) = a + MBLKHDRSIZE + x.blk[a].size
  BY Ahead
<1>3. PICK r \in Nat : r = b + MBLKHDRSIZE + size
  BY <1>1, <1>2
<1>4. PICK n \in Nat : n = next_mblk(x, b)
  BY <1>2
<1>5. b < r /\ r < n /\ n = r + MBLKHDRSIZE + rest
  BY <1>1, <1>2, <1>3, <1>4
<1>6. r \notin Blocks(x)
  BY <1>4, <1>5, NoHeader
<1>7. Typed(y) /\ y.end = x.end /\ Blocks(y) = Blocks(x) \union {r}
  BY <1>3 DEF BrokenEffect, Beside
<1>8. /\ y.blk[b].size = size /\ y.blk[r].size = rest
      /\ y.blk[r].free = TRUE /\ y.blk[r].prev_size = size
      /\ \A a \in Blocks(x) \ {b} : y.blk[a].size = x.blk[a].size
      /\ \A a \in Blocks(x) : /\ y.blk[a].free = x.blk[a].free
                              /\ y.blk[a].prev_size = x.blk[a].prev_size
  BY <1>3 DEF BrokenEffect
<1>9. next_mblk(y, b) = r /\ next_mblk(y, r) = n
  BY <1>3, <1>5, <1>8 DEF next_mblk
<1>10. \A a \in Blocks(x) \ {b} : next_mblk(y, a) = next_mblk(x, a)
  BY <1>8 DEF next_mblk
<1>11. \A a \in Blocks(x) :
         \/ next_mblk(x, a) = x.end
         \/ next_mblk(x, a) \in Blocks(x) /\ next_mblk(x, a) < x.end
  BY DEF Tiled
<1>12. \A a \in Blocks(x) : next_mblk(x, a) <= x.end
  BY <1>2, <1>11 DEF Typed
<1>13. r < x.end
  <2>1. n <= x.end /\ x.end \in Nat
    BY <1>4, <1>12 DEF Typed
  <2> QED
    BY <1>5, <2>1
<1>14. \A a \in Blocks(x) : next_mblk(x, a) # r
  BY <1>2, <1>6, <1>11, <1>13
<1>15. 0 \in Blocks(y) /\ x.end - MBLKHDRSIZE < 2^SIZE_BITS
  BY <1>7 DEF Tiled
<1>16. \A a \in Blocks(y) : y.blk[a].size >= MINALLOCSIZE
  <2>1. \A a \in Blocks(x) : x.blk[a].size >= MINALLOCSIZE
    BY DEF Tiled
  <2> QED
    BY <1>7, <1>8, <2>1
<1>17. \A a \in Blocks(y) :
         \/ next_mblk(y, a) = y.end
         \/ next_mblk(y, a) \in Blocks(y) /\ next_mblk(y, a) < y.end
  <2>1. n = x.end \/ (n \in Blocks(x) /\ n < x.end)
    BY <1>4, <1>11
  <2> QED
    BY <1>7, <1>9, <1>10, <1>11, <1>13, <2>1
<1>18. ASSUME NEW a \in Blocks(y) \ {0} PROVE \E p \in Blocks(y) : next_mblk(y, p) = a
  <2>1. CASE a = r
    BY <1>7, <1>9, <2>1
  <2>2. CASE a # r
    <3>1. PICK p \in Blocks(x) : next_mblk(x, p) = a
      BY <1>7, <2>2 DEF Tiled
    <3>2. CASE p = b
      BY <1>4, <1>7, <1>9, <3>1, <3>2
    <3>3. CASE p # b
      BY <1>7, <1>10, <3>1, <3>3
    <3> QED
      BY <3>2, <3>3
  <2> QED
    BY <2>1, <2>2
<1>19. ASSUME NEW a \in Blocks(y), NEW c \in Blocks(y), a < c
       PROVE  next_mblk(y, a) <= c
  <2>1. \A d, e \in Blocks(x) : d < e => next_mblk(x, d) <= e
    BY DEF Tiled
  <2>2. a \in Nat /\ c \in Nat /\ next_mblk(y, a) \in Nat
    BY <1>7, Ahead
  <2>3. CASE a = r
    <3>1. c \in Blocks(x)
      BY <1>7, <1>19, <2>2, <2>3
    <3>0. b \in Nat
      BY <1>2
    <3>2. b < c
      BY <1>5, <1>19, <2>2, <2>3, <3>0
    <3>3. n <= c
      BY <1>4, <2>1, <3>1, <3>2
    <3> QED
      BY <1>9, <2>3, <3>3
  <2>4. CASE a = b
    <3>1. CASE c = r
      BY <1>9, <2>2, <2>4, <3>1
    <3>2. CASE c # r
      <4>1. c \in Blocks(x) /\ n <= c
        BY <1>4, <1>7, <1>19, <2>1, <2>4, <3>2
      <4> QED
        BY <1>5, <1>9, <2>2, <2>4, <4>1
    <3> QED
      BY <3>1, <3>2
  <2>5. CASE a # r /\ a # b
    <3>1. a \in Blocks(x) \ {b} /\ next_mblk(y, a) = next_mblk(x, a)
      BY <1>7, <1>10, <2>5
    <3>2. CASE c = r
      <4>1. a < n
        BY <1>5, <1>19, <2>2, <3>2
      <4>2. a < b
        <5>0. b \in Nat
          BY <1>2
        <5> SUFFICES ASSUME b < a PROVE FALSE
          BY <2>2, <2>5, <5>0
        <5>1. n <= a
          BY <1>4, <2>1, <3>1
        <5> QED
          BY <2>2, <4>1, <5>1
      <4>3. next_mblk(x, a) <= b
        BY <2>1, <3>1, <4>2
      <4>4. b \in Nat /\ next_mblk(x, a) \in Nat
        BY <1>2, <3>1
      <4> QED
        BY <1>5, <2>2, <3>1, <3>2, <4>3, <4>4
    <3>3. CASE c # r
      BY <1>7, <1>19, <2>1, <3>1, <3>3
    <3> QED
      BY <3>2, <3>3
  <2> QED
    BY <2>3, <2>4, <2>5
<1>20. Tiled(y)
  BY <1>7, <1>15, <1>16, <1>17, <1>18, <1>19 DEF Tiled
<1>21. ASSUME Known(x, {b}) PROVE Known(y, {r})
  <2>1. y.blk[0].prev_size = 0
    BY <1>8, <1>21 DEF Known, Tiled
  <2>2. ASSUME NEW a \in Blocks(y) \ {r}, next_mblk(y, a) \in Blocks(y)
        PROVE  y.blk[next_mblk(y, a)].prev_size = y.blk[a].size
    <3>1. CASE a = b
      BY <1>8, <1>9, <3>1
    <3>2. CASE a # b
      <4>1. a \in Blocks(x) \ {b} /\ next_mblk(y, a) = next_mblk(x, a)
        BY <1>7, <1>10, <3>2
      <4>2. next_mblk(x, a) \in Blocks(x)
        BY <1>7, <1>14, <2>2, <4>1
      <4> QED
        BY <1>8, <1>21, <4>1, <4>2 DEF Known
    <3> QED
      BY <3>1, <3>2
  <2> QED
    BY <2>1, <2>2 DEF Known
<1>22. ASSUME Apart(x, {b}), n \in Blocks(x) => ~ x.blk[n].free
       PROVE  Apart(y, {b})
  <2> SUFFICES ASSUME NEW a \in Blocks(y) \ {b}, next_mblk(y, a) \in Blocks(y) \ {b}
               PROVE  ~ (y.blk[a].free /\ y.blk[next_mblk(y, a)].free)
    BY DEF Apart
  <2>1. CASE a = r
    <3>1. n \in Blocks(x)
      BY <1>5, <1>7, <1>9, <2>1
    <3> QED
      BY <1>8, <1>9, <1>22, <2>1, <3>1
  <2>2. CASE a # r
    <3>1. a \in Blocks(x) \ {b} /\ next_mblk(y, a) = next_mblk(x, a)
      BY <1>7, <1>10, <2>2
    <3>2. next_mblk(x, a) \in Blocks(x) \ {b}
      BY <1>7, <1>14, <3>1
    <3> QED
      BY <1>8, <1>22, <3>1, <3>2 DEF Apart
  <2> QED
    BY <2>1, <2>2
<1>23. b \in Blocks(y) /\ r \in Blocks(y)
  BY <1>7
<1> QED
  BY <1>3, <1>4, <1>6, <1>9, <1>10, <1>14, <1>20, <1>21, <1>22, <1>23

(* Neighbours of a are not free, and a may be.                             *)
LEMMA CloseApart ==
  ASSUME NEW x, NEW a \in Blocks(x), Apart(x, {a}),
         next_mblk(x, a) \in Blocks(x) => ~ (x.blk[a].free /\ x.blk[next_mblk(x, a)].free),
         \A c \in Blocks(x) : next_mblk(x, c) = a => ~ (x.blk[c].free /\ x.blk[a].free)
  PROVE  Apart(x, {})
  BY DEF Apart

-----------------------------------------------------------------------------
(* Chains: the sequences that the links run through.                       *)

(* The k-th member of a sequence, or NULL behind and before its ends.      *)
At(c, k) == IF k \in 1..Len(c) THEN c[k] ELSE NULL

OneToOne(c) == \A j, k \in 1..Len(c) : c[j] = c[k] => j = k

In(c, a) == \E k \in 1..Len(c) : c[k] = a

(* A sequence with another member in front.                                *)
IsPrepended(d, b, c) ==
  /\ d \in Seq(Nat) /\ OneToOne(d)
  /\ Len(d) = Len(c) + 1
  /\ d[1] = b
  /\ \A k \in 1..Len(c) : d[k + 1] = c[k]
  /\ \A a : In(d, a) <=> a = b \/ In(c, a)

(* Putting a new member in front.                                          *)
LEMMA Prepend ==
  ASSUME NEW c \in Seq(Nat), OneToOne(c), NEW b \in Nat, ~ In(c, b)
  PROVE  IsPrepended(<<b>> \o c, b, c)
<1> DEFINE d == <<b>> \o c
<1>1. /\ d \in Seq(Nat) /\ Len(d) = Len(c) + 1 /\ Len(c) \in Nat
      /\ d[1] = b /\ \A k \in 1..Len(c) : d[k + 1] = c[k]
  OBVIOUS
<1> HIDE DEF d
<1>2. ASSUME NEW k \in 2..Len(d) PROVE k - 1 \in 1..Len(c) /\ d[k] = c[k - 1]
  <2>1. k - 1 \in 1..Len(c) /\ (k - 1) + 1 = k
    BY <1>1
  <2>2. d[(k - 1) + 1] = c[k - 1]
    BY <1>1, <2>1
  <2> QED
    BY <2>1, <2>2
<1>3. \A k \in 2..Len(d) : d[k] # b
  BY <1>2 DEF In
<1>4. OneToOne(d)
  <2> SUFFICES ASSUME NEW j \in 1..Len(d), NEW k \in 1..Len(d), d[j] = d[k]
               PROVE  j = k
    BY DEF OneToOne
  <2>1. CASE j = 1 \/ k = 1
    <3>1. (j = 1 \/ j \in 2..Len(d)) /\ (k = 1 \/ k \in 2..Len(d))
      BY <1>1
    <3> QED
      BY <1>1, <1>3, <2>1, <3>1
  <2>2. CASE j # 1 /\ k # 1
    <3>1. j \in 2..Len(d) /\ k \in 2..Len(d)
      BY <1>1, <2>2
    <3>2. j - 1 \in 1..Len(c) /\ k - 1 \in 1..Len(c) /\ c[j - 1] = c[k - 1]
      BY <1>2, <3>1
    <3>3. j - 1 = k - 1
      BY <3>2 DEF OneToOne
    <3> QED
      BY <3>1, <3>3
  <2> QED
    BY <2>1, <2>2
<1>5. ASSUME NEW a PROVE In(d, a) <=> a = b \/ In(c, a)
  <2>1. ASSUME In(d, a) PROVE a = b \/ In(c, a)
    <3>1. PICK k \in 1..Len(d) : d[k] = a
      BY <2>1 DEF In
    <3>2. k = 1 \/ k \in 2..Len(d)
      BY <1>1
    <3> QED
      BY <1>1, <1>2, <3>1, <3>2 DEF In
  <2>2. ASSUME a = b PROVE In(d, a)
    <3>1. 1 \in 1..Len(d)
      BY <1>1
    <3> QED
      BY <1>1, <2>2, <3>1 DEF In
  <2>3. ASSUME In(c, a) PROVE In(d, a)
    <3>1. PICK k \in 1..Len(c) : c[k] = a
      BY <2>3 DEF In
    <3>2. k + 1 \in 1..Len(d) /\ d[k + 1] = a
      BY <1>1, <3>1
    <3> QED
      BY <3>2 DEF In
  <2> QED
    BY <2>1, <2>2, <2>3
<1>6. IsPrepended(d, b, c)
  BY <1>1, <1>4, <1>5 DEF IsPrepended
<1> QED
  BY <1>6 DEF d

(* Its members have moved by one.                                          *)
LEMMA PrependedAt ==
  ASSUME NEW c \in Seq(Nat), NEW b, NEW d, IsPrepended(d, b, c)
  PROVE  At(d, 0) = NULL /\ At(d, 1) = b /\ \A k \in Nat \ {0} : At(d, k + 1) = At(c, k)
<1>1. /\ Len(c) \in Nat /\ Len(d) = Len(c) + 1 /\ d[1] = b
      /\ \A j \in 1..Len(c) : d[j + 1] = c[j]
  BY DEF IsPrepended
<1>2. At(d, 0) = NULL /\ At(d, 1) = b
  BY <1>1 DEF At
<1>3. ASSUME NEW k \in Nat \ {0} PROVE At(d, k + 1) = At(c, k)
  <2>1. CASE k \in 1..Len(c)
    <3>1. k + 1 \in 1..Len(d)
      BY <1>1, <2>1
    <3> QED
      BY <1>1, <2>1, <3>1 DEF At
  <2>2. CASE k \notin 1..Len(c)
    <3>1. k + 1 \notin 1..Len(d)
      BY <1>1, <2>2
    <3> QED
      BY <2>2, <3>1 DEF At
  <2> QED
    BY <2>1, <2>2
<1> QED
  BY <1>2, <1>3

(* A sequence without its k-th member.                                     *)
IsCut(d, k, c) ==
  /\ d \in Seq(Nat) /\ OneToOne(d)
  /\ Len(d) = Len(c) - 1
  /\ \A j \in 1..Len(d) : d[j] = IF j < k THEN c[j] ELSE c[j + 1]
  /\ \A a : In(d, a) <=> a # c[k] /\ In(c, a)

(* There is such a sequence for every member of a chain.                   *)
LEMMA Cut ==
  ASSUME NEW c \in Seq(Nat), OneToOne(c), NEW k \in 1..Len(c)
  PROVE  \E d : IsCut(d, k, c)
<1> DEFINE d == [j \in 1..(Len(c) - 1) |-> IF j < k THEN c[j] ELSE c[j + 1]]
<1>1. Len(c) \in Nat /\ Len(c) - 1 \in Nat
  OBVIOUS
<1>2. \A j \in 1..(Len(c) - 1) : j \in 1..Len(c) /\ j + 1 \in 1..Len(c)
  BY <1>1
<1>3. d \in Seq(Nat) /\ Len(d) = Len(c) - 1
  <2>1. \A j \in 1..(Len(c) - 1) : d[j] \in Nat
    BY <1>2
  <2> QED
    BY <1>1, <2>1
<1>4. \A j \in 1..Len(d) : d[j] = IF j < k THEN c[j] ELSE c[j + 1]
  BY <1>3
<1> HIDE DEF d
<1> DEFINE s(j) == IF j < k THEN j ELSE j + 1
<1>5. ASSUME NEW j \in 1..Len(d)
      PROVE  s(j) \in 1..Len(c) /\ s(j) # k /\ d[j] = c[s(j)]
  <2>1. s(j) \in 1..Len(c) /\ s(j) # k
    BY <1>1, <1>3
  <2> QED
    BY <1>4, <2>1
<1>6. OneToOne(d)
  <2> SUFFICES ASSUME NEW i \in 1..Len(d), NEW j \in 1..Len(d), d[i] = d[j]
               PROVE  i = j
    BY DEF OneToOne
  <2>1. s(i) = s(j)
    <3> HIDE DEF s
    <3> QED
      BY <1>5 DEF OneToOne
  <2> QED
    BY <2>1
<1>7. ASSUME NEW a PROVE In(d, a) <=> a # c[k] /\ In(c, a)
  <2>1. ASSUME In(d, a) PROVE a # c[k] /\ In(c, a)
    <3>1. PICK j \in 1..Len(d) : d[j] = a
      BY <2>1 DEF In
    <3>2. s(j) \in 1..Len(c) /\ s(j) # k /\ a = c[s(j)]
      BY <1>5, <3>1
    <3> HIDE DEF s
    <3> QED
      BY <3>2 DEF In, OneToOne
  <2>2. ASSUME a # c[k], In(c, a) PROVE In(d, a)
    <3>1. PICK j \in 1..Len(c) : c[j] = a
      BY <2>2 DEF In
    <3>2. j # k
      BY <2>2, <3>1
    <3>3. CASE j < k
      <4>1. j \in 1..Len(d)
        BY <1>1, <1>3, <3>3
      <4>2. d[j] = a
        BY <1>4, <3>1, <3>3, <4>1
      <4> QED
        BY <4>1, <4>2 DEF In
    <3>4. CASE ~ (j < k)
      <4>1. j - 1 \in 1..Len(d) /\ ~ (j - 1 < k) /\ (j - 1) + 1 = j
        BY <1>1, <1>3, <3>2, <3>4
      <4>2. d[j - 1] = a
        BY <1>4, <3>1, <4>1
      <4> QED
        BY <4>1, <4>2 DEF In
    <3> QED
      BY <3>3, <3>4
  <2> QED
    BY <2>1, <2>2
<1> QED
  BY <1>3, <1>4, <1>6, <1>7 DEF IsCut

(* The members next to the cut have moved together.                        *)
LEMMA CutAt ==
  ASSUME NEW c \in Seq(Nat), NEW k \in 1..Len(c), NEW d, IsCut(d, k, c),
         NEW j \in Nat
  PROVE  At(d, j) = IF j < k THEN At(c, j) ELSE At(c, j + 1)
<1>1. /\ Len(c) \in Nat /\ Len(d) = Len(c) - 1
      /\ \A i \in 1..Len(d) : d[i] = IF i < k THEN c[i] ELSE c[i + 1]
  BY DEF IsCut
<1>2. CASE j \in 1..Len(d)
  <2>1. At(d, j) = IF j < k THEN c[j] ELSE c[j + 1]
    BY <1>1, <1>2 DEF At
  <2>2. j \in 1..Len(c) /\ j + 1 \in 1..Len(c)
    BY <1>1, <1>2
  <2> QED
    BY <2>1, <2>2 DEF At
<1>3. CASE j \notin 1..Len(d)
  <2>1. At(d, j) = NULL
    BY <1>3 DEF At
  <2>2. CASE j < k
    <3>1. j \notin 1..Len(c)
      BY <1>1, <1>3, <2>2
    <3> QED
      BY <2>1, <2>2, <3>1 DEF At
  <2>3. CASE ~ (j < k)
    <3>1. j + 1 \notin 1..Len(c)
      BY <1>1, <1>3, <2>3
    <3> QED
      BY <2>1, <2>3, <3>1 DEF At
  <2> QED
    BY <2>2, <2>3
<1> QED
  BY <1>2, <1>3

(* Members of a chain are where they are.                                  *)
LEMMA AtMember ==
  ASSUME NEW c \in Seq(Nat), OneToOne(c), NEW j \in 1..Len(c), NEW k \in Int
  PROVE  c[j] = At(c, k) <=> k = j
<1>1. c[j] \in Nat /\ c[j] # NULL
  <2>1. c[j] \in Nat
    OBVIOUS
  <2> QED
    BY <2>1 DEF NULL
<1> QED
  BY <1>1 DEF At, OneToOne

(* What is linked from a chain is in it.                                   *)
LEMMA AtIn ==
  ASSUME NEW c \in Seq(Nat), NEW k \in Int, NEW a \in Nat, a = At(c, k)
  PROVE  In(c, a)
<1>1. a # NULL
  BY DEF NULL
<1> QED
  BY <1>1 DEF At, In

(* The links of a member of a chain are to its neighbours.                 *)
LinkedAt(x, c, k) ==
  /\ x.blk[c[k]].free_next = At(c, k + 1)
  /\ x.blk[c[k]].free_prev = At(c, k - 1)

(* The links from the head of chain i on run through c, both ways.         *)
Runs(x, i, c) ==
  /\ c \in Seq(Nat) /\ OneToOne(c)
  /\ x.xfree[i] = At(c, 1)
  /\ \A k \in 1..Len(c) : LinkedAt(x, c, k)

(* Of the blocks F those of class i are in c.                              *)
Sorted(x, F, i, c) ==
  \A a : In(c, a) <=> a \in F /\ getxfi(x.blk[a].size) = i

(* The blocks F are in the chains of their classes, and no other.          *)
Listed(x, F) ==
  /\ F \subseteq Blocks(x)
  /\ \A i \in 0..XFIMAX : \E c : Runs(x, i, c) /\ Sorted(x, F, i, c)

(* Chains whose members are left alone stay.                               *)
LEMMA ListedStays ==
  ASSUME NEW x, NEW y, NEW F, Listed(x, F), y.xfree = x.xfree, F \subseteq Blocks(y),
         \A a \in F : y.blk[a].size = x.blk[a].size /\ SameLinks(x, y, a)
  PROVE  Listed(y, F)
<1> SUFFICES ASSUME NEW i \in 0..XFIMAX
             PROVE  \E c : Runs(y, i, c) /\ Sorted(y, F, i, c)
  BY DEF Listed
<1>1. PICK c : Runs(x, i, c) /\ Sorted(x, F, i, c)
  BY DEF Listed
<1>2. \A k \in 1..Len(c) : c[k] \in F
  BY <1>1 DEF Sorted, In
<1>3. Runs(y, i, c)
  BY <1>1, <1>2 DEF Runs, LinkedAt, SameLinks
<1>4. Sorted(y, F, i, c)
  BY <1>1 DEF Sorted
<1> QED
  BY <1>3, <1>4

(* The members of a chain of another class are not next to b.              *)
LEMMA OtherChain ==
  ASSUME NEW x, NEW F, NEW i, NEW c, Runs(x, i, c), Sorted(x, F, i, c),
         NEW j, j # i, NEW d, Runs(x, j, d), Sorted(x, F, j, d),
         NEW a, In(d, a)
  PROVE  ~ In(c, a) /\ \A k \in Int : a # At(c, k)
<1>1. ~ In(c, a)
  BY DEF Sorted
<1>2. a \in Nat
  BY DEF In, Runs
<1> QED
  BY <1>1, <1>2, AtIn DEF Runs

(* Taking the k-th block out of its chain.                                 *)
LEMMA CutChain ==
  ASSUME NEW x, NEW F, NEW i \in 0..XFIMAX, NEW c, Runs(x, i, c), Sorted(x, F, i, c),
         NEW k \in 1..Len(c), F \subseteq Blocks(x),
         getxfi(x.blk[c[k]].size) = i, x.xfree \in [0..XFIMAX -> Int],
         NEW y, DetachEffect(x, c[k], y),
         NEW d, IsCut(d, k, c)
  PROVE  Runs(y, i, d)
<1> DEFINE b == c[k]
<1>1. /\ c \in Seq(Nat) /\ Len(c) \in Nat /\ OneToOne(c)
      /\ x.xfree[i] = At(c, 1) /\ \A j \in 1..Len(c) : LinkedAt(x, c, j)
  BY DEF Runs
<1>2. /\ d \in Seq(Nat) /\ Len(d) = Len(c) - 1 /\ OneToOne(d)
      /\ \A j \in 1..Len(d) : d[j] = IF j < k THEN c[j] ELSE c[j + 1]
  BY DEF IsCut
<1>3. \A j \in Nat : At(d, j) = IF j < k THEN At(c, j) ELSE At(c, j + 1)
  BY <1>1, CutAt
<1>4. x.blk[b].free_next = At(c, k + 1) /\ x.blk[b].free_prev = At(c, k - 1)
  BY <1>1 DEF LinkedAt
<1>5. x.blk[b].free_prev = NULL <=> k = 1
  <2>1. CASE k = 1
    BY <1>1, <1>4, <2>1 DEF At
  <2>2. CASE k # 1
    <3>1. k - 1 \in 1..Len(c)
      BY <1>1, <2>2
    <3>2. c[k - 1] \in Nat
      BY <1>1, <3>1
    <3> QED
      BY <1>4, <2>2, <3>1, <3>2 DEF At, NULL
  <2> QED
    BY <2>1, <2>2
<1>6. y.xfree[i] = At(d, 1)
  <2>1. CASE k = 1
    <3>1. y.xfree[i] = At(c, k + 1)
      BY <1>4, <1>5, <2>1 DEF DetachEffect
    <3> QED
      BY <1>3, <2>1, <3>1
  <2>2. CASE k # 1
    <3>1. y.xfree[i] = At(c, 1)
      BY <1>1, <1>5, <2>2 DEF DetachEffect
    <3>2. 1 < k
      BY <1>1, <2>2
    <3> QED
      BY <1>3, <3>1, <3>2
  <2> QED
    BY <2>1, <2>2
<1>7. ASSUME NEW j \in 1..Len(c), j # k
      PROVE  /\ y.blk[c[j]].free_next = IF j = k - 1 THEN At(c, k + 1) ELSE At(c, j + 1)
             /\ y.blk[c[j]].free_prev = IF j = k + 1 THEN At(c, k - 1) ELSE At(c, j - 1)
  <2>1. c[j] \in Blocks(x)
    BY DEF Sorted, In
  <2>2. LinkedAt(x, c, j)
    BY <1>1
  <2>3. c[j] = At(c, k - 1) <=> k - 1 = j
    BY <1>1, AtMember
  <2>4. c[j] = At(c, k + 1) <=> k + 1 = j
    BY <1>1, AtMember
  <2>5. j = k + 1 => j # k - 1
    BY <1>1
  <2>6. /\ y.blk[c[j]].free_next = IF c[j] = At(c, k - 1) THEN At(c, k + 1)
                                   ELSE x.blk[c[j]].free_next
        /\ y.blk[c[j]].free_prev = IF c[j] # At(c, k - 1) /\ c[j] = At(c, k + 1)
                                   THEN At(c, k - 1) ELSE x.blk[c[j]].free_prev
    BY <1>4, <2>1 DEF DetachEffect
  <2> QED
    BY <2>2, <2>3, <2>4, <2>5, <2>6 DEF LinkedAt
<1>8. ASSUME NEW j \in 1..Len(d) PROVE LinkedAt(y, d, j)
  <2>1. CASE j < k
    <3>1. j \in 1..Len(c) /\ j # k /\ d[j] = c[j]
      BY <1>1, <1>2, <2>1
    <3>2. y.blk[d[j]].free_next = At(d, j + 1)
      <4>1. CASE j = k - 1
        <5>1. j + 1 = k /\ k \in Nat /\ ~ (k < k)
          BY <1>1, <4>1
        <5>2. At(d, j + 1) = At(c, k + 1)
          BY <1>3, <5>1
        <5> QED
          BY <1>7, <3>1, <4>1, <5>2
      <4>2. CASE j # k - 1
        <5>0. j \in Nat /\ k \in Nat
          BY <1>1, <3>1
        <5>1. j + 1 \in Nat /\ j + 1 < k
          BY <2>1, <4>2, <5>0
        <5>2. At(d, j + 1) = At(c, j + 1)
          BY <1>3, <5>1
        <5> QED
          BY <1>7, <3>1, <4>2, <5>2
      <4> QED
        BY <4>1, <4>2
    <3>3. y.blk[d[j]].free_prev = At(d, j - 1)
      <4>1. j - 1 \in Nat /\ j - 1 < k /\ j # k + 1
        BY <1>1, <2>1
      <4>2. At(d, j - 1) = At(c, j - 1)
        BY <1>3, <4>1
      <4> QED
        BY <1>7, <3>1, <4>1, <4>2
    <3> QED
      BY <3>2, <3>3 DEF LinkedAt
  <2>2. CASE ~ (j < k)
    <3>1. j + 1 \in 1..Len(c) /\ j + 1 # k /\ d[j] = c[j + 1]
      BY <1>1, <1>2, <2>2
    <3>2. y.blk[d[j]].free_next = At(d, j + 1)
      <4>1. j + 1 \in Nat /\ ~ (j + 1 < k) /\ j + 1 # k - 1
        BY <1>1, <2>2
      <4>2. At(d, j + 1) = At(c, (j + 1) + 1)
        BY <1>3, <4>1
      <4> QED
        BY <1>7, <3>1, <4>1, <4>2
    <3>3. y.blk[d[j]].free_prev = At(d, j - 1)
      <4>1. j - 1 \in Nat
        BY <1>1
      <4>2. CASE j = k
        <5>1. j - 1 < k /\ j + 1 = k + 1
          BY <1>1, <4>2
        <5>2. At(d, j - 1) = At(c, k - 1)
          BY <1>3, <4>1, <4>2, <5>1
        <5> QED
          BY <1>7, <3>1, <5>1, <5>2
      <4>3. CASE j # k
        <5>1. ~ (j - 1 < k) /\ j + 1 # k + 1 /\ (j - 1) + 1 = (j + 1) - 1
          BY <1>1, <2>2, <4>3
        <5>2. At(d, j - 1) = At(c, (j + 1) - 1)
          BY <1>3, <4>1, <5>1
        <5> QED
          BY <1>7, <3>1, <5>1, <5>2
      <4> QED
        BY <4>2, <4>3
    <3> QED
      BY <3>2, <3>3 DEF LinkedAt
  <2> QED
    BY <2>1, <2>2
<1> QED
  BY <1>2, <1>6, <1>8 DEF Runs

(* A block is taken off its chain.                                         *)
LEMMA DetachListed ==
  ASSUME NEW x, Typed(x), NEW F, Listed(x, F), NEW b \in F, x.blk[b].size \in Sizes,
         NEW y, DetachEffect(x, b, y)
  PROVE  Listed(y, F \ {b})
<1>1. PICK i \in 0..XFIMAX : i = getxfi(x.blk[b].size)
  BY Class, Constants DEF XFIMAX
<1>2. PICK c : Runs(x, i, c) /\ Sorted(x, F, i, c)
  BY DEF Listed
<1>3. PICK k \in 1..Len(c) : c[k] = b
  BY <1>1, <1>2 DEF Sorted, In
<1>4. /\ F \subseteq Blocks(x) /\ Blocks(y) = Blocks(x) /\ x.xfree \in [0..XFIMAX -> Int]
      /\ \A a \in Blocks(x) : y.blk[a].size = x.blk[a].size
  BY DEF Listed, DetachEffect, SameTiling, SameBlock, Typed
<1>5. c \in Seq(Nat) /\ Len(c) \in Nat /\ OneToOne(c) /\ LinkedAt(x, c, k)
  BY <1>2 DEF Runs
<1>6. PICK d : IsCut(d, k, c)
  BY <1>5, Cut
<1>7. Runs(y, i, d)
  BY <1>1, <1>2, <1>3, <1>4, <1>6, CutChain
<1>8. Sorted(y, F \ {b}, i, d)
  BY <1>2, <1>3, <1>4, <1>6 DEF Sorted, IsCut
<1>9. ASSUME NEW j \in 0..XFIMAX, j # i
      PROVE  \E e : Runs(y, j, e) /\ Sorted(y, F \ {b}, j, e)
  <2>1. PICK e : Runs(x, j, e) /\ Sorted(x, F, j, e)
    BY DEF Listed
  <2>2. y.xfree[j] = x.xfree[j]
    BY <1>1, <1>4, <1>9 DEF DetachEffect
  <2>3. ASSUME NEW m \in 1..Len(e) PROVE LinkedAt(y, e, m)
    <3>1. In(e, e[m]) /\ e[m] \in F
      BY <2>1 DEF In, Sorted
    <3>2. \A n \in Int : e[m] # At(c, n)
      BY <1>2, <1>9, <2>1, <3>1, OtherChain
    <3>3. e[m] # x.blk[b].free_prev /\ e[m] # x.blk[b].free_next
      BY <1>3, <1>5, <3>2 DEF LinkedAt
    <3>4. SameLinks(x, y, e[m])
      BY <1>4, <3>1, <3>3 DEF DetachEffect, SameLinks
    <3> QED
      BY <2>1, <3>4 DEF Runs, LinkedAt, SameLinks
  <2>4. Runs(y, j, e)
    BY <2>1, <2>2, <2>3 DEF Runs
  <2>5. Sorted(y, F \ {b}, j, e)
    BY <1>1, <1>4, <1>9, <2>1 DEF Sorted
  <2> QED
    BY <2>4, <2>5
<1> QED
  BY <1>4, <1>7, <1>8, <1>9 DEF Listed

(* Putting a block in front of a chain.                                    *)
LEMMA PrependChain ==
  ASSUME NEW x, NEW F, NEW i \in 0..XFIMAX, NEW c, Runs(x, i, c), Sorted(x, F, i, c),
         F \subseteq Blocks(x), NEW b \in Blocks(x) \ F, b \in Nat,
         getxfi(x.blk[b].size) = i, x.xfree \in [0..XFIMAX -> Int],
         NEW y, AttachEffect(x, b, y),
         NEW d, IsPrepended(d, b, c)
  PROVE  Runs(y, i, d)
<1>1. /\ c \in Seq(Nat) /\ Len(c) \in Nat /\ OneToOne(c)
      /\ x.xfree[i] = At(c, 1) /\ \A j \in 1..Len(c) : LinkedAt(x, c, j)
  BY DEF Runs
<1>2. /\ d \in Seq(Nat) /\ Len(d) = Len(c) + 1 /\ OneToOne(d)
      /\ d[1] = b /\ \A j \in 1..Len(c) : d[j + 1] = c[j]
  BY DEF IsPrepended
<1>3. At(d, 0) = NULL /\ At(d, 1) = b /\ \A j \in Nat \ {0} : At(d, j + 1) = At(c, j)
  BY <1>1, PrependedAt
<1>4. /\ y.xfree[i] = b
      /\ \A a \in Blocks(x) :
           /\ y.blk[a].free_next = IF a = b THEN At(c, 1) ELSE x.blk[a].free_next
           /\ y.blk[a].free_prev = IF a = b THEN NULL
                                   ELSE IF a = At(c, 1) THEN b ELSE x.blk[a].free_prev
  BY <1>1 DEF AttachEffect
<1>5. y.xfree[i] = At(d, 1)
  BY <1>3, <1>4
<1>6. LinkedAt(y, d, 1)
  <2>1. y.blk[d[1]].free_next = At(c, 1) /\ y.blk[d[1]].free_prev = NULL
    BY <1>2, <1>4
  <2>2. At(d, 1 + 1) = At(c, 1) /\ At(d, 1 - 1) = NULL
    BY <1>3
  <2> QED
    BY <2>1, <2>2 DEF LinkedAt
<1>7. ASSUME NEW j \in 1..Len(c) PROVE LinkedAt(y, d, j + 1)
  <2>1. d[j + 1] = c[j] /\ c[j] \in Blocks(x) /\ c[j] # b
    BY <1>2 DEF Sorted, In
  <2>2. LinkedAt(x, c, j)
    BY <1>1
  <2>3. c[j] = At(c, 1) <=> 1 = j
    BY <1>1, AtMember
  <2>4. y.blk[c[j]].free_next = At(c, j + 1)
    BY <1>4, <2>1, <2>2 DEF LinkedAt
  <2>5. At(d, (j + 1) + 1) = At(c, j + 1)
    <3>1. j + 1 \in Nat /\ j + 1 # 0
      BY <1>1
    <3> QED
      BY <1>3, <3>1
  <2>6. y.blk[c[j]].free_prev = IF j = 1 THEN b ELSE At(c, j - 1)
    BY <1>4, <2>1, <2>2, <2>3 DEF LinkedAt
  <2>7. At(d, (j + 1) - 1) = IF j = 1 THEN b ELSE At(c, j - 1)
    <3>1. (j + 1) - 1 = j
      BY <1>1
    <3>2. CASE j = 1
      BY <1>3, <3>1, <3>2
    <3>3. CASE j # 1
      <4>1. j - 1 \in Nat \ {0} /\ (j - 1) + 1 = j
        BY <1>1, <3>3
      <4> QED
        BY <1>3, <3>1, <3>3, <4>1
    <3> QED
      BY <3>2, <3>3
  <2> QED
    BY <2>1, <2>4, <2>5, <2>6, <2>7 DEF LinkedAt
<1>8. ASSUME NEW j \in 1..Len(d) PROVE LinkedAt(y, d, j)
  <2>1. CASE j = 1
    BY <1>6, <2>1
  <2>2. CASE j # 1
    <3>1. j - 1 \in 1..Len(c) /\ (j - 1) + 1 = j
      BY <1>1, <1>2, <2>2
    <3>2. LinkedAt(y, d, (j - 1) + 1)
      BY <1>7, <3>1
    <3> QED
      BY <3>1, <3>2
  <2> QED
    BY <2>1, <2>2
<1> QED
  BY <1>2, <1>5, <1>8 DEF Runs

(* A block is put on the chain of its class.                               *)
LEMMA AttachListed ==
  ASSUME NEW x, Typed(x), NEW F, Listed(x, F), NEW b \in Blocks(x) \ F,
         x.blk[b].size \in Sizes, NEW y, AttachEffect(x, b, y)
  PROVE  Listed(y, F \union {b})
<1>1. PICK i \in 0..XFIMAX : i = getxfi(x.blk[b].size)
  BY Class, Constants DEF XFIMAX
<1>2. PICK c : Runs(x, i, c) /\ Sorted(x, F, i, c)
  BY DEF Listed
<1>3. ~ In(c, b)
  BY <1>2 DEF Sorted
<1>4. /\ F \subseteq Blocks(x) /\ Blocks(y) = Blocks(x) /\ x.xfree \in [0..XFIMAX -> Int]
      /\ \A a \in Blocks(x) : y.blk[a].size = x.blk[a].size
  BY DEF Listed, AttachEffect, SameTiling, SameBlock, Typed
<1>5. c \in Seq(Nat) /\ Len(c) \in Nat /\ OneToOne(c) /\ x.xfree[i] = At(c, 1) /\ b \in Nat
  BY <1>2 DEF Runs, Typed
<1>6. PICK d : IsPrepended(d, b, c)
  BY <1>3, <1>5, Prepend
<1>7. Runs(y, i, d)
  BY <1>1, <1>2, <1>4, <1>5, <1>6, PrependChain
<1>8. Sorted(y, F \union {b}, i, d)
  BY <1>1, <1>2, <1>4, <1>6 DEF Sorted, IsPrepended
<1>9. ASSUME NEW j \in 0..XFIMAX, j # i
      PROVE  \E e : Runs(y, j, e) /\ Sorted(y, F \union {b}, j, e)
  <2>1. PICK e : Runs(x, j, e) /\ Sorted(x, F, j, e)
    BY DEF Listed
  <2>2. y.xfree[j] = x.xfree[j]
    BY <1>1, <1>4, <1>9 DEF AttachEffect
  <2>3. ASSUME NEW m \in 1..Len(e) PROVE LinkedAt(y, e, m)
    <3>1. In(e, e[m]) /\ e[m] \in F
      BY <2>1 DEF In, Sorted
    <3>2. \A n \in Int : e[m] # At(c, n)
      BY <1>2, <1>9, <2>1, <3>1, OtherChain
    <3>3. e[m] # x.xfree[i] /\ e[m] # b
      BY <1>5, <3>1, <3>2
    <3>4. SameLinks(x, y, e[m])
      BY <1>1, <1>4, <3>1, <3>3 DEF AttachEffect, SameLinks
    <3> QED
      BY <2>1, <3>4 DEF Runs, LinkedAt, SameLinks
  <2>4. Runs(y, j, e)
    BY <2>1, <2>2, <2>3 DEF Runs
  <2>5. Sorted(y, F \union {b}, j, e)
    BY <1>1, <1>4, <1>9, <2>1 DEF Sorted
  <2> QED
    BY <2>4, <2>5
<1> QED
  BY <1>4, <1>7, <1>8, <1>9 DEF Listed

-----------------------------------------------------------------------------
(* Chain finds the sequence that the links run through.                    *)

LEMMA BlocksFinite ==
  ASSUME NEW x, Typed(x), Tiled(x)
  PROVE  IsFiniteSet(Blocks(x)) /\ Cardinality(Blocks(x)) \in Nat
<1>1. x.end \in Nat
  BY DEF Typed
<1>2. Blocks(x) \subseteq 0..x.end
  <2> SUFFICES ASSUME NEW a \in Blocks(x) PROVE a \in 0..x.end
    OBVIOUS
  <2>1. a \in Nat /\ a < x.end
    BY Inside DEF Typed
  <2> QED
    BY <1>1, <2>1
<1>3. IsFiniteSet(0..x.end)
  BY <1>1, FS_Interval
<1>4. IsFiniteSet(Blocks(x))
  BY <1>2, <1>3, FS_Subset
<1> QED
  BY <1>4, FS_CardinalityType

(* What the recursive definition in Walk says of a function.               *)
WalkStep(x, f, n) ==
  [b \in Blocks(x) \union {NULL} |->
     IF n = 0 \/ b = NULL THEN <<>> ELSE <<b>> \o f[n - 1][x.blk[b].free_next]]

IsWalk(x, f, m) == f = [n \in 0..m |-> WalkStep(x, f, n)]

(* Such a function can be prolonged.                                       *)
LEMMA WalkLonger ==
  ASSUME NEW x, NEW m \in Nat, NEW f, IsWalk(x, f, m),
         NEW g, g = [n \in 0..(m + 1) |-> WalkStep(x, f, n)]
  PROVE  IsWalk(x, g, m + 1)
<1>1. ASSUME NEW n \in 0..m PROVE g[n] = f[n]
  <2>1. n \in 0..(m + 1)
    OBVIOUS
  <2>2. g[n] = WalkStep(x, f, n)
    BY <2>1
  <2>3. f[n] = WalkStep(x, f, n)
    BY DEF IsWalk
  <2> QED
    BY <2>2, <2>3
<1>2. ASSUME NEW n \in 0..(m + 1) PROVE WalkStep(x, f, n) = WalkStep(x, g, n)
  <2>1. CASE n = 0
    BY <2>1 DEF WalkStep
  <2>2. CASE n # 0
    <3>1. n - 1 \in 0..m
      BY <2>2
    <3>2. g[n - 1] = f[n - 1]
      BY <1>1, <3>1
    <3> QED
      BY <3>2 DEF WalkStep
  <2> QED
    BY <2>1, <2>2
<1> QED
  BY <1>2 DEF IsWalk

(* There is one of every length: a least length without one would not be   *)
(* 0, and could be reached from the length before.                         *)
LEMMA WalkExists == ASSUME NEW x PROVE \A m \in Nat : \E f : IsWalk(x, f, m)
<1> DEFINE T == {m \in Nat : ~ \E f : IsWalk(x, f, m)}
<1> SUFFICES ASSUME T # {} PROVE FALSE
  OBVIOUS
<1>1. PICK m \in T : \A y \in T : ~ (<<y, m>> \in OpToRel(<, Nat))
  <2>1. T \subseteq Nat
    OBVIOUS
  <2> HIDE DEF T
  <2> QED
    BY <2>1, NatLessThanWellFounded, WFMin
<1>2. m \in Nat /\ ~ \E f : IsWalk(x, f, m)
  OBVIOUS
<1>3. \A y \in T : ~ (y < m)
  BY <1>1 DEF OpToRel
<1>4. m # 0
  <2> DEFINE g == [n \in 0..0 |-> [b \in Blocks(x) \union {NULL} |-> <<>>]]
  <2>1. WalkStep(x, g, 0) = [b \in Blocks(x) \union {NULL} |-> <<>>]
    BY Zenon DEF WalkStep
  <2>2. \A n \in 0..0 : n = 0
    OBVIOUS
  <2>3. IsWalk(x, g, 0)
    BY <2>1, <2>2, Zenon DEF IsWalk
  <2> QED
    BY <1>2, <2>3
<1>5. m - 1 \in Nat /\ m - 1 < m /\ (m - 1) + 1 = m
  BY <1>2, <1>4
<1>6. PICK f : IsWalk(x, f, m - 1)
  BY <1>3, <1>5
<1> DEFINE g == [n \in 0..((m - 1) + 1) |-> WalkStep(x, f, n)]
<1>7. IsWalk(x, g, (m - 1) + 1)
  BY <1>5, <1>6, WalkLonger
<1> HIDE DEF g
<1> QED
  BY <1>2, <1>5, <1>7

(* Hence Walk is the function its definition describes.                    *)
LEMMA WalkDef ==
  ASSUME NEW x, Cardinality(Blocks(x)) \in Nat
  PROVE  IsWalk(x, Walk(x), Cardinality(Blocks(x)))
<1> DEFINE P(f) ==
      f = [n \in 0..Cardinality(DOMAIN x.blk) |->
             [b \in DOMAIN x.blk \union {NULL} |->
                IF n = 0 \/ b = NULL THEN <<>>
                ELSE <<b>> \o f[n - 1][x.blk[b].free_next]]]
<1>2. PICK g : IsWalk(x, g, Cardinality(Blocks(x)))
  BY WalkExists
<1>3. P(g)
  BY <1>2 DEF IsWalk, WalkStep, Blocks
<1>4. Walk(x) = CHOOSE f : P(f)
  BY DEF Walk
<1> HIDE DEF P
<1>5. P(CHOOSE f : P(f))
  BY <1>3
<1>6. P(Walk(x))
  BY <1>4, <1>5
<1> QED
  BY <1>6 DEF P, IsWalk, WalkStep, Blocks

(* The members of a sequence from position k on.                           *)
Rest(c, k) == SubSeq(c, k, Len(c))

(* One step of the walk: nothing behind the end, and otherwise a member in *)
(* front of the members behind it.                                         *)
LEMMA RestOf ==
  ASSUME NEW S, NEW c \in Seq(S)
  PROVE  /\ Rest(c, Len(c) + 1) = <<>>
         /\ \A i \in 1..Len(c) : Rest(c, i) = <<c[i]>> \o Rest(c, i + 1)
         /\ Rest(c, 1) = c
<1>1. Rest(c, Len(c) + 1) = <<>>
  BY DEF Rest
<1>2. ASSUME NEW i \in 1..Len(c) PROVE Rest(c, i) = <<c[i]>> \o Rest(c, i + 1)
  <2> DEFINE a == Rest(c, i)
             b == Rest(c, i + 1)
  <2>1. /\ a \in Seq(S) /\ Len(a) = Len(c) + 1 - i
        /\ \A j \in 1..Len(a) : a[j] = c[i + j - 1]
    BY DEF Rest
  <2>2. /\ b \in Seq(S) /\ Len(b) = Len(c) - i
        /\ \A j \in 1..Len(b) : b[j] = c[(i + 1) + j - 1]
    BY DEF Rest
  <2> HIDE DEF a, b
  <2>3. c[i] \in S
    OBVIOUS
  <2> DEFINE d == <<c[i]>> \o b
  <2>4. /\ d \in Seq(S) /\ Len(d) = 1 + Len(b)
        /\ d[1] = c[i]
        /\ \A j \in 2..Len(d) : d[j] = b[j - 1]
    BY <2>2, <2>3
  <2> HIDE DEF d
  <2>5. Len(d) = Len(a)
    BY <2>1, <2>2, <2>4
  <2>6. ASSUME NEW j \in 1..Len(a) PROVE d[j] = a[j]
    <3>1. CASE j = 1
      BY <2>1, <2>4, <3>1
    <3>2. CASE j # 1
      <4>1. j \in 2..Len(d) /\ j - 1 \in 1..Len(b)
        BY <2>1, <2>2, <2>4, <2>5, <3>2
      <4>2. d[j] = c[(i + 1) + (j - 1) - 1]
        BY <2>2, <2>4, <4>1
      <4>3. (i + 1) + (j - 1) - 1 = i + j - 1
        BY <4>1
      <4> QED
        BY <2>1, <4>2, <4>3
    <3> QED
      BY <3>1, <3>2
  <2>7. d = a
    BY <2>1, <2>4, <2>5, <2>6
  <2> QED
    BY <2>7 DEF a, b, d
<1>3. Rest(c, 1) = c
  BY DEF Rest
<1> QED
  BY <1>1, <1>2, <1>3

(* The walk along a chain meets its members from any position on, by the   *)
(* least length of a walk that would not.                                  *)
LEMMA WalkFollows ==
  ASSUME NEW x, Cardinality(Blocks(x)) \in Nat, NEW h, NEW c, Runs(x, h, c),
         \A k \in 1..Len(c) : c[k] \in Blocks(x)
  PROVE  \A m \in 0..Cardinality(Blocks(x)), i \in 1..(Len(c) + 1) :
           Len(c) + 1 - i <= m => Walk(x)[m][At(c, i)] = Rest(c, i)
<1> DEFINE N == Cardinality(Blocks(x))
           f == Walk(x)
           Strays(m) == \E i \in 1..(Len(c) + 1) :
                          /\ Len(c) + 1 - i <= m
                          /\ f[m][At(c, i)] # Rest(c, i)
           T == {m \in 0..N : Strays(m)}
<1>1. N \in Nat
  OBVIOUS
<1>2. c \in Seq(Nat) /\ Len(c) \in Nat /\ \A i \in 1..Len(c) : LinkedAt(x, c, i)
  BY DEF Runs
<1>3. f = [n \in 0..N |-> WalkStep(x, f, n)]
  BY WalkDef DEF IsWalk
<1> HIDE DEF f
<1>33. \A m \in 0..N, b \in Blocks(x) \union {NULL} :
        f[m][b] = IF m = 0 \/ b = NULL THEN <<>>
                  ELSE <<b>> \o f[m - 1][x.blk[b].free_next]
  <2> TAKE m \in 0..N, b \in Blocks(x) \union {NULL}
  <2>2. f[m] = WalkStep(x, f, m)
    BY <1>3
  <2> QED
    BY <2>2 DEF WalkStep
<1> HIDE DEF N
<1> SUFFICES ASSUME T # {} PROVE FALSE
  BY DEF N, f
<1>4. PICK m \in T : \A y \in T : ~ (<<y, m>> \in OpToRel(<, Nat))
  <2>1. T \subseteq Nat
    BY <1>1
  <2> HIDE DEF T
  <2> QED
    BY <2>1, NatLessThanWellFounded, WFMin
<1>5. m \in 0..N /\ Strays(m)
  OBVIOUS
<1>6. \A y \in 0..N : y < m => ~ Strays(y)
  <2> SUFFICES ASSUME NEW y \in 0..N, y < m, Strays(y) PROVE FALSE
    OBVIOUS
  <2>1. y \in T
    OBVIOUS
  <2>2. y \in Nat /\ m \in Nat
    BY <1>1, <1>5
  <2> HIDE DEF T
  <2>3. ~ (<<y, m>> \in OpToRel(<, Nat))
    BY <1>4, <2>1
  <2> QED
    BY <2>2, <2>3 DEF OpToRel
<1>7. PICK i \in 1..(Len(c) + 1) :
        Len(c) + 1 - i <= m /\ f[m][At(c, i)] # Rest(c, i)
  BY <1>5
<1>8. CASE i = Len(c) + 1
  <2>1. At(c, i) = NULL
    BY <1>2, <1>8 DEF At
  <2>2. f[m][At(c, i)] = <<>>
    BY <1>33, <1>5, <2>1
  <2> QED
    BY <1>2, <1>7, <1>8, <2>2, RestOf
<1>9. CASE i # Len(c) + 1
  <2>1. i \in 1..Len(c) /\ i + 1 \in 1..(Len(c) + 1)
    BY <1>2, <1>9
  <2>2. At(c, i) = c[i] /\ c[i] \in Blocks(x) /\ c[i] # NULL
    <3>1. c[i] \in Nat
      BY <1>2, <2>1
    <3> QED
      BY <2>1, <3>1 DEF At, NULL
  <2>3. m # 0 /\ m - 1 \in 0..N /\ m - 1 < m /\ Len(c) + 1 - (i + 1) <= m - 1
    BY <1>1, <1>2, <1>5, <1>7, <2>1
  <2>4. f[m][c[i]] = <<c[i]>> \o f[m - 1][x.blk[c[i]].free_next]
    BY <1>33, <1>5, <2>2, <2>3
  <2>5. x.blk[c[i]].free_next = At(c, i + 1)
    BY <1>2, <2>1 DEF LinkedAt
  <2>6. f[m - 1][At(c, i + 1)] = Rest(c, i + 1)
    BY <1>6, <2>1, <2>3
  <2>7. f[m][c[i]] = <<c[i]>> \o Rest(c, i + 1)
    BY <2>4, <2>5, <2>6
  <2> QED
    BY <1>2, <1>7, <2>1, <2>2, <2>7, RestOf
<1> QED
  BY <1>8, <1>9

(* So Chain(x, h) is what the links from the head of chain h run through.  *)
LEMMA ChainIs ==
  ASSUME NEW x, IsFiniteSet(Blocks(x)), NEW h, NEW c, Runs(x, h, c),
         \A k \in 1..Len(c) : c[k] \in Blocks(x)
  PROVE  Chain(x, h) = c
<1>1. c \in Seq(Nat) /\ OneToOne(c) /\ x.xfree[h] = At(c, 1)
  BY DEF Runs
<1> DEFINE N == Cardinality(Blocks(x))
<1>2. N \in Nat
  BY FS_CardinalityType
<1>3. Len(c) \in Nat /\ Len(c) <= N
  <2>1. Len(c) \in Nat /\ c \in [1..Len(c) -> Blocks(x)]
    BY <1>1
  <2>2. c \in Injection(1..Len(c), Blocks(x))
    BY <1>1, <2>1 DEF Injection, IsInjective, OneToOne
  <2>3. Cardinality(1..Len(c)) <= N
    BY <2>2, FS_Injection
  <2>4. PICK n \in Nat : n = Len(c)
    BY <2>1
  <2>5. Cardinality(1..n) = n
    BY FS_Interval
  <2> QED
    BY <2>1, <2>3, <2>4, <2>5
<1>4. N \in 0..N /\ 1 \in 1..(Len(c) + 1) /\ Len(c) + 1 - 1 <= N
  BY <1>2, <1>3
<1>5. Walk(x)[N][At(c, 1)] = Rest(c, 1)
  BY <1>2, <1>4, WalkFollows
<1> QED
  BY <1>1, <1>5, RestOf DEF Chain, Blocks

-----------------------------------------------------------------------------
(* Sums of sizes, which the counters are compared with.                    *)

One(s) == CHOOSE e \in s : TRUE

(* What the recursive definition of a sum says of a function.              *)
SumStep(x, f, s) == IF s = {} THEN 0 ELSE x.blk[One(s)].size + f[s \ {One(s)}]

IsSum(x, D, f) == f = [s \in D |-> SumStep(x, f, s)]

Total(x, S) == MapThenSumSet(LAMBDA b : x.blk[b].size, S)

(* The library's sum of sizes is a CHOOSE of the recursive function.        *)
LEMMA SumIs ==
  ASSUME NEW x, NEW S
  PROVE  Total(x, S) = (CHOOSE f : IsSum(x, SUBSET S, f))[S]
  BY Zenon DEF Total, MapThenSumSet, MapThenFoldSet, IsSum, SumStep, One

(* The subsets of S with at most n members.                                *)
UpTo(S, n) == {s \in SUBSET S : Cardinality(s) <= n}

(* A finite set less one of its members has one member less.                *)
LEMMA OneLess ==
  ASSUME NEW S, IsFiniteSet(S), NEW s \in SUBSET S, NEW e \in s
  PROVE  /\ s \ {e} \in SUBSET S
         /\ Cardinality(s) \in Nat /\ Cardinality(s \ {e}) = Cardinality(s) - 1
         /\ Cardinality(s \ {e}) \in Nat
<1>1. IsFiniteSet(s) /\ IsFiniteSet(s \ {e})
  BY FS_Subset
<1> QED
  BY <1>1, FS_RemoveElement, FS_CardinalityType

(* The member the sum takes first is a member.                              *)
LEMMA OneIs == ASSUME NEW s, s # {} PROVE One(s) \in s
  BY DEF One

(* A sum over the subsets of up to n members can be prolonged.             *)
LEMMA SumLonger ==
  ASSUME NEW x, NEW S, IsFiniteSet(S), NEW n \in Nat, NEW f, IsSum(x, UpTo(S, n), f),
         NEW g, g = [s \in UpTo(S, n + 1) |-> SumStep(x, f, s)]
  PROVE  IsSum(x, UpTo(S, n + 1), g)
<1>1. ASSUME NEW s \in UpTo(S, n) PROVE g[s] = f[s]
  <2>1. Cardinality(s) \in Nat
    BY FS_Subset, FS_CardinalityType DEF UpTo
  <2>2. s \in UpTo(S, n + 1)
    BY <2>1 DEF UpTo
  <2>3. g[s] = SumStep(x, f, s) /\ f[s] = SumStep(x, f, s)
    BY <2>2 DEF IsSum
  <2> QED
    BY <2>3
<1>2. ASSUME NEW s \in UpTo(S, n + 1) PROVE SumStep(x, f, s) = SumStep(x, g, s)
  <2>1. CASE s = {}
    BY <2>1 DEF SumStep
  <2>2. CASE s # {}
    <3>1. One(s) \in s /\ s \in SUBSET S /\ Cardinality(s) <= n + 1
      BY <2>2, OneIs DEF UpTo
    <3>2. s \ {One(s)} \in UpTo(S, n)
      BY <3>1, OneLess DEF UpTo
    <3>3. g[s \ {One(s)}] = f[s \ {One(s)}]
      BY <1>1, <3>2
    <3> QED
      BY <3>3 DEF SumStep
  <2> QED
    BY <2>1, <2>2
<1> QED
  BY <1>2 DEF IsSum

(* The recursive function exists on the subsets of any size.                *)
LEMMA SumExists ==
  ASSUME NEW x, NEW S, IsFiniteSet(S)
  PROVE  \A n \in Nat : \E f : IsSum(x, UpTo(S, n), f)
<1> DEFINE T == {n \in Nat : ~ \E f : IsSum(x, UpTo(S, n), f)}
<1> SUFFICES ASSUME T # {} PROVE FALSE
  OBVIOUS
<1>1. PICK n \in T : \A k \in T : n <= k
  <2>1. T \in SUBSET Nat
    OBVIOUS
  <2> HIDE DEF T
  <2> QED
    BY <2>1, LeastExists
<1>2. n \in Nat /\ ~ \E f : IsSum(x, UpTo(S, n), f)
  OBVIOUS
<1>3. n # 0
  <2> SUFFICES ASSUME n = 0 PROVE FALSE
    OBVIOUS
  <2> DEFINE g == [s \in UpTo(S, 0) |-> 0]
  <2>1. \A s \in UpTo(S, 0) : s = {}
    <3> SUFFICES ASSUME NEW s \in UpTo(S, 0) PROVE s = {}
      OBVIOUS
    <3>1. IsFiniteSet(s) /\ Cardinality(s) <= 0
      BY FS_Subset DEF UpTo
    <3> QED
      BY <3>1, FS_EmptySet, FS_CardinalityType
  <2>2. \A s \in UpTo(S, 0) : SumStep(x, g, s) = 0
    BY <2>1 DEF SumStep
  <2>3. IsSum(x, UpTo(S, 0), g)
    BY <2>2 DEF IsSum
  <2> QED
    BY <1>2, <2>3
<1>4. n - 1 \in Nat /\ n - 1 < n /\ (n - 1) + 1 = n
  BY <1>2, <1>3
<1>5. PICK f : IsSum(x, UpTo(S, n - 1), f)
  BY <1>1, <1>4
<1> DEFINE g == [s \in UpTo(S, (n - 1) + 1) |-> SumStep(x, f, s)]
<1>6. IsSum(x, UpTo(S, (n - 1) + 1), g)
  BY <1>4, <1>5, SumLonger
<1> HIDE DEF g
<1> QED
  BY <1>2, <1>4, <1>6

(* The sum over S is found by such a function.                             *)
LEMMA SumDef ==
  ASSUME NEW x, NEW S, IsFiniteSet(S)
  PROVE  \E f : IsSum(x, SUBSET S, f) /\ Total(x, S) = f[S]
<1>1. Cardinality(S) \in Nat
  BY FS_CardinalityType
<1>2. UpTo(S, Cardinality(S)) = SUBSET S
  BY FS_Subset DEF UpTo
<1>3. PICK g : IsSum(x, SUBSET S, g)
  <2>1. \E g : IsSum(x, UpTo(S, Cardinality(S)), g)
    BY <1>1, SumExists
  <2> QED
    BY <1>2, <2>1, Zenon
<1>4. IsSum(x, SUBSET S, CHOOSE f : IsSum(x, SUBSET S, f))
  BY <1>3
<1> QED
  BY <1>4, SumIs

Agree(S, f, g) == \A s \in SUBSET S : f[s] = g[s]

(* Two such functions agree where both are defined.                        *)
LEMMA SumUnique ==
  ASSUME NEW x, NEW S, IsFiniteSet(S), NEW U, S \subseteq U,
         NEW f, IsSum(x, SUBSET S, f), NEW g, IsSum(x, SUBSET U, g)
  PROVE  Agree(S, f, g)
<1> DEFINE T == {Cardinality(s) : s \in {t \in SUBSET S : f[t] # g[t]}}
<1> SUFFICES ASSUME T # {} PROVE FALSE
  BY DEF Agree
<1>1. \A s \in SUBSET S : Cardinality(s) \in Nat
  BY FS_Subset, FS_CardinalityType
<1>2. PICK n \in T : \A k \in T : n <= k
  <2>1. T \in SUBSET Nat
    BY <1>1
  <2> HIDE DEF T
  <2> QED
    BY <2>1, LeastExists
<1>3. PICK s \in SUBSET S : n = Cardinality(s) /\ f[s] # g[s]
  OBVIOUS
<1>4. f[s] = SumStep(x, f, s) /\ g[s] = SumStep(x, g, s)
  BY DEF IsSum
<1>5. s # {}
  BY <1>3, <1>4 DEF SumStep
<1>6. One(s) \in s
  BY <1>5, OneIs
<1>7. /\ s \ {One(s)} \in SUBSET S /\ Cardinality(s) \in Nat
      /\ Cardinality(s \ {One(s)}) = Cardinality(s) - 1
  BY <1>6, OneLess
<1>8. f[s \ {One(s)}] = g[s \ {One(s)}]
  <2> SUFFICES ASSUME f[s \ {One(s)}] # g[s \ {One(s)}] PROVE FALSE
    OBVIOUS
  <2>1. Cardinality(s \ {One(s)}) \in T
    BY <1>7
  <2>2. n <= Cardinality(s \ {One(s)})
    BY <1>2, <2>1
  <2> QED
    BY <1>3, <1>7, <2>2
<1> QED
  BY <1>3, <1>4, <1>5, <1>8 DEF SumStep

AnyFirst(x, f, s) ==
  /\ f[s] \in Nat
  /\ \A b \in s : f[s] = x.blk[b].size + f[s \ {b}]

(* Any member of a set can be the one that is taken out first.             *)
LEMMA SumAny ==
  ASSUME NEW x, NEW U, IsFiniteSet(U), NEW f, IsSum(x, SUBSET U, f),
         \A b \in U : x.blk[b].size \in Nat
  PROVE  \A s \in SUBSET U : AnyFirst(x, f, s)
<1> DEFINE Fine(s) == /\ f[s] \in Nat
                      /\ \A b \in s : f[s] = x.blk[b].size + f[s \ {b}]
           T == {Cardinality(s) : s \in {t \in SUBSET U : ~ Fine(t)}}
<1> SUFFICES ASSUME T # {} PROVE FALSE
  BY DEF AnyFirst
<1>1. \A s \in SUBSET U : Cardinality(s) \in Nat
  BY FS_Subset, FS_CardinalityType
<1>2. PICK n \in T : \A k \in T : n <= k
  <2>1. T \in SUBSET Nat
    BY <1>1
  <2> HIDE DEF T
  <2> QED
    BY <2>1, LeastExists
<1>3. PICK s \in SUBSET U : n = Cardinality(s) /\ ~ Fine(s)
  OBVIOUS
<1>4. f[s] = SumStep(x, f, s)
  BY DEF IsSum
<1>5. s # {}
  <2> SUFFICES ASSUME s = {} PROVE FALSE
    OBVIOUS
  <2>1. f[s] = 0
    BY <1>4 DEF SumStep
  <2> QED
    BY <1>3, <2>1
<1>6. PICK e \in s : e = One(s)
  BY <1>5, OneIs
<1>7. f[s] = x.blk[e].size + f[s \ {e}]
  BY <1>4, <1>5, <1>6 DEF SumStep
<1>8. ASSUME NEW b \in s PROVE s \ {b} \in SUBSET U /\ Fine(s \ {b})
  <2>1. /\ s \ {b} \in SUBSET U /\ Cardinality(s) \in Nat
        /\ Cardinality(s \ {b}) = Cardinality(s) - 1
    BY OneLess
  <2> SUFFICES ASSUME ~ Fine(s \ {b}) PROVE FALSE
    BY <2>1
  <2>2. Cardinality(s \ {b}) \in T
    BY <2>1
  <2>3. n <= Cardinality(s \ {b})
    BY <1>2, <2>2
  <2> QED
    BY <1>3, <2>1, <2>3
<1>9. x.blk[e].size \in Nat /\ f[s \ {e}] \in Nat /\ f[s] \in Nat
  BY <1>7, <1>8
<1>10. ASSUME NEW b \in s PROVE f[s] = x.blk[b].size + f[s \ {b}]
  <2>1. CASE b = e
    BY <1>7, <2>1
  <2>2. CASE b # e
    <3>1. x.blk[b].size \in Nat /\ Fine(s \ {e}) /\ Fine(s \ {b})
      BY <1>8
    <3>2. b \in s \ {e} /\ e \in s \ {b} /\ (s \ {e}) \ {b} = (s \ {b}) \ {e}
      BY <2>2
    <3>3. f[s \ {e}] = x.blk[b].size + f[(s \ {e}) \ {b}]
      BY <3>1, <3>2
    <3>4. f[s \ {b}] = x.blk[e].size + f[(s \ {b}) \ {e}]
      BY <3>1, <3>2
    <3>5. PICK m : m = f[(s \ {e}) \ {b}] /\ m = f[(s \ {b}) \ {e}]
      BY <3>2
    <3>6. m \in Nat
      <4>1. Fine((s \ {e}) \ {b}) 
        <5>1. /\ (s \ {e}) \ {b} \in SUBSET U /\ Cardinality(s) \in Nat
              /\ Cardinality((s \ {e}) \ {b}) < Cardinality(s)
          <6>1. /\ s \ {e} \in SUBSET U /\ Cardinality(s) \in Nat
                /\ Cardinality(s \ {e}) = Cardinality(s) - 1
            BY OneLess
          <6>2. PICK t \in SUBSET U : t = s \ {e}
            BY <6>1
          <6>3. t \ {b} \in SUBSET U /\ Cardinality(t \ {b}) = Cardinality(t) - 1
            BY <3>2, <6>2, OneLess
          <6> QED
            BY <6>1, <6>2, <6>3
        <5> SUFFICES ASSUME ~ Fine((s \ {e}) \ {b}) PROVE FALSE
          OBVIOUS
        <5>2. Cardinality((s \ {e}) \ {b}) \in T
          BY <5>1
        <5>3. n <= Cardinality((s \ {e}) \ {b})
          BY <1>2, <5>2
        <5> QED
          BY <1>1, <1>3, <5>1, <5>3
      <4> QED
        BY <3>5, <4>1
    <3> QED
      BY <1>7, <1>9, <3>1, <3>3, <3>4, <3>5, <3>6
  <2> QED
    BY <2>1, <2>2
<1> QED
  BY <1>3, <1>9, <1>10

(* A sum with one more member.                                             *)
LEMMA SumAdd ==
  ASSUME NEW x, NEW S, IsFiniteSet(S), NEW b, b \notin S,
         \A a \in S \union {b} : x.blk[a].size \in Nat
  PROVE  /\ Total(x, S) \in Nat /\ Total(x, S \union {b}) = Total(x, S) + x.blk[b].size
<1>1. PICK U : U = S \union {b}
  OBVIOUS
<1>2. IsFiniteSet(U) /\ S \subseteq U /\ S \in SUBSET U /\ U \in SUBSET U
  BY <1>1, FS_AddElement
<1>3. PICK f : IsSum(x, SUBSET S, f) /\ Total(x, S) = f[S]
  BY SumDef
<1>4. PICK g : IsSum(x, SUBSET U, g) /\ Total(x, U) = g[U]
  BY <1>2, SumDef
<1>5. f[S] = g[S]
  <2>1. Agree(S, f, g)
    BY <1>2, <1>3, <1>4, SumUnique
  <2>2. S \in SUBSET S
    OBVIOUS
  <2> QED
    BY <2>1, <2>2 DEF Agree
<1>6. AnyFirst(x, g, S) /\ AnyFirst(x, g, U)
  <2>1. \A a \in U : x.blk[a].size \in Nat
    BY <1>1
  <2>2. \A s \in SUBSET U : AnyFirst(x, g, s)
    BY <1>2, <1>4, <2>1, SumAny
  <2> QED
    BY <1>2, <2>2
<1>7. g[S] \in Nat /\ g[U] = x.blk[b].size + g[U \ {b}]
  BY <1>1, <1>6 DEF AnyFirst
<1>8. U \ {b} = S
  BY <1>1
<1>9. g[U] = x.blk[b].size + g[S] /\ x.blk[b].size \in Nat
  BY <1>1, <1>7, <1>8
<1> QED
  BY <1>1, <1>3, <1>4, <1>5, <1>7, <1>9

(* A sum depends on the sizes of its members.                              *)
LEMMA SumSame ==
  ASSUME NEW x, NEW y, NEW S, IsFiniteSet(S), \A b \in S : y.blk[b].size = x.blk[b].size
  PROVE  Total(y, S) = Total(x, S)
<1>1. PICK f : IsSum(x, SUBSET S, f) /\ Total(x, S) = f[S]
  BY SumDef
<1>2. PICK g : IsSum(y, SUBSET S, g) /\ Total(y, S) = g[S]
  BY SumDef
<1>3. \A s \in SUBSET S : SumStep(x, f, s) = SumStep(y, f, s)
  BY OneIs DEF SumStep
<1>4. IsSum(y, SUBSET S, f)
  BY <1>1, <1>3 DEF IsSum
<1>5. f[S] = g[S]
  <2>1. Agree(S, f, g)
    BY <1>2, <1>4, SumUnique
  <2>2. S \in SUBSET S
    OBVIOUS
  <2> QED
    BY <2>1, <2>2 DEF Agree
<1> QED
  BY <1>1, <1>2, <1>5

(* A total that is a natural number, of a finite set.                      *)
Summed(x, S) ==
  /\ IsFiniteSet(S) /\ Cardinality(S) \in Nat
  /\ \A a \in S : x.blk[a].size \in Nat
  /\ Total(x, S) \in Nat

(* Sums of natural sizes over finite sets are what they should be.          *)
LEMMA SummedIs ==
  ASSUME NEW x, NEW S, IsFiniteSet(S), \A a \in S : x.blk[a].size \in Nat
  PROVE  Summed(x, S)
<1>1. Cardinality(S) \in Nat
  BY FS_CardinalityType
<1>2. PICK f : IsSum(x, SUBSET S, f) /\ Total(x, S) = f[S]
  BY SumDef
<1>3. \A s \in SUBSET S : AnyFirst(x, f, s)
  BY <1>2, SumAny
<1>4. f[S] \in Nat
  BY <1>3 DEF AnyFirst
<1> QED
  BY <1>1, <1>2, <1>4 DEF Summed

SameSizesOn(x, y, S) == \A a \in S : y.blk[a].size = x.blk[a].size

(* One more block adds its size to the sum.                                 *)
LEMMA TotalMore ==
  ASSUME NEW x, NEW y, NEW S, Summed(x, S), SameSizesOn(x, y, S),
         NEW b, b \notin S, y.blk[b].size \in Nat, NEW T, T = S \union {b}
  PROVE  /\ Total(y, T) = Total(x, S) + y.blk[b].size
         /\ Cardinality(T) = Cardinality(S) + 1
<1>1. Total(y, S) = Total(x, S)
  BY SumSame DEF Summed, SameSizesOn
<1>2. \A a \in S \union {b} : y.blk[a].size \in Nat
  BY DEF Summed, SameSizesOn
<1>3. Total(y, S \union {b}) = Total(y, S) + y.blk[b].size
  BY <1>2, SumAdd DEF Summed
<1>4. Cardinality(S \union {b}) = Cardinality(S) + 1
  BY FS_AddElement DEF Summed
<1> QED
  BY <1>1, <1>3, <1>4

(* A resized block changes the sum by the difference.                       *)
LEMMA TotalChange ==
  ASSUME NEW x, NEW y, NEW S, Summed(x, S), NEW b \in S,
         \A a \in S : a # b => y.blk[a].size = x.blk[a].size,
         y.blk[b].size \in Nat
  PROVE  Total(y, S) = Total(x, S) - x.blk[b].size + y.blk[b].size
<1>1. PICK T : T = S \ {b}
  OBVIOUS
<1>2. b \notin T /\ S = T \union {b}
  BY <1>1
<1>3. IsFiniteSet(T) /\ \A a \in T \union {b} : x.blk[a].size \in Nat /\ y.blk[a].size \in Nat
  BY <1>1, <1>2, FS_Subset DEF Summed
<1>4. Total(x, T) \in Nat /\ Total(x, T \union {b}) = Total(x, T) + x.blk[b].size
  BY <1>2, <1>3, SumAdd
<1>5. Total(y, T \union {b}) = Total(y, T) + y.blk[b].size
  BY <1>2, <1>3, SumAdd
<1>6. Total(y, T) = Total(x, T)
  BY <1>1, <1>3, SumSame
<1>7. Total(x, S) = Total(x, T) + x.blk[b].size /\ Total(y, S) = Total(x, T) + y.blk[b].size
  BY <1>2, <1>4, <1>5, <1>6, Zenon
<1>8. x.blk[b].size \in Nat
  BY <1>3
<1> QED
  BY <1>4, <1>7, <1>8

-----------------------------------------------------------------------------
(* What the steps of an operation make of the blocks, links aside.         *)

(* What b has taken in is n.                                               *)
TakenIn(x, b, n, y) ==
  /\ y.end = x.end
  /\ Blocks(y) = Blocks(x) \ {n} /\ b \in Blocks(y)
  /\ next_mblk(y, b) = next_mblk(x, n)
  /\ y.blk[b].size = x.blk[b].size + MBLKHDRSIZE + x.blk[n].size
  /\ \A a \in Blocks(y) : y.blk[a].free = x.blk[a].free
  /\ \A a \in Blocks(y) : a # b => /\ y.blk[a].size = x.blk[a].size
                                   /\ next_mblk(y, a) = next_mblk(x, a)

(* Of b the block r of `rest' bytes has been split off.                    *)
SplitAt(x, b, size, rest, r, y) ==
  /\ y.end = x.end /\ y.stat = x.stat
  /\ r = b + MBLKHDRSIZE + size /\ r \notin Blocks(x)
  /\ Blocks(y) = Blocks(x) \union {r}
  /\ next_mblk(y, b) = r
  /\ y.blk[r].size = rest /\ y.blk[r].free = TRUE
  /\ \A a \in Blocks(x) : /\ y.blk[a].size = IF a = b THEN size ELSE x.blk[a].size
                          /\ y.blk[a].free = x.blk[a].free
  /\ \A a \in Blocks(x) : a # b => next_mblk(y, a) = next_mblk(x, a)

(* Only b has become free, or come into use.                               *)
SetFreeAt(x, b, free, y) ==
  /\ y.end = x.end /\ y.stat = x.stat /\ Blocks(y) = Blocks(x)
  /\ \A a \in Blocks(x) : /\ y.blk[a].size = x.blk[a].size
                          /\ y.blk[a].free = IF a = b THEN free ELSE x.blk[a].free
                          /\ next_mblk(y, a) = next_mblk(x, a)

-----------------------------------------------------------------------------
(* The counters: what is still to be taken off them within an operation.   *)

FreeOf(x) == {a \in Blocks(x) : x.blk[a].free}

AllocDue(x) == x.stat.alloc - Total(x, InUse(x))
AvailDue(x) == x.stat.avail - Total(x, FreeOf(x))
NusedDue(x) == x.stat.nused - Cardinality(InUse(x))
NfreeDue(x) == x.stat.nfree - Cardinality(FreeOf(x))

(* The same blocks, free and in use.                                       *)
Alike(x, y) ==
  /\ y.end = x.end /\ Blocks(y) = Blocks(x)
  /\ \A a \in Blocks(x) :
       y.blk[a].size = x.blk[a].size /\ y.blk[a].free = x.blk[a].free

(* Zones alike in sizes and bits: transitivity.                             *)
LEMMA AlikeTrans ==
  ASSUME NEW x, NEW y, NEW z, Alike(x, y), Alike(y, z)
  PROVE  Alike(x, z)
  BY DEF Alike

(* Zones alike have the same blocks in use and the same free ones.          *)
LEMMA AlikeSets ==
  ASSUME NEW x, NEW y, Alike(x, y)
  PROVE  /\ SameSizes(x, y) /\ InUse(y) = InUse(x) /\ FreeOf(y) = FreeOf(x)
         /\ \A a \in Blocks(x) : next_mblk(y, a) = next_mblk(x, a)
  BY DEF Alike, SameSizes, InUse, FreeOf, Blocks, next_mblk

(* The sets that are summed are finite.                                    *)
LEMMA TilesSummed ==
  ASSUME NEW x, Typed(x), Tiled(x)
  PROVE  /\ Summed(x, InUse(x)) /\ Summed(x, FreeOf(x))
         /\ InUse(x) \subseteq Blocks(x) /\ FreeOf(x) \subseteq Blocks(x)
         /\ InUse(x) = Blocks(x) \ FreeOf(x)
<1>1. IsFiniteSet(Blocks(x)) /\ \A a \in Blocks(x) : x.blk[a].size \in Nat
  BY BlocksFinite, Ahead
<1>2. InUse(x) \subseteq Blocks(x) /\ FreeOf(x) \subseteq Blocks(x)
  BY DEF InUse, FreeOf, Blocks
<1>3. InUse(x) = Blocks(x) \ FreeOf(x)
  BY DEF InUse, FreeOf, Blocks
<1>4. IsFiniteSet(InUse(x)) /\ IsFiniteSet(FreeOf(x))
  BY <1>1, <1>2, FS_Subset
<1> QED
  BY <1>1, <1>2, <1>3, <1>4, SummedIs

(* A finite set of blocks, its total and its number.                       *)
Weighs(x, S, t, k) ==
  /\ Summed(x, S) /\ t \in Nat /\ k \in Nat
  /\ Total(x, S) = t /\ Cardinality(S) = k

(* A set of blocks whose sizes are kept weighs the same.                    *)
LEMMA WeighsSame ==
  ASSUME NEW x, NEW S, NEW t, NEW k, Weighs(x, S, t, k), NEW y, SameSizesOn(x, y, S)
  PROVE  Weighs(y, S, t, k)
<1>1. IsFiniteSet(S) /\ \A a \in S : y.blk[a].size \in Nat
  BY DEF Weighs, Summed, SameSizesOn
<1>2. Summed(y, S)
  BY <1>1, SummedIs
<1>3. Total(y, S) = Total(x, S)
  BY <1>1, SumSame DEF SameSizesOn
<1> QED
  BY <1>2, <1>3 DEF Weighs

(* Taking a block out of a set takes its size and one from the count.       *)
LEMMA WeighsLess ==
  ASSUME NEW x, NEW S, NEW t, NEW k, Weighs(x, S, t, k), NEW c \in S,
         NEW s, s = x.blk[c].size, NEW T, T = S \ {c}
  PROVE  /\ Weighs(x, T, t - s, k - 1) /\ s \in Nat
<1>1. Summed(x, S)
  BY DEF Weighs
<1>2. IsFiniteSet(T) /\ s \in Nat /\ \A a \in T : x.blk[a].size \in Nat
  BY <1>1, FS_Subset DEF Summed
<1>3. Summed(x, T) /\ SameSizesOn(x, x, T)
  BY <1>2, SummedIs DEF SameSizesOn
<1>4. c \notin T /\ S = T \union {c}
  OBVIOUS
<1>5. Total(x, S) = Total(x, T) + s /\ Cardinality(S) = Cardinality(T) + 1
  BY <1>2, <1>3, <1>4, TotalMore
<1>6. /\ Total(x, S) = t /\ Cardinality(S) = k
      /\ Total(x, T) \in Nat /\ Cardinality(T) \in Nat /\ s \in Nat
  BY <1>2, <1>3 DEF Weighs, Summed
<1>7. Total(x, T) = t - s /\ Cardinality(T) = k - 1
  BY <1>5, <1>6
<1> QED
  BY <1>3, <1>6, <1>7 DEF Weighs

(* Putting a block into a set adds its size and one to the count.           *)
LEMMA WeighsMore ==
  ASSUME NEW x, NEW S, NEW t, NEW k, Weighs(x, S, t, k), NEW c, c \notin S,
         NEW s \in Nat, s = x.blk[c].size, NEW T, T = S \union {c}
  PROVE  Weighs(x, T, t + s, k + 1)
<1>1. SameSizesOn(x, x, S) /\ Summed(x, S)
  BY DEF SameSizesOn, Weighs
<1>2. Total(x, T) = Total(x, S) + s /\ Cardinality(T) = Cardinality(S) + 1
  BY <1>1, TotalMore
<1>3. IsFiniteSet(T) /\ \A a \in T : x.blk[a].size \in Nat
  BY <1>1, FS_AddElement DEF Summed
<1>4. Summed(x, T)
  BY <1>3, SummedIs
<1> QED
  BY <1>2, <1>3, <1>4 DEF Weighs, Summed

(* Resizing a block of the set changes the weight by the difference.        *)
LEMMA WeighsResized ==
  ASSUME NEW x, NEW S, NEW t, NEW k, Weighs(x, S, t, k), NEW b \in S,
         NEW s, s = x.blk[b].size, NEW y, NEW r \in Nat, r = y.blk[b].size,
         \A a \in S : a # b => y.blk[a].size = x.blk[a].size
  PROVE  /\ Weighs(y, S, t - s + r, k) /\ s \in Nat
<1>1. Summed(x, S)
  BY DEF Weighs
<1>2. Total(y, S) = Total(x, S) - s + r
  BY <1>1, TotalChange
<1>3. IsFiniteSet(S) /\ s \in Nat /\ \A a \in S : y.blk[a].size \in Nat
  BY <1>1 DEF Summed
<1>4. Summed(y, S)
  BY <1>3, SummedIs
<1> QED
  BY <1>2, <1>3, <1>4 DEF Weighs, Summed

(* The blocks in use and the free ones can be weighed, and split Blocks.    *)
LEMMA WeighsTiles ==
  ASSUME NEW x, Typed(x), Tiled(x)
  PROVE  /\ \E t, k, f, j : Weighs(x, InUse(x), t, k) /\ Weighs(x, FreeOf(x), f, j)
         /\ InUse(x) \subseteq Blocks(x) /\ FreeOf(x) \subseteq Blocks(x)
         /\ InUse(x) = Blocks(x) \ FreeOf(x)
  BY TilesSummed DEF Weighs, Summed

(* The debts of the counters, once the two sets have been weighed.          *)
LEMMA DueIs ==
  ASSUME NEW x, x.stat \in Stat, NEW t, NEW k, NEW f, NEW j,
         Weighs(x, InUse(x), t, k), Weighs(x, FreeOf(x), f, j)
  PROVE  /\ AllocDue(x) = x.stat.alloc - t /\ AvailDue(x) = x.stat.avail - f
         /\ NusedDue(x) = x.stat.nused - k /\ NfreeDue(x) = x.stat.nfree - j
         /\ x.stat.alloc \in Int /\ x.stat.avail \in Int
         /\ x.stat.nused \in Int /\ x.stat.nfree \in Int
         /\ t \in Nat /\ k \in Nat /\ f \in Nat /\ j \in Nat
  BY DEF AllocDue, AvailDue, NusedDue, NfreeDue, Weighs, Stat

(* What is due when the totals have changed and the counters have not.     *)
LEMMA DueChange ==
  ASSUME NEW x, x.stat \in Stat, NEW t, NEW k, NEW f, NEW j,
         Weighs(x, InUse(x), t, k), Weighs(x, FreeOf(x), f, j),
         NEW y, y.stat = x.stat, NEW t2, NEW k2, NEW f2, NEW j2,
         Weighs(y, InUse(y), t2, k2), Weighs(y, FreeOf(y), f2, j2)
  PROVE  /\ AllocDue(y) = AllocDue(x) + t - t2 /\ AvailDue(y) = AvailDue(x) + f - f2
         /\ NusedDue(y) = NusedDue(x) + k - k2 /\ NfreeDue(y) = NfreeDue(x) + j - j2
         /\ AllocDue(x) \in Int /\ AvailDue(x) \in Int
         /\ NusedDue(x) \in Int /\ NfreeDue(x) \in Int
<1>1. /\ AllocDue(x) = x.stat.alloc - t /\ AvailDue(x) = x.stat.avail - f
      /\ NusedDue(x) = x.stat.nused - k /\ NfreeDue(x) = x.stat.nfree - j
      /\ x.stat.alloc \in Int /\ x.stat.avail \in Int
      /\ x.stat.nused \in Int /\ x.stat.nfree \in Int
      /\ t \in Nat /\ k \in Nat /\ f \in Nat /\ j \in Nat
  BY DueIs
<1>2. /\ AllocDue(y) = x.stat.alloc - t2 /\ AvailDue(y) = x.stat.avail - f2
      /\ NusedDue(y) = x.stat.nused - k2 /\ NfreeDue(y) = x.stat.nfree - j2
      /\ t2 \in Nat /\ k2 \in Nat /\ f2 \in Nat /\ j2 \in Nat
  BY DEF AllocDue, AvailDue, NusedDue, NfreeDue, Weighs
<1> QED
  BY <1>1, <1>2

(* The debts are integers.                                                  *)
LEMMA DueIsInt ==
  ASSUME NEW x, Typed(x), Tiled(x)
  PROVE  /\ AllocDue(x) \in Int /\ AvailDue(x) \in Int
         /\ NusedDue(x) \in Int /\ NfreeDue(x) \in Int
<1>1. PICK t, k, f, j : Weighs(x, InUse(x), t, k) /\ Weighs(x, FreeOf(x), f, j)
  BY WeighsTiles
<1>2. x.stat \in Stat
  BY DEF Typed
<1> QED
  BY <1>1, <1>2, DueIs

SameDue(x, y) ==
  /\ AllocDue(y) = AllocDue(x) /\ AvailDue(y) = AvailDue(x)
  /\ NusedDue(y) = NusedDue(x) /\ NfreeDue(y) = NfreeDue(x)

(* What writes neither sizes, bits nor counters leaves the debts.           *)
LEMMA DueAlike ==
  ASSUME NEW x, Typed(x), Tiled(x), NEW y, Alike(x, y), y.stat = x.stat
  PROVE  SameDue(x, y)
<1>1. /\ IsFiniteSet(InUse(x)) /\ IsFiniteSet(FreeOf(x))
      /\ InUse(x) \subseteq Blocks(x) /\ FreeOf(x) \subseteq Blocks(x)
  BY TilesSummed DEF Summed
<1>2. InUse(y) = InUse(x) /\ FreeOf(y) = FreeOf(x)
  BY AlikeSets
<1>3. Total(y, InUse(x)) = Total(x, InUse(x)) /\ Total(y, FreeOf(x)) = Total(x, FreeOf(x))
  BY <1>1, SumSame DEF Alike
<1> QED
  BY <1>2, <1>3 DEF SameDue, AllocDue, AvailDue, NusedDue, NfreeDue

(* Count moves each debt by what it adds.                                   *)
LEMMA DueCount ==
  ASSUME NEW x, Typed(x), Tiled(x), NEW alloc \in Int, NEW avail \in Int,
         NEW nused \in Int, NEW nfree \in Int,
         NEW y, CountEffect(x, alloc, avail, nused, nfree, y)
  PROVE  /\ AllocDue(y) = AllocDue(x) + alloc /\ AvailDue(y) = AvailDue(x) + avail
         /\ NusedDue(y) = NusedDue(x) + nused /\ NfreeDue(y) = NfreeDue(x) + nfree
<1>1. PICK t, k, f, j : Weighs(x, InUse(x), t, k) /\ Weighs(x, FreeOf(x), f, j)
  BY WeighsTiles
<1>2. InUse(y) = InUse(x) /\ FreeOf(y) = FreeOf(x)
  BY DEF CountEffect, InUse, FreeOf, Blocks
<1>3. SameSizesOn(x, y, InUse(x)) /\ SameSizesOn(x, y, FreeOf(x))
  BY DEF CountEffect, SameSizesOn
<1>4. Weighs(y, InUse(x), t, k) /\ Weighs(y, FreeOf(x), f, j)
  BY <1>1, <1>3, WeighsSame
<1>5. Weighs(y, InUse(y), t, k) /\ Weighs(y, FreeOf(y), f, j)
  BY <1>2, <1>4
<1>6. /\ y.stat.alloc = x.stat.alloc + alloc /\ y.stat.avail = x.stat.avail + avail
      /\ y.stat.nused = x.stat.nused + nused /\ y.stat.nfree = x.stat.nfree + nfree
  BY DEF CountEffect
<1>7. x.stat \in Stat /\ y.stat \in Stat
  BY DEF CountEffect, Typed
<1>8. /\ AllocDue(x) = x.stat.alloc - t /\ AvailDue(x) = x.stat.avail - f
      /\ NusedDue(x) = x.stat.nused - k /\ NfreeDue(x) = x.stat.nfree - j
      /\ x.stat.alloc \in Int /\ x.stat.avail \in Int
      /\ x.stat.nused \in Int /\ x.stat.nfree \in Int
      /\ t \in Nat /\ k \in Nat /\ f \in Nat /\ j \in Nat
  BY <1>1, <1>7, DueIs
<1>9. /\ AllocDue(y) = y.stat.alloc - t /\ AvailDue(y) = y.stat.avail - f
      /\ NusedDue(y) = y.stat.nused - k /\ NfreeDue(y) = y.stat.nfree - j
  BY <1>5, <1>7, DueIs
<1> QED
  BY <1>6, <1>8, <1>9

(* What is due when a block of s bytes changes sides.                      *)
DueFreed(x, s, y) ==
  /\ AllocDue(y) = AllocDue(x) + s /\ AvailDue(y) = AvailDue(x) - s
  /\ NusedDue(y) = NusedDue(x) + 1 /\ NfreeDue(y) = NfreeDue(x) - 1

(* A block in use is set free.                                            *)
LEMMA DueSetFree ==
  ASSUME NEW x, Typed(x), Tiled(x), NEW b \in InUse(x),
         NEW y, SetFreeAt(x, b, TRUE, y), NEW s, s = x.blk[b].size
  PROVE  DueFreed(x, s, y)
<1>1. PICK t, k, f, j : Weighs(x, InUse(x), t, k) /\ Weighs(x, FreeOf(x), f, j)
  BY WeighsTiles
<1>2. /\ InUse(x) \subseteq Blocks(x) /\ FreeOf(x) \subseteq Blocks(x)
      /\ InUse(x) = Blocks(x) \ FreeOf(x)
  BY WeighsTiles
<1>3. /\ Blocks(y) = Blocks(x) /\ y.stat = x.stat
      /\ \A a \in Blocks(x) : /\ y.blk[a].size = x.blk[a].size
                              /\ y.blk[a].free = IF a = b THEN TRUE ELSE x.blk[a].free
  BY DEF SetFreeAt
<1>4. InUse(y) = InUse(x) \ {b} /\ FreeOf(y) = FreeOf(x) \union {b}
  BY <1>2, <1>3 DEF InUse, FreeOf, Blocks
<1>5. /\ SameSizesOn(x, y, InUse(y)) /\ SameSizesOn(x, y, FreeOf(y)) /\ b \notin FreeOf(x)
  BY <1>2, <1>3, <1>4 DEF SameSizesOn
<1>6. PICK l, i, g, h : l = t - s /\ i = k - 1 /\ g = f + s /\ h = j + 1
  OBVIOUS
<1>7. s \in Nat /\ Weighs(x, InUse(y), l, i)
  BY <1>1, <1>4, <1>6, WeighsLess
<1>8. Weighs(x, FreeOf(y), g, h)
  BY <1>1, <1>4, <1>5, <1>6, <1>7, WeighsMore
<1>9. Weighs(y, InUse(y), l, i) /\ Weighs(y, FreeOf(y), g, h)
  BY <1>5, <1>7, <1>8, WeighsSame
<1>10. x.stat \in Stat /\ y.stat = x.stat
  BY <1>3 DEF Typed
<1>11. /\ AllocDue(y) = AllocDue(x) + t - l /\ AvailDue(y) = AvailDue(x) + f - g
       /\ NusedDue(y) = NusedDue(x) + k - i /\ NfreeDue(y) = NfreeDue(x) + j - h
       /\ AllocDue(x) \in Int /\ AvailDue(x) \in Int
       /\ NusedDue(x) \in Int /\ NfreeDue(x) \in Int
  BY <1>1, <1>9, <1>10, DueChange
<1>12. t \in Nat /\ k \in Nat /\ f \in Nat /\ j \in Nat
  BY <1>1 DEF Weighs
<1> QED
  BY <1>6, <1>7, <1>11, <1>12 DEF DueFreed

(* What is due when a free block of s bytes is marked used.                 *)
DueUsed(x, s, y) ==
  /\ AllocDue(y) = AllocDue(x) - s /\ AvailDue(y) = AvailDue(x) + s
  /\ NusedDue(y) = NusedDue(x) - 1 /\ NfreeDue(y) = NfreeDue(x) + 1

(* A free block comes into use.                                           *)
LEMMA DueSetUsed ==
  ASSUME NEW x, Typed(x), Tiled(x), NEW b \in FreeOf(x),
         NEW y, SetFreeAt(x, b, FALSE, y), NEW s, s = x.blk[b].size
  PROVE  DueUsed(x, s, y)
<1>1. PICK t, k, f, j : Weighs(x, InUse(x), t, k) /\ Weighs(x, FreeOf(x), f, j)
  BY WeighsTiles
<1>2. /\ InUse(x) \subseteq Blocks(x) /\ FreeOf(x) \subseteq Blocks(x)
      /\ InUse(x) = Blocks(x) \ FreeOf(x)
  BY WeighsTiles
<1>3. /\ Blocks(y) = Blocks(x) /\ y.stat = x.stat
      /\ \A a \in Blocks(x) : /\ y.blk[a].size = x.blk[a].size
                              /\ y.blk[a].free = IF a = b THEN FALSE ELSE x.blk[a].free
  BY DEF SetFreeAt
<1>4. FreeOf(y) = FreeOf(x) \ {b} /\ InUse(y) = InUse(x) \union {b}
  BY <1>2, <1>3 DEF InUse, FreeOf, Blocks
<1>5. /\ SameSizesOn(x, y, FreeOf(y)) /\ SameSizesOn(x, y, InUse(y)) /\ b \notin InUse(x)
  BY <1>2, <1>3, <1>4 DEF SameSizesOn
<1>6. PICK l, i, g, h : l = f - s /\ i = j - 1 /\ g = t + s /\ h = k + 1
  OBVIOUS
<1>7. s \in Nat /\ Weighs(x, FreeOf(y), l, i)
  BY <1>1, <1>4, <1>6, WeighsLess
<1>8. Weighs(x, InUse(y), g, h)
  BY <1>1, <1>4, <1>5, <1>6, <1>7, WeighsMore
<1>9. Weighs(y, FreeOf(y), l, i) /\ Weighs(y, InUse(y), g, h)
  BY <1>5, <1>7, <1>8, WeighsSame
<1>10. x.stat \in Stat /\ y.stat = x.stat
  BY <1>3 DEF Typed
<1>11. /\ AllocDue(y) = AllocDue(x) + t - g /\ AvailDue(y) = AvailDue(x) + f - l
       /\ NusedDue(y) = NusedDue(x) + k - h /\ NfreeDue(y) = NfreeDue(x) + j - i
       /\ AllocDue(x) \in Int /\ AvailDue(x) \in Int
       /\ NusedDue(x) \in Int /\ NfreeDue(x) \in Int
  BY <1>1, <1>9, <1>10, DueChange
<1>12. t \in Nat /\ k \in Nat /\ f \in Nat /\ j \in Nat
  BY <1>1 DEF Weighs
<1> QED
  BY <1>6, <1>7, <1>11, <1>12 DEF DueUsed

(* What a swallow does to the sets that are summed.                        *)
LEMMA TakenSets ==
  ASSUME NEW x, Typed(x), Tiled(x), NEW b \in Blocks(x), NEW c \in Blocks(x),
         c = next_mblk(x, b), NEW y, TakenIn(x, b, c, y), y.stat = x.stat
  PROVE  /\ InUse(y) = InUse(x) \ {c} /\ FreeOf(y) = FreeOf(x) \ {c} /\ b # c
         /\ y.stat = x.stat
         /\ \A a \in Blocks(y) : a # b => y.blk[a].size = x.blk[a].size
         /\ y.blk[b].size = x.blk[b].size + MBLKHDRSIZE + x.blk[c].size
         /\ x.blk[b].size \in Nat /\ x.blk[c].size \in Nat /\ MBLKHDRSIZE \in Nat
         /\ Blocks(y) = Blocks(x) \ {c}
<1>1. b # c /\ x.blk[b].size \in Nat /\ x.blk[c].size \in Nat
  BY Ahead
<1>2. /\ Blocks(y) = Blocks(x) \ {c} /\ y.stat = x.stat
      /\ \A a \in Blocks(x) \ {c} :
           /\ y.blk[a].size = IF a = b THEN x.blk[b].size + MBLKHDRSIZE + x.blk[c].size
                              ELSE x.blk[a].size
           /\ y.blk[a].free = x.blk[a].free
  BY <1>1 DEF TakenIn
<1>3. InUse(y) = InUse(x) \ {c} /\ FreeOf(y) = FreeOf(x) \ {c}
  BY <1>2 DEF InUse, FreeOf, Blocks
<1>4. MBLKHDRSIZE \in Nat
  BY Constants DEF MBLKHDRSIZE
<1> QED
  BY <1>1, <1>2, <1>3, <1>4

(* A block in use takes in a free one.                                    *)
LEMMA DueUsedSwallow ==
  ASSUME NEW x, Typed(x), Tiled(x), NEW b \in InUse(x), NEW c \in FreeOf(x),
         c = next_mblk(x, b), NEW y, TakenIn(x, b, c, y), y.stat = x.stat,
         NEW h, h = MBLKHDRSIZE, NEW s, s = x.blk[c].size
  PROVE  /\ AllocDue(y) = AllocDue(x) - h - s /\ AvailDue(y) = AvailDue(x) + s
         /\ NusedDue(y) = NusedDue(x) /\ NfreeDue(y) = NfreeDue(x) + 1
<1>1. PICK t, k, f, j : Weighs(x, InUse(x), t, k) /\ Weighs(x, FreeOf(x), f, j)
  BY WeighsTiles
<1>2. /\ InUse(x) \subseteq Blocks(x) /\ FreeOf(x) \subseteq Blocks(x)
      /\ InUse(x) = Blocks(x) \ FreeOf(x)
  BY TilesSummed
<1>3. PICK q : q = x.blk[b].size
  OBVIOUS
<1>4. /\ InUse(y) = InUse(x) \ {c} /\ FreeOf(y) = FreeOf(x) \ {c} /\ b # c
      /\ y.stat = x.stat
      /\ \A a \in Blocks(y) : a # b => y.blk[a].size = x.blk[a].size
      /\ y.blk[b].size = q + h + s
      /\ q \in Nat /\ s \in Nat /\ h \in Nat
      /\ Blocks(y) = Blocks(x) \ {c}
  BY <1>2, <1>3, TakenSets
<1>5. PICK r : r = y.blk[b].size
  OBVIOUS
<1>6. r \in Nat /\ r = q + h + s
  BY <1>4, <1>5
<1>7. InUse(y) = InUse(x) /\ \A a \in InUse(x) : a # b => y.blk[a].size = x.blk[a].size
  BY <1>2, <1>4
<1>8. PICK g : g = t - q + r
  OBVIOUS
<1>9. Weighs(y, InUse(y), g, k)
  <2>1. Weighs(y, InUse(x), t - q + r, k)
    BY ONLY <1>1, <1>3, <1>5, <1>6, <1>7, b \in InUse(x), WeighsResized
  <2> QED
    BY ONLY <1>7, <1>8, <2>1
<1>10. PICK l, i : l = f - s /\ i = j - 1
  OBVIOUS
<1>11. Weighs(x, FreeOf(y), l, i)
  BY <1>1, <1>4, <1>10, WeighsLess
<1>12. SameSizesOn(x, y, FreeOf(y))
  BY <1>2, <1>4 DEF SameSizesOn
<1>13. Weighs(y, FreeOf(y), l, i)
  BY <1>11, <1>12, WeighsSame
<1>14. /\ x.stat \in Stat /\ y.stat = x.stat /\ t \in Nat /\ k \in Nat /\ f \in Nat /\ j \in Nat
       /\ q \in Nat /\ s \in Nat /\ h \in Nat
  BY <1>1, <1>4 DEF Typed, Weighs
<1>15. /\ AllocDue(y) = AllocDue(x) + t - g /\ AvailDue(y) = AvailDue(x) + f - l
       /\ NusedDue(y) = NusedDue(x) + k - k /\ NfreeDue(y) = NfreeDue(x) + j - i
       /\ AllocDue(x) \in Int /\ AvailDue(x) \in Int
       /\ NusedDue(x) \in Int /\ NfreeDue(x) \in Int
  BY <1>1, <1>9, <1>13, <1>14, DueChange
<1> QED
  BY <1>6, <1>8, <1>10, <1>14, <1>15

(* A free block takes in one in use.                                      *)
LEMMA DueFreeSwallow ==
  ASSUME NEW x, Typed(x), Tiled(x), NEW b \in FreeOf(x), NEW c \in InUse(x),
         c = next_mblk(x, b), NEW y, TakenIn(x, b, c, y), y.stat = x.stat,
         NEW h, h = MBLKHDRSIZE, NEW s, s = x.blk[c].size
  PROVE  /\ AllocDue(y) = AllocDue(x) + s /\ AvailDue(y) = AvailDue(x) - h - s
         /\ NusedDue(y) = NusedDue(x) + 1 /\ NfreeDue(y) = NfreeDue(x)
<1>1. PICK t, k, f, j : Weighs(x, InUse(x), t, k) /\ Weighs(x, FreeOf(x), f, j)
  BY WeighsTiles
<1>2. /\ InUse(x) \subseteq Blocks(x) /\ FreeOf(x) \subseteq Blocks(x)
      /\ InUse(x) = Blocks(x) \ FreeOf(x)
  BY TilesSummed
<1>3. PICK q : q = x.blk[b].size
  OBVIOUS
<1>4. /\ InUse(y) = InUse(x) \ {c} /\ FreeOf(y) = FreeOf(x) \ {c} /\ b # c
      /\ y.stat = x.stat
      /\ \A a \in Blocks(y) : a # b => y.blk[a].size = x.blk[a].size
      /\ y.blk[b].size = q + h + s
      /\ q \in Nat /\ s \in Nat /\ h \in Nat
      /\ Blocks(y) = Blocks(x) \ {c}
  BY <1>2, <1>3, TakenSets
<1>5. PICK r : r = y.blk[b].size
  OBVIOUS
<1>6. r \in Nat /\ r = q + h + s
  BY <1>4, <1>5
<1>7. FreeOf(y) = FreeOf(x) /\ \A a \in FreeOf(x) : a # b => y.blk[a].size = x.blk[a].size
  BY <1>2, <1>4
<1>8. PICK g : g = f - q + r
  OBVIOUS
<1>9. Weighs(y, FreeOf(y), g, j)
  <2>1. Weighs(y, FreeOf(x), f - q + r, j)
    BY ONLY <1>1, <1>3, <1>5, <1>6, <1>7, b \in FreeOf(x), WeighsResized
  <2> QED
    BY ONLY <1>7, <1>8, <2>1
<1>10. PICK l, i : l = t - s /\ i = k - 1
  OBVIOUS
<1>11. Weighs(x, InUse(y), l, i)
  BY <1>1, <1>4, <1>10, WeighsLess
<1>12. SameSizesOn(x, y, InUse(y))
  BY <1>2, <1>4 DEF SameSizesOn
<1>13. Weighs(y, InUse(y), l, i)
  BY <1>11, <1>12, WeighsSame
<1>14. /\ x.stat \in Stat /\ y.stat = x.stat /\ t \in Nat /\ k \in Nat /\ f \in Nat /\ j \in Nat
       /\ q \in Nat /\ s \in Nat /\ h \in Nat
  BY <1>1, <1>4 DEF Typed, Weighs
<1>15. /\ AllocDue(y) = AllocDue(x) + t - l /\ AvailDue(y) = AvailDue(x) + f - g
       /\ NusedDue(y) = NusedDue(x) + k - i /\ NfreeDue(y) = NfreeDue(x) + j - j
       /\ AllocDue(x) \in Int /\ AvailDue(x) \in Int
       /\ NusedDue(x) \in Int /\ NfreeDue(x) \in Int
  BY <1>1, <1>9, <1>13, <1>14, DueChange
<1> QED
  BY <1>6, <1>8, <1>10, <1>14, <1>15

(* Two free blocks become one.                                            *)
LEMMA DueBothSwallow ==
  ASSUME NEW x, Typed(x), Tiled(x), NEW b \in FreeOf(x), NEW c \in FreeOf(x),
         c = next_mblk(x, b), NEW y, TakenIn(x, b, c, y), y.stat = x.stat,
         NEW h, h = MBLKHDRSIZE, NEW s, s = x.blk[c].size
  PROVE  /\ AllocDue(y) = AllocDue(x) /\ AvailDue(y) = AvailDue(x) - h
         /\ NusedDue(y) = NusedDue(x) /\ NfreeDue(y) = NfreeDue(x) + 1
<1>1. PICK t, k, f, j : Weighs(x, InUse(x), t, k) /\ Weighs(x, FreeOf(x), f, j)
  BY WeighsTiles
<1>2. /\ InUse(x) \subseteq Blocks(x) /\ FreeOf(x) \subseteq Blocks(x)
      /\ InUse(x) = Blocks(x) \ FreeOf(x)
  BY TilesSummed
<1>3. PICK q : q = x.blk[b].size
  OBVIOUS
<1>4. /\ InUse(y) = InUse(x) \ {c} /\ FreeOf(y) = FreeOf(x) \ {c} /\ b # c
      /\ y.stat = x.stat
      /\ \A a \in Blocks(y) : a # b => y.blk[a].size = x.blk[a].size
      /\ y.blk[b].size = q + h + s
      /\ q \in Nat /\ s \in Nat /\ h \in Nat
      /\ Blocks(y) = Blocks(x) \ {c}
  BY <1>2, <1>3, TakenSets
<1>5. PICK r : r = y.blk[b].size
  OBVIOUS
<1>6. r \in Nat /\ r = q + h + s
  BY <1>4, <1>5
<1>7. InUse(y) = InUse(x) /\ SameSizesOn(x, y, InUse(x))
  BY <1>2, <1>4 DEF SameSizesOn
<1>8. Weighs(y, InUse(y), t, k)
  BY <1>1, <1>7, WeighsSame
<1>9. PICK l, i : l = f - s /\ i = j - 1
  OBVIOUS
<1>10. Weighs(x, FreeOf(y), l, i)
  BY <1>1, <1>4, <1>9, WeighsLess
<1>11. b \in FreeOf(y) /\ \A a \in FreeOf(y) : a # b => y.blk[a].size = x.blk[a].size
  BY <1>2, <1>4
<1>12. PICK g : g = l - q + r
  OBVIOUS
<1>13. Weighs(y, FreeOf(y), g, i)
  BY <1>3, <1>5, <1>6, <1>10, <1>11, <1>12, WeighsResized
<1>14. /\ x.stat \in Stat /\ y.stat = x.stat /\ t \in Nat /\ k \in Nat /\ f \in Nat /\ j \in Nat
       /\ q \in Nat /\ s \in Nat /\ h \in Nat
  BY <1>1, <1>4 DEF Typed, Weighs
<1>15. /\ AllocDue(y) = AllocDue(x) + t - t /\ AvailDue(y) = AvailDue(x) + f - g
       /\ NusedDue(y) = NusedDue(x) + k - k /\ NfreeDue(y) = NfreeDue(x) + j - i
       /\ AllocDue(x) \in Int /\ AvailDue(x) \in Int
       /\ NusedDue(x) \in Int /\ NfreeDue(x) \in Int
  BY <1>1, <1>8, <1>13, <1>14, DueChange
<1> QED
  BY <1>6, <1>9, <1>12, <1>14, <1>15

(* What breaking a block does to the sets that are summed.                 *)
LEMMA SplitSets ==
  ASSUME NEW x, Typed(x), Tiled(x), NEW b \in Blocks(x), NEW size \in Nat, NEW rest \in Nat,
         NEW r, NEW y, SplitAt(x, b, size, rest, r, y)
  PROVE  /\ InUse(y) = InUse(x) /\ FreeOf(y) = FreeOf(x) \union {r}
         /\ r \notin FreeOf(x) /\ y.stat = x.stat /\ y.blk[r].size = rest
         /\ \A a \in Blocks(x) : y.blk[a].size = IF a = b THEN size ELSE x.blk[a].size
<1>1. /\ Blocks(y) = Blocks(x) \union {r} /\ y.stat = x.stat /\ r \notin Blocks(x)
      /\ y.blk[r].size = rest /\ y.blk[r].free = TRUE
      /\ \A a \in Blocks(x) : /\ y.blk[a].size = IF a = b THEN size ELSE x.blk[a].size
                              /\ y.blk[a].free = x.blk[a].free
  BY DEF SplitAt
<1> QED
  BY <1>1 DEF InUse, FreeOf, Blocks

(* A block in use is broken.                                              *)
LEMMA DueUsedSplit ==
  ASSUME NEW x, Typed(x), Tiled(x), NEW b \in InUse(x), NEW size \in Nat, NEW rest \in Nat,
         NEW h \in Nat, h = MBLKHDRSIZE, x.blk[b].size = size + h + rest,
         NEW r, NEW y, SplitAt(x, b, size, rest, r, y)
  PROVE  /\ AllocDue(y) = AllocDue(x) + h + rest /\ AvailDue(y) = AvailDue(x) - rest
         /\ NusedDue(y) = NusedDue(x) /\ NfreeDue(y) = NfreeDue(x) - 1
<1>1. PICK t, k, f, j : Weighs(x, InUse(x), t, k) /\ Weighs(x, FreeOf(x), f, j)
  BY WeighsTiles
<1>2. /\ InUse(x) \subseteq Blocks(x) /\ FreeOf(x) \subseteq Blocks(x)
      /\ InUse(x) = Blocks(x) \ FreeOf(x)
  BY TilesSummed
<1>3. PICK q \in Nat : q = x.blk[b].size /\ q = size + h + rest
  OBVIOUS
<1>4. /\ InUse(y) = InUse(x) /\ FreeOf(y) = FreeOf(x) \union {r}
      /\ r \notin FreeOf(x) /\ y.stat = x.stat /\ rest = y.blk[r].size
      /\ \A a \in Blocks(x) : y.blk[a].size = IF a = b THEN size ELSE x.blk[a].size
  BY <1>2, SplitSets
<1>5. size = y.blk[b].size /\ \A a \in InUse(x) : a # b => y.blk[a].size = x.blk[a].size
  BY <1>2, <1>4
<1>6. PICK g : g = t - q + size
  OBVIOUS
<1>7. Weighs(y, InUse(y), g, k)
  <2>1. Weighs(y, InUse(x), t - q + size, k)
    BY ONLY <1>1, <1>3, <1>5, b \in InUse(x), size \in Nat, WeighsResized
  <2> QED
    BY ONLY <1>4, <1>6, <2>1
<1>8. SameSizesOn(x, y, FreeOf(x))
  BY <1>2, <1>4 DEF SameSizesOn
<1>9. Weighs(y, FreeOf(x), f, j)
  BY <1>1, <1>8, WeighsSame
<1>10. PICK l, i : l = f + rest /\ i = j + 1
  OBVIOUS
<1>11. Weighs(y, FreeOf(y), l, i)
  BY <1>4, <1>9, <1>10, WeighsMore
<1>12. /\ x.stat \in Stat /\ y.stat = x.stat /\ t \in Nat /\ k \in Nat /\ f \in Nat /\ j \in Nat
  BY <1>1, <1>4 DEF Typed, Weighs
<1>13. /\ AllocDue(y) = AllocDue(x) + t - g /\ AvailDue(y) = AvailDue(x) + f - l
       /\ NusedDue(y) = NusedDue(x) + k - k /\ NfreeDue(y) = NfreeDue(x) + j - i
       /\ AllocDue(x) \in Int /\ AvailDue(x) \in Int
       /\ NusedDue(x) \in Int /\ NfreeDue(x) \in Int
  BY <1>1, <1>7, <1>11, <1>12, DueChange
<1> QED
  BY <1>3, <1>6, <1>10, <1>12, <1>13

(* A free block is broken.                                                *)
LEMMA DueFreeSplit ==
  ASSUME NEW x, Typed(x), Tiled(x), NEW b \in FreeOf(x), NEW size \in Nat, NEW rest \in Nat,
         NEW h \in Nat, h = MBLKHDRSIZE, x.blk[b].size = size + h + rest,
         NEW r, NEW y, SplitAt(x, b, size, rest, r, y)
  PROVE  /\ AllocDue(y) = AllocDue(x) /\ AvailDue(y) = AvailDue(x) + h
         /\ NusedDue(y) = NusedDue(x) /\ NfreeDue(y) = NfreeDue(x) - 1
<1>1. PICK t, k, f, j : Weighs(x, InUse(x), t, k) /\ Weighs(x, FreeOf(x), f, j)
  BY WeighsTiles
<1>2. /\ InUse(x) \subseteq Blocks(x) /\ FreeOf(x) \subseteq Blocks(x)
      /\ InUse(x) = Blocks(x) \ FreeOf(x)
  BY TilesSummed
<1>3. PICK q \in Nat : q = x.blk[b].size /\ q = size + h + rest
  OBVIOUS
<1>4. /\ InUse(y) = InUse(x) /\ FreeOf(y) = FreeOf(x) \union {r}
      /\ r \notin FreeOf(x) /\ y.stat = x.stat /\ rest = y.blk[r].size
      /\ \A a \in Blocks(x) : y.blk[a].size = IF a = b THEN size ELSE x.blk[a].size
  BY <1>2, SplitSets
<1>5. size = y.blk[b].size /\ \A a \in FreeOf(x) : a # b => y.blk[a].size = x.blk[a].size
  BY <1>2, <1>4
<1>6. PICK g : g = f - q + size
  OBVIOUS
<1>7. Weighs(y, FreeOf(x), g, j)
  BY <1>1, <1>3, <1>4, <1>5, <1>6, WeighsResized
<1>8. SameSizesOn(x, y, InUse(x))
  BY <1>2, <1>4 DEF SameSizesOn
<1>9. Weighs(y, InUse(y), t, k)
  BY <1>1, <1>4, <1>8, WeighsSame
<1>10. PICK l, i : l = g + rest /\ i = j + 1
  OBVIOUS
<1>11. Weighs(y, FreeOf(y), l, i)
  BY <1>4, <1>7, <1>10, WeighsMore
<1>12. /\ x.stat \in Stat /\ y.stat = x.stat /\ t \in Nat /\ k \in Nat /\ f \in Nat /\ j \in Nat
  BY <1>1, <1>4 DEF Typed, Weighs
<1>13. /\ AllocDue(y) = AllocDue(x) + t - t /\ AvailDue(y) = AvailDue(x) + f - l
       /\ NusedDue(y) = NusedDue(x) + k - k /\ NfreeDue(y) = NfreeDue(x) + j - i
       /\ AllocDue(x) \in Int /\ AvailDue(x) \in Int
       /\ NusedDue(x) \in Int /\ NfreeDue(x) \in Int
  BY <1>1, <1>9, <1>11, <1>12, DueChange
<1> QED
  BY <1>3, <1>6, <1>10, <1>12, <1>13

-----------------------------------------------------------------------------
(* The state of the zone within an operation.  The blocks behind those of  *)
(* S have not been told sizes yet, those of T may be free beside free      *)
(* ones, and the blocks F are in the chains.                               *)
Mid(x, S, T, F) ==
  /\ Typed(x) /\ Tiled(x) /\ Known(x, S) /\ Apart(x, T) /\ Listed(x, F)

(* Exempting more blocks is a weaker claim.                                 *)
LEMMA MidWeaker ==
  ASSUME NEW x, NEW S, NEW T, NEW F, Mid(x, S, T, F),
         NEW S2, S \subseteq S2, NEW T2, T \subseteq T2
  PROVE  Mid(x, S2, T2, F)
  BY DEF Mid, Known, Apart

(* The listed set may be written in any way.                                *)
LEMMA MidListed ==
  ASSUME NEW x, NEW S, NEW T, NEW F, Mid(x, S, T, F), NEW G, G = F
  PROVE  Mid(x, S, T, G)
  OBVIOUS

(* detach_from_freelist, between two consistent states.                     *)
LEMMA MidDetach ==
  ASSUME NEW x, NEW S, NEW T, NEW F, Mid(x, S, T, F), NEW b \in F,
         NEW G, G = F \ {b}, NEW y, y = detach_from_freelist(x, b)
  PROVE  Mid(y, S, T, G) /\ Alike(x, y) /\ y.stat = x.stat
<1>1. Typed(x) /\ Tiled(x) /\ Known(x, S) /\ Apart(x, T) /\ Listed(x, F) /\ b \in Blocks(x)
  BY DEF Mid, Listed
<1>2. x.blk[b].size \in Sizes
  BY <1>1, Inside
<1>3. DetachEffect(x, b, y)
  BY <1>1, <1>2, DetachDoes
<1>4. SameTiling(x, y)
  BY <1>3 DEF DetachEffect
<1>5. Typed(y) /\ Alike(x, y) /\ SameSizes(x, y) /\ y.stat = x.stat
  BY <1>4 DEF SameTiling, SameBlock, Alike, SameSizes
<1>6. Tiled(y)
  BY <1>1, <1>5, SameTiled
<1>7. Known(y, S)
  BY <1>1, <1>4, <1>5, SameKnown DEF SameTiling, SameBlock
<1>8. Apart(y, T)
  BY <1>1, <1>4, <1>5, SameApart DEF SameTiling, SameBlock
<1>9. Listed(y, F \ {b})
  BY <1>1, <1>2, <1>3, DetachListed
<1> QED
  BY <1>5, <1>6, <1>7, <1>8, <1>9 DEF Mid

(* attach_to_freelist, between two consistent states.                       *)
LEMMA MidAttach ==
  ASSUME NEW x, NEW S, NEW T, NEW F, Mid(x, S, T, F), NEW b \in Blocks(x), b \notin F,
         NEW G, G = F \union {b}, NEW y, y = attach_to_freelist(x, b)
  PROVE  Mid(y, S, T, G) /\ Alike(x, y) /\ y.stat = x.stat
<1>1. Typed(x) /\ Tiled(x) /\ Known(x, S) /\ Apart(x, T) /\ Listed(x, F)
  BY DEF Mid
<1>2. x.blk[b].size \in Sizes
  BY <1>1, Inside
<1>3. AttachEffect(x, b, y)
  BY <1>1, <1>2, AttachDoes
<1>4. SameTiling(x, y)
  BY <1>3 DEF AttachEffect
<1>5. Typed(y) /\ Alike(x, y) /\ SameSizes(x, y) /\ y.stat = x.stat
  BY <1>4 DEF SameTiling, SameBlock, Alike, SameSizes
<1>6. Tiled(y)
  BY <1>1, <1>5, SameTiled
<1>7. Known(y, S)
  BY <1>1, <1>4, <1>5, SameKnown DEF SameTiling, SameBlock
<1>8. Apart(y, T)
  BY <1>1, <1>4, <1>5, SameApart DEF SameTiling, SameBlock
<1>9. Listed(y, F \union {b})
  BY <1>1, <1>2, <1>3, AttachListed
<1> QED
  BY <1>5, <1>6, <1>7, <1>8, <1>9 DEF Mid

(* TellNext clears the exemption of b: its successor knows its size.        *)
LEMMA MidTell ==
  ASSUME NEW x, NEW b \in Blocks(x), NEW T, NEW F, Mid(x, {b}, T, F),
         NEW y, y = TellNext(x, b)
  PROVE  Mid(y, {}, T, F) /\ Alike(x, y) /\ y.stat = x.stat
<1>1. Typed(x) /\ Tiled(x) /\ Known(x, {b}) /\ Apart(x, T) /\ Listed(x, F)
  BY DEF Mid
<1>2. next_mblk(x, b) < x.end => next_mblk(x, b) \in Blocks(x)
  BY <1>1, Inside
<1>3. TellEffect(x, b, y)
  BY <1>1, <1>2, TellDoes
<1>4. Typed(y) /\ Alike(x, y) /\ y.stat = x.stat /\ y.xfree = x.xfree /\ Blocks(y) = Blocks(x)
  BY <1>3 DEF TellEffect, Beside, Alike
<1>5. SameSizes(x, y) /\ Known(y, {})
  BY <1>1, <1>3, TellKnown
<1>6. Tiled(y)
  BY <1>1, <1>5, SameTiled
<1>7. Apart(y, T)
  BY <1>1, <1>4, <1>5, SameApart DEF Alike
<1>8. F \subseteq Blocks(x)
  BY <1>1 DEF Listed
<1>9. \A a \in F : y.blk[a].size = x.blk[a].size /\ SameLinks(x, y, a)
  BY <1>3, <1>8 DEF TellEffect
<1>10. Listed(y, F)
  BY <1>1, <1>4, <1>8, <1>9, ListedStays
<1> QED
  BY <1>4, <1>5, <1>6, <1>7, <1>10 DEF Mid

(* Count disturbs nothing but the counters.                                 *)
LEMMA MidCount ==
  ASSUME NEW x, NEW S, NEW T, NEW F, Mid(x, S, T, F),
         NEW alloc \in Int, NEW avail \in Int, NEW nused \in Int, NEW nfree \in Int,
         NEW y, y = Count(x, alloc, avail, nused, nfree)
  PROVE  /\ Mid(y, S, T, F) /\ Alike(x, y)
         /\ CountEffect(x, alloc, avail, nused, nfree, y)
<1>1. Typed(x) /\ Tiled(x) /\ Known(x, S) /\ Apart(x, T) /\ Listed(x, F)
  BY DEF Mid
<1>2. CountEffect(x, alloc, avail, nused, nfree, y)
  BY <1>1, CountDoes
<1>3. Typed(y) /\ y.end = x.end /\ y.blk = x.blk /\ y.xfree = x.xfree /\ Blocks(y) = Blocks(x)
  BY <1>2 DEF CountEffect, Blocks
<1>4. Alike(x, y) /\ SameSizes(x, y)
  BY <1>3 DEF Alike, SameSizes
<1>5. Tiled(y)
  BY <1>1, <1>4, SameTiled
<1>6. Known(y, S)
  BY <1>1, <1>3, <1>4, SameKnown
<1>7. Apart(y, T)
  BY <1>1, <1>3, <1>4, SameApart
<1>8. F \subseteq Blocks(x) /\ \A a \in F : y.blk[a].size = x.blk[a].size /\ SameLinks(x, y, a)
  BY <1>1, <1>3 DEF Listed, SameLinks
<1>9. Listed(y, F)
  BY <1>1, <1>3, <1>8, ListedStays
<1> QED
  BY <1>2, <1>3, <1>4, <1>5, <1>6, <1>7, <1>9 DEF Mid

(* SetFree of an unlisted block that may have free neighbours.              *)
LEMMA MidSetFree ==
  ASSUME NEW x, NEW b \in Blocks(x), NEW S, NEW F, Mid(x, S, {b}, F), b \notin F,
         NEW free \in BOOLEAN, NEW y, y = SetFree(x, b, free)
  PROVE  /\ Mid(y, S, {b}, F) /\ SetFreeEffect(x, b, free, y)
<1>1. Typed(x) /\ Tiled(x) /\ Known(x, S) /\ Apart(x, {b}) /\ Listed(x, F)
  BY DEF Mid
<1>2. SetFreeEffect(x, b, free, y)
  BY <1>1, SetFreeDoes
<1>3. /\ Typed(y) /\ SameSizes(x, y) /\ y.xfree = x.xfree /\ Blocks(y) = Blocks(x)
      /\ \A a \in Blocks(x) : y.blk[a].prev_size = x.blk[a].prev_size
      /\ \A a \in Blocks(x) \ {b} : y.blk[a].free = x.blk[a].free
  BY <1>2 DEF SetFreeEffect, Beside, SameSizes
<1>4. Tiled(y)
  BY <1>1, <1>3, SameTiled
<1>5. Known(y, S)
  BY <1>1, <1>3, SameKnown
<1>6. Apart(y, {b})
  BY <1>1, <1>3, SameApart
<1>7. F \subseteq Blocks(x)
  BY <1>1 DEF Listed
<1>8. \A a \in F : y.blk[a].size = x.blk[a].size /\ SameLinks(x, y, a)
  BY <1>2, <1>7 DEF SetFreeEffect
<1>9. Listed(y, F)
  BY <1>1, <1>3, <1>7, <1>8, ListedStays
<1> QED
  BY <1>2, <1>3, <1>4, <1>5, <1>6, <1>9 DEF Mid

(* Swallow of an unlisted successor; the block behind is not told yet.      *)
LEMMA MidSwallow ==
  ASSUME NEW x, NEW b \in Blocks(x), NEW F, Mid(x, {b}, {b}, F), b \notin F,
         NEW n \in Blocks(x), n = next_mblk(x, b), n \notin F,
         NEW y, y = Swallow(x, b)
  PROVE  /\ Mid(y, {b}, {b}, F) /\ SwallowEffect(x, b, y)
         /\ TakenIn(x, b, n, y) /\ y.stat = x.stat
<1>1. Typed(x) /\ Tiled(x) /\ Known(x, {b}) /\ Apart(x, {b}) /\ Listed(x, F)
  BY DEF Mid
<1>2. SwallowEffect(x, b, y)
  BY <1>1, SwallowDoes
<1>3. /\ Tiled(y) /\ b \in Blocks(y) /\ next_mblk(y, b) = next_mblk(x, n)
      /\ \A a \in Blocks(y) \ {b} : next_mblk(y, a) = next_mblk(x, a)
      /\ Known(y, {b}) /\ Apart(y, {b})
  BY <1>1, <1>2, SwallowTiled
<1>4. /\ Typed(y) /\ y.xfree = x.xfree /\ Blocks(y) = Blocks(x) \ {n}
      /\ y.end = x.end /\ y.stat = x.stat
      /\ \A a \in Blocks(y) : y.blk[a].free = x.blk[a].free
      /\ \A a \in Blocks(y) : a # b => y.blk[a].size = x.blk[a].size
      /\ y.blk[b].size = x.blk[b].size + MBLKHDRSIZE + x.blk[n].size
      /\ \A a \in Blocks(y) : SameLinks(x, y, a)
  BY <1>2, <1>3 DEF SwallowEffect, Beside
<1>5. F \subseteq Blocks(x)
  BY <1>1 DEF Listed
<1>6. F \subseteq Blocks(y) /\ \A a \in F : y.blk[a].size = x.blk[a].size /\ SameLinks(x, y, a)
  BY <1>4, <1>5
<1>7. Listed(y, F)
  BY <1>1, <1>4, <1>6, ListedStays
<1>8. TakenIn(x, b, n, y)
  BY <1>3, <1>4 DEF TakenIn
<1> QED
  BY <1>2, <1>3, <1>4, <1>7, <1>8 DEF Mid

(* The outcome of a split survives what is alike.                           *)
LEMMA SplitAlike ==
  ASSUME NEW x, NEW b \in Blocks(x), NEW size, NEW rest, NEW r, NEW y,
         SplitAt(x, b, size, rest, r, y), NEW z, Alike(y, z), z.stat = y.stat
  PROVE  SplitAt(x, b, size, rest, r, z)
<1>1. \A a \in Blocks(y) : next_mblk(z, a) = next_mblk(y, a)
  BY AlikeSets
<1> QED
  BY <1>1 DEF SplitAt, Alike

(* Breaking an unlisted block; the block behind is not told yet.            *)
LEMMA MidBroken ==
  ASSUME NEW x, NEW b \in Blocks(x), NEW F, Mid(x, {b}, {b}, F), b \notin F,
         NEW size \in Nat, NEW rest \in Nat, size >= MINALLOCSIZE, rest >= MINALLOCSIZE,
         x.blk[b].size = size + MBLKHDRSIZE + rest,
         next_mblk(x, b) \in Blocks(x) => ~ x.blk[next_mblk(x, b)].free,
         NEW r, r = b + MBLKHDRSIZE + size,
         NEW y, y = Broken(x, b, size, rest)
  PROVE  /\ Mid(y, {r}, {b}, F) /\ SplitAt(x, b, size, rest, r, y)
<1>1. Typed(x) /\ Tiled(x) /\ Known(x, {b}) /\ Apart(x, {b}) /\ Listed(x, F)
  BY DEF Mid
<1>2. r \notin Blocks(x)
  <2>1. /\ b \in Nat /\ MBLKHDRSIZE \in Nat /\ MBLKHDRSIZE > 0
        /\ next_mblk(x, b) = b + MBLKHDRSIZE + x.blk[b].size
    BY <1>1, Ahead, Constants DEF MBLKHDRSIZE
  <2>2. r \in Nat /\ b < r
    BY <2>1
  <2>3. next_mblk(x, b) = r + MBLKHDRSIZE + rest
    BY <2>1
  <2>4. r < next_mblk(x, b)
    BY <2>1, <2>2, <2>3
  <2> QED
    BY <1>1, <2>2, <2>4, NoHeader
<1>3. BrokenEffect(x, b, size, rest, y)
  BY <1>1, <1>2, BrokenDoes
<1>4. /\ Tiled(y) /\ next_mblk(y, b) = r
      /\ \A a \in Blocks(x) \ {b} : next_mblk(y, a) = next_mblk(x, a)
      /\ Known(y, {r}) /\ Apart(y, {b})
  BY <1>1, <1>3, BrokenTiled
<1>5. /\ Typed(y) /\ y.xfree = x.xfree /\ Blocks(y) = Blocks(x) \union {r}
      /\ y.end = x.end /\ y.stat = x.stat
      /\ y.blk[r].size = rest /\ y.blk[r].free = TRUE
      /\ \A a \in Blocks(x) : /\ y.blk[a].size = IF a = b THEN size ELSE x.blk[a].size
                              /\ y.blk[a].free = x.blk[a].free
                              /\ SameLinks(x, y, a)
  BY <1>3 DEF BrokenEffect, Beside
<1>6. F \subseteq Blocks(x)
  BY <1>1 DEF Listed
<1>7. F \subseteq Blocks(y) /\ \A a \in F : y.blk[a].size = x.blk[a].size /\ SameLinks(x, y, a)
  BY <1>5, <1>6
<1>8. Listed(y, F)
  BY <1>1, <1>5, <1>7, ListedStays
<1>9. SplitAt(x, b, size, rest, r, y)
  BY <1>2, <1>4, <1>5 DEF SplitAt
<1> QED
  BY <1>4, <1>5, <1>8, <1>9 DEF Mid

(* Splitting: the rest is put on its chain, and the block behind is told.  *)
LEMMA MidSplit ==
  ASSUME NEW x, NEW b \in Blocks(x), NEW F, Mid(x, {b}, {b}, F), b \notin F,
         NEW size \in Nat, NEW rest \in Nat, size >= MINALLOCSIZE, rest >= MINALLOCSIZE,
         x.blk[b].size = size + MBLKHDRSIZE + rest,
         next_mblk(x, b) \in Blocks(x) => ~ x.blk[next_mblk(x, b)].free,
         NEW r, r = b + MBLKHDRSIZE + size, NEW G, G = F \union {r},
         NEW s, s = SplitOff(x, b, size, rest),
         NEW y, y = TellNext(s, next_mblk(s, b))
  PROVE  /\ Mid(y, {}, {b}, G) /\ SplitAt(x, b, size, rest, r, y)
<1>1. PICK z : z = Broken(x, b, size, rest)
  OBVIOUS
<1>2. Mid(z, {r}, {b}, F) /\ SplitAt(x, b, size, rest, r, z)
  BY <1>1, MidBroken
<1>3. r \in Blocks(z) /\ r \notin F
  BY <1>2 DEF SplitAt, Mid, Listed
<1>4. s = attach_to_freelist(z, r)
  BY <1>1, SplitIs
<1>5. Mid(s, {r}, {b}, G) /\ Alike(z, s) /\ s.stat = z.stat
  BY ONLY <1>2, <1>3, <1>4, G = F \union {r}, MidAttach
<1>6. SplitAt(x, b, size, rest, r, s)
  BY <1>2, <1>5, SplitAlike
<1>7. y = TellNext(s, r) /\ r \in Blocks(s)
  BY <1>6 DEF SplitAt
<1>8. Mid(y, {}, {b}, G) /\ Alike(s, y) /\ y.stat = s.stat
  BY <1>5, <1>7, MidTell
<1> QED
  BY <1>6, <1>8, SplitAlike

(* The outcome of SetFree survives what is alike.                           *)
LEMMA SetFreeAlike ==
  ASSUME NEW x, NEW b, NEW free, NEW y, SetFreeAt(x, b, free, y),
         NEW z, Alike(y, z), z.stat = y.stat
  PROVE  SetFreeAt(x, b, free, z)
<1>1. \A a \in Blocks(y) : next_mblk(z, a) = next_mblk(y, a)
  BY AlikeSets
<1> QED
  BY <1>1 DEF SetFreeAt, Alike

(* SetFree reaches its outcome.                                             *)
LEMMA SetFreeIsAt ==
  ASSUME NEW x, NEW b, NEW free, NEW y, SetFreeEffect(x, b, free, y)
  PROVE  SetFreeAt(x, b, free, y)
  BY DEF SetFreeAt, SetFreeEffect, Beside, next_mblk

(* SetFree to TRUE followed by attach_to_freelist.                          *)
LEMMA MidPut ==
  ASSUME NEW x, NEW b \in Blocks(x), NEW S, NEW F, Mid(x, S, {b}, F), b \notin F,
         NEW G, G = F \union {b},
         NEW y, y = attach_to_freelist(SetFree(x, b, TRUE), b)
  PROVE  /\ Mid(y, S, {b}, G) /\ SetFreeAt(x, b, TRUE, y)
<1>1. PICK z : z = SetFree(x, b, TRUE)
  OBVIOUS
<1>2. Mid(z, S, {b}, F) /\ SetFreeEffect(x, b, TRUE, z)
  BY <1>1, MidSetFree
<1>3. SetFreeAt(x, b, TRUE, z)
  BY <1>2, SetFreeIsAt, Zenon
<1>4. b \in Blocks(z) /\ y = attach_to_freelist(z, b)
  BY <1>1, <1>3 DEF SetFreeAt
<1>5. PICK T : T = {b} /\ Mid(z, S, T, F)
  BY <1>2
<1>6. Mid(y, S, T, G) /\ Alike(z, y) /\ y.stat = z.stat
  BY ONLY <1>4, <1>5, b \notin F, G = F \union {b}, MidAttach
<1>7. SetFreeAt(x, b, TRUE, y)
  BY <1>3, <1>6, SetFreeAlike, Zenon
<1> QED
  BY <1>5, <1>6, <1>7

(* The tail of a merge: mark, list, tell the block behind.                  *)
LEMMA MidJoined ==
  ASSUME NEW x, NEW b \in Blocks(x), NEW F, Mid(x, {b}, {b}, F), b \notin F,
         NEW G, G = F \union {b},
         NEW y, y = TellNext(attach_to_freelist(SetFree(x, b, TRUE), b), b)
  PROVE  /\ Mid(y, {}, {b}, G) /\ SetFreeAt(x, b, TRUE, y)
<1>1. PICK z : z = attach_to_freelist(SetFree(x, b, TRUE), b)
  OBVIOUS
<1>2. Mid(z, {b}, {b}, G) /\ SetFreeAt(x, b, TRUE, z)
  BY <1>1, MidPut
<1>3. b \in Blocks(z)
  BY <1>2 DEF SetFreeAt
<1>4. Mid(y, {}, {b}, G) /\ Alike(z, y) /\ y.stat = z.stat
  BY <1>1, <1>2, <1>3, MidTell
<1> QED
  BY <1>2, <1>4, SetFreeAlike

(* No neighbour of b is free, or b is in use.                              *)
LEMMA MidClose ==
  ASSUME NEW x, NEW b \in Blocks(x), NEW F, Mid(x, {}, {b}, F),
         next_mblk(x, b) \in Blocks(x) => ~ (x.blk[b].free /\ x.blk[next_mblk(x, b)].free),
         \A c \in Blocks(x) : next_mblk(x, c) = b => ~ (x.blk[c].free /\ x.blk[b].free)
  PROVE  Mid(x, {}, {}, F)
  BY CloseApart DEF Mid

-----------------------------------------------------------------------------
(* The operations, from a state in order to a state in order.              *)

NothingDue(x) ==
  AllocDue(x) = 0 /\ AvailDue(x) = 0 /\ NusedDue(x) = 0 /\ NfreeDue(x) = 0

Good(x) == Mid(x, {}, {}, FreeOf(x)) /\ NothingDue(x)

(* The same blocks, of the same sizes, but those of F are the free ones.   *)
FreeNow(x, F, y) ==
  /\ SameSizes(x, y) /\ FreeOf(y) = F /\ InUse(y) = Blocks(x) \ F

(* The free blocks after a block was marked free.                           *)
LEMMA SetFreeNow ==
  ASSUME NEW x, NEW b, b \in Blocks(x), NEW y, SetFreeAt(x, b, TRUE, y)
  PROVE  FreeNow(x, FreeOf(x) \union {b}, y)
<1>1. /\ SameSizes(x, y) /\ Blocks(y) = Blocks(x)
      /\ \A a \in Blocks(x) : y.blk[a].free = IF a = b THEN TRUE ELSE x.blk[a].free
  BY DEF SetFreeAt, SameSizes
<1>2. FreeOf(y) = FreeOf(x) \union {b}
  BY <1>1 DEF FreeOf
<1>3. InUse(y) = Blocks(x) \ FreeOf(y)
  BY <1>1 DEF InUse, FreeOf, Blocks
<1> QED
  BY <1>1, <1>2, <1>3 DEF FreeNow

(* The free blocks after a block was marked used.                           *)
LEMMA SetUsedNow ==
  ASSUME NEW x, NEW b, b \in Blocks(x), NEW y, SetFreeAt(x, b, FALSE, y)
  PROVE  FreeNow(x, FreeOf(x) \ {b}, y)
<1>1. /\ SameSizes(x, y) /\ Blocks(y) = Blocks(x)
      /\ \A a \in Blocks(x) : y.blk[a].free = IF a = b THEN FALSE ELSE x.blk[a].free
  BY DEF SetFreeAt, SameSizes
<1>2. FreeOf(y) = FreeOf(x) \ {b}
  BY <1>1 DEF FreeOf
<1>3. InUse(y) = Blocks(x) \ FreeOf(y)
  BY <1>1 DEF InUse, FreeOf, Blocks
<1> QED
  BY <1>1, <1>2, <1>3 DEF FreeNow

(* The set of free blocks survives what is alike.                           *)
LEMMA AlikeNow ==
  ASSUME NEW x, NEW F, NEW y, FreeNow(x, F, y), NEW z, Alike(y, z)
  PROVE  FreeNow(x, F, z)
  BY AlikeSets DEF FreeNow, SameSizes

(* Count between two consistent states, with the debts it leaves.           *)
LEMMA MidCounted ==
  ASSUME NEW x, NEW S, NEW T, NEW F, Mid(x, S, T, F),
         NEW alloc \in Int, NEW avail \in Int, NEW nused \in Int, NEW nfree \in Int,
         NEW y, y = Count(x, alloc, avail, nused, nfree)
  PROVE  /\ Mid(y, S, T, F) /\ Alike(x, y)
         /\ AllocDue(y) = AllocDue(x) + alloc /\ AvailDue(y) = AvailDue(x) + avail
         /\ NusedDue(y) = NusedDue(x) + nused /\ NfreeDue(y) = NfreeDue(x) + nfree
<1>1. /\ Mid(y, S, T, F) /\ Alike(x, y)
      /\ CountEffect(x, alloc, avail, nused, nfree, y)
  BY MidCount
<1>2. Typed(x) /\ Tiled(x)
  BY DEF Mid
<1> QED
  BY <1>1, <1>2, DueCount

(* HandOut marks the block used and settles bytes and blocks in use.        *)
LEMMA HandOutDoes ==
  ASSUME NEW x, NEW c \in FreeOf(x), NEW F, Mid(x, {}, {c}, F), c \notin F,
         NEW y, y = HandOut(x, c)
  PROVE  /\ Mid(y, {}, {}, F) /\ FreeNow(x, FreeOf(x) \ {c}, y)
         /\ AllocDue(y) = AllocDue(x) /\ AvailDue(y) = AvailDue(x)
         /\ NusedDue(y) = NusedDue(x) /\ NfreeDue(y) = NfreeDue(x) + 1
<1>1. Typed(x) /\ Tiled(x) /\ c \in Blocks(x)
  BY DEF Mid, FreeOf
<1>2. PICK s \in Nat : s = x.blk[c].size
  BY <1>1, Ahead
<1>3. PICK d \in Int, o \in Int, i \in Int : d = -s /\ o = 0 /\ i = 1
  BY <1>2
<1>4. PICK z : z = SetFree(x, c, FALSE)
  OBVIOUS
<1>5. Mid(z, {}, {c}, F) /\ SetFreeEffect(x, c, FALSE, z)
  BY <1>1, <1>4, MidSetFree
<1>6. SetFreeAt(x, c, FALSE, z)
  BY <1>5, SetFreeIsAt, Zenon
<1>7. c \in Blocks(z) /\ z.blk[c].free = FALSE
  BY <1>1, <1>6 DEF SetFreeAt
<1>8. Mid(z, {}, {}, F)
  BY <1>5, <1>7, MidClose
<1>9. /\ AllocDue(z) = AllocDue(x) - s /\ AvailDue(z) = AvailDue(x) + s
      /\ NusedDue(z) = NusedDue(x) - 1 /\ NfreeDue(z) = NfreeDue(x) + 1
  <2>1. DueUsed(x, s, z)
    BY <1>1, <1>2, <1>6, DueSetUsed, Zenon
  <2> QED
    BY <2>1 DEF DueUsed
<1>10. y = Count(z, s, d, i, o) /\ s \in Int
  BY <1>2, <1>3, <1>4 DEF HandOut
<1>11. /\ Mid(y, {}, {}, F) /\ Alike(z, y)
       /\ AllocDue(y) = AllocDue(z) + s /\ AvailDue(y) = AvailDue(z) + d
       /\ NusedDue(y) = NusedDue(z) + i /\ NfreeDue(y) = NfreeDue(z) + o
  BY ONLY <1>8, <1>10, MidCounted
<1>14. /\ AllocDue(x) \in Int /\ AvailDue(x) \in Int
       /\ NusedDue(x) \in Int /\ NfreeDue(x) \in Int
  BY <1>1, DueIsInt
<1>15. FreeNow(x, FreeOf(x) \ {c}, y)
  <2>1. FreeNow(x, FreeOf(x) \ {c}, z)
    BY <1>1, <1>6, SetUsedNow, Zenon
  <2> QED
    BY <1>11, <2>1, AlikeNow
<1> QED
  BY <1>2, <1>3, <1>9, <1>11, <1>14, <1>15

(* A request of `size' bytes has been served with block c.                 *)
Served(x, c, size, y) ==
  /\ Good(y) /\ y.end = x.end
  /\ InUse(y) = InUse(x) \union {c} /\ c \notin InUse(x)
  /\ y.blk[c].size >= size
  /\ \A a \in InUse(x) : y.blk[a].size = x.blk[a].size

(* alloc_from_freelist when the remainder is a block of its own.            *)
LEMMA AllocSplit ==
  ASSUME NEW x, Good(x), NEW c \in FreeOf(x), NEW size \in Nat, size >= MINALLOCSIZE,
         NEW rest \in Nat, rest >= MINALLOCSIZE, x.blk[c].size = size + MBLKHDRSIZE + rest,
         NEW off, off = detach_from_freelist(x, c),
         NEW split, split = SplitOff(off, c, size, rest),
         NEW told, told = TellNext(split, next_mblk(split, c)),
         NEW d \in Int, d = -MBLKHDRSIZE,
         NEW y, y = HandOut(Count(told, 0, d, 0, 0), c)
  PROVE  Served(x, c, size, y)
<1>1. /\ Mid(x, {}, {}, FreeOf(x)) /\ NothingDue(x)
      /\ Typed(x) /\ Tiled(x) /\ Known(x, {}) /\ Apart(x, {})
  BY DEF Good, Mid
<1>2. c \in Blocks(x) /\ x.blk[c].free /\ MBLKHDRSIZE \in Nat
  BY Constants DEF FreeOf, MBLKHDRSIZE
<1>3. PICK F : F = FreeOf(x) \ {c}
  OBVIOUS
<1>4. Mid(off, {}, {}, F) /\ Alike(x, off) /\ off.stat = x.stat
  BY <1>1, <1>3, MidDetach
<1>5. /\ c \in Blocks(off) /\ c \notin F /\ Blocks(off) = Blocks(x)
      /\ off.blk[c].size = size + MBLKHDRSIZE + rest /\ off.end = x.end
      /\ \A a \in Blocks(x) : /\ off.blk[a].size = x.blk[a].size
                              /\ off.blk[a].free = x.blk[a].free
                              /\ next_mblk(off, a) = next_mblk(x, a)
  BY <1>2, <1>3, <1>4, AlikeSets DEF Alike
<1>6. Mid(off, {c}, {c}, F)
  BY <1>4, MidWeaker
<1>7. next_mblk(off, c) \in Blocks(off) => ~ off.blk[next_mblk(off, c)].free
  BY <1>1, <1>2, <1>5 DEF Apart
<1>8. PICK r, G : r = c + MBLKHDRSIZE + size /\ G = F \union {r}
  OBVIOUS
<1>9. Mid(told, {}, {c}, G) /\ SplitAt(off, c, size, rest, r, told)
  BY <1>5, <1>6, <1>7, <1>8, MidSplit
<1>10. /\ told.end = x.end /\ Blocks(told) = Blocks(x) \union {r} /\ r \notin Blocks(x)
       /\ told.blk[c].size = size
       /\ \A a \in Blocks(x) : a # c => told.blk[a].size = x.blk[a].size
  BY <1>2, <1>5, <1>9 DEF SplitAt
<1>11. FreeOf(told) = FreeOf(x) \union {r} /\ FreeOf(off) = FreeOf(x)
  <2>1. Typed(off) /\ Tiled(off)
    BY <1>4 DEF Mid
  <2>2. FreeOf(told) = FreeOf(off) \union {r}
    BY <1>5, <1>9, <2>1, SplitSets
  <2>3. FreeOf(off) = FreeOf(x)
    BY <1>4, AlikeSets
  <2> QED
    BY <2>2, <2>3
<1>12. PICK o \in Int : o = 0
  OBVIOUS
<1>13. PICK z : z = Count(told, o, d, o, o)
  OBVIOUS
<1>14. /\ Mid(z, {}, {c}, G) /\ Alike(told, z)
       /\ AllocDue(z) = AllocDue(told) + o /\ AvailDue(z) = AvailDue(told) + d
       /\ NusedDue(z) = NusedDue(told) + o /\ NfreeDue(z) = NfreeDue(told) + o
  BY ONLY <1>9, <1>13, d \in Int, MidCounted
<1>15. SameSizes(told, z) /\ FreeOf(z) = FreeOf(x) \union {r}
  BY <1>11, <1>14, AlikeSets
<1>16. c \in FreeOf(z) /\ c \notin G
  BY <1>2, <1>3, <1>8, <1>10, <1>15
<1>17. /\ Mid(y, {}, {}, G) /\ FreeNow(z, FreeOf(z) \ {c}, y)
       /\ AllocDue(y) = AllocDue(z) /\ AvailDue(y) = AvailDue(z)
       /\ NusedDue(y) = NusedDue(z) /\ NfreeDue(y) = NfreeDue(z) + 1
  <2>1. y = HandOut(z, c)
    BY <1>12, <1>13
  <2> QED
    BY ONLY <1>14, <1>16, <2>1, HandOutDoes
<1>18. NothingDue(y)
  <2>1. SameDue(x, off)
    BY <1>1, <1>4, DueAlike
  <2>2. Typed(off) /\ Tiled(off)
    BY <1>4 DEF Mid
  <2>3. c \in FreeOf(off)
    BY <1>11
  <2>4. PICK h \in Nat : h = MBLKHDRSIZE /\ d = -h
    BY <1>2
  <2>5. /\ AllocDue(told) = AllocDue(off) /\ AvailDue(told) = AvailDue(off) + h
        /\ NusedDue(told) = NusedDue(off) /\ NfreeDue(told) = NfreeDue(off) - 1
    BY <1>5, <1>9, <2>2, <2>3, <2>4, DueFreeSplit
  <2> QED
    BY <1>1, <1>12, <1>14, <1>17, <2>1, <2>4, <2>5 DEF NothingDue, SameDue
<1>19. /\ y.end = x.end /\ Blocks(y) = Blocks(told)
       /\ \A a \in Blocks(told) : y.blk[a].size = told.blk[a].size
  BY <1>10, <1>15, <1>17 DEF FreeNow, SameSizes
<1>20. FreeOf(y) = G /\ InUse(y) = Blocks(told) \ G
  BY <1>2, <1>3, <1>8, <1>10, <1>15, <1>17 DEF FreeNow, SameSizes
<1>21. InUse(x) = Blocks(x) \ FreeOf(x)
  BY <1>1, TilesSummed
<1>22. InUse(y) = InUse(x) \union {c} /\ c \notin InUse(x) /\ InUse(x) \subseteq Blocks(x)
  BY <1>2, <1>3, <1>8, <1>10, <1>20, <1>21
<1>23. y.blk[c].size = size /\ \A a \in InUse(x) : y.blk[a].size = x.blk[a].size
  BY <1>2, <1>10, <1>19, <1>22
<1>24. Good(y)
  BY <1>17, <1>18, <1>20 DEF Good
<1> QED
  BY <1>19, <1>22, <1>23, <1>24 DEF Served

(* alloc_from_freelist when the whole block is handed out.                  *)
LEMMA AllocWhole ==
  ASSUME NEW x, Good(x), NEW c \in FreeOf(x), NEW size \in Nat, size <= x.blk[c].size,
         NEW off, off = detach_from_freelist(x, c),
         NEW y, y = HandOut(Count(off, 0, 0, 0, -1), c)
  PROVE  Served(x, c, size, y)
<1>1. /\ Mid(x, {}, {}, FreeOf(x)) /\ NothingDue(x) /\ Typed(x) /\ Tiled(x)
  BY DEF Good, Mid
<1>2. c \in Blocks(x)
  BY DEF FreeOf
<1>3. PICK F : F = FreeOf(x) \ {c}
  OBVIOUS
<1>4. Mid(off, {}, {}, F) /\ Alike(x, off) /\ off.stat = x.stat
  BY <1>1, <1>3, MidDetach
<1>5. PICK o \in Int, d \in Int : o = 0 /\ d = -1
  OBVIOUS
<1>6. PICK z : z = Count(off, o, o, o, d)
  OBVIOUS
<1>7. /\ Mid(z, {}, {}, F) /\ Alike(off, z)
      /\ AllocDue(z) = AllocDue(off) + o /\ AvailDue(z) = AvailDue(off) + o
      /\ NusedDue(z) = NusedDue(off) + o /\ NfreeDue(z) = NfreeDue(off) + d
  BY ONLY <1>4, <1>6, o \in Int, d \in Int, MidCounted
<1>8. Mid(z, {}, {c}, F)
  BY <1>7, MidWeaker
<1>9. SameSizes(x, z) /\ FreeOf(z) = FreeOf(x)
  BY <1>4, <1>7, AlikeTrans, AlikeSets
<1>10. c \in FreeOf(z) /\ c \notin F
  BY <1>3, <1>9
<1>11. /\ Mid(y, {}, {}, F) /\ FreeNow(z, FreeOf(z) \ {c}, y)
       /\ AllocDue(y) = AllocDue(z) /\ AvailDue(y) = AvailDue(z)
       /\ NusedDue(y) = NusedDue(z) /\ NfreeDue(y) = NfreeDue(z) + 1
  <2>1. y = HandOut(z, c)
    BY <1>5, <1>6
  <2> QED
    BY ONLY <1>8, <1>10, <2>1, HandOutDoes
<1>12. SameDue(x, off)
  BY <1>1, <1>4, DueAlike
<1>13. NothingDue(y)
  BY <1>1, <1>5, <1>7, <1>11, <1>12 DEF NothingDue, SameDue
<1>14. FreeOf(y) = F /\ InUse(y) = Blocks(x) \ F /\ SameSizes(x, y)
  BY <1>3, <1>9, <1>11 DEF FreeNow, SameSizes
<1>15. InUse(x) = Blocks(x) \ FreeOf(x)
  BY <1>1, TilesSummed
<1>16. InUse(y) = InUse(x) \union {c} /\ c \notin InUse(x) /\ InUse(x) \subseteq Blocks(x)
  BY <1>2, <1>3, <1>14, <1>15
<1>17. /\ y.end = x.end /\ y.blk[c].size = x.blk[c].size
       /\ \A a \in InUse(x) : y.blk[a].size = x.blk[a].size
  BY <1>2, <1>14, <1>16 DEF SameSizes
<1>18. x.blk[c].size \in Nat
  BY <1>1, <1>2, Ahead
<1>19. Good(y)
  BY <1>11, <1>13, <1>14 DEF Good
<1> QED
  BY <1>16, <1>17, <1>18, <1>19 DEF Served

(* alloc_from_freelist serves the request and leaves a good zone.           *)
LEMMA AllocDoes ==
  ASSUME NEW x, Good(x), NEW c \in FreeOf(x),
         NEW size \in Sizes, size <= x.blk[c].size
  PROVE  Served(x, c, size, alloc_from_freelist(x, c, size))
<1>1. Typed(x) /\ c \in Blocks(x)
  BY DEF Good, Mid, FreeOf
<1>2. /\ x.blk[c].size \in Nat /\ MBLKHDRSIZE \in Nat /\ MINALLOCSIZE \in Nat
      /\ FBLKMINSIZE = MBLKHDRSIZE + MINALLOCSIZE
  BY <1>1, Ahead, Constants DEF MBLKHDRSIZE, MINALLOCSIZE, FBLKMINSIZE
<1>3. size \in Nat /\ size >= MINALLOCSIZE
  BY DEF Sizes, MINALLOCSIZE
<1>4. PICK off, y : off = detach_from_freelist(x, c) /\ y = alloc_from_freelist(x, c, size)
  OBVIOUS
<1>5. CASE x.blk[c].size - size >= FBLKMINSIZE
  <2>1. PICK rest : rest = x.blk[c].size - size - MBLKHDRSIZE
    OBVIOUS
  <2>2. rest \in Nat /\ rest >= MINALLOCSIZE /\ x.blk[c].size = size + MBLKHDRSIZE + rest
    <3>1. PICK s \in Nat, h \in Nat, m \in Nat :
            s = x.blk[c].size /\ h = MBLKHDRSIZE /\ m = MINALLOCSIZE
      BY <1>2
    <3>2. s - size >= h + m /\ rest = s - size - h
      BY <1>2, <1>5, <2>1, <3>1
    <3>3. rest \in Nat /\ rest >= m /\ s = size + h + rest
      BY <1>3, <3>2
    <3> QED
      BY <3>1, <3>3
  <2>3. PICK split : split = SplitOff(off, c, size, rest)
    OBVIOUS
  <2>4. PICK told : told = TellNext(split, next_mblk(split, c))
    OBVIOUS
  <2>5. PICK d \in Int : d = -MBLKHDRSIZE
    BY <1>2
  <2>6. y = HandOut(Count(told, 0, d, 0, 0), c)
    BY <1>4, <1>5, <2>1, <2>3, <2>4, <2>5, Zenon DEF alloc_from_freelist
  <2>7. Served(x, c, size, y)
    BY <1>3, <1>4, <2>2, <2>3, <2>4, <2>5, <2>6, AllocSplit
  <2> QED
    BY <1>4, <2>7
<1>6. CASE ~ (x.blk[c].size - size >= FBLKMINSIZE)
  <2>1. y = HandOut(Count(off, 0, 0, 0, -1), c)
    BY <1>4, <1>6, Zenon DEF alloc_from_freelist
  <2>2. Served(x, c, size, y)
    BY <1>3, <1>4, <2>1, AllocWhole
  <2> QED
    BY <1>4, <2>2
<1> QED
  BY <1>5, <1>6

(* The neighbours of a block in use.                                       *)
LEMMA Neighbours ==
  ASSUME NEW x, Good(x), NEW b \in Blocks(x)
  PROVE  /\ NextIsFree(x, b) <=> next_mblk(x, b) \in FreeOf(x)
         /\ PrevIsFree(x, b) <=> prev_mblk(x, b) \in FreeOf(x)
         /\ prev_mblk(x, b) \in FreeOf(x) => next_mblk(x, prev_mblk(x, b)) = b
         /\ \A c \in Blocks(x) : next_mblk(x, c) = b => c = prev_mblk(x, b)
         /\ \A a \in FreeOf(x) : next_mblk(x, a) \notin FreeOf(x)
<1>1. Typed(x) /\ Tiled(x) /\ Known(x, {}) /\ Apart(x, {})
  BY DEF Good, Mid
<1>2. next_mblk(x, b) < x.end <=> next_mblk(x, b) \in Blocks(x)
  BY <1>1, Inside
<1>3. NextIsFree(x, b) <=> next_mblk(x, b) \in FreeOf(x)
  BY <1>2 DEF NextIsFree, FreeOf
<1>4. /\ prev_mblk(x, b) >= 0 <=> b # 0
      /\ b # 0 => /\ prev_mblk(x, b) \in Blocks(x)
                  /\ next_mblk(x, prev_mblk(x, b)) = b
  BY <1>1, Before
<1>5. \A c \in Blocks(x) : c \in Nat
  BY <1>1, Ahead
<1>6. prev_mblk(x, b) \in FreeOf(x) => prev_mblk(x, b) >= 0
  BY <1>5 DEF FreeOf
<1>7. PrevIsFree(x, b) <=> prev_mblk(x, b) \in FreeOf(x)
  BY <1>4, <1>6 DEF PrevIsFree, FreeOf
<1>8. prev_mblk(x, b) \in FreeOf(x) => next_mblk(x, prev_mblk(x, b)) = b
  BY <1>4, <1>6
<1>9. ASSUME NEW c \in Blocks(x), next_mblk(x, c) = b PROVE c = prev_mblk(x, b)
  <2>1. c \in Nat /\ next_mblk(x, c) \in Nat /\ c < next_mblk(x, c)
    BY <1>1, Ahead
  <2>2. b # 0
    BY <1>9, <2>1
  <2> QED
    BY <1>1, <1>4, <1>9, <2>2, OneBefore
<1>10. \A a \in FreeOf(x) : next_mblk(x, a) \notin FreeOf(x)
  BY <1>1 DEF Apart, FreeOf
<1> QED
  BY <1>3, <1>7, <1>8, <1>9, <1>10

(* No neighbour of a is free.                                              *)
Lonely(x, a) ==
  next_mblk(x, a) \notin FreeOf(x) /\ \A c \in FreeOf(x) : next_mblk(x, c) # a

(* A block without free neighbours needs no exemption.                      *)
LEMMA MidLonely ==
  ASSUME NEW x, NEW a \in Blocks(x), NEW F, Mid(x, {}, {a}, F), Lonely(x, a)
  PROVE  Mid(x, {}, {}, F)
<1>1. next_mblk(x, a) \in Blocks(x) => ~ (x.blk[a].free /\ x.blk[next_mblk(x, a)].free)
  BY DEF Lonely, FreeOf
<1>2. \A c \in Blocks(x) : next_mblk(x, c) = a => ~ (x.blk[c].free /\ x.blk[a].free)
  BY DEF Lonely, FreeOf
<1> QED
  BY <1>1, <1>2, MidClose

(* Marking the block itself gives it no free neighbour.                     *)
LEMMA LonelyStays ==
  ASSUME NEW x, Typed(x), NEW a \in Blocks(x), Lonely(x, a), NEW y, SetFreeAt(x, a, TRUE, y)
  PROVE  Lonely(y, a) /\ FreeOf(y) = FreeOf(x) \union {a} /\ Blocks(y) = Blocks(x)
<1>1. FreeNow(x, FreeOf(x) \union {a}, y)
  BY SetFreeNow, Zenon
<1>2. FreeOf(y) = FreeOf(x) \union {a} /\ Blocks(y) = Blocks(x)
  BY <1>1 DEF FreeNow, SameSizes
<1>3. \A c \in Blocks(x) : next_mblk(y, c) = next_mblk(x, c)
  BY DEF SetFreeAt
<1>4. next_mblk(x, a) # a
  <2>1. a \in Nat /\ next_mblk(x, a) \in Nat /\ a < next_mblk(x, a)
    BY Ahead
  <2> QED
    BY <2>1
<1>5. FreeOf(x) \subseteq Blocks(x)
  BY DEF FreeOf
<1> QED
  BY <1>2, <1>3, <1>4, <1>5 DEF Lonely

(* A block without free neighbours is marked and listed.                    *)
LEMMA PutDoes ==
  ASSUME NEW x, NEW a \in Blocks(x), NEW F, Mid(x, {}, {a}, F), a \notin F, Lonely(x, a),
         NEW G, G = F \union {a}, NEW y, y = attach_to_freelist(SetFree(x, a, TRUE), a)
  PROVE  /\ Mid(y, {}, {}, G) /\ SetFreeAt(x, a, TRUE, y)
         /\ FreeNow(x, FreeOf(x) \union {a}, y)
<1>1. Mid(y, {}, {a}, G) /\ SetFreeAt(x, a, TRUE, y)
  BY MidPut, Zenon
<1>2. Typed(x)
  BY DEF Mid
<1>3. Lonely(y, a) /\ Blocks(y) = Blocks(x)
  BY <1>1, <1>2, LonelyStays, Zenon
<1>4. Mid(y, {}, {}, G)
  BY <1>1, <1>3, MidLonely
<1>5. FreeNow(x, FreeOf(x) \union {a}, y)
  BY <1>1, SetFreeNow, Zenon
<1> QED
  BY <1>1, <1>4, <1>5

(* The same after a merge, where the block behind is told as well.          *)
LEMMA JoinedDoes ==
  ASSUME NEW x, NEW a \in Blocks(x), NEW F, Mid(x, {a}, {a}, F), a \notin F, Lonely(x, a),
         NEW G, G = F \union {a},
         NEW y, y = TellNext(attach_to_freelist(SetFree(x, a, TRUE), a), a)
  PROVE  /\ Mid(y, {}, {}, G) /\ SetFreeAt(x, a, TRUE, y)
         /\ FreeNow(x, FreeOf(x) \union {a}, y)
<1>1. Mid(y, {}, {a}, G) /\ SetFreeAt(x, a, TRUE, y)
  BY MidJoined, Zenon
<1>2. Typed(x)
  BY DEF Mid
<1>3. Lonely(y, a) /\ Blocks(y) = Blocks(x)
  BY <1>1, <1>2, LonelyStays, Zenon
<1>4. Mid(y, {}, {}, G)
  BY <1>1, <1>3, MidLonely
<1>5. FreeNow(x, FreeOf(x) \union {a}, y)
  BY <1>1, SetFreeNow, Zenon
<1> QED
  BY <1>1, <1>4, <1>5

(* A block that was free already.                                          *)
LEMMA SetFreeAgain ==
  ASSUME NEW x, Typed(x), Tiled(x), NEW a \in FreeOf(x), NEW y, SetFreeAt(x, a, TRUE, y)
  PROVE  SameDue(x, y)
<1>1. x.blk[a].free \in BOOLEAN /\ x.blk[a].free /\ a \in Blocks(x)
  BY Ahead DEF FreeOf
<1>2. Alike(x, y) /\ y.stat = x.stat
  BY <1>1 DEF SetFreeAt, Alike
<1> QED
  BY <1>2, DueAlike

(* Block b has been given back.                                            *)
Released(x, b, y) ==
  /\ Good(y) /\ y.end = x.end
  /\ InUse(y) = InUse(x) \ {b}
  /\ \A a \in InUse(y) : y.blk[a].size = x.blk[a].size

(* qse_xma_free with no free neighbour.                                     *)
LEMMA FreedAlone ==
  ASSUME NEW x, Good(x), NEW b \in InUse(x), NEW s \in Nat, s = x.blk[b].size,
         ~ PrevIsFree(x, b), ~ NextIsFree(x, b), NEW d \in Int, d = -s,
         NEW less, less = Count(x, d, 0, -1, 0),
         NEW y, y = Count(attach_to_freelist(SetFree(less, b, TRUE), b), 0, s, 0, 1)
  PROVE  Released(x, b, y)
<1>1. /\ Mid(x, {}, {}, FreeOf(x)) /\ NothingDue(x) /\ Typed(x) /\ Tiled(x)
  BY DEF Good, Mid
<1>2. /\ InUse(x) \subseteq Blocks(x) /\ InUse(x) = Blocks(x) \ FreeOf(x)
      /\ b \in Blocks(x) /\ b \notin FreeOf(x)
  BY <1>1, TilesSummed
<1>3. Lonely(x, b)
  <2>1. next_mblk(x, b) \notin FreeOf(x)
    BY <1>2, Neighbours
  <2>2. ASSUME NEW c \in FreeOf(x), next_mblk(x, c) = b PROVE FALSE
    BY <1>2, <2>2, Neighbours DEF FreeOf
  <2> QED
    BY <2>1, <2>2 DEF Lonely
<1>4. PICK o \in Int, i \in Int, j \in Int : o = 0 /\ i = 1 /\ j = -1
  OBVIOUS
<1>5. less = Count(x, d, o, j, o)
  BY <1>4
<1>6. /\ Mid(less, {}, {}, FreeOf(x)) /\ Alike(x, less)
      /\ AllocDue(less) = AllocDue(x) + d /\ AvailDue(less) = AvailDue(x) + o
      /\ NusedDue(less) = NusedDue(x) + j /\ NfreeDue(less) = NfreeDue(x) + o
  BY ONLY <1>1, <1>5, d \in Int, o \in Int, j \in Int, MidCounted
<1>7. /\ SameSizes(x, less) /\ InUse(less) = InUse(x) /\ FreeOf(less) = FreeOf(x)
      /\ \A a \in Blocks(x) : next_mblk(less, a) = next_mblk(x, a)
  BY <1>6, AlikeSets
<1>8. b \in Blocks(less) /\ b \in InUse(less) /\ s = less.blk[b].size
  BY <1>2, <1>7 DEF SameSizes
<1>9. Lonely(less, b)
  BY <1>2, <1>3, <1>7 DEF Lonely, FreeOf
<1>10. PICK F, G : F = FreeOf(x) /\ G = F \union {b}
  OBVIOUS
<1>11. Mid(less, {}, {b}, F) /\ b \notin F
  BY <1>2, <1>6, <1>10, MidWeaker
<1>12. PICK z : z = attach_to_freelist(SetFree(less, b, TRUE), b)
  OBVIOUS
<1>13. /\ Mid(z, {}, {}, G) /\ SetFreeAt(less, b, TRUE, z)
       /\ FreeNow(less, FreeOf(less) \union {b}, z)
  BY ONLY <1>8, <1>9, <1>10, <1>11, <1>12, PutDoes, Zenon
<1>14. Typed(less) /\ Tiled(less)
  BY <1>6 DEF Mid
<1>15. /\ AllocDue(z) = AllocDue(less) + s /\ AvailDue(z) = AvailDue(less) - s
       /\ NusedDue(z) = NusedDue(less) + 1 /\ NfreeDue(z) = NfreeDue(less) - 1
  <2>1. DueFreed(less, s, z)
    BY ONLY <1>8, <1>13, <1>14, DueSetFree, Zenon
  <2> QED
    BY <2>1 DEF DueFreed
<1>16. y = Count(z, o, s, o, i) /\ s \in Int
  BY <1>4, <1>12
<1>17. /\ Mid(y, {}, {}, G) /\ Alike(z, y)
       /\ AllocDue(y) = AllocDue(z) + o /\ AvailDue(y) = AvailDue(z) + s
       /\ NusedDue(y) = NusedDue(z) + o /\ NfreeDue(y) = NfreeDue(z) + i
  BY ONLY <1>13, <1>16, o \in Int, i \in Int, MidCounted
<1>18. NothingDue(y)
  BY ONLY <1>1, <1>4, <1>6, <1>15, <1>17, s \in Nat, d = -s DEF NothingDue
<1>19. FreeNow(less, FreeOf(less) \union {b}, y)
  BY <1>13, <1>17, AlikeNow
<1>20. FreeOf(y) = G /\ InUse(y) = Blocks(x) \ G /\ SameSizes(x, y)
  BY <1>7, <1>10, <1>19 DEF FreeNow, SameSizes
<1>21. Good(y)
  BY <1>17, <1>18, <1>20 DEF Good
<1>22. InUse(y) = InUse(x) \ {b}
  BY <1>2, <1>10, <1>20
<1> QED
  BY <1>2, <1>20, <1>21, <1>22 DEF Released, SameSizes

(* What every release begins with: the block is no longer counted.         *)
LEMMA LessDoes ==
  ASSUME NEW x, Good(x), NEW b \in InUse(x), NEW s \in Nat, s = x.blk[b].size,
         NEW d \in Int, d = -s, NEW less, less = Count(x, d, 0, -1, 0)
  PROVE  /\ Mid(less, {}, {}, FreeOf(x)) /\ Alike(x, less)
         /\ SameSizes(x, less) /\ InUse(less) = InUse(x) /\ FreeOf(less) = FreeOf(x)
         /\ \A a \in Blocks(x) : next_mblk(less, a) = next_mblk(x, a)
         /\ AllocDue(less) = d /\ AvailDue(less) = 0
         /\ NusedDue(less) = -1 /\ NfreeDue(less) = 0
         /\ Typed(x) /\ Tiled(x) /\ b \in Blocks(x) /\ b \notin FreeOf(x)
         /\ InUse(x) = Blocks(x) \ FreeOf(x) /\ FreeOf(x) \subseteq Blocks(x)
<1>1. /\ Mid(x, {}, {}, FreeOf(x)) /\ NothingDue(x) /\ Typed(x) /\ Tiled(x)
  BY DEF Good, Mid
<1>2. /\ InUse(x) \subseteq Blocks(x) /\ InUse(x) = Blocks(x) \ FreeOf(x)
      /\ FreeOf(x) \subseteq Blocks(x) /\ b \in Blocks(x) /\ b \notin FreeOf(x)
  BY <1>1, TilesSummed
<1>4. PICK o \in Int, j \in Int : o = 0 /\ j = -1
  OBVIOUS
<1>5. less = Count(x, d, o, j, o)
  BY <1>4
<1>6. /\ Mid(less, {}, {}, FreeOf(x)) /\ Alike(x, less)
      /\ AllocDue(less) = AllocDue(x) + d /\ AvailDue(less) = AvailDue(x) + o
      /\ NusedDue(less) = NusedDue(x) + j /\ NfreeDue(less) = NfreeDue(x) + o
  BY ONLY <1>1, <1>5, d \in Int, o \in Int, j \in Int, MidCounted
<1>7. /\ SameSizes(x, less) /\ InUse(less) = InUse(x) /\ FreeOf(less) = FreeOf(x)
      /\ \A a \in Blocks(x) : next_mblk(less, a) = next_mblk(x, a)
  BY <1>6, AlikeSets
<1>8. /\ AllocDue(less) = d /\ AvailDue(less) = 0
      /\ NusedDue(less) = -1 /\ NfreeDue(less) = 0
  BY ONLY <1>1, <1>4, <1>6, d \in Int DEF NothingDue
<1> QED
  BY <1>1, <1>2, <1>6, <1>7, <1>8

(* The outcome of Swallow, seen from a zone that is alike.                  *)
LEMMA TakenAlike ==
  ASSUME NEW x, NEW z, Alike(x, z), NEW b \in Blocks(x), NEW n \in Blocks(x),
         NEW y, TakenIn(z, b, n, y)
  PROVE  TakenIn(x, b, n, y)
<1>1. \A a \in Blocks(x) : next_mblk(z, a) = next_mblk(x, a)
  BY AlikeSets
<1>2. Blocks(y) \subseteq Blocks(x)
  BY DEF Alike, TakenIn
<1> QED
  BY <1>1, <1>2 DEF Alike, TakenIn

(* The sets, and the way around, of a tiling with one block less.          *)
LEMMA TakenNow ==
  ASSUME NEW x, Typed(x), NEW b \in Blocks(x), NEW n \in Blocks(x), n = next_mblk(x, b),
         NEW y, TakenIn(x, b, n, y)
  PROVE  /\ InUse(y) = InUse(x) \ {n} /\ FreeOf(y) = FreeOf(x) \ {n} /\ b # n
         /\ Blocks(y) = Blocks(x) \ {n} /\ b \in Blocks(y)
<1>1. b # n
  BY Ahead
<1>2. /\ Blocks(y) = Blocks(x) \ {n} /\ \A a \in Blocks(y) : y.blk[a].free = x.blk[a].free
  BY DEF TakenIn
<1> QED
  BY <1>1, <1>2 DEF InUse, FreeOf, Blocks

(* What every release that joins blocks ends with.                         *)
Joined(w, a) == TellNext(attach_to_freelist(SetFree(w, a, TRUE), a), a)

EndUsed(w, a, F, t, e, k, y) ==
  /\ Mid(y, {}, {}, F \union {a}) /\ FreeNow(w, FreeOf(w) \union {a}, y)
  /\ AllocDue(y) = AllocDue(w) + t /\ AvailDue(y) = AvailDue(w) - t + e
  /\ NusedDue(y) = NusedDue(w) + 1 /\ NfreeDue(y) = NfreeDue(w) - 1 + k

(* The tail of a merge into the freed block, with the debts it leaves.      *)
LEMMA JoinedUsed ==
  ASSUME NEW w, NEW a \in InUse(w), NEW F, Mid(w, {a}, {a}, F), a \notin F, Lonely(w, a),
         NEW G, G = F \union {a}, NEW t, t = w.blk[a].size,
         NEW z, z = Joined(w, a),
         NEW e \in Int, NEW k \in Int, NEW y, y = Count(z, 0, e, 0, k)
  PROVE  EndUsed(w, a, F, t, e, k, y)
<1>1. Typed(w) /\ Tiled(w)
  BY DEF Mid
<1>2. a \in Blocks(w) /\ t \in Nat
  BY <1>1, TilesSummed, Ahead
<1>3. /\ Mid(z, {}, {}, G) /\ SetFreeAt(w, a, TRUE, z)
      /\ FreeNow(w, FreeOf(w) \union {a}, z)
  BY <1>2, JoinedDoes, Zenon DEF Joined
<1>4. /\ AllocDue(z) = AllocDue(w) + t /\ AvailDue(z) = AvailDue(w) - t
      /\ NusedDue(z) = NusedDue(w) + 1 /\ NfreeDue(z) = NfreeDue(w) - 1
  <2>1. SetFreeAt(w, a, TRUE, z) /\ t = w.blk[a].size
    BY <1>3
  <2>2. DueFreed(w, t, z)
    BY ONLY a \in InUse(w), <1>1, <2>1, DueSetFree, Zenon
  <2> QED
    BY <2>2 DEF DueFreed
<1>5. PICK o \in Int : o = 0
  OBVIOUS
<1>6. y = Count(z, o, e, o, k)
  BY <1>5
<1>7. /\ Mid(y, {}, {}, G) /\ Alike(z, y)
      /\ AllocDue(y) = AllocDue(z) + o /\ AvailDue(y) = AvailDue(z) + e
      /\ NusedDue(y) = NusedDue(z) + o /\ NfreeDue(y) = NfreeDue(z) + k
  BY ONLY <1>3, <1>6, o \in Int, e \in Int, k \in Int, MidCounted
<1>8. /\ AllocDue(w) \in Int /\ AvailDue(w) \in Int
      /\ NusedDue(w) \in Int /\ NfreeDue(w) \in Int
  BY <1>1, DueIsInt
<1>9. /\ AllocDue(y) = AllocDue(w) + t /\ AvailDue(y) = AvailDue(w) - t + e
      /\ NusedDue(y) = NusedDue(w) + 1 /\ NfreeDue(y) = NfreeDue(w) - 1 + k
  BY ONLY <1>2, <1>4, <1>5, <1>7, <1>8, e \in Int, k \in Int
<1>10. FreeNow(w, FreeOf(w) \union {a}, y)
  BY ONLY <1>3, <1>7, AlikeNow
<1> QED
  BY <1>7, <1>9, <1>10 DEF EndUsed

EndFree(w, a, F, e, k, y) ==
  /\ Mid(y, {}, {}, F \union {a}) /\ FreeNow(w, FreeOf(w) \union {a}, y)
  /\ AllocDue(y) = AllocDue(w) /\ AvailDue(y) = AvailDue(w) + e
  /\ NusedDue(y) = NusedDue(w) /\ NfreeDue(y) = NfreeDue(w) + k

(* The tail of a merge into the free block before it, with the debts.       *)
LEMMA JoinedFree ==
  ASSUME NEW w, NEW a \in FreeOf(w), NEW F, Mid(w, {a}, {a}, F), a \notin F, Lonely(w, a),
         NEW G, G = F \union {a},
         NEW z, z = Joined(w, a),
         NEW e \in Int, NEW k \in Int, NEW y, y = Count(z, 0, e, 0, k)
  PROVE  EndFree(w, a, F, e, k, y)
<1>1. Typed(w) /\ Tiled(w)
  BY DEF Mid
<1>2. a \in Blocks(w)
  BY DEF FreeOf
<1>3. /\ Mid(z, {}, {}, G) /\ SetFreeAt(w, a, TRUE, z)
      /\ FreeNow(w, FreeOf(w) \union {a}, z)
  BY <1>2, JoinedDoes, Zenon DEF Joined
<1>4. SameDue(w, z)
  <2>1. SetFreeAt(w, a, TRUE, z)
    BY <1>3
  <2> QED
    BY ONLY a \in FreeOf(w), <1>1, <2>1, SetFreeAgain, Zenon
<1>5. PICK o \in Int : o = 0
  OBVIOUS
<1>6. y = Count(z, o, e, o, k)
  BY <1>5
<1>7. /\ Mid(y, {}, {}, G) /\ Alike(z, y)
      /\ AllocDue(y) = AllocDue(z) + o /\ AvailDue(y) = AvailDue(z) + e
      /\ NusedDue(y) = NusedDue(z) + o /\ NfreeDue(y) = NfreeDue(z) + k
  BY ONLY <1>3, <1>6, o \in Int, e \in Int, k \in Int, MidCounted
<1>8. /\ AllocDue(w) \in Int /\ AvailDue(w) \in Int
      /\ NusedDue(w) \in Int /\ NfreeDue(w) \in Int
  BY <1>1, DueIsInt
<1>9. /\ AllocDue(y) = AllocDue(w) /\ AvailDue(y) = AvailDue(w) + e
      /\ NusedDue(y) = NusedDue(w) /\ NfreeDue(y) = NfreeDue(w) + k
  BY ONLY <1>4, <1>5, <1>7, <1>8, e \in Int, k \in Int DEF SameDue
<1>10. FreeNow(w, FreeOf(w) \union {a}, y)
  BY ONLY <1>3, <1>7, AlikeNow
<1> QED
  BY <1>7, <1>9, <1>10 DEF EndFree

(* A release and the blocks around it: a took in what was between it and   *)
(* the new end of it.                                                      *)
LEMMA ReleasedIs ==
  ASSUME NEW x, NEW b \in InUse(x), InUse(x) = Blocks(x) \ FreeOf(x),
         NEW w, w.end = x.end, Blocks(w) \subseteq Blocks(x),
         NEW a \in Blocks(w), a = b \/ a \in FreeOf(x),
         \A c \in Blocks(x) \ Blocks(w) : c = b \/ c \in FreeOf(x),
         b \in Blocks(w) => a = b, FreeOf(w) = FreeOf(x) \intersect Blocks(w),
         \A c \in Blocks(w) : c # a => w.blk[c].size = x.blk[c].size,
         NEW G, G = FreeOf(w) \union {a}, NEW y, Good(y), FreeNow(w, G, y)
  PROVE  Released(x, b, y)
<1>1. SameSizes(w, y) /\ InUse(y) = Blocks(w) \ G
  BY DEF FreeNow
<1>2. InUse(y) = InUse(x) \ {b}
  BY <1>1
<1>3. \A c \in InUse(y) : c \in Blocks(w) /\ c # a
  BY <1>1
<1> QED
  BY <1>1, <1>2, <1>3 DEF Released, SameSizes

(* qse_xma_free when only the block behind is free.                         *)
LEMMA FreedNext ==
  ASSUME NEW x, Good(x), NEW b \in InUse(x), NEW s \in Nat, s = x.blk[b].size,
         ~ PrevIsFree(x, b), NextIsFree(x, b), NEW d \in Int, d = -s,
         NEW n, n = next_mblk(x, b), NEW h \in Nat, h = MBLKHDRSIZE,
         NEW less, less = Count(x, d, 0, -1, 0),
         NEW off, off = detach_from_freelist(less, n),
         NEW w, w = Swallow(off, b),
         NEW z, z = Joined(w, b),
         NEW e \in Int, e = s + h, NEW y, y = Count(z, 0, e, 0, 0)
  PROVE  Released(x, b, y)
<1>1. /\ Mid(less, {}, {}, FreeOf(x)) /\ Alike(x, less)
      /\ SameSizes(x, less) /\ InUse(less) = InUse(x) /\ FreeOf(less) = FreeOf(x)
      /\ \A a \in Blocks(x) : next_mblk(less, a) = next_mblk(x, a)
      /\ AllocDue(less) = d /\ AvailDue(less) = 0
      /\ NusedDue(less) = -1 /\ NfreeDue(less) = 0
      /\ Typed(x) /\ Tiled(x) /\ b \in Blocks(x) /\ b \notin FreeOf(x)
      /\ InUse(x) = Blocks(x) \ FreeOf(x) /\ FreeOf(x) \subseteq Blocks(x)
  BY LessDoes
<1>2. /\ n \in FreeOf(x) /\ next_mblk(x, n) \notin FreeOf(x)
      /\ \A c \in FreeOf(x) : next_mblk(x, c) # b
  BY <1>1, Neighbours
<1>3. PICK F : F = FreeOf(x) \ {n}
  OBVIOUS
<1>4. Mid(off, {}, {}, F) /\ Alike(less, off) /\ off.stat = less.stat
  BY ONLY <1>1, <1>2, <1>3, off = detach_from_freelist(less, n), MidDetach
<1>5. Alike(x, off)
  BY ONLY <1>1, <1>4, AlikeTrans
<1>6. /\ InUse(off) = InUse(x) /\ FreeOf(off) = FreeOf(x) /\ Blocks(off) = Blocks(x)
      /\ \A a \in Blocks(x) : next_mblk(off, a) = next_mblk(x, a) /\ off.blk[a].size = x.blk[a].size
  BY ONLY <1>5, AlikeSets DEF SameSizes
<1>7. Typed(less) /\ Tiled(less) /\ Typed(off) /\ Tiled(off) /\ Mid(off, {b}, {b}, F)
  BY ONLY <1>1, <1>4, MidWeaker DEF Mid
<1>8. SameDue(less, off)
  BY ONLY <1>4, <1>7, DueAlike
<1>9. /\ b \in Blocks(off) /\ n \in Blocks(off) /\ n = next_mblk(off, b)
      /\ b \notin F /\ n \notin F /\ b \in InUse(off) /\ n \in FreeOf(off)
  BY <1>1, <1>2, <1>3, <1>6
<1>10. Mid(w, {b}, {b}, F) /\ TakenIn(off, b, n, w) /\ w.stat = off.stat
  BY ONLY <1>7, <1>9, w = Swallow(off, b), MidSwallow
<1>11. PICK q \in Nat : q = off.blk[n].size
  BY ONLY <1>7, <1>9, Ahead
<1>12. /\ AllocDue(w) = AllocDue(off) - h - q /\ AvailDue(w) = AvailDue(off) + q
       /\ NusedDue(w) = NusedDue(off) /\ NfreeDue(w) = NfreeDue(off) + 1
  BY ONLY <1>7, <1>9, <1>10, <1>11, h = MBLKHDRSIZE, DueUsedSwallow
<1>13. TakenIn(x, b, n, w)
  BY ONLY <1>1, <1>2, <1>5, <1>10, TakenAlike
<1>14. /\ InUse(w) = InUse(x) \ {n} /\ FreeOf(w) = FreeOf(x) \ {n} /\ b # n
       /\ Blocks(w) = Blocks(x) \ {n} /\ b \in Blocks(w)
  BY ONLY <1>1, <1>2, <1>13, n = next_mblk(x, b), TakenNow
<1>15. /\ w.end = x.end /\ next_mblk(w, b) = next_mblk(x, n)
       /\ w.blk[b].size = s + h + q
       /\ \A a \in Blocks(w) : a # b => /\ w.blk[a].size = x.blk[a].size
                                        /\ next_mblk(w, a) = next_mblk(x, a)
  BY ONLY <1>2, <1>1, <1>6, <1>11, <1>13, s = x.blk[b].size, h = MBLKHDRSIZE DEF TakenIn
<1>16. Lonely(w, b)
  BY ONLY <1>1, <1>2, <1>14, <1>15 DEF Lonely
<1>17. PICK k \in Int : k = 0
  OBVIOUS
<1>18. PICK G, t : G = F \union {b} /\ t = w.blk[b].size
  OBVIOUS
<1>19. b \in InUse(w) /\ b \notin F /\ y = Count(z, 0, e, 0, k)
  BY <1>9, <1>14, <1>17
<1>20. z = Joined(w, b) /\ e \in Int
  OBVIOUS
<1>21. /\ Mid(y, {}, {}, G) /\ FreeNow(w, FreeOf(w) \union {b}, y)
       /\ AllocDue(y) = AllocDue(w) + t /\ AvailDue(y) = AvailDue(w) - t + e
       /\ NusedDue(y) = NusedDue(w) + 1 /\ NfreeDue(y) = NfreeDue(w) - 1 + k
  <2>1. EndUsed(w, b, F, t, e, k, y)
    BY ONLY <1>10, <1>16, k \in Int, <1>18, <1>19, <1>20, JoinedUsed, Zenon
  <2> QED
    BY ONLY <1>18, <2>1 DEF EndUsed
<1>22. NothingDue(y)
  BY ONLY <1>1, <1>8, <1>12, <1>15, <1>17, <1>18, <1>21, s \in Nat, h \in Nat, q \in Nat,
          d = -s, e = s + h DEF NothingDue, SameDue
<1>23. G = FreeOf(w) \union {b}
  BY ONLY <1>3, <1>14, <1>18
<1>24. FreeNow(w, G, y) /\ FreeOf(y) = G
  BY ONLY <1>21, <1>23 DEF FreeNow
<1>25. Good(y)
  BY ONLY <1>21, <1>22, <1>24 DEF Good
<1> QED
  BY ONLY <1>1, <1>2, <1>14, <1>15, <1>23, <1>24, <1>25, b \in InUse(x), ReleasedIs

(* qse_xma_free when only the block before is free.                         *)
LEMMA FreedPrev ==
  ASSUME NEW x, Good(x), NEW b \in InUse(x), NEW s \in Nat, s = x.blk[b].size,
         PrevIsFree(x, b), ~ NextIsFree(x, b), NEW d \in Int, d = -s,
         NEW p, p = prev_mblk(x, b), NEW h \in Nat, h = MBLKHDRSIZE,
         NEW less, less = Count(x, d, 0, -1, 0),
         NEW off, off = detach_from_freelist(less, p),
         NEW w, w = Swallow(off, p), NEW z, z = Joined(w, p),
         NEW e \in Int, e = s + h, NEW y, y = Count(z, 0, e, 0, 0)
  PROVE  Released(x, b, y)
<1>1. /\ Mid(less, {}, {}, FreeOf(x)) /\ Alike(x, less)
      /\ SameSizes(x, less) /\ InUse(less) = InUse(x) /\ FreeOf(less) = FreeOf(x)
      /\ \A a \in Blocks(x) : next_mblk(less, a) = next_mblk(x, a)
      /\ AllocDue(less) = d /\ AvailDue(less) = 0
      /\ NusedDue(less) = -1 /\ NfreeDue(less) = 0
      /\ Typed(x) /\ Tiled(x) /\ b \in Blocks(x) /\ b \notin FreeOf(x)
      /\ InUse(x) = Blocks(x) \ FreeOf(x) /\ FreeOf(x) \subseteq Blocks(x)
  BY LessDoes
<1>2. /\ p \in FreeOf(x) /\ next_mblk(x, p) = b /\ next_mblk(x, b) \notin FreeOf(x)
      /\ \A c \in FreeOf(x) : next_mblk(x, c) # p
  BY <1>1, Neighbours
<1>3. PICK F : F = FreeOf(x) \ {p}
  OBVIOUS
<1>4. Mid(off, {}, {}, F) /\ Alike(less, off) /\ off.stat = less.stat
  BY ONLY <1>1, <1>2, <1>3, off = detach_from_freelist(less, p), MidDetach
<1>5. Alike(x, off)
  BY ONLY <1>1, <1>4, AlikeTrans
<1>6. /\ InUse(off) = InUse(x) /\ FreeOf(off) = FreeOf(x) /\ Blocks(off) = Blocks(x)
      /\ \A a \in Blocks(x) : next_mblk(off, a) = next_mblk(x, a) /\ off.blk[a].size = x.blk[a].size
  BY ONLY <1>5, AlikeSets DEF SameSizes
<1>7. Typed(less) /\ Tiled(less) /\ Typed(off) /\ Tiled(off) /\ Mid(off, {p}, {p}, F)
  BY ONLY <1>1, <1>4, MidWeaker DEF Mid
<1>8. SameDue(less, off)
  BY ONLY <1>4, <1>7, DueAlike
<1>9. /\ p \in Blocks(off) /\ b \in Blocks(off) /\ b = next_mblk(off, p)
      /\ p \notin F /\ b \notin F /\ b \in InUse(off) /\ p \in FreeOf(off)
      /\ s = off.blk[b].size
  BY <1>1, <1>2, <1>3, <1>6
<1>10. Mid(w, {p}, {p}, F) /\ TakenIn(off, p, b, w) /\ w.stat = off.stat
  BY ONLY <1>7, <1>9, w = Swallow(off, p), MidSwallow
<1>11. /\ AllocDue(w) = AllocDue(off) + s /\ AvailDue(w) = AvailDue(off) - h - s
       /\ NusedDue(w) = NusedDue(off) + 1 /\ NfreeDue(w) = NfreeDue(off)
  BY ONLY <1>7, <1>9, <1>10, h = MBLKHDRSIZE, DueFreeSwallow
<1>12. p \in Blocks(x) /\ b = next_mblk(x, p)
  BY <1>1, <1>2
<1>13. TakenIn(x, p, b, w)
  BY ONLY <1>1, <1>12, <1>5, <1>10, TakenAlike
<1>14. /\ InUse(w) = InUse(x) \ {b} /\ FreeOf(w) = FreeOf(x) \ {b} /\ p # b
       /\ Blocks(w) = Blocks(x) \ {b} /\ p \in Blocks(w)
  BY ONLY <1>1, <1>12, <1>13, TakenNow
<1>15. /\ w.end = x.end /\ next_mblk(w, p) = next_mblk(x, b)
       /\ \A a \in Blocks(w) : a # p => /\ w.blk[a].size = x.blk[a].size
                                        /\ next_mblk(w, a) = next_mblk(x, a)
  BY ONLY <1>13 DEF TakenIn
<1>16. Lonely(w, p)
  <2>1. next_mblk(w, p) \notin FreeOf(w)
    BY ONLY <1>2, <1>14, <1>15
  <2>2. ASSUME NEW c \in FreeOf(w), next_mblk(w, c) = p PROVE FALSE
    <3>1. c \in FreeOf(x) /\ c \in Blocks(w)
      BY ONLY <1>1, <1>14, c \in FreeOf(w)
    <3>2. CASE c = p
      <4>1. next_mblk(x, b) = p
        BY ONLY <1>15, <2>2, <3>2
      <4> QED
        BY ONLY <1>2, <4>1
    <3>3. CASE c # p
      BY ONLY <1>2, <1>15, <2>2, <3>1, <3>3
    <3> QED
      BY ONLY <3>2, <3>3
  <2> QED
    BY ONLY <2>1, <2>2 DEF Lonely
<1>17. PICK k \in Int : k = 0
  OBVIOUS
<1>18. PICK G : G = F \union {p}
  OBVIOUS
<1>19. p \in FreeOf(w) /\ p \notin F /\ y = Count(z, 0, e, 0, k)
  BY <1>2, <1>9, <1>14, <1>17
<1>20. z = Joined(w, p) /\ e \in Int
  OBVIOUS
<1>21. /\ Mid(y, {}, {}, G) /\ FreeNow(w, FreeOf(w) \union {p}, y)
       /\ AllocDue(y) = AllocDue(w) /\ AvailDue(y) = AvailDue(w) + e
       /\ NusedDue(y) = NusedDue(w) /\ NfreeDue(y) = NfreeDue(w) + k
  <2>1. EndFree(w, p, F, e, k, y)
    BY ONLY <1>10, <1>16, k \in Int, <1>18, <1>19, <1>20, JoinedFree, Zenon
  <2> QED
    BY ONLY <1>18, <2>1 DEF EndFree
<1>22. NothingDue(y)
  BY ONLY <1>1, <1>8, <1>11, <1>17, <1>21, s \in Nat, h \in Nat, d = -s, e = s + h
     DEF NothingDue, SameDue
<1>23. G = FreeOf(w) \union {p}
  BY ONLY <1>1, <1>2, <1>3, <1>14, <1>18
<1>24. FreeNow(w, G, y) /\ FreeOf(y) = G
  BY ONLY <1>21, <1>23 DEF FreeNow
<1>25. Good(y)
  BY ONLY <1>21, <1>22, <1>24 DEF Good
<1> QED
  BY ONLY <1>1, <1>2, <1>14, <1>15, <1>23, <1>24, <1>25, b \in InUse(x), ReleasedIs

(* qse_xma_free when both neighbours are free.                              *)
LEMMA FreedBoth ==
  ASSUME NEW x, Good(x), NEW b \in InUse(x), NEW s \in Nat, s = x.blk[b].size,
         PrevIsFree(x, b), NextIsFree(x, b), NEW d \in Int, d = -s,
         NEW p, p = prev_mblk(x, b), NEW n, n = next_mblk(x, b),
         NEW h \in Nat, h = MBLKHDRSIZE,
         NEW less, less = Count(x, d, 0, -1, 0),
         NEW off, off = detach_from_freelist(detach_from_freelist(less, p), n),
         NEW v, v = Swallow(off, p), NEW w, w = Swallow(v, p), NEW z, z = Joined(w, p),
         NEW e \in Int, e = s + 2 * h, NEW y, y = Count(z, 0, e, 0, -1)
  PROVE  Released(x, b, y)
<1>1. /\ Mid(less, {}, {}, FreeOf(x)) /\ Alike(x, less)
      /\ SameSizes(x, less) /\ InUse(less) = InUse(x) /\ FreeOf(less) = FreeOf(x)
      /\ \A a \in Blocks(x) : next_mblk(less, a) = next_mblk(x, a)
      /\ AllocDue(less) = d /\ AvailDue(less) = 0
      /\ NusedDue(less) = -1 /\ NfreeDue(less) = 0
      /\ Typed(x) /\ Tiled(x) /\ b \in Blocks(x) /\ b \notin FreeOf(x)
      /\ InUse(x) = Blocks(x) \ FreeOf(x) /\ FreeOf(x) \subseteq Blocks(x)
  BY LessDoes
<1>2. /\ p \in FreeOf(x) /\ next_mblk(x, p) = b
      /\ n \in FreeOf(x) /\ next_mblk(x, n) \notin FreeOf(x)
      /\ \A c \in FreeOf(x) : next_mblk(x, c) # p
  BY <1>1, Neighbours
<1>3. p \in Blocks(x) /\ n \in Blocks(x) /\ b = next_mblk(x, p) /\ p # n /\ p # b /\ n # b
  <2>1. p \in Blocks(x) /\ n \in Blocks(x) /\ b = next_mblk(x, p)
    BY <1>1, <1>2
  <2>2. /\ p \in Nat /\ b \in Nat /\ n \in Nat /\ p < b /\ b < n
    BY <1>1, <2>1, Ahead
  <2> QED
    BY ONLY <2>1, <2>2
<1>4. PICK E, F : E = FreeOf(x) \ {p} /\ F = E \ {n}
  OBVIOUS
<1>5. PICK u : u = detach_from_freelist(less, p)
  OBVIOUS
<1>6. Mid(u, {}, {}, E) /\ Alike(less, u) /\ u.stat = less.stat
  BY ONLY <1>1, <1>2, <1>4, <1>5, MidDetach
<1>7. n \in E /\ off = detach_from_freelist(u, n)
  BY <1>2, <1>3, <1>4, <1>5
<1>8. Mid(off, {}, {}, F) /\ Alike(u, off) /\ off.stat = u.stat
  BY ONLY <1>4, <1>6, <1>7, MidDetach
<1>9. Alike(less, off)
  BY ONLY <1>6, <1>8, AlikeTrans
<1>10. Alike(x, off)
  BY ONLY <1>1, <1>9, AlikeTrans
<1>11. /\ InUse(off) = InUse(x) /\ FreeOf(off) = FreeOf(x) /\ Blocks(off) = Blocks(x)
       /\ \A a \in Blocks(x) : next_mblk(off, a) = next_mblk(x, a) /\ off.blk[a].size = x.blk[a].size
  BY ONLY <1>10, AlikeSets DEF SameSizes
<1>12. Typed(less) /\ Tiled(less) /\ Typed(off) /\ Tiled(off) /\ Mid(off, {p}, {p}, F)
  BY ONLY <1>1, <1>8, MidWeaker DEF Mid
<1>13. SameDue(less, off)
  BY ONLY <1>6, <1>8, <1>9, <1>12, DueAlike
<1>14. /\ p \in Blocks(off) /\ b \in Blocks(off) /\ b = next_mblk(off, p)
       /\ p \notin F /\ b \notin F /\ n \notin F /\ b \in InUse(off) /\ p \in FreeOf(off)
       /\ s = off.blk[b].size
  BY <1>1, <1>2, <1>3, <1>4, <1>11
<1>15. Mid(v, {p}, {p}, F) /\ TakenIn(off, p, b, v) /\ v.stat = off.stat
  BY ONLY <1>12, <1>14, v = Swallow(off, p), MidSwallow
<1>16. /\ AllocDue(v) = AllocDue(off) + s /\ AvailDue(v) = AvailDue(off) - h - s
       /\ NusedDue(v) = NusedDue(off) + 1 /\ NfreeDue(v) = NfreeDue(off)
  BY ONLY <1>12, <1>14, <1>15, h = MBLKHDRSIZE, DueFreeSwallow
<1>17. TakenIn(x, p, b, v)
  BY ONLY <1>1, <1>3, <1>10, <1>15, TakenAlike
<1>18. /\ InUse(v) = InUse(x) \ {b} /\ FreeOf(v) = FreeOf(x) \ {b}
       /\ Blocks(v) = Blocks(x) \ {b} /\ p \in Blocks(v)
  BY ONLY <1>1, <1>3, <1>17, TakenNow
<1>19. /\ v.end = x.end /\ next_mblk(v, p) = next_mblk(x, b)
       /\ \A a \in Blocks(v) : a # p => /\ v.blk[a].size = x.blk[a].size
                                        /\ next_mblk(v, a) = next_mblk(x, a)
  BY ONLY <1>17 DEF TakenIn
<1>20. /\ n \in Blocks(v) /\ n = next_mblk(v, p) /\ n \in FreeOf(v) /\ p \in FreeOf(v)
       /\ next_mblk(v, n) = next_mblk(x, n)
  BY <1>2, <1>3, <1>18, <1>19
<1>21. Mid(w, {p}, {p}, F) /\ TakenIn(v, p, n, w) /\ w.stat = v.stat
  BY ONLY <1>14, <1>15, <1>18, <1>20, w = Swallow(v, p), MidSwallow
<1>22. Typed(v) /\ Tiled(v)
  BY <1>15 DEF Mid
<1>23. /\ AllocDue(w) = AllocDue(v) /\ AvailDue(w) = AvailDue(v) - h
       /\ NusedDue(w) = NusedDue(v) /\ NfreeDue(w) = NfreeDue(v) + 1
  BY ONLY <1>20, <1>21, <1>22, h = MBLKHDRSIZE, DueBothSwallow
<1>24. /\ InUse(w) = InUse(v) \ {n} /\ FreeOf(w) = FreeOf(v) \ {n}
       /\ Blocks(w) = Blocks(v) \ {n} /\ p \in Blocks(w)
  BY ONLY <1>18, <1>20, <1>21, <1>22, TakenNow
<1>25. /\ w.end = x.end /\ next_mblk(w, p) = next_mblk(x, n)
       /\ \A a \in Blocks(w) : a # p => /\ w.blk[a].size = x.blk[a].size
                                        /\ next_mblk(w, a) = next_mblk(x, a)
  <2>1. /\ w.end = v.end /\ next_mblk(w, p) = next_mblk(v, n)
        /\ \A a \in Blocks(w) : a # p => /\ w.blk[a].size = v.blk[a].size
                                         /\ next_mblk(w, a) = next_mblk(v, a)
    BY ONLY <1>21 DEF TakenIn
  <2> QED
    BY ONLY <1>19, <1>20, <1>24, <2>1
<1>26. Lonely(w, p)
  <2>1. next_mblk(w, p) \notin FreeOf(w)
    BY ONLY <1>2, <1>18, <1>24, <1>25
  <2>2. ASSUME NEW c \in FreeOf(w), next_mblk(w, c) = p PROVE FALSE
    <3>1. c \in FreeOf(x) /\ c \in Blocks(w)
      BY ONLY <1>1, <1>18, <1>24, c \in FreeOf(w)
    <3>2. CASE c = p
      <4>1. next_mblk(x, n) = p
        BY ONLY <1>25, <2>2, <3>2
      <4> QED
        BY ONLY <1>2, <4>1
    <3>3. CASE c # p
      BY ONLY <1>2, <1>25, <2>2, <3>1, <3>3
    <3> QED
      BY ONLY <3>2, <3>3
  <2> QED
    BY ONLY <2>1, <2>2 DEF Lonely
<1>27. PICK k \in Int : k = -1
  OBVIOUS
<1>28. PICK G : G = F \union {p}
  OBVIOUS
<1>29. p \in FreeOf(w) /\ p \notin F /\ y = Count(z, 0, e, 0, k)
  BY <1>3, <1>14, <1>20, <1>24, <1>27
<1>30. z = Joined(w, p) /\ e \in Int
  OBVIOUS
<1>31. /\ Mid(y, {}, {}, G) /\ FreeNow(w, FreeOf(w) \union {p}, y)
       /\ AllocDue(y) = AllocDue(w) /\ AvailDue(y) = AvailDue(w) + e
       /\ NusedDue(y) = NusedDue(w) /\ NfreeDue(y) = NfreeDue(w) + k
  <2>1. EndFree(w, p, F, e, k, y)
    BY ONLY <1>21, <1>26, k \in Int, <1>28, <1>29, <1>30, JoinedFree, Zenon
  <2> QED
    BY ONLY <1>28, <2>1 DEF EndFree
<1>32. NothingDue(y)
  BY ONLY <1>1, <1>13, <1>16, <1>23, <1>27, <1>31, s \in Nat, h \in Nat, d = -s, e = s + 2 * h
     DEF NothingDue, SameDue
<1>33. G = FreeOf(w) \union {p}
  BY ONLY <1>1, <1>3, <1>4, <1>18, <1>24, <1>28
<1>34. FreeNow(w, G, y) /\ FreeOf(y) = G
  BY ONLY <1>31, <1>33 DEF FreeNow
<1>35. Good(y)
  BY ONLY <1>31, <1>32, <1>34 DEF Good
<1>36. /\ Blocks(w) = Blocks(x) \ {b, n} /\ FreeOf(w) = FreeOf(x) \ {b, n} /\ p \in Blocks(w)
  BY ONLY <1>18, <1>24
<1> QED
  BY ONLY <1>1, <1>2, <1>36, <1>25, <1>33, <1>34, <1>35, b \in InUse(x), ReleasedIs

(* qse_xma_free                                                            *)
LEMMA FreedDoes ==
  ASSUME NEW x, Good(x), NEW b \in InUse(x)
  PROVE  Released(x, b, Freed(x, b))
<1>1. Typed(x) /\ b \in Blocks(x)
  BY TilesSummed DEF Good, Mid
<1>2. PICK s \in Nat : s = x.blk[b].size
  BY <1>1, Ahead
<1>3. PICK h \in Nat : h = MBLKHDRSIZE
  BY Constants DEF MBLKHDRSIZE
<1>4. PICK d \in Int, e \in Int, i \in Int : d = -s /\ e = s + h /\ i = s + 2 * h
  BY <1>2, <1>3
<1>5. PICK y, p, n : y = Freed(x, b) /\ p = prev_mblk(x, b) /\ n = next_mblk(x, b)
  OBVIOUS
<1>6. PICK less : less = Count(x, d, 0, -1, 0)
  OBVIOUS
<1>7. CASE PrevIsFree(x, b) /\ NextIsFree(x, b)
  <2>1. PICK off : off = detach_from_freelist(detach_from_freelist(less, p), n)
    OBVIOUS
  <2>2. PICK v, w, z : v = Swallow(off, p) /\ w = Swallow(v, p) /\ z = Joined(w, p)
    BY Zenon
  <2>3. y = Count(z, 0, i, 0, -1)
    BY <1>2, <1>3, <1>4, <1>5, <1>6, <1>7, <2>1, <2>2 DEF Freed, Joined
  <2>4. Released(x, b, y)
    BY <1>2, <1>3, <1>4, <1>5, <1>6, <1>7, <2>1, <2>2, <2>3, FreedBoth
  <2> QED
    BY <1>5, <2>4
<1>8. CASE ~ PrevIsFree(x, b) /\ NextIsFree(x, b)
  <2>1. PICK off : off = detach_from_freelist(less, n)
    OBVIOUS
  <2>2. PICK w, z : w = Swallow(off, b) /\ z = Joined(w, b)
    BY Zenon
  <2>3. y = Count(z, 0, e, 0, 0)
    BY <1>2, <1>3, <1>4, <1>5, <1>6, <1>8, <2>1, <2>2 DEF Freed, Joined
  <2>4. Released(x, b, y)
    BY <1>2, <1>3, <1>4, <1>5, <1>6, <1>8, <2>1, <2>2, <2>3, FreedNext
  <2> QED
    BY <1>5, <2>4
<1>9. CASE PrevIsFree(x, b) /\ ~ NextIsFree(x, b)
  <2>1. PICK off : off = detach_from_freelist(less, p)
    OBVIOUS
  <2>2. PICK w, z : w = Swallow(off, p) /\ z = Joined(w, p)
    BY Zenon
  <2>3. y = Count(z, 0, e, 0, 0)
    BY <1>2, <1>3, <1>4, <1>5, <1>6, <1>9, <2>1, <2>2 DEF Freed, Joined
  <2>4. Released(x, b, y)
    BY <1>2, <1>3, <1>4, <1>5, <1>6, <1>9, <2>1, <2>2, <2>3, FreedPrev
  <2> QED
    BY <1>5, <2>4
<1>10. CASE ~ PrevIsFree(x, b) /\ ~ NextIsFree(x, b)
  <2>1. y = Count(attach_to_freelist(SetFree(less, b, TRUE), b), 0, s, 0, 1)
    BY <1>2, <1>3, <1>4, <1>5, <1>6, <1>10 DEF Freed
  <2>2. Released(x, b, y)
    BY <1>2, <1>4, <1>6, <1>10, <2>1, FreedAlone
  <2> QED
    BY <1>5, <2>2
<1> QED
  BY <1>7, <1>8, <1>9, <1>10
-----------------------------------------------------------------------------
(* Change of size.                                                         *)

(* Block b, in use, has taken in the free block behind it, of q bytes.     *)
Widened(x, b, q, w) ==
  /\ Mid(w, {b}, {b}, FreeOf(w)) /\ w.end = x.end
  /\ InUse(w) = InUse(x) /\ b \notin FreeOf(w)
  /\ next_mblk(w, b) \notin FreeOf(w)
  /\ w.blk[b].size = x.blk[b].size + MBLKHDRSIZE + q
  /\ \A a \in InUse(x) : a # b => w.blk[a].size = x.blk[a].size
  /\ AllocDue(w) = 0 - MBLKHDRSIZE - q /\ AvailDue(w) = q
  /\ NusedDue(w) = 0 /\ NfreeDue(w) = 1

(* Growing in place first takes the free block behind.                      *)
LEMMA Widens ==
  ASSUME NEW x, Good(x), NEW b \in InUse(x), NEW n, n = next_mblk(x, b),
         NextIsFree(x, b), NEW q, q = x.blk[n].size,
         NEW off, off = detach_from_freelist(x, n), NEW w, w = Swallow(off, b)
  PROVE  Widened(x, b, q, w)
<1>1. /\ Mid(x, {}, {}, FreeOf(x)) /\ NothingDue(x) /\ Typed(x) /\ Tiled(x)
      /\ InUse(x) = Blocks(x) \ FreeOf(x) /\ FreeOf(x) \subseteq Blocks(x)
      /\ b \in Blocks(x) /\ b \notin FreeOf(x)
  <2>1. Mid(x, {}, {}, FreeOf(x)) /\ NothingDue(x) /\ Typed(x) /\ Tiled(x)
    BY DEF Good, Mid
  <2> QED
    BY <2>1, TilesSummed
<1>2. n \in FreeOf(x) /\ next_mblk(x, n) \notin FreeOf(x)
  BY <1>1, Neighbours
<1>3. PICK F : F = FreeOf(x) \ {n}
  OBVIOUS
<1>4. Mid(off, {}, {}, F) /\ Alike(x, off) /\ off.stat = x.stat
  BY ONLY <1>1, <1>2, <1>3, off = detach_from_freelist(x, n), MidDetach
<1>5. /\ InUse(off) = InUse(x) /\ FreeOf(off) = FreeOf(x) /\ Blocks(off) = Blocks(x)
      /\ \A a \in Blocks(x) : next_mblk(off, a) = next_mblk(x, a) /\ off.blk[a].size = x.blk[a].size
  BY ONLY <1>4, AlikeSets DEF SameSizes
<1>6. Typed(off) /\ Tiled(off) /\ Mid(off, {b}, {b}, F)
  BY ONLY <1>4, MidWeaker DEF Mid
<1>7. SameDue(x, off)
  BY ONLY <1>1, <1>4, DueAlike
<1>8. /\ b \in Blocks(off) /\ n \in Blocks(off) /\ n = next_mblk(off, b)
      /\ b \notin F /\ n \notin F /\ b \in InUse(off) /\ n \in FreeOf(off)
  BY <1>1, <1>2, <1>3, <1>5
<1>9. Mid(w, {b}, {b}, F) /\ TakenIn(off, b, n, w) /\ w.stat = off.stat
  BY ONLY <1>6, <1>8, w = Swallow(off, b), MidSwallow
<1>10. q = off.blk[n].size /\ q \in Nat
  BY ONLY <1>1, <1>2, <1>5, <1>6, <1>8, q = x.blk[n].size, Ahead
<1>11. PICK h \in Nat : h = MBLKHDRSIZE
  BY Constants DEF MBLKHDRSIZE
<1>12. /\ AllocDue(w) = AllocDue(off) - h - q /\ AvailDue(w) = AvailDue(off) + q
       /\ NusedDue(w) = NusedDue(off) /\ NfreeDue(w) = NfreeDue(off) + 1
  BY ONLY <1>6, <1>8, <1>9, <1>10, <1>11, DueUsedSwallow
<1>13. /\ AllocDue(w) = 0 - h - q /\ AvailDue(w) = q /\ NusedDue(w) = 0 /\ NfreeDue(w) = 1
  BY ONLY <1>1, <1>7, <1>10, <1>11, <1>12 DEF SameDue, NothingDue
<1>14. TakenIn(x, b, n, w)
  BY ONLY <1>1, <1>2, <1>4, <1>9, TakenAlike
<1>15. /\ InUse(w) = InUse(x) \ {n} /\ FreeOf(w) = FreeOf(x) \ {n} /\ b # n
       /\ Blocks(w) = Blocks(x) \ {n} /\ b \in Blocks(w)
  BY ONLY <1>1, <1>2, <1>14, n = next_mblk(x, b), TakenNow
<1>16. /\ w.end = x.end /\ next_mblk(w, b) = next_mblk(x, n)
       /\ w.blk[b].size = x.blk[b].size + h + q
       /\ \A a \in Blocks(w) : a # b => w.blk[a].size = x.blk[a].size
  BY ONLY <1>14, <1>11, q = x.blk[n].size DEF TakenIn
<1>17. InUse(w) = InUse(x) /\ FreeOf(w) = F
  BY ONLY <1>1, <1>2, <1>3, <1>15
<1>18. next_mblk(w, b) \notin FreeOf(w) /\ b \notin FreeOf(w)
  BY ONLY <1>1, <1>2, <1>15, <1>16
<1>19. \A a \in InUse(x) : a # b => w.blk[a].size = x.blk[a].size
  BY ONLY <1>1, <1>2, <1>15, <1>16
<1>20. Mid(w, {b}, {b}, FreeOf(w))
  BY ONLY <1>9, <1>17
<1> QED
  BY ONLY <1>11, <1>13, <1>16, <1>17, <1>18, <1>19, <1>20 DEF Widened

(* Block b, in use, has been cut down to `size' bytes.                     *)
CutDown(x, b, size, rest, alloc, avail, nfree, y) ==
  /\ Mid(y, {}, {}, FreeOf(y)) /\ y.end = x.end /\ InUse(y) = InUse(x)
  /\ y.blk[b].size = size
  /\ \A a \in InUse(x) : a # b => y.blk[a].size = x.blk[a].size
  /\ AllocDue(y) = AllocDue(x) + MBLKHDRSIZE + rest + alloc
  /\ AvailDue(y) = AvailDue(x) - rest + avail
  /\ NusedDue(y) = NusedDue(x) /\ NfreeDue(y) = NfreeDue(x) - 1 + nfree

(* Then, and when shrinking, the surplus is split off.                      *)
LEMMA CutsDown ==
  ASSUME NEW x, NEW b \in InUse(x), Mid(x, {b}, {b}, FreeOf(x)),
         next_mblk(x, b) \notin FreeOf(x),
         NEW size \in Nat, NEW rest \in Nat, size >= MINALLOCSIZE, rest >= MINALLOCSIZE,
         x.blk[b].size = size + MBLKHDRSIZE + rest,
         NEW s, s = SplitOff(x, b, size, rest),
         NEW t, t = TellNext(s, next_mblk(s, b)),
         NEW alloc \in Int, NEW avail \in Int, NEW nfree \in Int,
         NEW y, y = Count(t, alloc, avail, 0, nfree)
  PROVE  CutDown(x, b, size, rest, alloc, avail, nfree, y)
<1>1. Typed(x) /\ Tiled(x) /\ InUse(x) = Blocks(x) \ FreeOf(x) /\ InUse(x) \subseteq Blocks(x)
  <2>1. Typed(x) /\ Tiled(x)
    BY DEF Mid
  <2> QED
    BY <2>1, TilesSummed
<1>2. b \in Blocks(x) /\ b \notin FreeOf(x)
  BY <1>1
<1>3. next_mblk(x, b) \in Blocks(x) => ~ x.blk[next_mblk(x, b)].free
  BY DEF FreeOf
<1>4. PICK r, F, G : r = b + MBLKHDRSIZE + size /\ F = FreeOf(x) /\ G = F \union {r}
  OBVIOUS
<1>5. Mid(x, {b}, {b}, F) /\ b \notin F
  BY <1>2, <1>4
<1>6. Mid(t, {}, {b}, G) /\ SplitAt(x, b, size, rest, r, t)
  BY ONLY <1>2, <1>3, <1>4, <1>5, size \in Nat, rest \in Nat, size >= MINALLOCSIZE,
          rest >= MINALLOCSIZE, x.blk[b].size = size + MBLKHDRSIZE + rest,
          s = SplitOff(x, b, size, rest), t = TellNext(s, next_mblk(s, b)), MidSplit
<1>7. /\ InUse(t) = InUse(x) /\ FreeOf(t) = FreeOf(x) \union {r}
      /\ \A a \in Blocks(x) : t.blk[a].size = IF a = b THEN size ELSE x.blk[a].size
  BY ONLY <1>1, <1>2, <1>6, size \in Nat, rest \in Nat, SplitSets
<1>8. t.end = x.end /\ b \in Blocks(t)
  BY <1>2, <1>6 DEF SplitAt
<1>9. b \notin FreeOf(t)
  BY <1>1, <1>2, <1>6, <1>7 DEF SplitAt
<1>10. Mid(t, {}, {}, G)
  <2>1. ~ t.blk[b].free
    BY <1>8, <1>9 DEF FreeOf
  <2> QED
    BY ONLY <1>6, <1>8, <2>1, MidClose
<1>11. PICK h \in Nat : h = MBLKHDRSIZE
  BY Constants DEF MBLKHDRSIZE
<1>12. /\ AllocDue(t) = AllocDue(x) + h + rest /\ AvailDue(t) = AvailDue(x) - rest
       /\ NusedDue(t) = NusedDue(x) /\ NfreeDue(t) = NfreeDue(x) - 1
  <2>1. x.blk[b].size = size + h + rest
    BY <1>11
  <2> QED
    BY ONLY <1>1, <1>6, <1>11, <2>1, b \in InUse(x), size \in Nat, rest \in Nat, DueUsedSplit
<1>13. PICK o \in Int : o = 0
  OBVIOUS
<1>14. y = Count(t, alloc, avail, o, nfree)
  BY <1>13
<1>15. /\ Mid(y, {}, {}, G) /\ Alike(t, y)
       /\ AllocDue(y) = AllocDue(t) + alloc /\ AvailDue(y) = AvailDue(t) + avail
       /\ NusedDue(y) = NusedDue(t) + o /\ NfreeDue(y) = NfreeDue(t) + nfree
  BY ONLY <1>10, <1>14, o \in Int, alloc \in Int, avail \in Int, nfree \in Int, MidCounted
<1>16. /\ AllocDue(x) \in Int /\ AvailDue(x) \in Int
       /\ NusedDue(x) \in Int /\ NfreeDue(x) \in Int
  BY <1>1, DueIsInt
<1>17. /\ AllocDue(y) = AllocDue(x) + h + rest + alloc /\ AvailDue(y) = AvailDue(x) - rest + avail
       /\ NusedDue(y) = NusedDue(x) /\ NfreeDue(y) = NfreeDue(x) - 1 + nfree
  BY ONLY <1>12, <1>13, <1>15, <1>16, h \in Nat, rest \in Nat,
          alloc \in Int, avail \in Int, nfree \in Int
<1>18. /\ InUse(y) = InUse(t) /\ FreeOf(y) = FreeOf(t) /\ y.end = t.end
       /\ \A a \in Blocks(t) : y.blk[a].size = t.blk[a].size
  BY ONLY <1>15, AlikeSets DEF Alike
<1>19. Blocks(x) \subseteq Blocks(t)
  BY <1>6 DEF SplitAt
<1>20. /\ y.blk[b].size = size
       /\ \A a \in InUse(x) : a # b => y.blk[a].size = x.blk[a].size
  BY ONLY <1>1, <1>2, <1>7, <1>18, <1>19
<1>21. Mid(y, {}, {}, FreeOf(y))
  BY ONLY <1>4, <1>7, <1>15, <1>18
<1> QED
  BY ONLY <1>7, <1>8, <1>11, <1>17, <1>18, <1>20, <1>21 DEF CutDown

(* Block b now has at least `size' bytes, and has stayed where it is.      *)
Resized(x, b, size, y) ==
  /\ Good(y) /\ y.end = x.end /\ InUse(y) = InUse(x)
  /\ y.blk[b].size >= size
  /\ \A a \in InUse(x) : a # b => y.blk[a].size = x.blk[a].size

(* The block behind provides what is lacking and is left with the rest.    *)
LEMMA GrownSplit ==
  ASSUME NEW x, Good(x), NEW b \in InUse(x), NEW size \in Nat, size >= MINALLOCSIZE,
         NEW n, n = next_mblk(x, b), NextIsFree(x, b), NEW q \in Nat, q = x.blk[n].size,
         NEW p \in Nat, p = x.blk[b].size, NEW rest \in Nat, rest >= MINALLOCSIZE,
         p + q = size + rest,
         NEW w, w = Swallow(detach_from_freelist(x, n), b),
         NEW s, s = SplitOff(w, b, size, rest),
         NEW req \in Int, req = size - p, NEW d \in Int, d = -req,
         NEW y, y = Count(TellNext(s, next_mblk(s, b)), req, d, 0, 0)
  PROVE  Resized(x, b, size, y)
<1>1. Widened(x, b, q, w)
  BY ONLY Good(x), b \in InUse(x), n = next_mblk(x, b), NextIsFree(x, b),
          q = x.blk[n].size, w = Swallow(detach_from_freelist(x, n), b), Widens
<1>2. PICK h \in Nat : h = MBLKHDRSIZE
  BY Constants DEF MBLKHDRSIZE
<1>3. /\ Mid(w, {b}, {b}, FreeOf(w)) /\ w.end = x.end
      /\ b \in InUse(w) /\ InUse(w) = InUse(x)
      /\ next_mblk(w, b) \notin FreeOf(w)
      /\ w.blk[b].size = p + h + q
      /\ \A a \in InUse(x) : a # b => w.blk[a].size = x.blk[a].size
      /\ AllocDue(w) = 0 - h - q /\ AvailDue(w) = q
      /\ NusedDue(w) = 0 /\ NfreeDue(w) = 1
  BY ONLY <1>1, <1>2, b \in InUse(x), p = x.blk[b].size DEF Widened
<1>4. w.blk[b].size = size + MBLKHDRSIZE + rest
  BY ONLY <1>2, <1>3, p \in Nat, q \in Nat, size \in Nat, rest \in Nat, p + q = size + rest
<1>5. PICK o \in Int : o = 0
  OBVIOUS
<1>6. PICK t : t = TellNext(s, next_mblk(s, b))
  OBVIOUS
<1>7. y = Count(t, req, d, 0, o)
  BY ONLY <1>5, <1>6, y = Count(TellNext(s, next_mblk(s, b)), req, d, 0, 0)
<1>8. CutDown(w, b, size, rest, req, d, o, y)
  BY ONLY <1>3, <1>4, <1>6, <1>7, o \in Int, req \in Int, d \in Int, size \in Nat, rest \in Nat,
          size >= MINALLOCSIZE, rest >= MINALLOCSIZE, s = SplitOff(w, b, size, rest), CutsDown
<1>9. NothingDue(y)
  BY ONLY <1>2, <1>3, <1>5, <1>8, p \in Nat, q \in Nat, size \in Nat, rest \in Nat,
          p + q = size + rest, req = size - p, d = -req DEF CutDown, NothingDue
<1>10. Good(y)
  BY ONLY <1>8, <1>9 DEF Good, CutDown
<1> QED
  BY ONLY <1>3, <1>8, <1>10, size \in Nat DEF CutDown, Resized

(* All of the block behind is needed.                                      *)
LEMMA GrownWhole ==
  ASSUME NEW x, Good(x), NEW b \in InUse(x), NEW size \in Nat,
         NEW n, n = next_mblk(x, b), NextIsFree(x, b), NEW q \in Nat, q = x.blk[n].size,
         NEW h \in Nat, h = MBLKHDRSIZE, NEW p \in Nat, p = x.blk[b].size, size <= p + q,
         NEW w, w = Swallow(detach_from_freelist(x, n), b),
         NEW e \in Int, e = h + q, NEW d \in Int, d = -q,
         NEW y, y = Count(TellNext(w, b), e, d, 0, -1)
  PROVE  Resized(x, b, size, y)
<1>1. Widened(x, b, q, w)
  BY ONLY Good(x), b \in InUse(x), n = next_mblk(x, b), NextIsFree(x, b),
          q = x.blk[n].size, w = Swallow(detach_from_freelist(x, n), b), Widens
<1>2. /\ Mid(w, {b}, {b}, FreeOf(w)) /\ w.end = x.end
      /\ InUse(w) = InUse(x) /\ b \in InUse(w)
      /\ w.blk[b].size = p + h + q
      /\ \A a \in InUse(x) : a # b => w.blk[a].size = x.blk[a].size
      /\ AllocDue(w) = 0 - h - q /\ AvailDue(w) = q
      /\ NusedDue(w) = 0 /\ NfreeDue(w) = 1
  BY ONLY <1>1, h = MBLKHDRSIZE, b \in InUse(x), p = x.blk[b].size DEF Widened
<1>3. Typed(w) /\ Tiled(w) /\ InUse(w) = Blocks(w) \ FreeOf(w) /\ InUse(w) \subseteq Blocks(w)
  <2>1. Typed(w) /\ Tiled(w)
    BY <1>2 DEF Mid
  <2> QED
    BY <2>1, TilesSummed
<1>4. PICK t : t = TellNext(w, b)
  OBVIOUS
<1>5. Mid(t, {}, {b}, FreeOf(w)) /\ Alike(w, t) /\ t.stat = w.stat
  BY ONLY <1>2, <1>3, <1>4, MidTell
<1>6. InUse(t) = InUse(w) /\ FreeOf(t) = FreeOf(w) /\ Blocks(t) = Blocks(w)
  BY ONLY <1>5, AlikeSets DEF Alike
<1>7. b \in Blocks(t) /\ ~ t.blk[b].free
  BY ONLY <1>2, <1>3, <1>6 DEF FreeOf
<1>8. Mid(t, {}, {}, FreeOf(w))
  BY ONLY <1>5, <1>7, MidClose
<1>9. SameDue(w, t)
  BY ONLY <1>3, <1>5, DueAlike
<1>10. PICK o \in Int, j \in Int : o = 0 /\ j = -1
  OBVIOUS
<1>11. y = Count(t, e, d, o, j)
  BY ONLY <1>4, <1>10, y = Count(TellNext(w, b), e, d, 0, -1)
<1>12. /\ Mid(y, {}, {}, FreeOf(w)) /\ Alike(t, y)
       /\ AllocDue(y) = AllocDue(t) + e /\ AvailDue(y) = AvailDue(t) + d
       /\ NusedDue(y) = NusedDue(t) + o /\ NfreeDue(y) = NfreeDue(t) + j
  BY ONLY <1>8, <1>11, o \in Int, j \in Int, e \in Int, d \in Int, MidCounted
<1>13. NothingDue(y)
  BY ONLY <1>2, <1>9, <1>10, <1>12, h \in Nat, q \in Nat, e = h + q, d = -q
     DEF SameDue, NothingDue
<1>14. Alike(w, y)
  BY ONLY <1>5, <1>12, AlikeTrans
<1>15. /\ InUse(y) = InUse(w) /\ FreeOf(y) = FreeOf(w) /\ y.end = w.end
       /\ \A a \in Blocks(w) : y.blk[a].size = w.blk[a].size
  BY ONLY <1>14, AlikeSets DEF Alike
<1>16. Good(y)
  BY ONLY <1>12, <1>13, <1>15 DEF Good
<1>17. y.blk[b].size >= size /\ \A a \in InUse(x) : a # b => y.blk[a].size = x.blk[a].size
  BY ONLY <1>2, <1>3, <1>15, p \in Nat, q \in Nat, h \in Nat, size \in Nat, size <= p + q
<1> QED
  BY ONLY <1>2, <1>15, <1>16, <1>17 DEF Resized

(* _realloc_merge growing in place serves the new size, the zone good.      *)
LEMMA GrownDoes ==
  ASSUME NEW x, Good(x), NEW b \in InUse(x), NEW size \in Sizes, CanGrow(x, b, size)
  PROVE  Resized(x, b, size, Grown(x, b, size))
<1>1. /\ Typed(x) /\ b \in Blocks(x)
      /\ NextIsFree(x, b) /\ next_mblk(x, b) \in Blocks(x)
      /\ size - x.blk[b].size <= x.blk[next_mblk(x, b)].size
  <2>1. Typed(x) /\ Tiled(x)
    BY DEF Good, Mid
  <2>2. b \in Blocks(x)
    BY <2>1, TilesSummed
  <2>3. next_mblk(x, b) \in FreeOf(x)
    BY <2>2, Neighbours DEF CanGrow
  <2> QED
    BY <2>1, <2>2, <2>3 DEF CanGrow, FreeOf
<1>2. PICK n : n = next_mblk(x, b)
  OBVIOUS
<1>3. PICK p \in Nat : p = x.blk[b].size
  BY <1>1, Ahead
<1>4. PICK q \in Nat : q = x.blk[n].size
  BY <1>1, <1>2, Ahead
<1>5. PICK h \in Nat : h = MBLKHDRSIZE
  BY Constants DEF MBLKHDRSIZE
<1>6. PICK m \in Nat : m = MINALLOCSIZE
  BY Constants DEF MINALLOCSIZE
<1>7. size \in Nat /\ size >= MINALLOCSIZE /\ FBLKMINSIZE = h + m /\ size - p <= q
  BY <1>1, <1>2, <1>3, <1>4, <1>5, <1>6 DEF Sizes, MINALLOCSIZE, FBLKMINSIZE
<1>8. PICK w : w = Swallow(detach_from_freelist(x, n), b)
  OBVIOUS
<1>9. PICK y : y = Grown(x, b, size)
  OBVIOUS
<1>10. CASE MBLKHDRSIZE + x.blk[n].size - (size - x.blk[b].size) >= FBLKMINSIZE
  <2>1. PICK req \in Int : req = size - x.blk[b].size /\ req = size - p
    BY <1>3, <1>7
  <2>2. PICK rest : rest = (MBLKHDRSIZE + x.blk[n].size - req) - MBLKHDRSIZE
    OBVIOUS
  <2>3. rest = h + q - req - h /\ h + q - req >= h + m
    BY <1>3, <1>4, <1>5, <1>7, <1>10, <2>1, <2>2
  <2>4. rest \in Nat /\ rest >= m /\ p + q = size + rest
    BY ONLY <1>7, <2>1, <2>3, h \in Nat, q \in Nat, p \in Nat, m \in Nat
  <2>5. PICK s : s = SplitOff(w, b, size, rest)
    OBVIOUS
  <2>6. PICK d \in Int : d = -req
    BY <2>1
  <2>7. y = Count(TellNext(s, next_mblk(s, b)), req, d, 0, 0)
    BY <1>2, <1>8, <1>9, <1>10, <2>1, <2>2, <2>5, <2>6, Zenon DEF Grown
  <2>8. Resized(x, b, size, y)
    BY ONLY Good(x), b \in InUse(x), <1>1, <1>2, <1>3, <1>4, <1>6, <1>7, <1>8,
            <2>1, <2>4, <2>5, <2>6, <2>7, GrownSplit
  <2> QED
    BY <1>9, <2>8
<1>11. CASE ~ (MBLKHDRSIZE + x.blk[n].size - (size - x.blk[b].size) >= FBLKMINSIZE)
  <2>1. PICK e : e = MBLKHDRSIZE + x.blk[n].size
    OBVIOUS
  <2>2. PICK d : d = - x.blk[n].size
    OBVIOUS
  <2>3. e \in Int /\ e = h + q /\ d \in Int /\ d = -q
    BY <1>4, <1>5, <2>1, <2>2
  <2>4. y = Count(TellNext(w, b), e, d, 0, -1)
    BY <1>2, <1>8, <1>9, <1>11, <2>1, <2>2, Zenon DEF Grown
  <2>5. size <= p + q
    BY ONLY <1>7, p \in Nat, q \in Nat
  <2>6. Resized(x, b, size, y)
    BY ONLY Good(x), b \in InUse(x), <1>1, <1>2, <1>3, <1>4, <1>5, <1>7, <1>8,
            <2>3, <2>4, <2>5, GrownWhole
  <2> QED
    BY <1>9, <2>6
<1> QED
  BY <1>10, <1>11

(* What is given up is joined with the free block behind.                  *)
LEMMA ShrunkJoined ==
  ASSUME NEW x, Good(x), NEW b \in InUse(x), NEW size \in Nat, size >= MINALLOCSIZE,
         NEW n, n = next_mblk(x, b), NextIsFree(x, b), NEW q \in Nat, q = x.blk[n].size,
         NEW p \in Nat, p = x.blk[b].size, NEW rem \in Nat, rem = p - size,
         NEW rest \in Nat, rest >= MINALLOCSIZE, rest = rem + q,
         NEW w, w = Swallow(detach_from_freelist(x, n), b),
         NEW s, s = SplitOff(w, b, size, rest), NEW d \in Int, d = -rem,
         NEW y, y = Count(TellNext(s, next_mblk(s, b)), d, rem, 0, 0)
  PROVE  Resized(x, b, size, y)
<1>1. Widened(x, b, q, w)
  BY ONLY Good(x), b \in InUse(x), n = next_mblk(x, b), NextIsFree(x, b),
          q = x.blk[n].size, w = Swallow(detach_from_freelist(x, n), b), Widens
<1>2. PICK h \in Nat : h = MBLKHDRSIZE
  BY Constants DEF MBLKHDRSIZE
<1>3. /\ Mid(w, {b}, {b}, FreeOf(w)) /\ w.end = x.end
      /\ b \in InUse(w) /\ InUse(w) = InUse(x)
      /\ next_mblk(w, b) \notin FreeOf(w)
      /\ w.blk[b].size = p + h + q
      /\ \A a \in InUse(x) : a # b => w.blk[a].size = x.blk[a].size
      /\ AllocDue(w) = 0 - h - q /\ AvailDue(w) = q
      /\ NusedDue(w) = 0 /\ NfreeDue(w) = 1
  BY ONLY <1>1, <1>2, b \in InUse(x), p = x.blk[b].size DEF Widened
<1>4. w.blk[b].size = size + MBLKHDRSIZE + rest
  BY ONLY <1>2, <1>3, p \in Nat, q \in Nat, size \in Nat, rest = rem + q, rem = p - size
<1>5. PICK o \in Int : o = 0
  OBVIOUS
<1>6. PICK t : t = TellNext(s, next_mblk(s, b))
  OBVIOUS
<1>7. y = Count(t, d, rem, 0, o) /\ rem \in Int
  BY ONLY <1>5, <1>6, rem \in Nat, y = Count(TellNext(s, next_mblk(s, b)), d, rem, 0, 0)
<1>8. CutDown(w, b, size, rest, d, rem, o, y)
  BY ONLY <1>3, <1>4, <1>6, <1>7, o \in Int, d \in Int, size \in Nat, rest \in Nat,
          size >= MINALLOCSIZE, rest >= MINALLOCSIZE, s = SplitOff(w, b, size, rest), CutsDown
<1>9. NothingDue(y)
  BY ONLY <1>2, <1>3, <1>5, <1>8, q \in Nat, rem \in Nat, rest = rem + q, d = -rem
     DEF CutDown, NothingDue
<1>10. Good(y)
  BY ONLY <1>8, <1>9 DEF Good, CutDown
<1> QED
  BY ONLY <1>3, <1>8, <1>10, size \in Nat DEF CutDown, Resized

(* What is given up becomes a free block of its own.                       *)
LEMMA ShrunkAlone ==
  ASSUME NEW x, Good(x), NEW b \in InUse(x), NEW size \in Nat, size >= MINALLOCSIZE,
         ~ NextIsFree(x, b), NEW h \in Nat, h = MBLKHDRSIZE,
         NEW rest \in Nat, rest >= MINALLOCSIZE, x.blk[b].size = size + h + rest,
         NEW s, s = SplitOff(x, b, size, rest), NEW d \in Int, d = -(h + rest),
         NEW y, y = Count(TellNext(s, next_mblk(s, b)), d, rest, 0, 1)
  PROVE  Resized(x, b, size, y)
<1>1. /\ Mid(x, {}, {}, FreeOf(x)) /\ NothingDue(x) /\ b \in Blocks(x)
  <2>1. Mid(x, {}, {}, FreeOf(x)) /\ NothingDue(x) /\ Typed(x) /\ Tiled(x)
    BY DEF Good, Mid
  <2> QED
    BY <2>1, TilesSummed
<1>2. next_mblk(x, b) \notin FreeOf(x)
  BY <1>1, Neighbours
<1>3. Mid(x, {b}, {b}, FreeOf(x))
  BY ONLY <1>1, MidWeaker
<1>4. x.blk[b].size = size + MBLKHDRSIZE + rest
  BY ONLY h = MBLKHDRSIZE, x.blk[b].size = size + h + rest
<1>5. PICK i \in Int : i = 1
  OBVIOUS
<1>6. PICK t : t = TellNext(s, next_mblk(s, b))
  OBVIOUS
<1>7. y = Count(t, d, rest, 0, i) /\ rest \in Int
  BY ONLY <1>5, <1>6, rest \in Nat, y = Count(TellNext(s, next_mblk(s, b)), d, rest, 0, 1)
<1>8. CutDown(x, b, size, rest, d, rest, i, y)
  BY ONLY <1>2, <1>3, <1>4, <1>6, <1>7, i \in Int, d \in Int, size \in Nat, rest \in Nat,
          b \in InUse(x), size >= MINALLOCSIZE, rest >= MINALLOCSIZE,
          s = SplitOff(x, b, size, rest), CutsDown
<1>9. NothingDue(y)
  BY ONLY <1>1, <1>5, <1>8, h \in Nat, h = MBLKHDRSIZE, rest \in Nat, d = -(h + rest)
     DEF CutDown, NothingDue
<1>10. Good(y)
  BY ONLY <1>8, <1>9 DEF Good, CutDown
<1> QED
  BY ONLY <1>8, <1>10, size \in Nat DEF CutDown, Resized

(* _realloc_merge shrinking serves the new size, the zone good.             *)
LEMMA ShrunkDoes ==
  ASSUME NEW x, Good(x), NEW b \in InUse(x), NEW size \in Sizes,
         x.blk[b].size - size >= FBLKMINSIZE
  PROVE  Resized(x, b, size, Shrunk(x, b, size))
<1>1. Typed(x) /\ b \in Blocks(x) /\ (NextIsFree(x, b) => next_mblk(x, b) \in Blocks(x))
  <2>1. Typed(x) /\ Tiled(x)
    BY DEF Good, Mid
  <2>2. b \in Blocks(x)
    BY <2>1, TilesSummed
  <2> QED
    BY <2>1, <2>2, Neighbours DEF FreeOf
<1>2. PICK n : n = next_mblk(x, b)
  OBVIOUS
<1>3. PICK p \in Nat : p = x.blk[b].size
  BY <1>1, Ahead
<1>4. PICK h \in Nat : h = MBLKHDRSIZE
  BY Constants DEF MBLKHDRSIZE
<1>5. PICK m \in Nat : m = MINALLOCSIZE
  BY Constants DEF MINALLOCSIZE
<1>6. size \in Nat /\ size >= MINALLOCSIZE /\ p - size >= h + m
  BY <1>3, <1>4, <1>5 DEF Sizes, MINALLOCSIZE, FBLKMINSIZE
<1>7. PICK rem : rem = x.blk[b].size - size
  OBVIOUS
<1>8. rem \in Nat /\ rem = p - size /\ rem >= h + m
  BY ONLY <1>3, <1>6, <1>7, p \in Nat, h \in Nat, m \in Nat
<1>9. PICK d : d = -rem
  OBVIOUS
<1>10. d \in Int
  BY <1>8, <1>9
<1>11. PICK y : y = Shrunk(x, b, size)
  OBVIOUS
<1>12. CASE NextIsFree(x, b)
  <2>1. PICK q \in Nat : q = x.blk[n].size
    BY <1>1, <1>2, <1>12, Ahead
  <2>2. PICK w : w = Swallow(detach_from_freelist(x, n), b)
    OBVIOUS
  <2>3. PICK rest : rest = rem + x.blk[n].size
    OBVIOUS
  <2>4. rest \in Nat /\ rest = rem + q /\ rest >= m
    BY ONLY <1>8, <2>1, <2>3, q \in Nat, h \in Nat, m \in Nat
  <2>5. PICK s : s = SplitOff(w, b, size, rest)
    OBVIOUS
  <2>6. y = Count(TellNext(s, next_mblk(s, b)), d, rem, 0, 0)
    BY <1>2, <1>7, <1>9, <1>11, <1>12, <2>2, <2>3, <2>5, Zenon DEF Shrunk
  <2>7. Resized(x, b, size, y)
    BY ONLY Good(x), b \in InUse(x), <1>2, <1>3, <1>5, <1>6, <1>8, <1>9, <1>10, <1>12,
            <2>1, <2>2, <2>4, <2>5, <2>6, ShrunkJoined
  <2> QED
    BY <1>11, <2>7
<1>13. CASE ~ NextIsFree(x, b)
  <2>1. PICK rest : rest = rem - MBLKHDRSIZE
    OBVIOUS
  <2>2. rest \in Nat /\ rest >= m /\ rem = h + rest
    BY ONLY <1>4, <1>8, <2>1, h \in Nat, m \in Nat
  <2>3. x.blk[b].size = size + h + rest
    BY ONLY <1>3, <1>6, <1>8, <2>2, p \in Nat, h \in Nat
  <2>4. PICK s : s = SplitOff(x, b, size, rest)
    OBVIOUS
  <2>5. y = Count(TellNext(s, next_mblk(s, b)), d, rest, 0, 1)
    BY <1>7, <1>9, <1>11, <1>13, <2>1, <2>4, Zenon DEF Shrunk
  <2>6. d = -(h + rest)
    BY <1>9, <2>2
  <2>7. Resized(x, b, size, y)
    BY ONLY Good(x), b \in InUse(x), <1>4, <1>5, <1>6, <1>10, <1>13,
            <2>2, <2>3, <2>4, <2>5, <2>6, ShrunkAlone
  <2> QED
    BY <1>11, <2>7
<1> QED
  BY <1>12, <1>13

-----------------------------------------------------------------------------
(* The search.                                                             *)

(* Chain i, as the code walks it, holds the free blocks of class i.        *)
LEMMA ChainHolds ==
  ASSUME NEW x, Good(x), NEW i \in 0..XFIMAX
  PROVE  \E c : /\ Chain(x, i) = c /\ Runs(x, i, c) /\ Sorted(x, FreeOf(x), i, c)
                /\ \A k \in 1..Len(c) : c[k] \in FreeOf(x)
<1>1. Typed(x) /\ Tiled(x) /\ Listed(x, FreeOf(x))
  BY DEF Good, Mid
<1>2. PICK c : Runs(x, i, c) /\ Sorted(x, FreeOf(x), i, c)
  BY <1>1 DEF Listed
<1>3. \A k \in 1..Len(c) : c[k] \in FreeOf(x) /\ c[k] \in Blocks(x)
  BY <1>2 DEF Sorted, In, FreeOf
<1>4. Chain(x, i) = c
  BY <1>1, <1>2, <1>3, BlocksFinite, ChainIs
<1> QED
  BY <1>2, <1>3, <1>4

(* Block r was looked for among the free blocks of class i.                *)
Fitting(x, i, size, a) ==
  a \in FreeOf(x) /\ getxfi(x.blk[a].size) = i /\ x.blk[a].size >= size

(* The walk along one chain finds a fitting block if there is one.          *)
LEMMA FirstFitIs ==
  ASSUME NEW x, Good(x), NEW i \in 0..XFIMAX, NEW size,
         NEW r, r = FirstFit(x, i, size)
  PROVE  /\ r # NULL => Fitting(x, i, size, r)
         /\ r = NULL => \A a : ~ Fitting(x, i, size, a)
<1>1. PICK c : /\ Chain(x, i) = c /\ Runs(x, i, c) /\ Sorted(x, FreeOf(x), i, c)
               /\ \A k \in 1..Len(c) : c[k] \in FreeOf(x)
  BY ChainHolds
<1>2. c \in Seq(Nat) /\ Len(c) \in Nat /\ DOMAIN c = 1..Len(c)
  BY <1>1 DEF Runs
<1>3. PICK fits : fits = {k \in DOMAIN c : x.blk[c[k]].size >= size}
  OBVIOUS
<1>4. r = IF fits = {} THEN NULL ELSE c[Min(fits)]
  BY <1>1, <1>3 DEF FirstFit
<1>5. CASE fits = {}
  <2>1. r = NULL
    BY <1>4, <1>5
  <2>2. ASSUME NEW a, Fitting(x, i, size, a) PROVE FALSE
    <3>1. PICK k \in 1..Len(c) : c[k] = a
      BY <1>1, <2>2 DEF Fitting, Sorted, In
    <3> QED
      BY <1>2, <1>3, <1>5, <2>2, <3>1 DEF Fitting
  <2> QED
    BY <2>1, <2>2
<1>6. CASE fits # {}
  <2>1. fits \in SUBSET Nat
    BY <1>2, <1>3
  <2>2. PICK k \in fits : k = Min(fits)
    BY <1>6, <2>1, LeastExists
  <2>3. r = c[k] /\ k \in 1..Len(c) /\ x.blk[c[k]].size >= size
    BY <1>2, <1>3, <1>4, <1>6, <2>2
  <2>4. r \in Nat /\ In(c, r)
    BY <1>2, <2>3 DEF In
  <2>5. Fitting(x, i, size, r)
    BY <1>1, <2>3, <2>4 DEF Fitting, Sorted
  <2> QED
    BY <2>4, <2>5 DEF NULL
<1> QED
  BY <1>5, <1>6

(* The chains that are tried, and that none above the first is left out.   *)
Covers(t, lo) ==
  /\ DOMAIN t \subseteq Nat
  /\ \A k \in DOMAIN t : t[k] \in lo..XFIMAX
  /\ \A i \in lo..(XFIMAX - 2) : \E k \in DOMAIN t : t[k] = i

(* A large request's chains to try: every chain from its own upward.        *)
LEMMA TriesLarge ==
  ASSUME NEW f \in FIXED..(XFIMAX - 2)
  PROVE  Covers(ChainsToTry(f), f)
<1>1. FIXED \in Nat /\ XFIMAX \in Nat /\ f \in Nat /\ f <= XFIMAX - 2 /\ FIXED <= f
  BY Constants DEF XFIMAX
<1>2. PICK n \in Nat : n = XFIMAX - 2 - f
  BY <1>1
<1>3. PICK s : s = [i \in 1..n |-> f + i]
  OBVIOUS
<1>4. PICK t : t = <<f, XFIMAX>> \o s
  OBVIOUS
<1>5. ChainsToTry(f) = t
  <2>1. f # XFIMAX /\ f >= FIXED
    BY <1>1
  <2> QED
    BY <1>2, <1>3, <1>4, <2>1 DEF ChainsToTry
<1>6. s \in Seq(Int) /\ Len(s) = n /\ \A i \in 1..n : s[i] = f + i
  <2>1. s \in [1..n -> Int]
    BY <1>1, <1>3
  <2> QED
    BY <1>3, <2>1
<1>7. Len(t) = 2 + n /\ t \in Seq(Int)
  BY <1>1, <1>4, <1>6
<1>8. t[1] = f /\ t[2] = XFIMAX /\ \A i \in 1..n : t[2 + i] = f + i
  BY <1>1, <1>4, <1>6
<1>9. DOMAIN t = 1..(2 + n)
  BY <1>7
<1>10. DOMAIN t \subseteq Nat
  BY <1>9
<1>11. \A k \in DOMAIN t : t[k] \in f..XFIMAX
  <2> SUFFICES ASSUME NEW k \in 1..(2 + n) PROVE t[k] \in f..XFIMAX
    BY <1>9
  <2>1. CASE k > 2
    <3>1. PICK i \in 1..n : k = 2 + i
      <4>1. k - 2 \in 1..n /\ k = 2 + (k - 2)
        BY <2>1
      <4> QED
        BY <4>1
    <3> QED
      BY <1>1, <1>2, <1>8, <3>1
  <2>2. CASE k = 1 \/ k = 2
    BY <1>1, <1>8, <2>2
  <2> QED
    BY <2>1, <2>2
<1>12. \A i \in f..(XFIMAX - 2) : \E k \in DOMAIN t : t[k] = i
  <2> SUFFICES ASSUME NEW i \in f..(XFIMAX - 2) PROVE \E k \in DOMAIN t : t[k] = i
    OBVIOUS
  <2>1. CASE i = f
    BY <1>8, <1>9, <2>1
  <2>2. CASE i # f
    <3>1. PICK j \in 1..n : i = f + j
      <4>1. i - f \in 1..n /\ i = f + (i - f)
        BY <1>1, <1>2, <2>2
      <4> QED
        BY <4>1
    <3>2. t[2 + j] = i /\ 2 + j \in 1..(2 + n)
      BY <1>8, <3>1
    <3> QED
      BY <1>9, <3>2
  <2> QED
    BY <2>1, <2>2
<1> QED
  BY <1>5, <1>10, <1>11, <1>12 DEF Covers

(* A small request's chains to try reach from FIXED to the last chain.      *)
LEMMA TriesSmall ==
  ASSUME NEW f \in 0..(FIXED - 1)
  PROVE  Covers(ChainsToTry(f), FIXED)
<1>1. FIXED \in Nat /\ XFIMAX \in Nat /\ f \in Nat /\ f < FIXED /\ FIXED <= XFIMAX - 1
  BY Constants DEF XFIMAX
<1>2. PICK n \in Nat : n = XFIMAX - 1 - FIXED
  BY <1>1
<1>3. PICK s : s = [i \in 1..n |-> FIXED - 1 + i]
  OBVIOUS
<1>4. PICK t : t = <<XFIMAX>> \o s
  OBVIOUS
<1>5. ChainsToTry(f) = t
  <2>1. f # XFIMAX /\ ~ (f >= FIXED)
    BY <1>1
  <2> QED
    BY <1>2, <1>3, <1>4, <2>1 DEF ChainsToTry
<1>6. s \in Seq(Int) /\ Len(s) = n /\ \A i \in 1..n : s[i] = FIXED - 1 + i
  <2>1. s \in [1..n -> Int]
    BY <1>1, <1>3
  <2> QED
    BY <1>3, <2>1
<1>7. Len(t) = 1 + n /\ t \in Seq(Int)
  BY <1>1, <1>4, <1>6
<1>8. t[1] = XFIMAX /\ \A i \in 1..n : t[1 + i] = FIXED - 1 + i
  BY <1>1, <1>4, <1>6
<1>9. DOMAIN t = 1..(1 + n)
  BY <1>7
<1>10. DOMAIN t \subseteq Nat
  BY <1>9
<1>11. \A k \in DOMAIN t : t[k] \in FIXED..XFIMAX
  <2> SUFFICES ASSUME NEW k \in 1..(1 + n) PROVE t[k] \in FIXED..XFIMAX
    BY <1>9
  <2>1. CASE k > 1
    <3>1. PICK i \in 1..n : k = 1 + i
      <4>1. k - 1 \in 1..n /\ k = 1 + (k - 1)
        BY <2>1
      <4> QED
        BY <4>1
    <3> QED
      BY <1>1, <1>2, <1>8, <3>1
  <2>2. CASE k = 1
    BY <1>1, <1>8, <2>2
  <2> QED
    BY <2>1, <2>2
<1>12. \A i \in FIXED..(XFIMAX - 2) : \E k \in DOMAIN t : t[k] = i
  <2> SUFFICES ASSUME NEW i \in FIXED..(XFIMAX - 2) PROVE \E k \in DOMAIN t : t[k] = i
    OBVIOUS
  <2>1. PICK j \in 1..n : i = FIXED - 1 + j
    <3>1. i - FIXED + 1 \in 1..n /\ i = FIXED - 1 + (i - FIXED + 1)
      BY <1>1, <1>2
    <3> QED
      BY <3>1
  <2>2. t[1 + j] = i /\ 1 + j \in 1..(1 + n)
    BY <1>8, <2>1
  <2> QED
    BY <1>9, <2>2
<1> QED
  BY <1>5, <1>10, <1>11, <1>12 DEF Covers

(* The search through chains that cover the classes from lo on.            *)
LEMMA TriesFind ==
  ASSUME NEW x, Good(x), NEW size, NEW t, NEW lo \in Nat, Covers(t, lo),
         NEW hits, hits = {k \in DOMAIN t : FirstFit(x, t[k], size) # NULL},
         NEW r, r = IF hits = {} THEN NULL ELSE FirstFit(x, t[Min(hits)], size)
  PROVE  /\ r # NULL => \E i \in lo..XFIMAX : Fitting(x, i, size, r)
         /\ r = NULL => \A i \in lo..(XFIMAX - 2), a \in FreeOf(x) : ~ Fitting(x, i, size, a)
<1>1. XFIMAX \in Nat
  BY Constants DEF XFIMAX
<1>2. \A k \in DOMAIN t : t[k] \in 0..XFIMAX /\ t[k] \in lo..XFIMAX
  BY <1>1 DEF Covers
<1>3. CASE hits = {}
  <2>1. r = NULL
    BY <1>3
  <2>2. ASSUME NEW i \in lo..(XFIMAX - 2), NEW a \in FreeOf(x), Fitting(x, i, size, a)
        PROVE  FALSE
    <3>1. PICK k \in DOMAIN t : t[k] = i
      BY DEF Covers
    <3>2. FirstFit(x, i, size) = NULL
      BY <1>3, <3>1
    <3>3. i \in 0..XFIMAX
      BY <1>2, <3>1
    <3> QED
      BY ONLY <2>2, <3>2, <3>3, Good(x), FirstFitIs
  <2> QED
    BY <2>1, <2>2
<1>4. CASE hits # {}
  <2>1. hits \in SUBSET Nat
    BY DEF Covers
  <2>2. PICK k \in hits : k = Min(hits)
    BY <1>4, <2>1, LeastExists
  <2>3. r = FirstFit(x, t[k], size) /\ r # NULL /\ t[k] \in 0..XFIMAX /\ t[k] \in lo..XFIMAX
    BY <1>2, <1>4, <2>2
  <2>4. Fitting(x, t[k], size, r)
    BY ONLY <2>3, Good(x), FirstFitIs
  <2> QED
    BY <2>3, <2>4
<1> QED
  BY <1>3, <1>4

(* A free block that a request of `size' bytes may be served from.         *)
SuitsFor(x, size, b) ==
  /\ x.blk[b].size >= size
  /\ \/ getxfi(size) >= FIXED
     \/ getxfi(x.blk[b].size) \in {getxfi(size)} \union FIXED..XFIMAX

(* The search for `size' bytes ends with r.                                *)
Found(x, size, r) ==
  /\ r # NULL => r \in FreeOf(x) /\ SuitsFor(x, size, r)
  /\ r = NULL => ~ \E b \in FreeOf(x) : SuitsFor(x, size, b)

(* The search for a large request misses no block that fits.                *)
LEMMA FoundLarge ==
  ASSUME NEW x, Good(x), NEW size \in Sizes, getxfi(size) >= FIXED,
         NEW r, r = Candidate(x, size)
  PROVE  Found(x, size, r)
<1>1. PICK f : f = getxfi(size)
  OBVIOUS
<1>2. f \in FIXED..(XFIMAX - 2) /\ f \in Nat /\ XFIMAX \in Nat /\ ~ (f < FIXED)
  BY <1>1, Class, Constants DEF XFIMAX
<1>3. PICK t : t = ChainsToTry(f)
  OBVIOUS
<1>4. Covers(t, f)
  BY <1>2, <1>3, TriesLarge
<1>5. PICK hits : hits = {k \in DOMAIN t : FirstFit(x, t[k], size) # NULL}
  OBVIOUS
<1>6. r = IF hits = {} THEN NULL ELSE FirstFit(x, t[Min(hits)], size)
  BY <1>1, <1>2, <1>3, <1>5 DEF Candidate
<1>7. /\ r # NULL => \E i \in f..XFIMAX : Fitting(x, i, size, r)
      /\ r = NULL => \A i \in f..(XFIMAX - 2), a \in FreeOf(x) : ~ Fitting(x, i, size, a)
  BY ONLY <1>2, <1>4, <1>5, <1>6, Good(x), TriesFind
<1>8. r # NULL => r \in FreeOf(x) /\ SuitsFor(x, size, r)
  BY <1>7 DEF Fitting, SuitsFor
<1>9. ASSUME r = NULL, NEW b \in FreeOf(x), SuitsFor(x, size, b) PROVE FALSE
  <2>1. PICK s : s = x.blk[b].size
    OBVIOUS
  <2>2. s \in Sizes
    <3>1. Typed(x) /\ Tiled(x) /\ b \in Blocks(x)
      BY DEF Good, Mid, FreeOf
    <3> QED
      BY <2>1, <3>1, Inside
  <2>3. size <= s
    BY <1>9, <2>1, <2>2 DEF SuitsFor, Sizes
  <2>4. getxfi(s) \in 0..(XFIMAX - 2) /\ f <= getxfi(s)
    BY <1>1, <2>2, <2>3, Class, ClassMonotone
  <2>5. getxfi(s) \in f..(XFIMAX - 2)
    BY <1>2, <2>4
  <2>6. Fitting(x, getxfi(s), size, b)
    BY <1>9, <2>1 DEF Fitting, SuitsFor
  <2> QED
    BY <1>7, <1>9, <2>5, <2>6
<1> QED
  BY <1>8, <1>9 DEF Found

(* The search for a small request misses no block that fits.                *)
LEMMA FoundSmall ==
  ASSUME NEW x, Good(x), NEW size \in Sizes, NEW q \in Nat, size = q * ALIGN,
         getxfi(size) < FIXED, NEW r, r = Candidate(x, size)
  PROVE  Found(x, size, r)
<1>1. PICK f : f = getxfi(size)
  OBVIOUS
<1>2. /\ f \in 0..(FIXED - 1) /\ f \in Nat /\ XFIMAX \in Nat /\ FIXED \in Nat
      /\ f < FIXED /\ f \in 0..XFIMAX /\ ~ (f >= FIXED)
  BY <1>1, Class, Constants DEF XFIMAX
<1>3. PICK c : /\ Runs(x, f, c) /\ Sorted(x, FreeOf(x), f, c)
               /\ \A k \in 1..Len(c) : c[k] \in FreeOf(x)
  BY <1>2, ChainHolds
<1>4. c \in Seq(Nat) /\ Len(c) \in Nat /\ x.xfree[f] = At(c, 1)
  BY <1>3 DEF Runs
<1>5. CASE x.xfree[f] # NULL
  <2>1. r = x.xfree[f]
    BY <1>1, <1>2, <1>5 DEF Candidate
  <2>2. 1 \in 1..Len(c) /\ r = c[1]
    BY <1>4, <1>5, <2>1 DEF At
  <2>3. In(c, r) /\ r \in Nat
    BY <1>4, <2>2 DEF In
  <2>4. r \in FreeOf(x) /\ getxfi(x.blk[r].size) = f
    BY <1>3, <2>3 DEF Sorted
  <2>5. PICK s : s = x.blk[r].size
    OBVIOUS
  <2>6. s \in Sizes
    <3>1. Typed(x) /\ Tiled(x) /\ r \in Blocks(x)
      BY <2>4 DEF Good, Mid, FreeOf
    <3> QED
      BY <2>5, <3>1, Inside
  <2>7. size <= s
    BY <1>1, <1>2, <2>4, <2>5, <2>6, SmallFits
  <2>8. s >= size
    BY <2>6, <2>7 DEF Sizes
  <2> QED
    BY <1>1, <2>3, <2>4, <2>5, <2>8 DEF Found, SuitsFor, NULL
<1>6. CASE x.xfree[f] = NULL
  <2>1. Len(c) = 0
    <3>1. 1 \in 1..Len(c) => At(c, 1) \in Nat
      BY <1>4 DEF At
    <3> QED
      BY <1>4, <1>6, <3>1 DEF NULL
  <2>2. PICK t : t = ChainsToTry(f)
    OBVIOUS
  <2>3. Covers(t, FIXED)
    BY <1>2, <2>2, TriesSmall
  <2>4. PICK hits : hits = {k \in DOMAIN t : FirstFit(x, t[k], size) # NULL}
    OBVIOUS
  <2>5. r = IF hits = {} THEN NULL ELSE FirstFit(x, t[Min(hits)], size)
    BY <1>1, <1>6, <2>2, <2>4 DEF Candidate
  <2>6. /\ r # NULL => \E i \in FIXED..XFIMAX : Fitting(x, i, size, r)
        /\ r = NULL => \A i \in FIXED..(XFIMAX - 2), a \in FreeOf(x) : ~ Fitting(x, i, size, a)
    BY ONLY <1>2, <2>3, <2>4, <2>5, Good(x), TriesFind
  <2>7. r # NULL => r \in FreeOf(x) /\ SuitsFor(x, size, r)
    BY <2>6 DEF Fitting, SuitsFor
  <2>8. ASSUME r = NULL, NEW b \in FreeOf(x), SuitsFor(x, size, b) PROVE FALSE
    <3>1. PICK s : s = x.blk[b].size
      OBVIOUS
    <3>2. s \in Sizes
      <4>1. Typed(x) /\ Tiled(x) /\ b \in Blocks(x)
        BY DEF Good, Mid, FreeOf
      <4> QED
        BY <3>1, <4>1, Inside
    <3>3. getxfi(s) \in 0..(XFIMAX - 2)
      BY <3>2, Class
    <3>4. getxfi(s) # f
      BY <1>3, <2>1, <3>1 DEF Sorted, In
    <3>5. getxfi(s) \in FIXED..(XFIMAX - 2)
      BY <1>1, <1>2, <2>8, <3>1, <3>3, <3>4 DEF SuitsFor
    <3>6. Fitting(x, getxfi(s), size, b)
      BY <2>8, <3>1 DEF Fitting, SuitsFor
    <3> QED
      BY <2>6, <2>8, <3>5, <3>6
  <2> QED
    BY <2>7, <2>8 DEF Found
<1> QED
  BY <1>5, <1>6

(* What is found for a request, rounded up, is large enough for it; and    *)
(* nothing is found only if no free block will do.                         *)
LEMMA CandidateIs ==
  ASSUME NEW x, Good(x), NEW n \in Requests
  PROVE  Found(x, RoundUp(n), Candidate(x, RoundUp(n)))
<1>1. RoundUp(n) \in Sizes /\ \E q \in Nat : RoundUp(n) = q * ALIGN
  BY RoundUpIs
<1>2. PICK size : size = RoundUp(n)
  OBVIOUS
<1>3. PICK q \in Nat : size = q * ALIGN
  BY <1>1, <1>2
<1>4. PICK r : r = Candidate(x, size)
  OBVIOUS
<1>5. size \in Sizes /\ (getxfi(size) >= FIXED \/ getxfi(size) < FIXED)
  BY <1>1, <1>2, Class, Constants DEF XFIMAX
<1>6. CASE getxfi(size) >= FIXED
  BY <1>2, <1>4, <1>5, <1>6, FoundLarge
<1>7. CASE getxfi(size) < FIXED
  <2>1. Found(x, size, r)
    BY ONLY Good(x), <1>3, <1>4, <1>5, <1>7, FoundSmall
  <2> QED
    BY <1>2, <1>4, <2>1
<1> QED
  BY <1>5, <1>6, <1>7

-----------------------------------------------------------------------------
(* The allocator as it is opened: one free block.                          *)

LEMMA WeighsNothing == ASSUME NEW x PROVE Weighs(x, {}, 0, 0)
<1>1. IsFiniteSet({}) /\ Cardinality({}) = 0
  BY FS_EmptySet
<1>2. PICK f : IsSum(x, SUBSET {}, f) /\ Total(x, {}) = f[{}]
  BY <1>1, SumDef
<1>3. {} \in SUBSET {}
  OBVIOUS
<1>4. f[{}] = 0
  BY <1>2, <1>3 DEF IsSum, SumStep
<1>5. Summed(x, {})
  BY <1>1, <1>2, <1>4 DEF Summed
<1> QED
  BY <1>1, <1>2, <1>4, <1>5 DEF Weighs

(* A zone just opened is good and nothing is in use.                        *)
LEMMA OpenedIs ==
  ASSUME NEW size \in Nat, NEW rest \in Sizes, size = rest + MBLKHDRSIZE,
         NEW x, x = Opened(size)
  PROVE  Good(x) /\ InUse(x) = {} /\ x.end = size
<1>1. /\ rest \in Nat /\ rest = size - MBLKHDRSIZE /\ MBLKHDRSIZE \in Nat /\ MBLKHDRSIZE > 0
      /\ rest >= MINALLOCSIZE /\ rest < 2^SIZE_BITS
  BY Constants DEF Sizes, MBLKHDRSIZE, MINALLOCSIZE
<1>2. PICK head : head = [prev_size |-> 0, free |-> TRUE, size |-> rest,
                          free_prev |-> NULL, free_next |-> NULL]
  OBVIOUS
<1>3. PICK stat : stat = [alloc |-> 0, avail |-> rest, nused |-> 0, nfree |-> 1]
  OBVIOUS
<1>4. PICK xfree : xfree = [i \in 0..XFIMAX |-> IF i = getxfi(rest) THEN 0 ELSE NULL]
  OBVIOUS
<1>5. PICK blk : blk = [a \in {0} |-> head]
  OBVIOUS
<1>6. x = [end |-> size, blk |-> blk, xfree |-> xfree, stat |-> stat]
  BY ONLY <1>1, <1>2, <1>3, <1>4, <1>5, x = Opened(size) DEF Opened
<1>7. /\ x.end = size /\ x.blk = blk /\ x.xfree = xfree /\ x.stat = stat /\ IsRecord(x)
  BY ONLY <1>6 DEF IsRecord
<1>8. /\ Blocks(x) = {0} /\ x.blk[0] = head
      /\ head \in Header /\ head.size = rest /\ head.free = TRUE /\ head.prev_size = 0
      /\ head.free_next = NULL /\ head.free_prev = NULL
  BY ONLY <1>1, <1>2, <1>5, <1>7 DEF Blocks, Header, NULL
<1>9. Typed(x)
  <2>1. stat \in Stat
    BY ONLY <1>1, <1>3 DEF Stat
  <2>2. xfree \in [0..XFIMAX -> Int]
    BY ONLY <1>4 DEF NULL
  <2>3. blk \in [{0} -> Header]
    BY ONLY <1>5, <1>8
  <2> QED
    BY ONLY <1>7, <1>8, <2>1, <2>2, <2>3, size \in Nat DEF Typed
<1>10. next_mblk(x, 0) = size
  <2>1. next_mblk(x, 0) = 0 + MBLKHDRSIZE + rest
    BY ONLY <1>8 DEF next_mblk
  <2> QED
    BY ONLY <1>1, <2>1, size \in Nat
<1>11. Tiled(x)
  BY ONLY <1>1, <1>7, <1>8, <1>10, size \in Nat DEF Tiled
<1>12. Known(x, {})
  BY ONLY <1>1, <1>8, <1>10, size \in Nat DEF Known
<1>13. Apart(x, {})
  BY ONLY <1>1, <1>8, <1>10, size \in Nat DEF Apart
<1>14. FreeOf(x) = {0} /\ InUse(x) = {}
  BY ONLY <1>8 DEF FreeOf, InUse, Blocks
<1>15. Listed(x, {0})
  <2> SUFFICES ASSUME NEW i \in 0..XFIMAX
               PROVE  \E c : Runs(x, i, c) /\ Sorted(x, {0}, i, c)
    BY <1>8 DEF Listed
  <2>1. CASE i = getxfi(rest)
    <3>1. PICK c : c = <<0>>
      OBVIOUS
    <3>2. c \in Seq(Nat) /\ Len(c) = 1 /\ c[1] = 0
      BY ONLY <3>1
    <3>3. OneToOne(c) /\ At(c, 1) = 0 /\ At(c, 2) = NULL /\ At(c, 0) = NULL
      BY ONLY <3>2 DEF OneToOne, At
    <3>4. xfree[i] = 0
      BY ONLY <1>4, <2>1, i \in 0..XFIMAX
    <3>5. LinkedAt(x, c, 1)
      BY ONLY <1>8, <3>2, <3>3 DEF LinkedAt
    <3>6. Runs(x, i, c)
      BY ONLY <1>7, <3>2, <3>3, <3>4, <3>5 DEF Runs
    <3>7. Sorted(x, {0}, i, c)
      BY ONLY <1>8, <2>1, <3>2 DEF Sorted, In
    <3> QED
      BY ONLY <3>6, <3>7
  <2>2. CASE i # getxfi(rest)
    <3>1. PICK c : c = <<>>
      OBVIOUS
    <3>2. c \in Seq(Nat) /\ Len(c) = 0
      BY ONLY <3>1
    <3>3. OneToOne(c) /\ At(c, 1) = NULL
      BY ONLY <3>2 DEF OneToOne, At
    <3>4. xfree[i] = NULL
      BY ONLY <1>4, <2>2, i \in 0..XFIMAX
    <3>5. Runs(x, i, c)
      BY ONLY <1>7, <3>2, <3>3, <3>4 DEF Runs
    <3>6. Sorted(x, {0}, i, c)
      BY ONLY <1>8, <2>2, <3>2 DEF Sorted, In
    <3> QED
      BY ONLY <3>5, <3>6
  <2> QED
    BY ONLY <2>1, <2>2
<1>16. NothingDue(x)
  <2>1. Weighs(x, InUse(x), 0, 0)
    BY <1>14, WeighsNothing
  <2>2. Weighs(x, FreeOf(x), 0 + rest, 0 + 1)
    <3>1. PICK S : S = {}
      OBVIOUS
    <3>2. PICK o : o = 0
      OBVIOUS
    <3>3. Weighs(x, S, o, o) /\ o \notin S /\ rest = x.blk[o].size
      BY <1>8, <3>1, <3>2, WeighsNothing
    <3>4. FreeOf(x) = S \union {o}
      BY <1>14, <3>1, <3>2
    <3>5. Weighs(x, FreeOf(x), o + rest, o + 1)
      BY ONLY <1>1, <3>3, <3>4, WeighsMore
    <3> QED
      BY <3>2, <3>5
  <2>3. Weighs(x, FreeOf(x), rest, 1)
    BY ONLY <1>1, <2>2
  <2>4. x.stat \in Stat
    BY <1>9 DEF Typed
  <2>5. PICK o, i : o = 0 /\ i = 1
    OBVIOUS
  <2>6. Weighs(x, InUse(x), o, o) /\ Weighs(x, FreeOf(x), rest, i)
    BY ONLY <2>1, <2>3, <2>5
  <2>7. /\ AllocDue(x) = x.stat.alloc - o /\ AvailDue(x) = x.stat.avail - rest
        /\ NusedDue(x) = x.stat.nused - o /\ NfreeDue(x) = x.stat.nfree - i
    BY ONLY <2>4, <2>6, DueIs
  <2> QED
    BY ONLY <1>1, <1>3, <1>7, <2>5, <2>7 DEF NothingDue
<1> QED
  BY <1>7, <1>9, <1>11, <1>12, <1>13, <1>14, <1>15, <1>16 DEF Good, Mid

(* The zones that the allocator is opened on have room for a block.        *)
LEMMA InitIs == ASSUME Init PROVE Good(xma) /\ InUse(xma) = {} /\ xma.end \in Nat
<1>1. /\ ALIGN \in Nat /\ ALIGN >= 2 /\ 2^SIZE_BITS \in Nat /\ ALIGN < 2^SIZE_BITS
      /\ MBLKHDRSIZE = ALIGN /\ FBLKMINSIZE = ALIGN + ALIGN
  BY Constants DEF MBLKHDRSIZE, MINALLOCSIZE, FBLKMINSIZE
<1>2. PICK size : /\ xma = Opened(size) /\ size \in Nat
                  /\ size >= ALIGN + ALIGN /\ size - ALIGN < 2^SIZE_BITS
  <2>1. ASSUME NEW n \in Internal, xma = Opened(Max2(AlignTo(n), FBLKMINSIZE))
        PROVE  \E size : /\ xma = Opened(size) /\ size \in Nat
                         /\ size >= ALIGN + ALIGN /\ size - ALIGN < 2^SIZE_BITS
    <3>1. n \in Nat /\ n <= 2^SIZE_BITS - ALIGN
      BY <1>1, XmaAssumption
    <3>2. AlignTo(n) \in Nat /\ AlignTo(n) < n + ALIGN
      BY <3>1, AlignToIs
    <3>3. PICK size : size = Max2(AlignTo(n), FBLKMINSIZE)
      OBVIOUS
    <3>4. (size = AlignTo(n) /\ size >= ALIGN + ALIGN) \/ size = ALIGN + ALIGN
      BY <1>1, <3>2, <3>3 DEF Max2
    <3>5. size \in Nat /\ size >= ALIGN + ALIGN /\ size - ALIGN < 2^SIZE_BITS
      BY <1>1, <3>1, <3>2, <3>4
    <3> QED
      BY <2>1, <3>3, <3>5
  <2>2. ASSUME NEW n \in External, xma = Opened(n)
        PROVE  \E size : /\ xma = Opened(size) /\ size \in Nat
                         /\ size >= ALIGN + ALIGN /\ size - ALIGN < 2^SIZE_BITS
    <3>1. n \in Nat /\ n <= 2^SIZE_BITS - ALIGN /\ n >= FBLKMINSIZE
      BY <1>1, XmaAssumption
    <3> QED
      BY <1>1, <2>2, <3>1
  <2> QED
    BY <2>1, <2>2 DEF Init
<1>3. PICK rest : rest = size - ALIGN
  OBVIOUS
<1>4. rest \in Sizes /\ size = rest + MBLKHDRSIZE
  BY <1>1, <1>2, <1>3 DEF Sizes
<1> QED
  BY <1>2, <1>4, OpenedIs

-----------------------------------------------------------------------------
(* The users, and the steps they see.                                      *)

(* The blocks in use are the users', and are large enough for them.        *)
Users(x, k) ==
  /\ Good(x) /\ k \in [InUse(x) -> Nat]
  /\ \A b \in InUse(x) : k[b] <= x.blk[b].size

IInv == Users(xma, asked)

(* What the users know when block b has n bytes, and not that of `old'.    *)
With(k, b, n, old) ==
  [a \in (DOMAIN k \ old) \union {b} |-> IF a = b THEN n ELSE k[a]]

Granted(x, k, n, c, y, l) ==
  Served(x, c, RoundUp(n), y) /\ l = With(k, c, n, {})

GivenBack(x, k, b, y, l) ==
  b \in InUse(x) /\ Released(x, b, y) /\ l = [a \in DOMAIN k \ {b} |-> k[a]]

Changed(x, k, b, n, y, l) ==
  b \in InUse(x) /\ Resized(x, b, RoundUp(n), y) /\ l = With(k, b, n, {})

Moved(x, k, b, n, c, w, y, l) ==
  /\ b \in InUse(x) /\ Served(x, c, RoundUp(n), w)
  /\ Released(w, b, y) /\ l = With(k, c, n, {b})

(* The sizes in use of a state in order.                                   *)
LEMMA UsedSizes ==
  ASSUME NEW x, Good(x)
  PROVE  \A b \in InUse(x) : b \in Nat /\ x.blk[b].size \in Nat
<1>1. Typed(x) /\ InUse(x) \subseteq Blocks(x)
  <2>1. Typed(x) /\ Tiled(x)
    BY DEF Good, Mid
  <2> QED
    BY <2>1, TilesSummed
<1> QED
  BY <1>1, Ahead

(* A granted request leaves every user within its block.                    *)
LEMMA UsersGranted ==
  ASSUME NEW x, NEW k, Users(x, k), NEW n \in Requests, NEW c, NEW y, NEW l,
         Granted(x, k, n, c, y, l)
  PROVE  Users(y, l)
<1>1. /\ Good(y) /\ InUse(y) = InUse(x) \union {c} /\ c \notin InUse(x)
      /\ y.blk[c].size >= RoundUp(n) /\ l = With(k, c, n, {})
      /\ \A a \in InUse(x) : y.blk[a].size = x.blk[a].size
  BY DEF Granted, Served
<1>2. n \in Nat /\ RoundUp(n) \in Nat /\ n <= RoundUp(n)
  BY RoundUpIs DEF Sizes
<1>3. /\ k \in [InUse(x) -> Nat] /\ \A b \in InUse(x) : k[b] <= x.blk[b].size
  BY DEF Users
<1>4. InUse(y) = (InUse(x) \ {}) \union {c}
  BY ONLY <1>1
<1>5. /\ l \in [InUse(y) -> Nat]
      /\ \A a \in InUse(y) : l[a] = IF a = c THEN n ELSE k[a]
  BY ONLY <1>1, <1>2, <1>3, <1>4 DEF With
<1>6. \A b \in InUse(y) : b \in Nat /\ y.blk[b].size \in Nat
  BY ONLY <1>1, UsedSizes
<1>7. ASSUME NEW b \in InUse(y) PROVE l[b] <= y.blk[b].size
  <2>1. CASE b = c
    <3>1. y.blk[c].size \in Nat
      BY <1>6, <2>1
    <3> QED
      BY ONLY <1>1, <1>2, <1>5, <2>1, <3>1, b \in InUse(y)
  <2>2. CASE b # c
    BY ONLY <1>1, <1>3, <1>5, <2>2, b \in InUse(y)
  <2> QED
    BY <2>1, <2>2
<1> QED
  BY <1>1, <1>5, <1>7 DEF Users

(* So does a block given back.                                              *)
LEMMA UsersGivenBack ==
  ASSUME NEW x, NEW k, Users(x, k), NEW b, NEW y, NEW l, GivenBack(x, k, b, y, l)
  PROVE  Users(y, l)
<1>1. /\ Good(y) /\ InUse(y) = InUse(x) \ {b} /\ l = [a \in DOMAIN k \ {b} |-> k[a]]
      /\ \A a \in InUse(y) : y.blk[a].size = x.blk[a].size
  BY DEF GivenBack, Released
<1>2. /\ k \in [InUse(x) -> Nat] /\ \A a \in InUse(x) : k[a] <= x.blk[a].size
  BY DEF Users
<1>3. l \in [InUse(y) -> Nat] /\ \A a \in InUse(y) : l[a] = k[a]
  BY ONLY <1>1, <1>2
<1>4. \A a \in InUse(y) : l[a] <= y.blk[a].size
  BY ONLY <1>1, <1>2, <1>3
<1> QED
  BY <1>1, <1>3, <1>4 DEF Users

(* So does a block resized in place.                                        *)
LEMMA UsersChanged ==
  ASSUME NEW x, NEW k, Users(x, k), NEW n \in Requests, NEW b, NEW y, NEW l,
         Changed(x, k, b, n, y, l)
  PROVE  Users(y, l)
<1>1. /\ Good(y) /\ InUse(y) = InUse(x) /\ b \in InUse(x)
      /\ y.blk[b].size >= RoundUp(n) /\ l = With(k, b, n, {})
      /\ \A a \in InUse(x) : a # b => y.blk[a].size = x.blk[a].size
  BY DEF Changed, Resized
<1>2. n \in Nat /\ RoundUp(n) \in Nat /\ n <= RoundUp(n)
  BY RoundUpIs DEF Sizes
<1>3. /\ k \in [InUse(x) -> Nat] /\ \A a \in InUse(x) : k[a] <= x.blk[a].size
  BY DEF Users
<1>4. InUse(y) = (InUse(x) \ {}) \union {b}
  BY ONLY <1>1
<1>5. /\ l \in [InUse(y) -> Nat]
      /\ \A a \in InUse(y) : l[a] = IF a = b THEN n ELSE k[a]
  BY ONLY <1>1, <1>2, <1>3, <1>4 DEF With
<1>6. y.blk[b].size \in Nat
  BY ONLY <1>1, UsedSizes
<1>7. ASSUME NEW a \in InUse(y) PROVE l[a] <= y.blk[a].size
  <2>1. CASE a = b
    BY ONLY <1>1, <1>2, <1>5, <1>6, <2>1, a \in InUse(y)
  <2>2. CASE a # b
    BY ONLY <1>1, <1>3, <1>5, <2>2, a \in InUse(y)
  <2> QED
    BY <2>1, <2>2
<1> QED
  BY <1>1, <1>5, <1>7 DEF Users

(* So does a block moved.                                                   *)
LEMMA UsersMoved ==
  ASSUME NEW x, NEW k, Users(x, k), NEW n \in Requests, NEW b, NEW c, NEW w, NEW y, NEW l,
         Moved(x, k, b, n, c, w, y, l)
  PROVE  Users(y, l)
<1>1. /\ b \in InUse(x) /\ InUse(w) = InUse(x) \union {c} /\ c \notin InUse(x)
      /\ w.blk[c].size >= RoundUp(n) /\ l = With(k, c, n, {b})
      /\ \A a \in InUse(x) : w.blk[a].size = x.blk[a].size
      /\ Good(y) /\ InUse(y) = InUse(w) \ {b}
      /\ \A a \in InUse(y) : y.blk[a].size = w.blk[a].size
  BY DEF Moved, Served, Released
<1>2. n \in Nat /\ RoundUp(n) \in Nat /\ n <= RoundUp(n)
  BY RoundUpIs DEF Sizes
<1>3. /\ k \in [InUse(x) -> Nat] /\ \A a \in InUse(x) : k[a] <= x.blk[a].size
  BY DEF Users
<1>4. InUse(y) = (InUse(x) \ {b}) \union {c}
  BY ONLY <1>1
<1>5. /\ l \in [InUse(y) -> Nat]
      /\ \A a \in InUse(y) : l[a] = IF a = c THEN n ELSE k[a]
  BY ONLY <1>1, <1>2, <1>3, <1>4 DEF With
<1>6. y.blk[c].size \in Nat /\ c \in InUse(y)
  BY ONLY <1>1, <1>4, UsedSizes
<1>7. ASSUME NEW a \in InUse(y) PROVE l[a] <= y.blk[a].size
  <2>1. CASE a = c
    <3>1. y.blk[c].size = w.blk[c].size
      BY ONLY <1>1, <1>6
    <3>2. y.blk[c].size >= RoundUp(n)
      BY ONLY <1>1, <3>1
    <3>3. l[c] = n
      BY ONLY <1>5, <1>6
    <3> QED
      BY ONLY <1>2, <1>6, <2>1, <3>2, <3>3
  <2>2. CASE a # c
    BY ONLY <1>1, <1>3, <1>4, <1>5, <2>2, a \in InUse(y)
  <2> QED
    BY <2>1, <2>2
<1> QED
  BY <1>1, <1>5, <1>7 DEF Users

(* What is found can be used.                                              *)
LEMMA FoundServes ==
  ASSUME NEW x, Good(x), NEW n \in Requests, NEW c, c = Candidate(x, RoundUp(n)), c # NULL
  PROVE  Served(x, c, RoundUp(n), alloc_from_freelist(x, c, RoundUp(n)))
<1>1. PICK size : size = RoundUp(n)
  OBVIOUS
<1>2. size \in Sizes
  BY <1>1, RoundUpIs
<1>3. Found(x, size, c)
  BY <1>1, CandidateIs
<1>4. c \in FreeOf(x) /\ x.blk[c].size >= size
  BY <1>3 DEF Found, SuitsFor
<1>5. x.blk[c].size \in Nat
  BY <1>4, Ahead DEF Good, Mid, FreeOf
<1>6. size <= x.blk[c].size
  BY <1>2, <1>4, <1>5 DEF Sizes
<1> QED
  BY <1>1, <1>2, <1>4, <1>6, AllocDoes

(* The steps that users see, in terms of the whole operations.             *)
Outcome(x, k, y, l) ==
  \/ \E n \in Requests, c \in Nat : Granted(x, k, n, c, y, l)
  \/ \E b \in InUse(x) : GivenBack(x, k, b, y, l)
  \/ \E b \in InUse(x), n \in Requests : Changed(x, k, b, n, y, l)
  \/ \E b \in InUse(x), n \in Requests, c \in Nat : \E w : Moved(x, k, b, n, c, w, y, l)
  \/ y = x /\ l = k

(* qse_xma_alloc leads to one of the outcomes.                              *)
LEMMA AllocOutcome ==
  ASSUME IInv, NEW n \in Requests, qse_xma_alloc(n)
  PROVE  Outcome(xma, asked, xma', asked')
<1>1. PICK c : c = Candidate(xma, RoundUp(n))
  OBVIOUS
<1>2. /\ c # NULL /\ xma' = alloc_from_freelist(xma, c, RoundUp(n))
      /\ asked' = With(asked, c, n, {})
  BY <1>1 DEF qse_xma_alloc, Told, With
<1>3. Good(xma)
  BY DEF IInv, Users
<1>4. Served(xma, c, RoundUp(n), xma')
  BY <1>1, <1>2, <1>3, FoundServes
<1>5. c \in Nat
  BY <1>4, UsedSizes DEF Served
<1>6. Granted(xma, asked, n, c, xma', asked')
  BY <1>2, <1>4 DEF Granted
<1> QED
  BY <1>5, <1>6 DEF Outcome

(* qse_xma_free leads to one of the outcomes.                               *)
LEMMA FreeOutcome ==
  ASSUME IInv, NEW b \in InUse(xma), qse_xma_free(b)
  PROVE  Outcome(xma, asked, xma', asked')
<1>1. Good(xma)
  BY DEF IInv, Users
<1>2. xma' = Freed(xma, b) /\ asked' = [a \in DOMAIN asked \ {b} |-> asked[a]]
  BY DEF qse_xma_free
<1>3. Released(xma, b, xma')
  BY <1>1, <1>2, FreedDoes
<1>4. GivenBack(xma, asked, b, xma', asked')
  BY <1>2, <1>3 DEF GivenBack
<1> QED
  BY <1>4 DEF Outcome

(* qse_xma_realloc in place leads to one of the outcomes.                   *)
LEMMA MergeOutcome ==
  ASSUME IInv, NEW b \in InUse(xma), NEW n \in Requests, _realloc_merge(b, n)
  PROVE  Outcome(xma, asked, xma', asked')
<1>1. Good(xma)
  BY DEF IInv, Users
<1>2. PICK size : size = RoundUp(n)
  OBVIOUS
<1>3. size \in Sizes /\ size \in Nat
  BY <1>2, RoundUpIs DEF Sizes
<1>4. xma.blk[b].size \in Nat
  BY <1>1, UsedSizes
<1>5. asked' = With(asked, b, n, {})
  BY DEF _realloc_merge, Told, With
<1>6. \/ CanGrow(xma, b, size) /\ xma' = Grown(xma, b, size)
      \/ xma.blk[b].size - size >= FBLKMINSIZE /\ xma' = Shrunk(xma, b, size)
      \/ size <= xma.blk[b].size /\ xma' = xma
  BY <1>2 DEF _realloc_merge
<1>7. Resized(xma, b, size, xma')
  <2>1. CASE CanGrow(xma, b, size) /\ xma' = Grown(xma, b, size)
    BY <1>1, <1>3, <2>1, GrownDoes
  <2>2. CASE xma.blk[b].size - size >= FBLKMINSIZE /\ xma' = Shrunk(xma, b, size)
    BY <1>1, <1>3, <2>2, ShrunkDoes
  <2>3. CASE size <= xma.blk[b].size /\ xma' = xma
    BY <1>1, <1>3, <1>4, <2>3 DEF Resized
  <2> QED
    BY <1>6, <2>1, <2>2, <2>3
<1>8. Changed(xma, asked, b, n, xma', asked')
  BY <1>2, <1>5, <1>7 DEF Changed
<1> QED
  BY <1>8 DEF Outcome

(* qse_xma_realloc by moving leads to one of the outcomes.                  *)
LEMMA MoveOutcome ==
  ASSUME IInv, NEW b \in InUse(xma), NEW n \in Requests, Move(b, n)
  PROVE  Outcome(xma, asked, xma', asked')
<1>1. PICK c, w : c = Candidate(xma, RoundUp(n)) /\ w = alloc_from_freelist(xma, c, RoundUp(n))
  OBVIOUS
<1>2. /\ c # NULL /\ xma' = Freed(w, b) /\ asked' = With(asked, c, n, {b})
  BY <1>1 DEF Move, Told, With
<1>3. Good(xma)
  BY DEF IInv, Users
<1>4. Served(xma, c, RoundUp(n), w)
  BY <1>1, <1>2, <1>3, FoundServes
<1>5. Good(w) /\ b \in InUse(w) /\ c \in Nat
  BY <1>4, UsedSizes DEF Served
<1>6. Released(w, b, xma')
  BY <1>2, <1>5, FreedDoes
<1>7. Moved(xma, asked, b, n, c, w, xma', asked')
  BY <1>2, <1>4, <1>6 DEF Moved
<1> QED
  BY <1>5, <1>7 DEF Outcome

(* Every step leads to one of the outcomes.                                 *)
LEMMA NextOutcome ==
  ASSUME IInv, [Next]_vars PROVE Outcome(xma, asked, xma', asked')
<1>1. ASSUME UNCHANGED vars PROVE Outcome(xma, asked, xma', asked')
  BY <1>1 DEF vars, Outcome
<1>2. ASSUME NEW n \in Requests, qse_xma_alloc(n) \/ Refuse(n)
      PROVE  Outcome(xma, asked, xma', asked')
  BY <1>1, <1>2, AllocOutcome DEF Refuse
<1>3. ASSUME NEW b \in InUse(xma), qse_xma_free(b)
      PROVE  Outcome(xma, asked, xma', asked')
  BY <1>3, FreeOutcome
<1>4. ASSUME NEW b \in InUse(xma), NEW n \in Requests, qse_xma_realloc(b, n)
      PROVE  Outcome(xma, asked, xma', asked')
  <2>1. CASE _realloc_merge(b, n)
    BY <2>1, MergeOutcome
  <2>2. CASE Move(b, n)
    BY <2>2, MoveOutcome
  <2>3. CASE RefuseToMove(b, n)
    BY <1>1, <2>3 DEF RefuseToMove
  <2> QED
    BY <1>4, <2>1, <2>2, <2>3 DEF qse_xma_realloc
<1> QED
  BY <1>1, <1>2, <1>3, <1>4 DEF Next

(* Every outcome keeps what the invariant says of zone and users.           *)
LEMMA OutcomeUsers ==
  ASSUME NEW x, NEW k, Users(x, k), NEW y, NEW l, Outcome(x, k, y, l)
  PROVE  Users(y, l)
<1>1. CASE \E n \in Requests, c \in Nat : Granted(x, k, n, c, y, l)
  BY <1>1, UsersGranted
<1>2. CASE \E b \in InUse(x) : GivenBack(x, k, b, y, l)
  BY <1>2, UsersGivenBack
<1>3. CASE \E b \in InUse(x), n \in Requests : Changed(x, k, b, n, y, l)
  BY <1>3, UsersChanged
<1>4. CASE \E b \in InUse(x), n \in Requests, c \in Nat : \E w : Moved(x, k, b, n, c, w, y, l)
  BY <1>4, UsersMoved
<1>5. CASE y = x /\ l = k
  BY <1>5
<1> QED
  BY <1>1, <1>2, <1>3, <1>4, <1>5 DEF Outcome

(* The inductive invariant: the allocator is in order, and what is in use  *)
(* is what the users have.                                                 *)
LEMMA Invariant == Spec => []IInv
<1>1. Init => IInv
  <2> SUFFICES ASSUME Init PROVE IInv
    OBVIOUS
  <2>1. Good(xma) /\ InUse(xma) = {}
    BY InitIs
  <2>2. asked = [b \in {} |-> 0]
    BY DEF Init
  <2> QED
    BY <2>1, <2>2 DEF IInv, Users
<1>2. IInv /\ [Next]_vars => IInv'
  <2> SUFFICES ASSUME IInv, [Next]_vars PROVE IInv'
    OBVIOUS
  <2>1. Outcome(xma, asked, xma', asked')
    BY NextOutcome
  <2>2. Users(xma, asked)
    BY DEF IInv
  <2>3. Users(xma', asked')
    BY ONLY <2>1, <2>2, OutcomeUsers
  <2> QED
    BY <2>3 DEF IInv
<1> QED
  BY <1>1, <1>2, PTL DEF Spec

-----------------------------------------------------------------------------
(* The properties.                                                         *)

LEMMA FreeBlocksAre == FreeBlocks = FreeOf(xma)
  BY DEF FreeBlocks, FreeOf, InUse, Blocks

(* The invariant has the blocks tile the zone, counters exact.              *)
LEMMA TilesWhenGood == ASSUME IInv PROVE BlocksTileTheZone
<1>1. /\ Typed(xma) /\ Tiled(xma) /\ Known(xma, {}) /\ Apart(xma, {}) /\ NothingDue(xma)
  BY DEF IInv, Users, Good, Mid
<1>2. 0 \in DOMAIN xma.blk /\ xma.blk[0].prev_size = 0
  BY <1>1 DEF Tiled, Known, Blocks
<1>3. DOMAIN asked = InUse(xma) /\ \A b \in DOMAIN asked : asked[b] <= xma.blk[b].size
  BY DEF IInv, Users
<1>4. ASSUME NEW b \in DOMAIN xma.blk
      PROVE  LET n == next_mblk(xma, b)
             IN  \/ n = xma.end
                 \/ /\ n \in DOMAIN xma.blk
                    /\ xma.blk[n].prev_size = xma.blk[b].size
                    /\ ~ (xma.blk[b].free /\ xma.blk[n].free)
  BY <1>1 DEF Tiled, Known, Apart, Blocks
<1>5. \A b \in DOMAIN xma.blk \ {0} : \E a \in DOMAIN xma.blk : next_mblk(xma, a) = b
  BY <1>1 DEF Tiled, Blocks
<1>6. xma.stat = [alloc |-> Total(xma, InUse(xma)), avail |-> Total(xma, FreeBlocks),
                  nused |-> Cardinality(InUse(xma)), nfree |-> Cardinality(FreeBlocks)]
  <2>1. PICK t, k, f, j : Weighs(xma, InUse(xma), t, k) /\ Weighs(xma, FreeOf(xma), f, j)
    BY <1>1, WeighsTiles
  <2>2. xma.stat \in Stat
    BY <1>1 DEF Typed
  <2>3. /\ AllocDue(xma) = xma.stat.alloc - t /\ AvailDue(xma) = xma.stat.avail - f
        /\ NusedDue(xma) = xma.stat.nused - k /\ NfreeDue(xma) = xma.stat.nfree - j
        /\ xma.stat.alloc \in Int /\ xma.stat.avail \in Int
        /\ xma.stat.nused \in Int /\ xma.stat.nfree \in Int
        /\ t \in Nat /\ k \in Nat /\ f \in Nat /\ j \in Nat
    BY ONLY <2>1, <2>2, DueIs
  <2>4. /\ xma.stat.alloc = t /\ xma.stat.avail = f
        /\ xma.stat.nused = k /\ xma.stat.nfree = j
    BY ONLY <1>1, <2>3 DEF NothingDue
  <2>5. /\ Total(xma, InUse(xma)) = t /\ Cardinality(InUse(xma)) = k
        /\ Total(xma, FreeOf(xma)) = f /\ Cardinality(FreeOf(xma)) = j
    BY ONLY <2>1 DEF Weighs
  <2>6. xma.stat = [alloc |-> t, avail |-> f, nused |-> k, nfree |-> j]
    BY ONLY <2>2, <2>4 DEF Stat
  <2> QED
    BY ONLY <2>5, <2>6, FreeBlocksAre
<1>7. xma.stat =
       [alloc |-> MapThenSumSet(LAMBDA b : xma.blk[b].size, InUse(xma)),
        avail |-> MapThenSumSet(LAMBDA b : xma.blk[b].size, FreeBlocks),
        nused |-> Cardinality(InUse(xma)),
        nfree |-> Cardinality(FreeBlocks)]
  BY ONLY <1>6, Zenon DEF Total
<1> QED
  BY ONLY <1>2, <1>3, <1>4, <1>5, <1>7, Zenon DEF BlocksTileTheZone

(* The invariant has the chains hold exactly the free blocks.               *)
LEMMA ChainsWhenGood == ASSUME IInv PROVE ChainsHoldTheFree
<1>1. Good(xma) /\ xma.xfree \in [0..XFIMAX -> Int]
  BY DEF IInv, Users, Good, Mid, Typed
<1> SUFFICES ASSUME NEW i \in 0..XFIMAX, NEW chain, chain = Chain(xma, i)
             PROVE  /\ ToSet(chain) = {b \in FreeBlocks : getxfi(xma.blk[b].size) = i}
                    /\ \A k \in DOMAIN chain :
                         /\ xma.blk[chain[k]].free_prev = IF k = 1 THEN NULL ELSE chain[k - 1]
                         /\ k = Len(chain) => xma.blk[chain[k]].free_next = NULL
                    /\ IsInjective(chain)
  BY <1>1 DEF ChainsHoldTheFree
<1>2. /\ Runs(xma, i, chain) /\ Sorted(xma, FreeOf(xma), i, chain)
  BY <1>1, ChainHolds
<1>3. chain \in Seq(Nat) /\ Len(chain) \in Nat /\ DOMAIN chain = 1..Len(chain)
  BY <1>2 DEF Runs
<1>4. ToSet(chain) = {b \in FreeBlocks : getxfi(xma.blk[b].size) = i}
  <2>1. \A b : b \in ToSet(chain) <=> In(chain, b)
    BY <1>3 DEF ToSet, In
  <2> QED
    BY ONLY <1>2, <2>1, FreeBlocksAre DEF Sorted
<1>5. ASSUME NEW k \in DOMAIN chain
      PROVE  /\ xma.blk[chain[k]].free_prev = IF k = 1 THEN NULL ELSE chain[k - 1]
             /\ k = Len(chain) => xma.blk[chain[k]].free_next = NULL
  <2>1. LinkedAt(xma, chain, k) /\ k \in 1..Len(chain)
    BY <1>2, <1>3 DEF Runs
  <2>2. At(chain, k - 1) = IF k = 1 THEN NULL ELSE chain[k - 1]
    BY <1>3, <2>1 DEF At
  <2>3. k = Len(chain) => At(chain, k + 1) = NULL
    BY <1>3, <2>1 DEF At
  <2> QED
    BY <2>1, <2>2, <2>3 DEF LinkedAt
<1>6. IsInjective(chain)
  BY <1>2, <1>3 DEF Runs, OneToOne, IsInjective
<1> QED
  BY <1>4, <1>5, <1>6

(* The invariant has the search find what fits.                             *)
LEMMA SearchWhenGood == ASSUME IInv PROVE SearchFindsWhatFits
<1>1. Good(xma)
  BY DEF IInv, Users
<1>2. ASSUME NEW n \in Requests
      PROVE  Candidate(xma, RoundUp(n)) = NULL
               <=> ~ \E b \in FreeBlocks : SuitsFor(xma, RoundUp(n), b)
  <2>1. Found(xma, RoundUp(n), Candidate(xma, RoundUp(n)))
    BY <1>1, CandidateIs
  <2> QED
    BY ONLY <2>1, FreeBlocksAre DEF Found
<1> QED
  BY ONLY <1>2 DEF SearchFindsWhatFits, SuitsFor

(* After any history of allocations, releases and changes of size, the     *)
(* blocks tile the zone, know their neighbours and are never free side by  *)
(* side; the counters agree with them.                                     *)
THEOREM TilesTheZone == Spec => []BlocksTileTheZone
<1>1. IInv => BlocksTileTheZone
  BY TilesWhenGood
<1> QED
  BY <1>1, Invariant, PTL

(* The chains hold the free blocks, each in that of its size.              *)
THEOREM ChainsHold == Spec => []ChainsHoldTheFree
<1>1. IInv => ChainsHoldTheFree
  BY ChainsWhenGood
<1> QED
  BY <1>1, Invariant, PTL

(* A large request is refused only if no free block is large enough, a     *)
(* small one only if its own chain is empty and no large block is free:    *)
(* qse_xma_alloc misses none, although it never looks at the last chain    *)
(* but one.  No block has the class of that chain.                         *)
THEOREM SearchComplete == Spec => []SearchFindsWhatFits
<1>1. IInv => SearchFindsWhatFits
  BY SearchWhenGood
<1> QED
  BY <1>1, Invariant, PTL

-----------------------------------------------------------------------------
(* The users' view, Allocator.tla.                                         *)

(* What is in use lies in the zone, and apart.                             *)
LEMMA RegionsApart ==
  ASSUME NEW x, Good(x), NEW h \in Nat, h = MBLKHDRSIZE,
         NEW b \in InUse(x), NEW n \in Nat, n <= x.blk[b].size
  PROVE  /\ b \in Nat /\ b + h \in 0..x.end /\ b + h + n <= x.end
         /\ \A c \in InUse(x), m \in Nat :
              c # b /\ m <= x.blk[c].size =>
                ((b + h)..(b + h + n - 1)) \intersect ((c + h)..(c + h + m - 1)) = {}
<1>1. Typed(x) /\ Tiled(x) /\ InUse(x) \subseteq Blocks(x)
  <2>1. Typed(x) /\ Tiled(x)
    BY DEF Good, Mid
  <2> QED
    BY <2>1, TilesSummed
<1>2. x.end \in Nat
  BY <1>1 DEF Typed
<1>3. PICK s \in Nat : s = x.blk[b].size
  BY <1>1, Ahead
<1>4. b \in Nat /\ next_mblk(x, b) = b + h + s /\ next_mblk(x, b) <= x.end
  BY <1>1, <1>3, Ahead, Inside
<1>5. n <= s
  BY <1>3
<1>6. b + h \in 0..x.end /\ b + h + n <= x.end
  BY ONLY <1>2, <1>4, <1>5, h \in Nat, n \in Nat, s \in Nat
<1>7. ASSUME NEW c \in InUse(x), NEW m \in Nat, c # b, m <= x.blk[c].size
      PROVE  ((b + h)..(b + h + n - 1)) \intersect ((c + h)..(c + h + m - 1)) = {}
  <2>1. PICK r \in Nat : r = x.blk[c].size
    BY <1>1, Ahead
  <2>2. c \in Nat /\ next_mblk(x, c) = c + h + r
    BY <1>1, <2>1, Ahead
  <2>3. m <= r
    BY <1>7, <2>1
  <2>4. b < c => b + h + s <= c
    BY ONLY <1>1, <1>4, b \in InUse(x), c \in InUse(x) DEF Tiled
  <2>5. c < b => c + h + r <= b
    BY ONLY <1>1, <2>2, b \in InUse(x), c \in InUse(x) DEF Tiled
  <2>6. b < c \/ c < b
    BY ONLY <1>4, <1>7, <2>2
  <2> QED
    BY ONLY <1>4, <1>5, <2>2, <2>3, <2>4, <2>5, <2>6, h \in Nat, n \in Nat, m \in Nat,
            s \in Nat, r \in Nat
<1> QED
  BY <1>4, <1>6, <1>7

(* The blocks in use by the addresses that the users are given.            *)
Live(k) == [a \in {b + MBLKHDRSIZE : b \in DOMAIN k} |-> k[a - MBLKHDRSIZE]]

Shifted(S, h) == {b + h : b \in S}

ShowsAll(k, S, h) ==
  /\ DOMAIN Live(k) = Shifted(S, h)
  /\ \A b \in S : Live(k)[b + h] = k[b] /\ b + h \in Shifted(S, h)
  /\ \A c \in Nat : c + h \in Shifted(S, h) <=> c \in S

(* The map to the abstract allocator: each block in use, header skipped.    *)
LEMMA LiveIs ==
  ASSUME NEW S, S \subseteq Nat, NEW k \in [S -> Nat], NEW h \in Nat, h = MBLKHDRSIZE
  PROVE  ShowsAll(k, S, h)
<1>1. Live(k) = [a \in Shifted(S, h) |-> k[a - h]]
  BY DEF Live, Shifted
<1>2. \A b \in S : b \in Nat /\ (b + h) - h = b /\ b + h \in Shifted(S, h)
  BY DEF Shifted
<1>3. ASSUME NEW c \in Nat, c + h \in Shifted(S, h) PROVE c \in S
  <2>1. PICK b \in S : b + h = c + h
    BY <1>3 DEF Shifted
  <2> QED
    BY <2>1
<1> QED
  BY <1>1, <1>2, <1>3 DEF ShowsAll

(* One block more, or other, in the users' view.                           *)
ShowsWith(k, S, h, b, n, old, l) ==
  Live(l) = [a \in (Shifted(S, h) \ Shifted(old, h)) \union {b + h} |->
               IF a = b + h THEN n ELSE Live(k)[a]]

(* The map of the requests after a grant.                                   *)
LEMMA LiveWith ==
  ASSUME NEW S, S \subseteq Nat, NEW k \in [S -> Nat], NEW h \in Nat, h = MBLKHDRSIZE,
         NEW b \in Nat, NEW n \in Nat, NEW old, old \subseteq Nat,
         NEW l, l = With(k, b, n, old)
  PROVE  ShowsWith(k, S, h, b, n, old, l)
<1>1. PICK T : T = (S \ old) \union {b}
  OBVIOUS
<1>2. T \subseteq Nat /\ l \in [T -> Nat] /\ \A a \in T : l[a] = IF a = b THEN n ELSE k[a]
  BY <1>1 DEF With
<1>3. Shifted(T, h) = (Shifted(S, h) \ Shifted(old, h)) \union {b + h}
  <2>1. \A a : a \in Shifted(T, h) <=> \E c \in T : a = c + h
    BY DEF Shifted
  <2>2. \A a : a \in Shifted(S, h) <=> \E c \in S : a = c + h
    BY DEF Shifted
  <2>3. \A a : a \in Shifted(old, h) <=> \E c \in old : a = c + h
    BY DEF Shifted
  <2>4. \A c, d \in Nat : c + h = d + h => c = d
    OBVIOUS
  <2>5. ASSUME NEW a, a \in Shifted(T, h)
        PROVE  a \in (Shifted(S, h) \ Shifted(old, h)) \union {b + h}
    <3>1. PICK c \in T : a = c + h
      BY ONLY <2>1, <2>5
    <3>2. CASE c = b
      BY ONLY <3>1, <3>2
    <3>3. CASE c # b
      <4>1. c \in S /\ c \notin old /\ c \in Nat
        BY ONLY <1>1, <1>2, <3>3
      <4>2. a \in Shifted(S, h)
        BY ONLY <2>2, <3>1, <4>1
      <4>3. a \notin Shifted(old, h)
        BY ONLY <2>3, <2>4, <3>1, <4>1, old \subseteq Nat
      <4> QED
        BY ONLY <4>2, <4>3
    <3> QED
      BY ONLY <3>2, <3>3
  <2>6. ASSUME NEW a, a \in (Shifted(S, h) \ Shifted(old, h)) \union {b + h}
        PROVE  a \in Shifted(T, h)
    BY ONLY <1>1, <1>2, <2>1, <2>2, <2>3, <2>4, <2>6, old \subseteq Nat
  <2> QED
    BY ONLY <2>5, <2>6
<1>4. Live(l) = [a \in Shifted(T, h) |-> l[a - h]]
  BY ONLY <1>2, h = MBLKHDRSIZE DEF Live, Shifted
<1>5. ASSUME NEW a \in Shifted(T, h)
      PROVE  l[a - h] = IF a = b + h THEN n ELSE Live(k)[a]
  <2>1. PICK c \in T : a = c + h
    BY DEF Shifted
  <2>2. c \in Nat /\ a - h = c /\ l[c] = IF c = b THEN n ELSE k[c]
    BY ONLY <1>2, <2>1, h \in Nat
  <2>3. CASE c = b
    BY ONLY <2>1, <2>2, <2>3
  <2>4. CASE c # b
    <3>1. c \in S /\ a # b + h
      BY ONLY <1>1, <2>1, <2>2, <2>4, h \in Nat, b \in Nat
    <3>2. Live(k)[a] = k[c]
      <4>1. ShowsAll(k, S, h)
        BY ONLY S \subseteq Nat, k \in [S -> Nat], h \in Nat, h = MBLKHDRSIZE, LiveIs, Zenon
      <4> QED
        BY ONLY <2>1, <3>1, <4>1 DEF ShowsAll
    <3> QED
      BY ONLY <2>2, <2>4, <3>1, <3>2
  <2> QED
    BY ONLY <2>3, <2>4
<1> QED
  BY ONLY <1>3, <1>4, <1>5 DEF ShowsWith

(* One block less.                                                         *)
ShowsWithout(k, S, h, b, l) ==
  Live(l) = [a \in Shifted(S, h) \ {b + h} |-> Live(k)[a]]

(* The map of the requests after a release.                                 *)
LEMMA LiveWithout ==
  ASSUME NEW S, S \subseteq Nat, NEW k \in [S -> Nat], NEW h \in Nat, h = MBLKHDRSIZE,
         NEW b \in Nat, NEW l, l = [a \in S \ {b} |-> k[a]]
  PROVE  ShowsWithout(k, S, h, b, l)
<1>1. PICK T : T = S \ {b}
  OBVIOUS
<1>2. T \subseteq Nat /\ l \in [T -> Nat] /\ \A a \in T : l[a] = k[a]
  BY <1>1
<1>3. Shifted(T, h) = Shifted(S, h) \ {b + h}
  <2>1. \A a : a \in Shifted(T, h) <=> \E c \in T : a = c + h
    BY DEF Shifted
  <2>2. \A a : a \in Shifted(S, h) <=> \E c \in S : a = c + h
    BY DEF Shifted
  <2>4. \A c, d \in Nat : c + h = d + h => c = d
    OBVIOUS
  <2>5. ASSUME NEW a, a \in Shifted(T, h) PROVE a \in Shifted(S, h) \ {b + h}
    BY ONLY <1>1, <2>1, <2>2, <2>4, <2>5, S \subseteq Nat, b \in Nat
  <2>6. ASSUME NEW a, a \in Shifted(S, h) \ {b + h} PROVE a \in Shifted(T, h)
    BY ONLY <1>1, <2>1, <2>2, <2>4, <2>6, S \subseteq Nat, b \in Nat
  <2> QED
    BY ONLY <2>5, <2>6
<1>4. Live(l) = [a \in Shifted(T, h) |-> l[a - h]]
  BY ONLY <1>2, h = MBLKHDRSIZE DEF Live, Shifted
<1>5. ASSUME NEW a \in Shifted(T, h) PROVE l[a - h] = Live(k)[a]
  <2>1. PICK c \in T : a = c + h
    BY DEF Shifted
  <2>2. c \in Nat /\ a - h = c /\ l[c] = k[c] /\ c \in S
    BY ONLY <1>1, <1>2, <2>1, h \in Nat
  <2>3. Live(k)[a] = k[c]
    <3>1. ShowsAll(k, S, h)
      BY ONLY S \subseteq Nat, k \in [S -> Nat], h \in Nat, h = MBLKHDRSIZE, LiveIs, Zenon
    <3> QED
      BY ONLY <2>1, <2>2, <3>1 DEF ShowsAll
  <2> QED
    BY ONLY <2>2, <2>3
<1> QED
  BY ONLY <1>3, <1>4, <1>5 DEF ShowsWithout

(* The steps of Allocator.tla, of a zone that ends at e.                   *)
FitsIn(e, live, a, n, others) ==
  /\ a + n <= e
  /\ \A b \in others : (a..(a + n - 1)) \intersect (b..(b + live[b] - 1)) = {}

PlacedIn(live, live2, a, n, others) ==
  live2 = [b \in others \union {a} |-> IF b = a THEN n ELSE live[b]]

AllocSeen(e, live, n, live2) ==
  \E a \in 0..e \ DOMAIN live :
    FitsIn(e, live, a, n, DOMAIN live) /\ PlacedIn(live, live2, a, n, DOMAIN live)

FreeSeen(live, b, live2) == live2 = [a \in DOMAIN live \ {b} |-> live[a]]

StaySeen(e, live, b, n, live2) ==
  FitsIn(e, live, b, n, DOMAIN live \ {b}) /\ PlacedIn(live, live2, b, n, DOMAIN live \ {b})

MoveSeen(e, live, b, n, live2) ==
  \E a \in 0..e \ DOMAIN live :
    FitsIn(e, live, a, n, DOMAIN live) /\ PlacedIn(live, live2, a, n, DOMAIN live \ {b})

Seen(e, live, live2) ==
  \/ \E n \in Requests : AllocSeen(e, live, n, live2)
  \/ \E b \in DOMAIN live : FreeSeen(live, b, live2)
  \/ \E b \in DOMAIN live, n \in Requests :
       StaySeen(e, live, b, n, live2) \/ MoveSeen(e, live, b, n, live2)
  \/ live2 = live

(* A block of a good zone lies in the zone, apart from the other users.     *)
LEMMA FitsAfter ==
  ASSUME NEW x, NEW k, Users(x, k), NEW y, Good(y), y.end = x.end,
         NEW h \in Nat, h = MBLKHDRSIZE, NEW b \in InUse(y), NEW n \in Nat,
         n <= y.blk[b].size, NEW T, T \subseteq InUse(x), T \subseteq InUse(y), b \notin T,
         \A c \in T : y.blk[c].size = x.blk[c].size,
         NEW live, live = Live(k), NEW others, others = Shifted(T, h)
  PROVE  FitsIn(x.end, live, b + h, n, others) /\ b + h \in 0..x.end /\ b \in Nat
<1>1. /\ b \in Nat /\ b + h \in 0..x.end /\ b + h + n <= x.end
      /\ \A c \in InUse(y), m \in Nat :
           c # b /\ m <= y.blk[c].size =>
             ((b + h)..(b + h + n - 1)) \intersect ((c + h)..(c + h + m - 1)) = {}
  BY ONLY Good(y), y.end = x.end, h \in Nat, h = MBLKHDRSIZE, b \in InUse(y), n \in Nat,
          n <= y.blk[b].size, RegionsApart
<1>2. /\ k \in [InUse(x) -> Nat] /\ \A c \in InUse(x) : k[c] <= x.blk[c].size
      /\ InUse(x) \subseteq Nat
  BY UsedSizes DEF Users
<1>3. ShowsAll(k, InUse(x), h)
  BY ONLY <1>2, h \in Nat, h = MBLKHDRSIZE, LiveIs, Zenon
<1>4. ASSUME NEW a \in others
      PROVE  ((b + h)..(b + h + n - 1)) \intersect (a..(a + live[a] - 1)) = {}
  <2>1. PICK c \in T : a = c + h
    BY DEF Shifted
  <2>2. PICK m \in Nat : m = k[c] /\ m <= y.blk[c].size
    BY <1>2
  <2>3. live[a] = m /\ c \in InUse(y) /\ c # b
    BY <1>3, <2>1, <2>2 DEF ShowsAll
  <2>4. ((b + h)..(b + h + n - 1)) \intersect ((c + h)..(c + h + m - 1)) = {}
    BY ONLY <1>1, <2>2, <2>3
  <2> QED
    BY ONLY <2>1, <2>3, <2>4
<1> QED
  BY ONLY <1>1, <1>4 DEF FitsIn

(* Skipping the headers commutes with dropping a block.                     *)
LEMMA ShiftedLess ==
  ASSUME NEW S, S \subseteq Nat, NEW h \in Nat, NEW b \in Nat, NEW T, T = S \ {b}
  PROVE  Shifted(T, h) = Shifted(S, h) \ {b + h}
<1>1. \A a : a \in Shifted(T, h) <=> \E c \in T : a = c + h
  BY DEF Shifted
<1>2. \A a : a \in Shifted(S, h) <=> \E c \in S : a = c + h
  BY DEF Shifted
<1>3. \A c, d \in Nat : c + h = d + h => c = d
  OBVIOUS
<1>4. ASSUME NEW a, a \in Shifted(T, h) PROVE a \in Shifted(S, h) \ {b + h}
  BY ONLY <1>1, <1>2, <1>3, <1>4, S \subseteq Nat, b \in Nat, T = S \ {b}
<1>5. ASSUME NEW a, a \in Shifted(S, h) \ {b + h} PROVE a \in Shifted(T, h)
  BY ONLY <1>1, <1>2, <1>3, <1>5, S \subseteq Nat, b \in Nat, T = S \ {b}
<1> QED
  BY ONLY <1>4, <1>5

(* A grant is the abstract allocation.                                      *)
LEMMA GrantedSeen ==
  ASSUME NEW x, NEW k, Users(x, k), NEW n \in Requests, NEW c \in Nat, NEW y, NEW l,
         Granted(x, k, n, c, y, l)
  PROVE  AllocSeen(x.end, Live(k), n, Live(l))
<1>1. /\ Good(y) /\ y.end = x.end /\ InUse(y) = InUse(x) \union {c} /\ c \notin InUse(x)
      /\ y.blk[c].size >= RoundUp(n) /\ l = With(k, c, n, {})
      /\ \A a \in InUse(x) : y.blk[a].size = x.blk[a].size
  BY DEF Granted, Served
<1>2. PICK h \in Nat : h = MBLKHDRSIZE
  BY Constants DEF MBLKHDRSIZE
<1>3. n \in Nat /\ RoundUp(n) \in Nat /\ n <= RoundUp(n)
  BY RoundUpIs DEF Sizes
<1>4. PICK S : S = InUse(x) /\ S \subseteq Nat /\ k \in [S -> Nat]
  BY UsedSizes DEF Users
<1>5. y.blk[c].size \in Nat /\ c \in InUse(y)
  BY ONLY <1>1, UsedSizes
<1>6. n <= y.blk[c].size
  BY ONLY <1>1, <1>3, <1>5
<1>7. ShowsAll(k, S, h)
  BY ONLY <1>2, <1>4, LiveIs, Zenon
<1>8. PICK live, others : live = Live(k) /\ others = Shifted(S, h)
  OBVIOUS
<1>9. /\ FitsIn(x.end, live, c + h, n, others) /\ c + h \in 0..x.end
  BY ONLY Users(x, k), <1>1, <1>2, <1>3, <1>4, <1>5, <1>6, <1>8, FitsAfter
<1>10. DOMAIN live = others /\ c + h \notin others
  BY ONLY <1>1, <1>4, <1>7, <1>8, c \in Nat DEF ShowsAll
<1>11. Live(l) = [a \in (Shifted(S, h) \ Shifted({}, h)) \union {c + h} |->
                    IF a = c + h THEN n ELSE Live(k)[a]]
  <2>1. PICK old : old = {}
    OBVIOUS
  <2>2. l = With(k, c, n, old)
    BY ONLY <1>1, <2>1
  <2>3. old \subseteq Nat
    BY ONLY <2>1
  <2>4. ShowsWith(k, S, h, c, n, old, l)
    BY ONLY <1>2, <1>3, <1>4, c \in Nat, <2>2, <2>3, LiveWith, Zenon
  <2> QED
    BY ONLY <2>1, <2>4 DEF ShowsWith
<1>12. (Shifted(S, h) \ Shifted({}, h)) \union {c + h} = others \union {c + h}
  BY ONLY <1>8 DEF Shifted
<1>13. PlacedIn(live, Live(l), c + h, n, others)
  BY ONLY <1>8, <1>11, <1>12 DEF PlacedIn
<1>14. AllocSeen(x.end, live, n, Live(l))
  BY ONLY <1>9, <1>10, <1>13 DEF AllocSeen
<1> QED
  BY ONLY <1>8, <1>14

(* A release is the abstract release.                                       *)
LEMMA GivenBackSeen ==
  ASSUME NEW x, NEW k, Users(x, k), NEW b \in InUse(x), NEW y, NEW l,
         GivenBack(x, k, b, y, l)
  PROVE  \E c \in DOMAIN Live(k) : FreeSeen(Live(k), c, Live(l))
<1>1. PICK h \in Nat : h = MBLKHDRSIZE
  BY Constants DEF MBLKHDRSIZE
<1>2. PICK S : S = InUse(x) /\ S \subseteq Nat /\ k \in [S -> Nat] /\ b \in Nat
  BY UsedSizes DEF Users
<1>3. l = [a \in S \ {b} |-> k[a]]
  BY ONLY <1>2, GivenBack(x, k, b, y, l) DEF GivenBack
<1>4. ShowsAll(k, S, h)
  BY ONLY <1>1, <1>2, LiveIs, Zenon
<1>5. Live(l) = [a \in Shifted(S, h) \ {b + h} |-> Live(k)[a]]
  <2>1. ShowsWithout(k, S, h, b, l)
    BY ONLY <1>1, <1>2, <1>3, LiveWithout, Zenon
  <2> QED
    BY ONLY <2>1, Zenon DEF ShowsWithout
<1>6. DOMAIN Live(k) = Shifted(S, h) /\ b + h \in Shifted(S, h)
  BY ONLY <1>2, <1>4, b \in InUse(x) DEF ShowsAll
<1>7. FreeSeen(Live(k), b + h, Live(l))
  BY ONLY <1>5, <1>6 DEF FreeSeen
<1> QED
  BY ONLY <1>6, <1>7

(* A resize in place is the abstract one.                                   *)
LEMMA ChangedSeen ==
  ASSUME NEW x, NEW k, Users(x, k), NEW b \in InUse(x), NEW n \in Requests, NEW y, NEW l,
         Changed(x, k, b, n, y, l)
  PROVE  \E c \in DOMAIN Live(k) : StaySeen(x.end, Live(k), c, n, Live(l))
<1>1. /\ Good(y) /\ y.end = x.end /\ InUse(y) = InUse(x)
      /\ y.blk[b].size >= RoundUp(n) /\ l = With(k, b, n, {})
      /\ \A a \in InUse(x) : a # b => y.blk[a].size = x.blk[a].size
  BY DEF Changed, Resized
<1>2. PICK h \in Nat : h = MBLKHDRSIZE
  BY Constants DEF MBLKHDRSIZE
<1>3. n \in Nat /\ RoundUp(n) \in Nat /\ n <= RoundUp(n)
  BY RoundUpIs DEF Sizes
<1>4. PICK S : S = InUse(x) /\ S \subseteq Nat /\ k \in [S -> Nat] /\ b \in Nat
  BY UsedSizes DEF Users
<1>5. y.blk[b].size \in Nat /\ b \in InUse(y)
  BY ONLY <1>1, b \in InUse(x), UsedSizes
<1>6. n <= y.blk[b].size
  BY ONLY <1>1, <1>3, <1>5
<1>7. ShowsAll(k, S, h)
  BY ONLY <1>2, <1>4, LiveIs, Zenon
<1>8. PICK live, T : live = Live(k) /\ T = S \ {b}
  OBVIOUS
<1>9. PICK others : others = Shifted(T, h)
  OBVIOUS
<1>10. T \subseteq InUse(x) /\ T \subseteq InUse(y) /\ b \notin T
       /\ \A c \in T : y.blk[c].size = x.blk[c].size
  BY ONLY <1>1, <1>4, <1>8
<1>11. FitsIn(x.end, live, b + h, n, others)
  BY ONLY Users(x, k), <1>1, <1>2, <1>3, <1>5, <1>6, <1>8, <1>9, <1>10, FitsAfter
<1>12. DOMAIN live = Shifted(S, h) /\ b + h \in Shifted(S, h)
  BY ONLY <1>4, <1>7, <1>8, b \in InUse(x) DEF ShowsAll
<1>13. others = DOMAIN live \ {b + h}
  <2>1. Shifted(T, h) = Shifted(S, h) \ {b + h}
    <3>1. T = S \ {b} /\ S \subseteq Nat /\ b \in Nat /\ h \in Nat
      BY ONLY <1>2, <1>4, <1>8
    <3> QED
      BY ONLY <3>1, ShiftedLess
  <2> QED
    BY ONLY <1>9, <1>12, <2>1
<1>14. Live(l) = [a \in (Shifted(S, h) \ Shifted({}, h)) \union {b + h} |->
                    IF a = b + h THEN n ELSE Live(k)[a]]
  <2>1. PICK old : old = {}
    OBVIOUS
  <2>2. l = With(k, b, n, old)
    BY ONLY <1>1, <2>1
  <2>3. old \subseteq Nat
    BY ONLY <2>1
  <2>4. ShowsWith(k, S, h, b, n, old, l)
    BY ONLY <1>2, <1>3, <1>4, <2>2, <2>3, LiveWith, Zenon
  <2> QED
    BY ONLY <2>1, <2>4 DEF ShowsWith
<1>15. (Shifted(S, h) \ Shifted({}, h)) \union {b + h} = others \union {b + h}
  <2>1. Shifted({}, h) = {}
    BY DEF Shifted
  <2> QED
    BY ONLY <1>12, <1>13, <2>1
<1>16. PlacedIn(live, Live(l), b + h, n, others)
  BY ONLY <1>8, <1>14, <1>15 DEF PlacedIn
<1>17. StaySeen(x.end, live, b + h, n, Live(l))
  BY ONLY <1>11, <1>13, <1>16 DEF StaySeen
<1> QED
  BY ONLY <1>8, <1>12, <1>17

(* A move is the abstract move.                                             *)
LEMMA MovedSeen ==
  ASSUME NEW x, NEW k, Users(x, k), NEW b \in InUse(x), NEW n \in Requests, NEW c \in Nat,
         NEW w, NEW y, NEW l, Moved(x, k, b, n, c, w, y, l)
  PROVE  \E a \in DOMAIN Live(k) : MoveSeen(x.end, Live(k), a, n, Live(l))
<1>1. /\ Good(w) /\ w.end = x.end /\ InUse(w) = InUse(x) \union {c} /\ c \notin InUse(x)
      /\ w.blk[c].size >= RoundUp(n) /\ l = With(k, c, n, {b})
      /\ \A a \in InUse(x) : w.blk[a].size = x.blk[a].size
  BY DEF Moved, Served
<1>2. PICK h \in Nat : h = MBLKHDRSIZE
  BY Constants DEF MBLKHDRSIZE
<1>3. n \in Nat /\ RoundUp(n) \in Nat /\ n <= RoundUp(n)
  BY RoundUpIs DEF Sizes
<1>4. PICK S : S = InUse(x) /\ S \subseteq Nat /\ k \in [S -> Nat] /\ b \in Nat
  BY UsedSizes DEF Users
<1>5. w.blk[c].size \in Nat /\ c \in InUse(w)
  BY ONLY <1>1, UsedSizes
<1>6. n <= w.blk[c].size
  BY ONLY <1>1, <1>3, <1>5
<1>7. ShowsAll(k, S, h)
  BY ONLY <1>2, <1>4, LiveIs, Zenon
<1>8. PICK live, others : live = Live(k) /\ others = Shifted(S, h)
  OBVIOUS
<1>9. /\ FitsIn(x.end, live, c + h, n, others) /\ c + h \in 0..x.end
  BY ONLY Users(x, k), <1>1, <1>2, <1>3, <1>4, <1>5, <1>6, <1>8, FitsAfter
<1>10. DOMAIN live = others /\ c + h \notin others /\ b + h \in others
  BY ONLY <1>1, <1>4, <1>7, <1>8, c \in Nat, b \in InUse(x) DEF ShowsAll
<1>11. PICK old : old = {b} /\ old \subseteq Nat
  BY <1>4
<1>12. l = With(k, c, n, old)
  BY ONLY <1>1, <1>11
<1>13. Live(l) = [a \in (Shifted(S, h) \ Shifted(old, h)) \union {c + h} |->
                    IF a = c + h THEN n ELSE Live(k)[a]]
  <2>1. ShowsWith(k, S, h, c, n, old, l)
    BY ONLY <1>2, <1>3, <1>4, <1>11, <1>12, c \in Nat, LiveWith, Zenon
  <2> QED
    BY ONLY <2>1, Zenon DEF ShowsWith
<1>14. Shifted(old, h) = {b + h}
  BY ONLY <1>11 DEF Shifted
<1>15. (Shifted(S, h) \ Shifted(old, h)) \union {c + h} = (others \ {b + h}) \union {c + h}
  BY ONLY <1>8, <1>14
<1>16. PlacedIn(live, Live(l), c + h, n, others \ {b + h})
  BY ONLY <1>8, <1>13, <1>15 DEF PlacedIn
<1>17. MoveSeen(x.end, live, b + h, n, Live(l))
  BY ONLY <1>9, <1>10, <1>16 DEF MoveSeen
<1> QED
  BY ONLY <1>8, <1>10, <1>17

(* Every outcome is an abstract step or a stutter.                          *)
LEMMA OutcomeSeen ==
  ASSUME NEW x, NEW k, Users(x, k), NEW y, NEW l, Outcome(x, k, y, l)
  PROVE  Seen(x.end, Live(k), Live(l)) /\ y.end = x.end
<1>1. CASE \E n \in Requests, c \in Nat : Granted(x, k, n, c, y, l)
  <2>1. PICK n \in Requests, c \in Nat : Granted(x, k, n, c, y, l)
    BY <1>1
  <2>2. AllocSeen(x.end, Live(k), n, Live(l))
    BY <2>1, GrantedSeen
  <2> QED
    BY <2>1, <2>2 DEF Seen, Granted, Served
<1>2. CASE \E b \in InUse(x) : GivenBack(x, k, b, y, l)
  <2>1. PICK b \in InUse(x) : GivenBack(x, k, b, y, l)
    BY <1>2
  <2>2. \E c \in DOMAIN Live(k) : FreeSeen(Live(k), c, Live(l))
    BY <2>1, GivenBackSeen
  <2> QED
    BY <2>1, <2>2 DEF Seen, GivenBack, Released
<1>3. CASE \E b \in InUse(x), n \in Requests : Changed(x, k, b, n, y, l)
  <2>1. PICK b \in InUse(x), n \in Requests : Changed(x, k, b, n, y, l)
    BY <1>3
  <2>2. \E c \in DOMAIN Live(k) : StaySeen(x.end, Live(k), c, n, Live(l))
    BY <2>1, ChangedSeen
  <2> QED
    BY <2>1, <2>2 DEF Seen, Changed, Resized
<1>4. CASE \E b \in InUse(x), n \in Requests, c \in Nat : \E w : Moved(x, k, b, n, c, w, y, l)
  <2>0. PICK b \in InUse(x), n \in Requests, c \in Nat : \E w : Moved(x, k, b, n, c, w, y, l)
    BY <1>4
  <2>1. PICK w : Moved(x, k, b, n, c, w, y, l)
    BY <2>0
  <2>2. \E a \in DOMAIN Live(k) : MoveSeen(x.end, Live(k), a, n, Live(l))
    BY <2>1, MovedSeen
  <2>3. y.end = x.end
    BY <2>1 DEF Moved, Served, Released
  <2> QED
    BY <2>2, <2>3 DEF Seen
<1>5. CASE y = x /\ l = k
  BY <1>5 DEF Seen
<1> QED
  BY <1>1, <1>2, <1>3, <1>4, <1>5 DEF Outcome

(* A step as Allocator.tla states it.                                      *)
LEMMA SeenIsStep ==
  ASSUME Seen(xma.end, Live(asked), Live(asked)'), xma'.end = xma.end
  PROVE  [A!Next]_(A!avars)
<1>1. ASSUME NEW n \in Requests, AllocSeen(xma.end, Live(asked), n, Live(asked)')
      PROVE  A!Alloc(n)
  BY ONLY <1>1, xma'.end = xma.end
     DEF AllocSeen, FitsIn, PlacedIn, Live, A!Alloc, A!Fits, A!Place, A!Region
<1>2. ASSUME NEW b \in DOMAIN Live(asked), FreeSeen(Live(asked), b, Live(asked)')
      PROVE  A!Free(b)
  BY ONLY <1>2, xma'.end = xma.end DEF FreeSeen, Live, A!Free
<1>3. ASSUME NEW b \in DOMAIN Live(asked), NEW n \in Requests,
             StaySeen(xma.end, Live(asked), b, n, Live(asked)')
      PROVE  A!Realloc(b, n)
  BY ONLY <1>3, xma'.end = xma.end
     DEF StaySeen, FitsIn, PlacedIn, Live, A!Realloc, A!Fits, A!Place, A!Region
<1>4. ASSUME NEW b \in DOMAIN Live(asked), NEW n \in Requests,
             MoveSeen(xma.end, Live(asked), b, n, Live(asked)')
      PROVE  A!Realloc(b, n)
  BY ONLY <1>4, xma'.end = xma.end
     DEF MoveSeen, FitsIn, PlacedIn, Live, A!Realloc, A!Fits, A!Place, A!Region
<1>5. ASSUME Live(asked)' = Live(asked) PROVE UNCHANGED A!avars
  BY ONLY <1>5, xma'.end = xma.end DEF Live, A!avars
<1>6. DOMAIN Live(asked) =
        DOMAIN [a \in {b + MBLKHDRSIZE : b \in DOMAIN asked} |-> asked[a - MBLKHDRSIZE]]
  BY ONLY DEF Live
<1> QED
  BY ONLY <1>1, <1>2, <1>3, <1>4, <1>5, <1>6, Seen(xma.end, Live(asked), Live(asked)')
     DEF Seen, A!Next

(* The allocator does what its users rely on: blocks lie in the zone, do   *)
(* not overlap, and change only when their user asks for it.               *)
THEOREM Refinement == Spec => ImplementsAllocator
<1>1. Init => A!Init
  <2> SUFFICES ASSUME Init PROVE A!Init
    OBVIOUS
  <2>1. xma.end \in Nat
    BY InitIs
  <2>2. asked = [b \in {} |-> 0]
    BY DEF Init
  <2> QED
    BY ONLY <2>1, <2>2 DEF A!Init
<1>2. IInv /\ [Next]_vars => [A!Next]_(A!avars)
  <2> SUFFICES ASSUME IInv, [Next]_vars PROVE [A!Next]_(A!avars)
    OBVIOUS
  <2>1. Outcome(xma, asked, xma', asked')
    BY NextOutcome
  <2>2. Users(xma, asked)
    BY DEF IInv
  <2>3. Seen(xma.end, Live(asked), Live(asked')) /\ xma'.end = xma.end
    BY ONLY <2>1, <2>2, OutcomeSeen
  <2>4. Live(asked)' = Live(asked')
    BY ONLY DEF Live
  <2>5. Seen(xma.end, Live(asked), Live(asked)')
    BY ONLY <2>3, <2>4
  <2> QED
    BY <2>3, <2>5, SeenIsStep
<1> QED
  BY <1>1, <1>2, Invariant, PTL DEF Spec, ImplementsAllocator, A!Spec
=============================================================================
