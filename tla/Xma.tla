-------------------------------- MODULE Xma --------------------------------
(***************************************************************************)
(* The memory allocator lib/cmn/xma.c.  A zone of memory is tiled by       *)
(* blocks, each with a header that holds the size of the block, the size   *)
(* of the block before it and whether it is free.  Free blocks are linked  *)
(* in chains by classes of sizes; the links are kept in the blocks.        *)
(*                                                                         *)
(* Addresses are offsets in the zone, and sizes are in bytes.  The memory  *)
(* itself is abstracted to the headers in it: `blk' has as its domain the  *)
(* addresses of the headers that the tiling currently has.                 *)
(***************************************************************************)
EXTENDS Integers, FiniteSets, FiniteSetsExt, SequencesExt

CONSTANTS
  ALIGN,       \* twice the size of a pointer
  FIXED,       \* QSE_XMA_FIXED, the number of classes for small blocks
  SIZE_BITS,   \* QSE_XMA_SIZE_BITS, the width of a size
  Internal,    \* the sizes of zones that the allocator obtains itself
  External,    \* the sizes of zones that are handed to it
  Requests     \* the sizes that are asked for

MBLKHDRSIZE == ALIGN
MINALLOCSIZE == ALIGN
FBLKMINSIZE == MBLKHDRSIZE + MINALLOCSIZE

Max2(a, b) == IF a < b THEN b ELSE a

(* QSE_ALIGNTO_POW2                                                        *)
AlignTo(n) == ((n + ALIGN - 1) \div ALIGN) * ALIGN

(* The position of the highest bit, or 0.                                  *)
szlog2(n) == Min({k \in 0..SIZE_BITS : n < 2^(k + 1)})

ASSUME XmaAssumption ==
  /\ SIZE_BITS \in Nat
  /\ \E i \in 1..SIZE_BITS : ALIGN = 2^i
  /\ \E i \in 0..SIZE_BITS : FIXED = 2^i
  /\ ALIGN < 2^SIZE_BITS
  /\ Internal \union External \union Requests \subseteq 0..(2^SIZE_BITS - ALIGN)
  /\ \A n \in External : n >= FBLKMINSIZE

VARIABLES
  xma,       \* the allocator: end, blk, xfree and stat
  asked,     \* what its users know: the size they asked for, for each block in use
  overruns   \* accesses of the allocator beyond the zone that have happened

vars == <<xma, asked, overruns>>

NULL == -1

-----------------------------------------------------------------------------
(* Blocks and chains.                                                      *)

XFIMAX == FIXED + SIZE_BITS

(* The chain for free blocks of a size.                                    *)
getxfi(size) ==
  LET xfi == (size \div ALIGN) - 1
      class == IF xfi >= FIXED THEN szlog2(size) - szlog2(FIXED * ALIGN) + FIXED
                               ELSE xfi
  IN  IF class > XFIMAX THEN XFIMAX ELSE class

next_mblk(x, b) == b + MBLKHDRSIZE + x.blk[b].size
prev_mblk(x, b) == b - (MBLKHDRSIZE + x.blk[b].prev_size)

(* The block after b, and before b, is in the zone and free.               *)
NextIsFree(x, b) ==
  next_mblk(x, b) < x.end /\ x.blk[next_mblk(x, b)].free
PrevIsFree(x, b) ==
  prev_mblk(x, b) >= 0 /\ x.blk[prev_mblk(x, b)].free

(* Walk(x)[n][b] are the first n blocks one meets from b on.               *)
Walk(x) ==
  LET walk[n \in 0..Cardinality(DOMAIN x.blk)] ==
        [b \in DOMAIN x.blk \union {NULL} |->
           IF n = 0 \/ b = NULL THEN <<>>
           ELSE <<b>> \o walk[n - 1][x.blk[b].free_next]]
  IN  walk

(* The chain xfi, from its head on.                                        *)
Chain(x, xfi) == Walk(x)[Cardinality(DOMAIN x.blk)][x.xfree[xfi]]

(* Let b, free or about to be, be the head of its chain.                   *)
attach_to_freelist(x, b) ==
  LET xfi == getxfi(x.blk[b].size)
      old == x.xfree[xfi]
  IN  [x EXCEPT
         !.xfree[xfi] = b,
         !.blk = [a \in DOMAIN @ |->
                    IF a = b THEN [@[a] EXCEPT !.free_prev = NULL, !.free_next = old]
                    ELSE IF a = old THEN [@[a] EXCEPT !.free_prev = b]
                    ELSE @[a]]]

(* Mutant: the next block still points back to the detached one.           *)
detach_from_freelist_OneWay(x, b) ==
  LET p == x.blk[b].free_prev
      n == x.blk[b].free_next
  IN  IF p = NULL
      THEN [x EXCEPT !.xfree[getxfi(x.blk[b].size)] = n]
      ELSE [x EXCEPT !.blk[p].free_next = n]

detach_from_freelist(x, b) ==
  LET p == x.blk[b].free_prev
      n == x.blk[b].free_next
  IN  [x EXCEPT
         !.xfree = IF p = NULL
                   THEN [@ EXCEPT ![getxfi(x.blk[b].size)] = n] ELSE @,
         !.blk = [a \in DOMAIN @ |->
                    IF a = p THEN [@[a] EXCEPT !.free_next = n]
                    ELSE IF a = n THEN [@[a] EXCEPT !.free_prev = p]
                    ELSE @[a]]]

(* Tell the block after b, if there is one in the zone, the size of b.     *)
TellNext(x, b) ==
  LET z == next_mblk(x, b)
  IN  IF z < x.end THEN [x EXCEPT !.blk[z].prev_size = x.blk[b].size] ELSE x

(* Block b gives up all but `size' bytes, and a free block of `rest' bytes *)
(* begins where it ends now.                                               *)
SplitOff(x, b, size, rest) ==
  LET y == b + MBLKHDRSIZE + size
      left == [prev_size |-> size, free |-> TRUE, size |-> rest,
               free_prev |-> NULL, free_next |-> NULL]
  IN  attach_to_freelist(
        [x EXCEPT !.blk = [a \in DOMAIN @ \union {y} |->
                             IF a = y THEN left
                             ELSE IF a = b THEN [@[a] EXCEPT !.size = size]
                             ELSE @[a]]], y)

(* Block b takes in the block behind it, header included.                  *)
Swallow(x, b) ==
  LET n == next_mblk(x, b)
      size == x.blk[b].size + MBLKHDRSIZE + x.blk[n].size
  IN  [x EXCEPT !.blk = [a \in DOMAIN @ \ {n} |->
                           IF a = b THEN [@[a] EXCEPT !.size = size] ELSE @[a]]]

(* b is free or in use.  The links of a block in use are its user's memory.*)
SetFree(x, b, free) ==
  [x EXCEPT !.blk[b] = [@ EXCEPT !.free = free, !.free_prev = NULL, !.free_next = NULL]]

Count(x, alloc, avail, nused, nfree) ==
  [x EXCEPT !.stat = [alloc |-> @.alloc + alloc, avail |-> @.avail + avail,
                      nused |-> @.nused + nused, nfree |-> @.nfree + nfree]]

-----------------------------------------------------------------------------
(* qse_xma_init.                                                           *)

Opened(size) ==
  [end   |-> size,
   blk   |-> [a \in {0} |->
                [prev_size |-> 0, free |-> TRUE, size |-> size - MBLKHDRSIZE,
                 free_prev |-> NULL, free_next |-> NULL]],
   xfree |-> [i \in 0..XFIMAX |->
                IF i = getxfi(size - MBLKHDRSIZE) THEN 0 ELSE NULL],
   stat  |-> [alloc |-> 0, avail |-> size - MBLKHDRSIZE, nused |-> 0, nfree |-> 1]]

Init ==
  /\ \/ \E size \in Internal : xma = Opened(Max2(AlignTo(size), FBLKMINSIZE))
     \/ \E size \in External : xma = Opened(size)
  /\ asked = [b \in {} |-> 0]
  /\ overruns = {}

-----------------------------------------------------------------------------
(* Allocation.                                                             *)

RoundUp(size) == AlignTo(Max2(size, MINALLOCSIZE))

(* The first block in chain xfi that is large enough, or NULL.             *)
FirstFit(x, xfi, size) ==
  LET chain == Chain(x, xfi)
      fits == {k \in DOMAIN chain : x.blk[chain[k]].size >= size}
  IN  IF fits = {} THEN NULL ELSE chain[Min(fits)]

(* Block b, off its chain, is handed out.                                  *)
HandOut(x, b) ==
  LET size == x.blk[b].size IN Count(SetFree(x, b, FALSE), size, -size, 1, 0)

(* What becomes of the block that was found: what is not needed is split   *)
(* off if it can hold a block of its own.                                  *)
alloc_from_freelist(x, cand, size) ==
  LET rem == x.blk[cand].size - size
      off == detach_from_freelist(x, cand)
      split == SplitOff(off, cand, size, rem - MBLKHDRSIZE)
  IN  IF rem >= FBLKMINSIZE
      THEN HandOut(Count(TellNext(split, next_mblk(split, cand)),
                         0, -MBLKHDRSIZE, 0, 0), cand)
      ELSE HandOut(Count(off, 0, 0, 0, -1), cand)

(* Mutant: the next larger chain is not tried.                             *)
ChainsToTry_SkipsOne(xfi) ==
  IF xfi = XFIMAX THEN <<XFIMAX>>
  ELSE IF xfi >= FIXED
  THEN <<xfi, XFIMAX>> \o [i \in 1..(XFIMAX - 3 - xfi) |-> xfi + 1 + i]
  ELSE <<XFIMAX>> \o [i \in 1..(XFIMAX - 2 - FIXED) |-> FIXED + i]

(* The chains in which a block of class xfi is looked for, in order, when  *)
(* it is not small or there is no small one: its own if it is large, the   *)
(* huge one, and the larger large ones up to the last but one.             *)
ChainsToTry(xfi) ==
  IF xfi = XFIMAX THEN <<XFIMAX>>
  ELSE IF xfi >= FIXED
  THEN <<xfi, XFIMAX>> \o [i \in 1..(XFIMAX - 2 - xfi) |-> xfi + i]
  ELSE <<XFIMAX>> \o [i \in 1..(XFIMAX - 1 - FIXED) |-> FIXED - 1 + i]

(* The block that a request, rounded up, is served from, or NULL.  The     *)
(* head of a chain of small blocks is taken whole.  The code asserts that  *)
(* its size is the one asked for; of the last block of a zone that is not  *)
(* aligned it can be larger by a fraction of ALIGN.  The assertion, which  *)
(* only a debug build has, is left out.                                    *)
Candidate(x, size) ==
  LET xfi == getxfi(size)
      tries == ChainsToTry(xfi)
      hits == {k \in DOMAIN tries : FirstFit(x, tries[k], size) # NULL}
  IN  IF xfi < FIXED /\ x.xfree[xfi] # NULL THEN x.xfree[xfi]
      ELSE IF hits = {} THEN NULL
      ELSE FirstFit(x, tries[Min(hits)], size)

(* The user knows of n bytes at b, and no longer of those at `old'.        *)
Told(b, n, old) ==
  asked' = [a \in (DOMAIN asked \ old) \union {b} |-> IF a = b THEN n ELSE asked[a]]

(* qse_xma_calloc() does the same and clears the `n' bytes asked for.      *)
qse_xma_alloc(n) ==
  LET cand == Candidate(xma, RoundUp(n))
  IN  /\ cand # NULL
      /\ xma' = alloc_from_freelist(xma, cand, RoundUp(n))
      /\ Told(cand, n, {})
      /\ UNCHANGED overruns

(* No block is found.                                                      *)
Refuse(n) == Candidate(xma, RoundUp(n)) = NULL /\ UNCHANGED vars

-----------------------------------------------------------------------------
(* Release.                                                                *)

(* Block b is given back and joined with its free neighbours.              *)
Freed(x, b) ==
  LET size == x.blk[b].size
      p == prev_mblk(x, b)
      n == next_mblk(x, b)
      less == Count(x, -size, 0, -1, 0)
      Joined(y, a) == TellNext(attach_to_freelist(SetFree(y, a, TRUE), a), a)
  IN  CASE PrevIsFree(x, b) /\ NextIsFree(x, b) ->
             LET off == detach_from_freelist(
                          detach_from_freelist(less, p), n)
             IN  Count(Joined(Swallow(Swallow(off, p), p), p),
                       0, size + 2 * MBLKHDRSIZE, 0, -1)
        [] ~ PrevIsFree(x, b) /\ NextIsFree(x, b) ->
             Count(Joined(Swallow(detach_from_freelist(less, n), b), b),
                   0, size + MBLKHDRSIZE, 0, 0)
        [] PrevIsFree(x, b) /\ ~ NextIsFree(x, b) ->
             Count(Joined(Swallow(detach_from_freelist(less, p), p), p),
                   0, size + MBLKHDRSIZE, 0, 0)
        [] OTHER ->
             Count(attach_to_freelist(SetFree(less, b, TRUE), b), 0, size, 0, 1)

InUse(x) == {b \in DOMAIN x.blk : ~ x.blk[b].free}

qse_xma_free(b) ==
  /\ xma' = Freed(xma, b)
  /\ asked' = [a \in DOMAIN asked \ {b} |-> asked[a]]
  /\ UNCHANGED overruns

-----------------------------------------------------------------------------
(* Change of size.                                                         *)

(* Mutant: whether the block behind is free is not looked at.              *)
CanGrow_Taken(x, b, size) ==
  /\ next_mblk(x, b) < x.end
  /\ size - x.blk[b].size <= x.blk[next_mblk(x, b)].size

(* The block behind b can give it what it lacks of `size' bytes.           *)
CanGrow(x, b, size) ==
  NextIsFree(x, b) /\ size - x.blk[b].size <= x.blk[next_mblk(x, b)].size

Grown(x, b, size) ==
  LET n == next_mblk(x, b)
      req == size - x.blk[b].size
      rem == MBLKHDRSIZE + x.blk[n].size - req
      whole == Swallow(detach_from_freelist(x, n), b)
      split == SplitOff(whole, b, size, rem - MBLKHDRSIZE)
  IN  IF rem >= FBLKMINSIZE
      THEN Count(TellNext(split, next_mblk(split, b)), req, -req, 0, 0)
      ELSE Count(TellNext(whole, b),
                 MBLKHDRSIZE + x.blk[n].size, - x.blk[n].size, 0, -1)

(* Mutant: what is split off is not joined with the free block behind it.  *)
Shrunk_Alone(x, b, size) ==
  LET rem == x.blk[b].size - size
      split == SplitOff(x, b, size, rem - MBLKHDRSIZE)
  IN  Count(TellNext(split, next_mblk(split, b)), -rem, rem - MBLKHDRSIZE, 0, 1)

(* The last write, to the block behind, is not guarded when that block is  *)
(* not free.                                                               *)
Shrunk(x, b, size) ==
  LET rem == x.blk[b].size - size
      n == next_mblk(x, b)
      joined == SplitOff(Swallow(detach_from_freelist(x, n), b), b, size,
                         rem + x.blk[n].size)
      split == SplitOff(x, b, size, rem - MBLKHDRSIZE)
  IN  IF NextIsFree(x, b)
      THEN Count(TellNext(joined, next_mblk(joined, b)), -rem, rem, 0, 0)
      ELSE Count(TellNext(split, next_mblk(split, b)),
                 -rem, rem - MBLKHDRSIZE, 0, 1)

(* A block that need not move: it is large enough, or the one behind it is *)
(* free and provides what it lacks.                                        *)
_realloc_merge(b, n) ==
  LET size == RoundUp(n)
      old == xma.blk[b].size
      splits == old - size >= FBLKMINSIZE
  IN  /\ \/ /\ size > old
            /\ CanGrow(xma, b, size)
            /\ xma' = Grown(xma, b, size)
            /\ UNCHANGED overruns
         \/ /\ size <= old
            /\ xma' = IF splits THEN Shrunk(xma, b, size) ELSE xma
            /\ overruns' = overruns \union
                 {w \in {"write"} : splits /\ next_mblk(xma, b) >= xma.end}
      /\ Told(b, n, {})

(* The fallback: allocate, copy as many bytes as are asked for now, free.  *)
Move(b, n) ==
  LET size == RoundUp(n)
      cand == Candidate(xma, size)
  IN  /\ size > xma.blk[b].size
      /\ ~ CanGrow(xma, b, size)
      /\ cand # NULL
      /\ xma' = Freed(alloc_from_freelist(xma, cand, size), b)
      /\ Told(cand, n, {b})
      /\ overruns' = overruns \union
           {r \in {"read"} : b + MBLKHDRSIZE + n > xma.end}

(* The fallback fails; the block stays as it is.                           *)
RefuseToMove(b, n) ==
  /\ RoundUp(n) > xma.blk[b].size
  /\ ~ CanGrow(xma, b, RoundUp(n))
  /\ Candidate(xma, RoundUp(n)) = NULL
  /\ UNCHANGED vars

qse_xma_realloc(b, n) == _realloc_merge(b, n) \/ Move(b, n) \/ RefuseToMove(b, n)

-----------------------------------------------------------------------------
Next ==
  \/ \E n \in Requests : qse_xma_alloc(n) \/ Refuse(n)
  \/ \E b \in InUse(xma) : qse_xma_free(b)
  \/ \E b \in InUse(xma), n \in Requests : qse_xma_realloc(b, n)

Spec == Init /\ [][Next]_vars

-----------------------------------------------------------------------------
FreeBlocks == DOMAIN xma.blk \ InUse(xma)

(* The blocks tile the zone: each begins where the one before it ends, the *)
(* first at the start of the zone, and the last ends with the zone; each   *)
(* knows the size of the one before it; and no two free blocks are beside  *)
(* each other, so that after any history of splits and joins a zone with   *)
(* nothing in use is one block again.  The blocks in use are those of the  *)
(* users and large enough for them, so that no header is in their memory.  *)
(* The counters are what DBG_VERIFY() compares them with.                  *)
BlocksTileTheZone ==
  /\ 0 \in DOMAIN xma.blk /\ xma.blk[0].prev_size = 0
  /\ DOMAIN asked = InUse(xma)
  /\ \A b \in DOMAIN asked : asked[b] <= xma.blk[b].size
  /\ \A b \in DOMAIN xma.blk :
       LET n == next_mblk(xma, b)
       IN  \/ n = xma.end
           \/ /\ n \in DOMAIN xma.blk
              /\ xma.blk[n].prev_size = xma.blk[b].size
              /\ ~ (xma.blk[b].free /\ xma.blk[n].free)
  /\ \A b \in DOMAIN xma.blk \ {0} :
       \E a \in DOMAIN xma.blk : next_mblk(xma, a) = b
  /\ xma.stat =
       [alloc |-> MapThenSumSet(LAMBDA b : xma.blk[b].size, InUse(xma)),
        avail |-> MapThenSumSet(LAMBDA b : xma.blk[b].size, FreeBlocks),
        nused |-> Cardinality(InUse(xma)),
        nfree |-> Cardinality(FreeBlocks)]

(* Every free block is in the chain of its size, once, and nothing else is *)
(* in any chain; the links back are those of the links forth.              *)
ChainsHoldTheFree ==
  /\ \A i \in DOMAIN xma.xfree :
       LET chain == Chain(xma, i)
       IN  /\ ToSet(chain) = {b \in FreeBlocks : getxfi(xma.blk[b].size) = i}
           /\ \A k \in DOMAIN chain :
                /\ xma.blk[chain[k]].free_prev = IF k = 1 THEN NULL ELSE chain[k - 1]
                /\ k = Len(chain) => xma.blk[chain[k]].free_next = NULL
           /\ IsInjective(chain)

(* A large request is refused only if no free block, of any class, is      *)
(* large enough: the search misses none, although it looks only at some of *)
(* the chains.  A small request that finds its own chain empty is served   *)
(* from any large block.                                                   *)
SearchFindsWhatFits ==
  \A n \in Requests :
    LET size == RoundUp(n)
        Suits(b) == /\ xma.blk[b].size >= size
                    /\ \/ getxfi(size) >= FIXED
                       \/ getxfi(xma.blk[b].size) \in {getxfi(size)} \union FIXED..XFIMAX
    IN  Candidate(xma, size) = NULL <=> ~ \E b \in FreeBlocks : Suits(b)

(* The users' view: what they asked for lies in the zone, does not overlap *)
(* and stays theirs until they give it back, whatever else is allocated,   *)
(* freed, resized or refused, and a block moves only when it is resized.   *)
A == INSTANCE Allocator WITH
       end <- xma.end,
       live <- [a \in {b + MBLKHDRSIZE : b \in DOMAIN asked} |-> asked[a - MBLKHDRSIZE]]

ImplementsAllocator == A!Spec

(* The allocator touches no memory beyond the zone it was given.           *)
StaysInTheZone == overruns = {}

=============================================================================
