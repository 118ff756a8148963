------------------------------ MODULE ReqTable ------------------------------
(***************************************************************************)
(* The table of pending requests that the DNS client                       *)
(* (lib/http/httpd-std-dns.h) and the URL rewriting client                 *)
(* (lib/http/httpd-std-urs.h) of the standard HTTP server both keep: an    *)
(* array of doubly linked chains, indexed by the request's sequence number *)
(* modulo the length of the array, a count of the requests in it, a        *)
(* counter of sequence numbers that wraps around, and one timer event per  *)
(* request.                                                                *)
(*                                                                         *)
(* Requests are chunks of memory linked by pointers, as in the code; the   *)
(* modules that use the table add what is sent and received.               *)
(***************************************************************************)
EXTENDS Naturals, FiniteSets, SequencesExt

CONSTANTS
  Chunks,          \* memory for requests
  Tasks,           \* the contexts that requests are made for
  Names,           \* what is asked about: domain names, or URLs
  COUNTOF_reqs,    \* QSE_COUNTOF(dc->reqs), also the limit on req_count
  SEQ_RANGE_SIZE,  \* DNS_SEQ_RANGE_SIZE or URS_SEQ_RANGE_SIZE
  RetryLimits      \* the values the retries option may have

ASSUME ReqTableAssumption ==
  /\ IsFiniteSet(Chunks) /\ IsFiniteSet(Tasks)
  /\ COUNTOF_reqs \in Nat \ {0}
  /\ SEQ_RANGE_SIZE \in Nat /\ COUNTOF_reqs < SEQ_RANGE_SIZE
  /\ RetryLimits \subseteq Nat
  /\ "NULL" \notin Chunks \union Tasks \union Names

VARIABLES
  active,     \* httpd->dnsactive or httpd->ursactive
  seq,        \* dc->seq
  reqs,       \* dc->reqs: the head of each chain
  req,        \* the contents of each chunk
  req_count   \* dc->req_count

table == <<seq, reqs, req, req_count>>

NULL == "NULL"

(* A chunk that is not allocated.  In an allocated one `name' is set.      *)
FreeChunk ==
  [name |-> NULL, ctx |-> NULL, seq |-> 0, flags |-> {}, retries |-> 0,
   timed |-> FALSE, next |-> NULL, prev |-> NULL]

Allocated == {r \in Chunks : req[r].name # NULL}

(* A request with its timer event inserted, not yet in the table.          *)
NewRequest(name, ctx, s, flags, retries) ==
  [name |-> name, ctx |-> ctx, seq |-> s, flags |-> flags, retries |-> retries,
   timed |-> TRUE, next |-> NULL, prev |-> NULL]

xid(s) == s % COUNTOF_reqs

NextSeq == (seq + 1) % SEQ_RANGE_SIZE

-----------------------------------------------------------------------------
(* The chains.                                                             *)

(* The first n requests one meets from r on.                               *)
Walk[n \in 0..Cardinality(Chunks)] ==
  [r \in Chunks \union {NULL} |->
     IF n = 0 \/ r = NULL THEN <<>> ELSE <<r>> \o Walk[n - 1][req[r].next]]

Chain(x) == Walk[Cardinality(Chunks)][reqs[x]]

(* Going through chain x one meets r before any other one of the set.      *)
IsFirst(r, x, matching) ==
  \E i \in 1..Len(Chain(x)) :
    /\ Chain(x)[i] = r /\ r \in matching
    /\ \A j \in 1..(i - 1) : Chain(x)[j] \notin matching

Slots == 0..(COUNTOF_reqs - 1)

Pending == UNION {ToSet(Chain(x)) : x \in Slots}

Full == req_count >= COUNTOF_reqs

(* Put the request, at chunk r, in front of its chain.                     *)
Link(r, request) ==
  LET x == xid(request.seq)
      old == reqs[x]
  IN  /\ reqs' = [reqs EXCEPT ![x] = r]
      /\ req' = [q \in Chunks |->
                   IF q = r THEN [request EXCEPT !.next = old]
                   ELSE IF q = old THEN [req[q] EXCEPT !.prev = r]
                   ELSE req[q]]
      /\ req_count' = req_count + 1

(* Mutant: the timer event stays.                                          *)
remove_tmr_tmout_Forgets(request) == request

(* Remove the request's timer event, if there is one.                      *)
remove_tmr_tmout(request) == [request EXCEPT !.timed = FALSE]

(* A chunk is freed with the request it holds.  A timer event left behind  *)
(* would still refer to it.                                                *)
Freed(request) == [FreeChunk EXCEPT !.timed = request.timed]

(* Mutant: only the next pointers are mended.                              *)
Unlink_NextOnly(r, x, request) ==
  LET first == r = reqs[x]
  IN  /\ reqs' = IF first THEN [reqs EXCEPT ![x] = req[r].next] ELSE reqs
      /\ req' = [q \in Chunks |->
                   IF q = r THEN Freed(request)
                   ELSE [req[q] EXCEPT
                           !.next = IF ~ first /\ q = req[r].prev
                                    THEN req[r].next ELSE @]]
      /\ req_count' = req_count - 1

(* Take the request at chunk r out of chain x, and free it as it is now.   *)
Unlink(r, x, request) ==
  LET first == r = reqs[x]
  IN  /\ reqs' = IF first THEN [reqs EXCEPT ![x] = req[r].next] ELSE reqs
      /\ req' = [q \in Chunks |->
                   IF q = r THEN Freed(request)
                   ELSE [req[q] EXCEPT
                           !.next = IF ~ first /\ q = req[r].prev
                                    THEN req[r].next ELSE @,
                           !.prev = IF q = req[r].next
                                    THEN req[r].prev ELSE @]]
      /\ req_count' = req_count - 1

(* Mutant: the timer event is not put back.                                *)
Resent_Untimed(r) ==
  /\ req' = [req EXCEPT ![r].retries = @ - 1, ![r].timed = FALSE]
  /\ UNCHANGED <<seq, reqs, req_count>>

(* The request at chunk r has been sent again and its timer event has been *)
(* put back.                                                               *)
Resent(r) ==
  /\ req' = [req EXCEPT ![r].retries = @ - 1, ![r].timed = TRUE]
  /\ UNCHANGED <<seq, reqs, req_count>>

(* Free every request of every chain, with its timer event.                *)
FreeAll ==
  /\ reqs' = [x \in Slots |-> NULL]
  /\ req' = [r \in Chunks |->
               IF r \in Pending THEN Freed(remove_tmr_tmout(req[r])) ELSE req[r]]
  /\ req_count' = req_count - Cardinality(Pending)

(* The context is allocated cleared.                                       *)
Cleared ==
  /\ seq' = 0
  /\ reqs' = [x \in Slots |-> NULL]
  /\ req_count' = 0

TableInit ==
  /\ active = FALSE
  /\ seq = 0
  /\ reqs = [x \in Slots |-> NULL]
  /\ req = [r \in Chunks |-> FreeChunk]
  /\ req_count = 0

-----------------------------------------------------------------------------
(* Properties of the table, checked for both clients.                      *)

Pointers == Chunks \union {NULL}

(* What a chunk may hold.                                                  *)
Request ==
  [name : Names \union {NULL}, ctx : Tasks \union {NULL},
   seq : 0..(SEQ_RANGE_SIZE - 1), flags : SUBSET {"A", "AAAA"},
   retries : Nat, timed : BOOLEAN, next : Pointers, prev : Pointers]

PointersTyped ==
  /\ seq \in 0..(SEQ_RANGE_SIZE - 1)
  /\ reqs \in [Slots -> Pointers]
  /\ req \in [Chunks -> Request]

TableTypeOK ==
  /\ active \in BOOLEAN
  /\ PointersTyped
  /\ req_count \in 0..COUNTOF_reqs

(* Every chain is a doubly linked list without cycles whose members have   *)
(* sequence numbers of that chain, no request is in two chains, and no     *)
(* allocated request is outside of all chains.  Requests leave from the    *)
(* front, the middle and the end of a chain, by their sequence number when *)
(* they time out and by the answer's id when they are answered.            *)
ChainsAreSound ==
  /\ \A x \in Slots :
       LET c == Chain(x)
       IN  \A i \in 1..Len(c) :
             /\ xid(req[c[i]].seq) = x
             /\ req[c[i]].prev = IF i = 1 THEN NULL ELSE c[i - 1]
             /\ i = Len(c) => req[c[i]].next = NULL
  /\ Pending = Allocated

(* The chains are sound.  The count of pending requests, which decides     *)
(* whether another one is accepted and which must be 0 when all chains     *)
(* have been freed, is exact.  Exactly the pending requests have a timer   *)
(* event: without one a request could wait for ever, and an event that     *)
(* outlives its request would fire on freed memory and break the assertion *)
(* that the loop ends without timer events.                                *)
TableIsSound ==
  /\ TableTypeOK
  /\ ChainsAreSound
  /\ req_count = Cardinality(Pending)
  /\ {r \in Chunks : req[r].timed} = Pending

(* Every pending request is for a task that waits, and every waiting task  *)
(* has one pending request, whatever `waits' says waiting is.              *)
OneRequestPerWaiter(waits) ==
  /\ {req[r].ctx : r \in Pending} = waits
  /\ Cardinality(Pending) = Cardinality(waits)
=============================================================================
