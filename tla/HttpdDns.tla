------------------------------ MODULE HttpdDns ------------------------------
(***************************************************************************)
(* The DNS client of the standard HTTP server, lib/http/httpd-std-dns.h,   *)
(* with the proxy tasks of lib/http/httpd-proxy.c that use it.             *)
(*                                                                         *)
(* A request asks for the A and the AAAA records of a name, with two ids   *)
(* derived from one sequence number.  The network may lose, delay and      *)
(* repeat answers: an answer to any question with any id may arrive at any *)
(* time, since sequence numbers wrap around and answers to long forgotten  *)
(* questions can be late.  Time is abstract: a timer event may fire at any *)
(* time.                                                                   *)
(*                                                                         *)
(* The callback, on_peer_name_resolved(), notes the result in its task and *)
(* makes its triggers active again.  It does not call back into the DNS    *)
(* client, so that each handler is one step.                               *)
(***************************************************************************)
EXTENDS ReqTable

CONSTANTS
  QueryFlags,  \* the values of dns_server->flags: which queries to send
  PeerName     \* the name of the peer each task asks for

ASSUME HttpdDnsAssumption ==
  /\ QueryFlags \subseteq SUBSET {"A", "AAAA"}
  /\ PeerName \in [Tasks -> Names]
  /\ {"none", "nx"} \intersect Names = {}

VARIABLES
  cache,  \* dc->anss: the answer kept for each name
  task    \* the proxy tasks

vars == <<active, table, cache, task>>

-----------------------------------------------------------------------------
(* The proxy tasks.  A task asks once (PROXY_PEER_NAME_RESOLVING), for the *)
(* name of its peer, and is told an address or that there is none.  The    *)
(* address of a name is represented by the name.                           *)

Task(status, nwad) == [status |-> status, nwad |-> nwad]

NewTask == Task("new", NULL)

(* The tasks whose request is pending, the ones that are gone included.    *)
Askers == {t \in Tasks : task[t].status \in {"waiting", "gone"}}

Becomes(t, status, nwad) == task' = [task EXCEPT ![t] = Task(status, nwad)]

(* Called for a task that is gone it writes to freed memory, where nobody  *)
(* looks for the address.                                                  *)
on_peer_name_resolved(t, nwad) ==
  Becomes(t, "told", IF task[t].status = "gone" THEN NULL ELSE nwad)

(* The request ends and another one needs a name.                          *)
NextRequest(t) ==
  /\ task[t].status \in {"told", "refused"}
  /\ Becomes(t, "new", NULL)
  /\ UNCHANGED <<active, table, cache>>

(* The client of a waiting task is purged by its idle timer, and the task  *)
(* with it.  Nothing tells the DNS client.                                 *)
PurgeIdle(t) ==
  /\ task[t].status = "waiting"
  /\ Becomes(t, "gone", NULL)
  /\ UNCHANGED <<active, table, cache>>

-----------------------------------------------------------------------------
(* The cache.                                                              *)

(* A resolved request becomes the answer kept for its name.                *)
dns_cache_answer(name, answer) == cache' = [cache EXCEPT ![name] = answer]

(* An entry whose time is up is evicted when it is looked up.              *)
CacheMiss(name, expired) == cache[name] = "none" \/ expired

Evict(name) == cache' = [cache EXCEPT ![name] = "none"]

-----------------------------------------------------------------------------
(* Asking.                                                                 *)

(* qse_httpd_resolvename() without a DNS client.                           *)
NoDns(t) ==
  /\ task[t].status = "new"
  /\ ~ active
  /\ Becomes(t, "refused", NULL)
  /\ UNCHANGED <<active, table, cache>>

SendFromCache(t, name) ==
  /\ active /\ task[t].status = "new"
  /\ ~ CacheMiss(name, FALSE)
  /\ Becomes(t, "told", IF cache[name] = "nx" THEN NULL ELSE cache[name])
  /\ UNCHANGED <<active, table, cache>>

SendRefused(t, name, expired) ==
  /\ active /\ task[t].status = "new"
  /\ CacheMiss(name, expired)
  /\ Full
  /\ Evict(name)
  /\ Becomes(t, "refused", NULL)
  /\ UNCHANGED <<active, table>>

(* No memory, an invalid name, no timer event, or a query that cannot be   *)
(* sent: the request is undone, but its sequence number is used up.        *)
SendFails(t, name, expired) ==
  /\ active /\ task[t].status = "new"
  /\ CacheMiss(name, expired)
  /\ ~ Full
  /\ seq' = NextSeq
  /\ Evict(name)
  /\ Becomes(t, "refused", NULL)
  /\ UNCHANGED <<active, reqs, req, req_count>>

(* Both queries are sent, or sending fails with EAGAIN and there are       *)
(* retries left.  A query that is not wanted counts as answered.           *)
Send(t, name, expired, queries, retries) ==
  /\ active /\ task[t].status = "new"
  /\ CacheMiss(name, expired)
  /\ ~ Full
  /\ \E r \in Chunks \ Allocated :
       /\ r = CHOOSE q \in Chunks : q \notin Allocated
       /\ Link(r, NewRequest(name, t, NextSeq, {"A", "AAAA"} \ queries, retries))
  /\ seq' = NextSeq
  /\ Evict(name)
  /\ Becomes(t, "waiting", NULL)
  /\ UNCHANGED active

dns_send(t, name) ==
  \/ NoDns(t)
  \/ SendFromCache(t, name)
  \/ \E expired \in BOOLEAN :
       \/ SendRefused(t, name, expired)
       \/ SendFails(t, name, expired)
       \/ \E queries \in QueryFlags, retries \in RetryLimits :
            Send(t, name, expired, queries, retries)

-----------------------------------------------------------------------------
(* Answers.                                                                *)

seqa(r) == req[r].seq

seqaaaa(r) == req[r].seq + SEQ_RANGE_SIZE

xid_of_answer(id) ==
  xid(IF id >= SEQ_RANGE_SIZE THEN id - SEQ_RANGE_SIZE ELSE id)

(* Mutant: the name in the answer is not compared.                         *)
Matches_IdOnly(r, id, name) == id \in {seqa(r), seqaaaa(r)}

Matches(r, id, name) == id \in {seqa(r), seqaaaa(r)} /\ req[r].name = name

(* The first request of the chain with the id and the name of the answer.  *)
Matching(r, id, name) ==
  IsFirst(r, xid_of_answer(id), {q \in Chunks : Matches(q, id, name)})

Resolved(r, id, answer, nwad) ==
  /\ on_peer_name_resolved(req[r].ctx, nwad)
  /\ Unlink(r, xid_of_answer(id), remove_tmr_tmout(req[r]))
  /\ dns_cache_answer(req[r].name, answer)
  /\ UNCHANGED <<active, seq>>

(* The answer has a record with an address.                                *)
RecvAddress(id, name) ==
  /\ active
  /\ \E r \in Chunks : Matching(r, id, name) /\ Resolved(r, id, name, name)

FlagOf(r, id) == IF id = seqa(r) THEN "A" ELSE "AAAA"

(* The answer has records, but no address among them.  Answers with an     *)
(* error code or without records, and malformed ones, are ignored.         *)
RecvNothing(id, name) ==
  /\ active
  /\ \E r \in Chunks :
       LET flags == req[r].flags \union {FlagOf(r, id)}
       IN  /\ Matching(r, id, name)
           /\ IF flags = {"A", "AAAA"}
              THEN Resolved(r, id, "nx", NULL)
              ELSE /\ req' = [req EXCEPT ![r].flags = flags]
                   /\ UNCHANGED <<active, seq, reqs, req_count, cache, task>>

-----------------------------------------------------------------------------
(* Time-outs.  The timer event has been removed when its handler runs.     *)

(* The queries still unanswered are sent again.  A failure counts as sent  *)
(* if retries > 1 and httpd->errnum happens to be EAGAIN (sendto() failing *)
(* here does not set it).                                                  *)
Resend(r) ==
  /\ req[r].timed
  /\ req[r].retries > 0
  /\ Resent(r)
  /\ UNCHANGED <<active, cache, task>>

(* Mutant: the task is not called back.                                    *)
GiveUp_Silently(r) ==
  /\ req[r].timed
  /\ Unlink(r, xid(seqa(r)), [req[r] EXCEPT !.timed = FALSE])
  /\ UNCHANGED <<active, seq, cache, task>>

(* No retries left, or sending or inserting the timer event failed.        *)
GiveUp(r) ==
  /\ req[r].timed
  /\ Unlink(r, xid(seqa(r)), [req[r] EXCEPT !.timed = FALSE])
  /\ on_peer_name_resolved(req[r].ctx, NULL)
  /\ UNCHANGED <<active, seq, cache>>

tmr_dns_tmout_handle(r) == Resend(r) \/ GiveUp(r)

-----------------------------------------------------------------------------
(* The loop starts, and ends: clients and their tasks are purged first,    *)
(* then the DNS client is closed.                                          *)

dns_open ==
  /\ ~ active
  /\ active' = TRUE
  /\ Cleared
  /\ cache' = [n \in Names |-> "none"]
  /\ UNCHANGED <<req, task>>

dns_close ==
  /\ active
  /\ active' = FALSE
  /\ FreeAll
  /\ task' = [t \in Tasks |-> NewTask]
  /\ cache' = [n \in Names |-> "none"]
  /\ UNCHANGED seq

Init ==
  /\ TableInit
  /\ cache = [n \in Names |-> "none"]
  /\ task = [t \in Tasks |-> NewTask]

Ids == 0..(2 * SEQ_RANGE_SIZE - 1)

Next ==
  \/ \E t \in Tasks : dns_send(t, PeerName[t])
  \/ \E t \in Tasks : NextRequest(t) \/ PurgeIdle(t)
  \/ \E id \in Ids, n \in Names : RecvAddress(id, n) \/ RecvNothing(id, n)
  \/ \E r \in Chunks : tmr_dns_tmout_handle(r)
  \/ dns_open
  \/ dns_close

(* The loop polls with a time-out that the earliest timer event bounds and *)
(* fires what is due on every iteration, so each timer event fires in the  *)
(* end.  Nothing is assumed of the network.                                *)
Fairness == \A r \in Chunks : WF_vars(tmr_dns_tmout_handle(r))

Spec == Init /\ [][Next]_vars /\ Fairness

-----------------------------------------------------------------------------
(* Properties.                                                             *)

TypeOK ==
  /\ TableTypeOK
  /\ cache \in [Names -> Names \union {"none", "nx"}]
  /\ task \in [Tasks -> [status : {"new", "waiting", "told", "refused", "gone"},
                         nwad : Names \union {NULL}]]

(* Every task that has asked and has not been told has exactly one pending *)
(* request, and no request is pending for any other, at the limit of the   *)
(* table too and when sending one of the two queries fails.                *)
WaitersArePending == TypeOK /\ OneRequestPerWaiter(Askers)

(* A task and the cache only ever get the address of the name that was     *)
(* asked for, although ids are reused and old answers may arrive for them. *)
AnswersFitNames ==
  /\ \A n \in Names : cache[n] \in {"none", "nx", n}
  /\ \A t \in Tasks : task[t].nwad \in {NULL, PeerName[t]}

(* The callback of a request finds its task waiting, as the assertions at  *)
(* the head of on_peer_name_resolved() say.                                *)
CalledBackWaiting ==
  [][\A t \in Tasks :
       task[t].status # "told" /\ task'[t].status = "told"
         => task[t].status \in {"new", "waiting"}]_vars

(* What the callers see of their calls.                                    *)
CallStatus ==
  [t \in Tasks |-> IF t \in Askers THEN "waiting" ELSE task[t].status]

Promise == INSTANCE Callbacks WITH Limit <- COUNTOF_reqs, status <- CallStatus

(* Every call of qse_httpd_resolvename() is refused or answered exactly    *)
(* once, and an accepted one is answered in the end, whatever the network  *)
(* does and even if the caller has gone.                                   *)
ImplementsCallbacks == Promise!CallbacksSpec
=============================================================================
