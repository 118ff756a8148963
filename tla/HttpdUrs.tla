------------------------------ MODULE HttpdUrs ------------------------------
(***************************************************************************)
(* The URL rewriting client of the standard HTTP server,                   *)
(* lib/http/httpd-std-urs.h, with the proxy tasks that use it.             *)
(*                                                                         *)
(* It keeps the table of requests of ReqTable as the DNS client does, but  *)
(* has one question per request and no cache.  An answer carries the       *)
(* sequence number and the checksum of the URL of its request.  The        *)
(* network and time are those of HttpdDns.                                 *)
(***************************************************************************)
EXTENDS ReqTable

CONSTANTS
  urlsum(_),  \* hash_string(): the checksum of a URL
  UrlOf       \* the URL that a task has to have rewritten

ASSUME UrsAssumption == UrlOf \in [Tasks -> Names]

VARIABLE
  task  \* the proxy tasks

vars == <<active, table, task>>

-----------------------------------------------------------------------------
(* The proxy tasks.  The rewritten URL is represented by the checksum that *)
(* came with it, NULL being a failure.                                     *)

Task(status, new_url) == [status |-> status, new_url |-> new_url]

NewTask == Task("new", NULL)

(* The tasks whose request is pending, the ones that are gone included.    *)
Askers == {t \in Tasks : task[t].status \in {"waiting", "gone"}}

Becomes(t, status, new_url) == task' = [task EXCEPT ![t] = Task(status, new_url)]

(* Called for a task that is gone it writes to freed memory, where nobody  *)
(* looks for the URL.                                                      *)
on_url_rewritten(t, new_url) ==
  Becomes(t, "told", IF task[t].status = "gone" THEN NULL ELSE new_url)

NextRequest(t) ==
  /\ task[t].status \in {"told", "refused"}
  /\ Becomes(t, "new", NULL)
  /\ UNCHANGED <<active, table>>

(* The client of a waiting task is purged by its idle timer, and the task  *)
(* with it.  Nothing tells the URL rewriting client.                       *)
PurgeIdle(t) ==
  /\ task[t].status = "waiting"
  /\ Becomes(t, "gone", NULL)
  /\ UNCHANGED <<active, table>>

-----------------------------------------------------------------------------
(* Asking.                                                                 *)

(* No URL rewriting client, too many requests, or too long a URL.          *)
SendRefused(t) ==
  /\ task[t].status = "new"
  /\ Becomes(t, "refused", NULL)
  /\ UNCHANGED <<active, table>>

(* No memory, no server, no timer event, or the packet cannot be sent: the *)
(* request is undone, but its sequence number is used up.                  *)
SendFails(t) ==
  /\ active /\ task[t].status = "new"
  /\ ~ Full
  /\ seq' = NextSeq
  /\ Becomes(t, "refused", NULL)
  /\ UNCHANGED <<active, reqs, req, req_count>>

(* The packet is sent, or fails with EAGAIN and there are retries left.    *)
Send(t, retries) ==
  /\ active /\ task[t].status = "new"
  /\ ~ Full
  /\ \E r \in Chunks \ Allocated :
       /\ r = CHOOSE q \in Chunks : q \notin Allocated
       /\ Link(r, NewRequest(UrlOf[t], t, NextSeq, {}, retries))
  /\ seq' = NextSeq
  /\ Becomes(t, "waiting", NULL)
  /\ UNCHANGED active

urs_send(t) ==
  \/ SendRefused(t)
  \/ SendFails(t)
  \/ \E retries \in RetryLimits : Send(t, retries)

-----------------------------------------------------------------------------
(* Answers.                                                                *)

(* Mutant: the checksum is not compared.                                   *)
Matches_SeqOnly(r, s, sum) == req[r].seq = s

Matches(r, s, sum) == req[r].seq = s /\ urlsum(req[r].name) = sum

(* The first request of the chain with the number and the checksum of the  *)
(* answer; an answer that fits none is ignored.                            *)
urs_recv(s, sum) ==
  /\ active
  /\ \E r \in Chunks :
       /\ IsFirst(r, xid(s), {q \in Chunks : Matches(q, s, sum)})
       /\ on_url_rewritten(req[r].ctx, sum)
       /\ Unlink(r, xid(s), remove_tmr_tmout(req[r]))
  /\ UNCHANGED <<active, seq>>

-----------------------------------------------------------------------------
(* Time-outs.  The timer event has been removed when its handler runs.     *)

(* Sending succeeds, or fails with EAGAIN when there is a retry to spare.  *)
Resend(r) ==
  /\ req[r].timed
  /\ req[r].retries > 0
  /\ Resent(r)
  /\ UNCHANGED <<active, task>>

(* Mutant: the task is not called back.                                    *)
GiveUp_Silently(r) ==
  /\ req[r].timed
  /\ Unlink(r, xid(req[r].seq), [req[r] EXCEPT !.timed = FALSE])
  /\ UNCHANGED <<active, seq, task>>

(* No retries left, or sending or inserting the timer event failed.        *)
GiveUp(r) ==
  /\ req[r].timed
  /\ Unlink(r, xid(req[r].seq), [req[r] EXCEPT !.timed = FALSE])
  /\ on_url_rewritten(req[r].ctx, NULL)
  /\ UNCHANGED <<active, seq>>

tmr_urs_tmout_handle(r) == Resend(r) \/ GiveUp(r)

-----------------------------------------------------------------------------
urs_open ==
  /\ ~ active
  /\ active' = TRUE
  /\ Cleared
  /\ UNCHANGED <<req, task>>

(* The loop ends: the tasks have been purged with their clients.           *)
urs_close ==
  /\ active
  /\ active' = FALSE
  /\ FreeAll
  /\ task' = [t \in Tasks |-> NewTask]
  /\ UNCHANGED seq

Init ==
  /\ TableInit
  /\ task = [t \in Tasks |-> NewTask]

Sums == {urlsum(u) : u \in Names}

Next ==
  \/ \E t \in Tasks : urs_send(t)
  \/ \E t \in Tasks : NextRequest(t) \/ PurgeIdle(t)
  \/ \E s \in 0..(SEQ_RANGE_SIZE - 1), sum \in Sums : urs_recv(s, sum)
  \/ \E r \in Chunks : tmr_urs_tmout_handle(r)
  \/ urs_open
  \/ urs_close

(* As in HttpdDns: timer events fire in the end, the network owes nothing. *)
Fairness == \A r \in Chunks : WF_vars(tmr_urs_tmout_handle(r))

Spec == Init /\ [][Next]_vars /\ Fairness

-----------------------------------------------------------------------------
(* Properties.                                                             *)

TypeOK ==
  /\ TableTypeOK
  /\ task \in [Tasks -> [status : {"new", "waiting", "gone", "told", "refused"},
                         new_url : Sums \union {NULL}]]

(* Every task that has asked and has not been told has exactly one pending *)
(* request, and no request is pending for any other, at the limit of the   *)
(* table too, when sending fails and after the task is gone.               *)
WaitersArePending == TypeOK /\ OneRequestPerWaiter(Askers)

(* A task is only told what was rewritten for a URL with the checksum of   *)
(* its own, although sequence numbers are reused while old answers may     *)
(* still arrive.                                                           *)
AnswersFitUrls ==
  \A t \in Tasks : task[t].new_url \in {NULL, urlsum(UrlOf[t])}

(* What the callers see of their calls.                                    *)
CallStatus ==
  [t \in Tasks |-> IF t \in Askers THEN "waiting" ELSE task[t].status]

Promise == INSTANCE Callbacks WITH Limit <- COUNTOF_reqs, status <- CallStatus

(* Every call of qse_httpd_rewriteurl() is refused or answered exactly     *)
(* once, and an accepted one is answered in the end, even if the caller    *)
(* has gone.                                                               *)
ImplementsCallbacks == Promise!CallbacksSpec
=============================================================================
