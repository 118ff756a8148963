--------------------------- MODULE HttpdUrsProofs ---------------------------
(***************************************************************************)
(* The URL rewriting client of lib/http/httpd-std-urs.h, for any number of *)
(* tasks and pending requests, any checksum function, any reuse of         *)
(* sequence numbers and any answers: it never tells a task what was        *)
(* rewritten for a URL with another checksum, its table stays sound, and   *)
(* each call is answered at most once.  The arguments are those of         *)
(* HttpdDnsProofs, with the checksum in place of the name.                 *)
(***************************************************************************)
EXTENDS HttpdUrs, ReqTableProofs

Statuses == {"new", "waiting", "gone", "told", "refused"}

TableInv == PointersTyped /\ AsksFor(UrlOf)

TaskInv ==
  /\ task \in [Tasks -> [status : Statuses, new_url : Sums \union {NULL}]]
  /\ AnswersFitUrls

IInv == TableInv /\ TaskInv

-----------------------------------------------------------------------------
(* The tasks.                                                              *)

(* A task is told nothing, or what fits its URL.                           *)
LEMMA BecomesKeeps ==
  ASSUME TaskInv, NEW t, NEW new_url,
         t \in Tasks => new_url \in {NULL, urlsum(UrlOf[t])},
         NEW status \in Statuses, Becomes(t, status, new_url)
  PROVE  TaskInv'
<1>1. CASE t \notin Tasks
  <2>1. task' = task
    BY <1>1 DEF Becomes, TaskInv
  <2> QED
    BY <2>1 DEF TaskInv, AnswersFitUrls
<1>2. CASE t \in Tasks
  <2>1. new_url \in Sums \union {NULL}
    BY <1>2, UrsAssumption DEF Sums
  <2>2. Task(status, new_url) \in [status : Statuses, new_url : Sums \union {NULL}]
    BY <2>1 DEF Task
  <2>3. task' \in [Tasks -> [status : Statuses, new_url : Sums \union {NULL}]]
    BY <2>2 DEF Becomes, TaskInv
  <2>4. AnswersFitUrls'
    BY <1>2 DEF Becomes, TaskInv, AnswersFitUrls, Task
  <2> QED
    BY <2>3, <2>4 DEF TaskInv
<1> QED
  BY <1>1, <1>2

(* A task that is called back.                                             *)
LEMMA ToldKeeps ==
  ASSUME TaskInv, NEW t, NEW new_url,
         t \in Tasks => new_url \in {NULL, urlsum(UrlOf[t])},
         on_url_rewritten(t, new_url)
  PROVE  TaskInv'
<1> DEFINE told == IF task[t].status = "gone" THEN NULL ELSE new_url
<1>1. Becomes(t, "told", told) /\ (t \in Tasks => told \in {NULL, urlsum(UrlOf[t])})
  BY DEF on_url_rewritten
<1> HIDE DEF told
<1> QED
  BY <1>1, BecomesKeeps DEF Statuses

(* The tasks are left alone.                                               *)
LEMMA TaskSame == ASSUME TaskInv, UNCHANGED task PROVE TaskInv'
  BY DEF TaskInv, AnswersFitUrls

(* The table is left alone.                                                *)
LEMMA TableSame ==
  ASSUME TableInv, UNCHANGED <<seq, reqs, req>> PROVE TableInv'
  BY DEF TableInv, PointersTyped, AsksFor

-----------------------------------------------------------------------------
(* The steps.                                                              *)

(* A request for the task's URL enters the table.                          *)
LEMMA SendAccepted ==
  ASSUME IInv, NEW t \in Tasks, NEW retries \in RetryLimits, Send(t, retries)
  PROVE  IInv'
<1>1. TableInv /\ TaskInv
  BY DEF IInv
<1> DEFINE request == NewRequest(UrlOf[t], t, NextSeq, {}, retries)
<1>2. request \in Request /\ request.ctx = t /\ request.name = UrlOf[t]
  BY <1>1, UrsAssumption, NextSeqInRange, ReqTableAssumption
  DEF NewRequest, Request, TableInv, Pointers
<1>3. PICK r \in Chunks : Link(r, request)
  BY DEF Send
<1>4. seq' = NextSeq /\ Becomes(t, "waiting", NULL)
  BY DEF Send
<1> HIDE DEF request
<1>5. TableInv'
  BY <1>1, <1>2, <1>3, <1>4, LinkKeeps DEF TableInv
<1>6. TaskInv'
  BY <1>1, <1>4, BecomesKeeps DEF Statuses
<1> QED
  BY <1>5, <1>6 DEF IInv

(* A call of urs_send().                                                   *)
LEMMA SendInv == ASSUME IInv, NEW t \in Tasks, urs_send(t) PROVE IInv'
<1>1. TableInv /\ TaskInv
  BY DEF IInv
<1>2. CASE SendRefused(t)
  <2>1. TableInv'
    BY <1>1, <1>2, TableSame DEF SendRefused, table
  <2>2. TaskInv'
    BY <1>1, <1>2, BecomesKeeps DEF SendRefused, Statuses
  <2> QED
    BY <2>1, <2>2 DEF IInv
<1>3. CASE SendFails(t)
  <2>1. TableInv'
    BY <1>1, <1>3, NextSeqInRange DEF SendFails, TableInv, PointersTyped, AsksFor
  <2>2. TaskInv'
    BY <1>1, <1>3, BecomesKeeps DEF SendFails, Statuses
  <2> QED
    BY <2>1, <2>2 DEF IInv
<1> QED
  BY <1>2, <1>3, SendAccepted DEF urs_send

(* A request ends, with what fits its URL or with nothing.                 *)
LEMMA EndInv ==
  ASSUME IInv, NEW r \in Chunks, NEW x, NEW new_url,
         new_url \in {NULL, urlsum(req[r].name)},
         on_url_rewritten(req[r].ctx, new_url),
         Unlink(r, x, [req[r] EXCEPT !.timed = FALSE]), UNCHANGED seq
  PROVE  IInv'
<1>1. TableInv /\ TaskInv
  BY DEF IInv
<1>2. [req[r] EXCEPT !.timed = FALSE] \in Request
  BY <1>1 DEF TableInv, PointersTyped, Request
<1>3. TableInv'
  BY <1>1, <1>2, UnlinkKeeps DEF TableInv
<1>4. req[r].ctx \in Tasks => new_url \in {NULL, urlsum(UrlOf[req[r].ctx])}
  BY <1>1 DEF TableInv, AsksFor
<1>5. TaskInv'
  BY <1>1, <1>4, ToldKeeps
<1> QED
  BY <1>3, <1>5 DEF IInv

(* An answer arrives.                                                      *)
LEMMA RecvInv ==
  ASSUME IInv, NEW s, NEW sum, urs_recv(s, sum) PROVE IInv'
<1>1. PICK r \in Chunks :
        /\ IsFirst(r, xid(s), {q \in Chunks : Matches(q, s, sum)})
        /\ on_url_rewritten(req[r].ctx, sum)
        /\ Unlink(r, xid(s), remove_tmr_tmout(req[r]))
  BY DEF urs_recv
<1>2. sum = urlsum(req[r].name)
  BY <1>1 DEF IsFirst, Matches
<1>3. UNCHANGED seq
  BY DEF urs_recv
<1>4. Unlink(r, xid(s), [req[r] EXCEPT !.timed = FALSE])
  BY <1>1 DEF remove_tmr_tmout
<1> QED
  BY <1>1, <1>2, <1>3, <1>4, EndInv

(* A timer event fires.                                                    *)
LEMMA TmoutInv ==
  ASSUME IInv, NEW r \in Chunks, tmr_urs_tmout_handle(r) PROVE IInv'
<1>1. CASE Resend(r)
  <2>1. TableInv'
    BY <1>1, ResentKeeps DEF Resend, IInv, TableInv
  <2> QED
    BY <1>1, <2>1, TaskSame DEF Resend, IInv
<1>2. CASE GiveUp(r)
  BY <1>2, EndInv DEF GiveUp
<1> QED
  BY <1>1, <1>2 DEF tmr_urs_tmout_handle

(* The loop starts or ends.                                                *)
LEMMA OpenCloseInv == ASSUME IInv, urs_open \/ urs_close PROVE IInv'
<1>1. TableInv /\ TaskInv
  BY DEF IInv
<1>2. CASE urs_open
  <2>1. TableInv'
    BY <1>1, <1>2, ClearedKeeps DEF urs_open, TableInv
  <2> QED
    BY <1>1, <1>2, <2>1, TaskSame DEF urs_open, IInv
<1>3. CASE urs_close
  <2>1. TableInv'
    BY <1>1, <1>3, FreeAllKeeps DEF urs_close, TableInv
  <2>2. TaskInv'
    BY <1>3 DEF urs_close, TaskInv, AnswersFitUrls, NewTask, Task, Statuses
  <2> QED
    BY <2>1, <2>2 DEF IInv
<1> QED
  BY <1>2, <1>3

(* The invariant holds at first.                                           *)
LEMMA InitInv == Init => IInv
<1> SUFFICES ASSUME Init PROVE IInv
  OBVIOUS
<1>1. TableInv
  BY TableInitTyped DEF Init, TableInv
<1>2. TaskInv
  BY DEF Init, TaskInv, AnswersFitUrls, NewTask, Task, Statuses
<1> QED
  BY <1>1, <1>2 DEF IInv

(* Every step keeps the invariant.                                         *)
LEMMA StepInv == IInv /\ [Next]_vars => IInv'
<1> SUFFICES ASSUME IInv, [Next]_vars PROVE IInv'
  OBVIOUS
<1>1. TableInv /\ TaskInv
  BY DEF IInv
<1>2. ASSUME NEW t \in Tasks, NextRequest(t) \/ PurgeIdle(t) PROVE IInv'
  <2>1. TableInv'
    BY <1>1, <1>2, TableSame DEF NextRequest, PurgeIdle, table
  <2>2. TaskInv'
    BY <1>1, <1>2, BecomesKeeps DEF NextRequest, PurgeIdle, Statuses
  <2> QED
    BY <2>1, <2>2 DEF IInv
<1>3. CASE UNCHANGED vars
  BY <1>1, <1>3, TableSame, TaskSame DEF IInv, vars, table
<1> QED
  BY <1>2, <1>3, SendInv, RecvInv, TmoutInv, OpenCloseInv DEF Next

(* Whatever answers arrive, in whatever order and with whatever sequence   *)
(* numbers, a task is told nothing or what was rewritten for a URL with    *)
(* the checksum of its own: urs_recv() compares the checksum.              *)
THEOREM AnswersFit == Spec => []AnswersFitUrls
<1>1. IInv => AnswersFitUrls
  BY DEF IInv, TaskInv
<1> QED
  BY <1>1, InitInv, StepInv, PTL DEF Spec

-----------------------------------------------------------------------------
(* The table and the tasks that wait.                                      *)

WInv == SoundTable /\ OneEach(Askers)

TasksTyped == task \in [Tasks -> [status : Statuses, new_url : Sums \union {NULL}]]

(* What the abstract specification of the callbacks allows a step to do.   *)
Kept == Promise!CallbacksNext \/ CallStatus' = CallStatus

(* What changing one task does to the tasks that wait.                     *)
BecomesEffect(t, status) ==
  LET waits == status \in {"waiting", "gone"}
  IN  /\ Askers' = IF waits THEN Askers \union {t} ELSE Askers \ {t}
      /\ CallStatus' = [CallStatus EXCEPT ![t] = IF waits THEN "waiting" ELSE status]

(* Becomes has this effect.                                                *)
LEMMA BecomesDoes ==
  ASSUME TasksTyped, NEW t \in Tasks, NEW status, NEW new_url, Becomes(t, status, new_url)
  PROVE  BecomesEffect(t, status)
<1>1. /\ task'[t].status = status
      /\ \A u \in Tasks \ {t} : task'[u] = task[u]
  BY DEF TasksTyped, Becomes, Task
<1>2. ASSUME NEW u \in Tasks
      PROVE  u \in Askers' <=>
               IF u = t THEN status \in {"waiting", "gone"} ELSE u \in Askers
  BY <1>1 DEF Askers
<1>3. Askers \subseteq Tasks /\ Askers' \subseteq Tasks
  BY DEF Askers
<1>4. Askers' = IF status \in {"waiting", "gone"} THEN Askers \union {t}
                ELSE Askers \ {t}
  BY <1>2, <1>3
<1> DEFINE s == IF status \in {"waiting", "gone"} THEN "waiting" ELSE status
<1>5. ASSUME NEW u \in Tasks
      PROVE  CallStatus'[u] = IF u = t THEN s ELSE CallStatus[u]
  BY <1>1, <1>2 DEF CallStatus
<1>6. CallStatus' = [CallStatus EXCEPT ![t] = s]
  <2> HIDE DEF s
  <2>1. /\ CallStatus' = [u \in Tasks |-> CallStatus'[u]]
        /\ CallStatus = [u \in Tasks |-> CallStatus[u]]
    BY DEF CallStatus
  <2> QED
    BY <1>5, <2>1
<1> QED
  BY <1>4, <1>6 DEF BecomesEffect

(* The table and the set of tasks that wait are left alone.                *)
LEMMA QuietStep ==
  ASSUME WInv, UNCHANGED <<active, reqs, req, req_count>>, Askers' = Askers
  PROVE  WInv'
<1>1. \A q \in Chunks : SameRequest(q) /\ SamePointers(q)
  BY Untouched
<1>2. SoundTable'
  BY <1>1, SameSound DEF WInv
<1>3. PICK waits : waits = Askers
  OBVIOUS
<1>4. OneEach(waits)'
  BY <1>1, <1>3, SameOneEach DEF WInv
<1>5. OneEach(Askers)'
  BY <1>3, <1>4 DEF OneEach
<1> QED
  BY <1>2, <1>5 DEF WInv

(* A task that does not wait gets another state in which it does not wait. *)
LEMMA NotWaiting ==
  ASSUME TasksTyped, WInv, NEW t \in Tasks, task[t].status \notin {"waiting", "gone"},
         NEW status \in {"new", "told", "refused"}, NEW new_url,
         Becomes(t, status, new_url), UNCHANGED <<active, reqs, req, req_count>>
  PROVE  /\ WInv'
         /\ CallStatus[t] = task[t].status
         /\ CallStatus' = [CallStatus EXCEPT ![t] = status]
<1>1. BecomesEffect(t, status)
  BY BecomesDoes
<1>2. t \notin Askers
  BY DEF Askers
<1>3. Askers' = Askers
  BY <1>1, <1>2 DEF BecomesEffect
<1>4. CallStatus' = [CallStatus EXCEPT ![t] = status]
  BY <1>1 DEF BecomesEffect
<1>5. CallStatus[t] = task[t].status
  BY <1>2 DEF CallStatus
<1> QED
  BY <1>3, <1>4, <1>5, QuietStep

(* A call that is refused or answered before it returns.                   *)
LEMMA ReturnsAtOnce ==
  ASSUME TasksTyped, WInv, NEW t \in Tasks, task[t].status = "new",
         NEW status \in {"told", "refused"}, NEW new_url,
         Becomes(t, status, new_url), UNCHANGED <<active, reqs, req, req_count>>
  PROVE  WInv' /\ Kept
<1>1. /\ WInv'
      /\ CallStatus[t] = "new"
      /\ CallStatus' = [CallStatus EXCEPT ![t] = status]
  BY NotWaiting
<1>2. Promise!AskAndReturn(t)
  BY <1>1 DEF Promise!AskAndReturn
<1> QED
  BY <1>1, <1>2 DEF Kept, Promise!CallbacksNext

(* A request leaves the table and its task is called back.                 *)
LEMMA TellStep ==
  ASSUME TableInv, TasksTyped, WInv, UNCHANGED active,
         NEW x \in Slots, NEW r \in Chunks, Belongs(r, x),
         NEW request \in Request, ~ request.timed, Unlink(r, x, request),
         NEW t, t = req[r].ctx, NEW new_url, on_url_rewritten(t, new_url)
  PROVE  WInv' /\ Kept
<1>1. PointersTyped
  BY DEF TableInv
<1>2. SoundTable' /\ Allocated' = Allocated \ {r} /\ UnlinkEffect(r, x)
  BY <1>1, UnlinkSound DEF WInv
<1>3. r \in Allocated /\ t \in Askers
  BY DEF Belongs, WInv, OneEach
<1>4. t \in Tasks
  BY <1>3 DEF Askers
<1>5. PICK told : Becomes(t, "told", told)
  BY DEF on_url_rewritten
<1>6. BecomesEffect(t, "told")
  BY <1>4, <1>5, BecomesDoes
<1>7. Askers' = Askers \ {t} /\ CallStatus' = [CallStatus EXCEPT ![t] = "told"]
  BY <1>6 DEF BecomesEffect
<1>8. CallStatus[t] = "waiting"
  BY <1>3, <1>4 DEF CallStatus
<1>9. Promise!Tell(t)
  BY <1>7, <1>8 DEF Promise!Tell
<1>10. PICK before, after : before = Askers /\ after = Askers \ {t}
  OBVIOUS
<1>11. OneEach(after)'
  BY <1>2, <1>3, <1>10, UnlinkOneEach DEF WInv
<1>12. OneEach(Askers)'
  BY <1>7, <1>10, <1>11 DEF OneEach
<1> QED
  BY <1>2, <1>4, <1>9, <1>12 DEF WInv, Kept, Promise!CallbacksNext

(* A request is accepted.                                                  *)
LEMMA AskStep ==
  ASSUME IInv, WInv, NEW t \in Tasks, NEW retries \in RetryLimits, Send(t, retries)
  PROVE  WInv' /\ Kept
<1>1. PointersTyped /\ TasksTyped
  BY DEF IInv, TableInv, TaskInv, TasksTyped
<1>2. NewRequest(UrlOf[t], t, NextSeq, {}, retries) \in Request
  BY <1>1, NextSeqInRange, UrsAssumption, ReqTableAssumption
  DEF NewRequest, Request, Pointers
<1>3. PICK request \in Request :
        request = NewRequest(UrlOf[t], t, NextSeq, {}, retries)
  BY <1>2
<1>4. /\ request.prev = NULL /\ request.name # NULL /\ request.timed = TRUE
      /\ request.ctx = t
  BY <1>3, UrsAssumption, ReqTableAssumption DEF NewRequest, NULL
<1>5. PICK r \in Chunks \ Allocated : Link(r, request)
  BY <1>3 DEF Send
<1>6. active /\ ~ Full /\ UNCHANGED active /\ task[t].status = "new"
  BY DEF Send
<1>7. SoundTable' /\ Allocated' = Allocated \union {r} /\ LinkEffect(r, request)
  BY <1>1, <1>4, <1>5, <1>6, LinkSound DEF WInv
<1>8. BecomesEffect(t, "waiting")
  BY <1>1, BecomesDoes DEF Send
<1>9. /\ Askers' = Askers \union {t}
      /\ CallStatus' = [CallStatus EXCEPT ![t] = "waiting"]
  BY <1>8 DEF BecomesEffect
<1>10. t \notin Askers /\ CallStatus[t] = "new"
  BY <1>6 DEF Askers, CallStatus
<1>11. PICK before, after : before = Askers /\ after = Askers \union {t}
  OBVIOUS
<1>12. OneEach(after)'
  BY <1>4, <1>7, <1>10, <1>11, LinkOneEach DEF WInv
<1>13. OneEach(Askers)'
  BY <1>9, <1>11, <1>12 DEF OneEach
<1>14. Promise!Ask(t)
  <2>1. Cardinality(Allocated) = Cardinality(Askers)
    BY <1>1, OneEachMeans DEF WInv
  <2>2. Cardinality(Askers) < COUNTOF_reqs
    BY <1>6, <2>1, AllocatedFinite, ReqTableAssumption DEF Full, WInv, SoundTable, Counted
  <2>3. Promise!Waiting = Askers
    <3>1. \A u \in Tasks : CallStatus[u] = "waiting" <=> u \in Askers
      BY DEF CallStatus, Askers
    <3> QED
      BY <3>1 DEF Promise!Waiting, Askers
  <2>4. Promise!Cardinality(Askers) = Cardinality(Askers)
    BY DEF Promise!Cardinality, Cardinality
  <2> QED
    BY <1>9, <1>10, <2>2, <2>3, <2>4 DEF Promise!Ask
<1> QED
  BY <1>7, <1>13, <1>14 DEF WInv, Kept, Promise!CallbacksNext

(* A call of urs_send().                                                   *)
LEMMA SendStep ==
  ASSUME IInv, WInv, NEW t \in Tasks, urs_send(t) PROVE WInv' /\ Kept
<1>1. TasksTyped
  BY DEF IInv, TaskInv, TasksTyped
<1>2. CASE SendRefused(t)
  BY <1>1, <1>2, ReturnsAtOnce DEF SendRefused, table
<1>3. CASE SendFails(t)
  BY <1>1, <1>3, ReturnsAtOnce DEF SendFails
<1>4. ASSUME NEW retries \in RetryLimits, Send(t, retries) PROVE WInv' /\ Kept
  BY <1>4, AskStep
<1> QED
  BY <1>2, <1>3, <1>4 DEF urs_send

(* A task ends, or its client is purged.                                   *)
LEMMA TaskStep ==
  ASSUME IInv, WInv, NEW t \in Tasks, NextRequest(t) \/ PurgeIdle(t)
  PROVE  WInv' /\ Kept
<1>1. TasksTyped
  BY DEF IInv, TaskInv, TasksTyped
<1>2. UNCHANGED <<active, reqs, req, req_count>>
  BY DEF NextRequest, PurgeIdle, table
<1>3. CASE NextRequest(t)
  <2>1. /\ WInv'
        /\ CallStatus[t] = task[t].status
        /\ CallStatus' = [CallStatus EXCEPT ![t] = "new"]
    BY <1>1, <1>2, <1>3, NotWaiting DEF NextRequest
  <2>2. Promise!Renew(t)
    BY <1>3, <2>1 DEF NextRequest, Promise!Renew
  <2> QED
    BY <2>1, <2>2 DEF Kept, Promise!CallbacksNext
<1>4. CASE PurgeIdle(t)
  <2>1. BecomesEffect(t, "gone")
    BY <1>1, <1>4, BecomesDoes DEF PurgeIdle
  <2>2. t \in Askers
    BY <1>4 DEF PurgeIdle, Askers
  <2>3. Askers' = Askers
    BY <2>1, <2>2 DEF BecomesEffect
  <2>4. CallStatus' = CallStatus
    BY <2>1, <2>2 DEF BecomesEffect, CallStatus
  <2> QED
    BY <1>2, <2>3, <2>4, QuietStep DEF Kept
<1> QED
  BY <1>3, <1>4

(* A request changes in what does not concern the chains.                  *)
LEMMA ChangeStep ==
  ASSUME WInv, UNCHANGED <<active, reqs, req_count, task>>,
         \A q \in Chunks : SameRequest(q) /\ SamePointers(q)
  PROVE  WInv' /\ Kept
<1>1. SoundTable'
  BY SameSound DEF WInv
<1>2. PICK waits : waits = Askers
  OBVIOUS
<1>3. OneEach(waits)'
  BY <1>2, SameOneEach DEF WInv
<1>4. Askers' = Askers
  BY DEF Askers
<1>5. OneEach(Askers)'
  BY <1>2, <1>3, <1>4 DEF OneEach
<1>6. CallStatus' = CallStatus
  BY <1>4 DEF CallStatus
<1> QED
  BY <1>1, <1>5, <1>6 DEF WInv, Kept

(* An answer arrives that fits a request.                                  *)
LEMMA RecvStep ==
  ASSUME IInv, WInv, NEW s \in 0..(SEQ_RANGE_SIZE - 1), NEW sum, urs_recv(s, sum)
  PROVE  WInv' /\ Kept
<1>1. TableInv /\ PointersTyped /\ TasksTyped
  BY DEF IInv, TableInv, TaskInv, TasksTyped
<1>2. PICK x \in Slots : x = xid(s)
  BY XidInRange, ReqTableAssumption
<1>3. PICK r \in Chunks :
        /\ IsFirst(r, xid(s), {q \in Chunks : Matches(q, s, sum)})
        /\ on_url_rewritten(req[r].ctx, sum)
        /\ Unlink(r, xid(s), remove_tmr_tmout(req[r]))
  BY DEF urs_recv
<1>4. Belongs(r, x)
  BY <1>2, <1>3, FirstBelongs DEF WInv
<1>5. PICK request \in Request : request = remove_tmr_tmout(req[r]) /\ ~ request.timed
  BY <1>1, Untimed
<1>6. PICK t : t = req[r].ctx
  OBVIOUS
<1>7. Unlink(r, x, request) /\ on_url_rewritten(t, sum) /\ UNCHANGED active
  BY <1>2, <1>3, <1>5, <1>6 DEF urs_recv
<1> QED
  BY <1>1, <1>4, <1>5, <1>6, <1>7, TellStep

(* A timer event fires.                                                    *)
LEMMA TmoutStep ==
  ASSUME IInv, WInv, NEW r \in Chunks, tmr_urs_tmout_handle(r)
  PROVE  WInv' /\ Kept
<1>1. TableInv /\ PointersTyped /\ TasksTyped
  BY DEF IInv, TableInv, TaskInv, TasksTyped
<1>2. CASE Resend(r)
  <2>1. req \in [Chunks -> Request] /\ \A q \in Chunks : req[q] \in Request
    BY <1>1 DEF PointersTyped
  <2>2. req[r].timed = TRUE
    BY <1>2, <2>1 DEF Resend, Request
  <2>3. req' = [req EXCEPT ![r] = [req[r] EXCEPT !.retries = req[r].retries - 1,
                                                 !.timed = TRUE]]
    BY <1>2, <2>1 DEF Resend, Resent, Request
  <2>4. \A q \in Chunks : SameRequest(q) /\ SamePointers(q)
    BY <2>1, <2>2, <2>3 DEF SameRequest, SamePointers, Request
  <2> QED
    BY <1>2, <2>4, ChangeStep DEF Resend, Resent
<1>3. CASE GiveUp(r)
  <2>1. Belongs(r, xid(req[r].seq)) /\ xid(req[r].seq) \in Slots
    BY <1>1, <1>3, TimedBelongs DEF GiveUp, WInv
  <2>2. PICK x \in Slots : x = xid(req[r].seq)
    BY <2>1
  <2>3. PICK request \in Request :
          request = [req[r] EXCEPT !.timed = FALSE] /\ ~ request.timed
    BY <1>1, Untimed
  <2>4. PICK t : t = req[r].ctx
    OBVIOUS
  <2>5. Unlink(r, x, request) /\ on_url_rewritten(t, NULL) /\ UNCHANGED active
    BY <1>3, <2>2, <2>3, <2>4 DEF GiveUp
  <2>6. Belongs(r, x)
    BY <2>1, <2>2
  <2> QED
    BY <1>1, <2>3, <2>4, <2>5, <2>6, TellStep
<1> QED
  BY <1>2, <1>3 DEF tmr_urs_tmout_handle

(* The loop starts or ends.                                                *)
LEMMA OpenCloseStep ==
  ASSUME IInv, WInv, urs_open \/ urs_close PROVE WInv' /\ Kept
<1>1. PointersTyped
  BY DEF IInv, TableInv
<1>2. CASE urs_open
  <2>1. SoundTable' /\ Allocated' = {} /\ Allocated = {}
    BY <1>2, ClearedSound DEF urs_open, WInv
  <2>2. Askers' = Askers /\ CallStatus' = CallStatus
    BY <1>2 DEF urs_open, Askers, CallStatus
  <2>3. Askers = {}
    BY <2>1 DEF WInv, OneEach
  <2>4. OneEach(Askers)'
    BY <2>1, <2>2, <2>3 DEF OneEach
  <2> QED
    BY <2>1, <2>2, <2>4 DEF WInv, Kept
<1>3. CASE urs_close
  <2>1. SoundTable' /\ Allocated' = {}
    BY <1>1, <1>3, FreeAllSound DEF urs_close, WInv
  <2>2. \A t \in Tasks : task'[t].status = "new"
    BY <1>3 DEF urs_close, NewTask, Task
  <2>3. Askers' = {}
    BY <2>2 DEF Askers
  <2>4. OneEach(Askers)'
    BY <2>1, <2>3 DEF OneEach
  <2>5. Promise!EndAll
    BY <2>2, <2>3 DEF Promise!EndAll, CallStatus
  <2> QED
    BY <2>1, <2>4, <2>5 DEF WInv, Kept, Promise!CallbacksNext
<1> QED
  BY <1>2, <1>3

(* Nobody waits at first.                                                  *)
LEMMA InitWaiters == Init => WInv /\ Promise!CallbacksInit
<1> SUFFICES ASSUME Init PROVE WInv /\ Promise!CallbacksInit
  OBVIOUS
<1>1. SoundTable /\ Allocated = {}
  BY TableInitSound DEF Init
<1>2. \A t \in Tasks : task[t].status = "new"
  BY DEF Init, NewTask, Task
<1>3. Askers = {}
  BY <1>2 DEF Askers
<1>4. OneEach(Askers)
  BY <1>1, <1>3 DEF OneEach
<1>5. Promise!CallbacksInit
  BY <1>2, <1>3 DEF Promise!CallbacksInit, CallStatus
<1> QED
  BY <1>1, <1>4, <1>5 DEF WInv

(* Every step keeps the table sound and the promise.                       *)
LEMMA StepWaiters == IInv /\ WInv /\ [Next]_vars => WInv' /\ Kept
<1> SUFFICES ASSUME IInv, WInv, [Next]_vars PROVE WInv' /\ Kept
  OBVIOUS
<1>1. ASSUME NEW t \in Tasks, urs_send(t) PROVE WInv' /\ Kept
  BY <1>1, SendStep
<1>2. ASSUME NEW t \in Tasks, NextRequest(t) \/ PurgeIdle(t) PROVE WInv' /\ Kept
  BY <1>2, TaskStep
<1>3. ASSUME NEW s \in 0..(SEQ_RANGE_SIZE - 1), NEW sum \in Sums, urs_recv(s, sum)
      PROVE  WInv' /\ Kept
  BY <1>3, RecvStep
<1>4. ASSUME NEW r \in Chunks, tmr_urs_tmout_handle(r) PROVE WInv' /\ Kept
  BY <1>4, TmoutStep
<1>5. CASE UNCHANGED vars
  <2>1. UNCHANGED <<active, reqs, req, req_count, task>>
    BY <1>5 DEF vars, table
  <2> QED
    BY <2>1, Untouched, ChangeStep
<1> QED
  BY <1>1, <1>2, <1>3, <1>4, <1>5, OpenCloseStep DEF Next

(* Both invariants together.                                               *)
LEMMA Invariant == Spec => [](IInv /\ WInv)
  BY InitInv, InitWaiters, StepInv, StepWaiters, PTL DEF Spec

(* The chains stay doubly linked lists that hold the requests, each in the *)
(* chain of its number, the count that limits them is exact, and exactly   *)
(* the pending requests have a timer event: on all of the paths of         *)
(* urs_send(), urs_recv(), tmr_urs_tmout_handle() and urs_close(), for any *)
(* length of the table and any sequence numbers.                           *)
THEOREM TableSound == Spec => []TableIsSound
<1>1. IInv /\ WInv => TableIsSound
  BY SoundMeans DEF IInv, TableInv, WInv
<1> QED
  BY <1>1, Invariant, PTL

(* A task waits if and only if it has a pending request, and then one.     *)
THEOREM WaitersPending == Spec => []WaitersArePending
<1>1. IInv /\ WInv => WaitersArePending
  <2> SUFFICES ASSUME IInv, WInv PROVE WaitersArePending
    OBVIOUS
  <2>1. PointersTyped /\ TasksTyped
    BY DEF IInv, TableInv, TaskInv, TasksTyped
  <2>2. TableTypeOK
    BY <2>1, SoundMeans DEF WInv
  <2>3. OneRequestPerWaiter(Askers)
    BY <2>1, OneEachMeans DEF WInv
  <2> QED
    BY <2>1, <2>2, <2>3 DEF WaitersArePending, TypeOK, TasksTyped, Statuses
<1> QED
  BY <1>1, Invariant, PTL

(* Every call of qse_httpd_rewriteurl() is refused, answered at once or   *)
(* accepted, and an accepted one is answered at most once, with no more    *)
(* than the limit outstanding.  That it is answered in the end is left to  *)
(* the run.                                                                *)
THEOREM KeepsPromise == Spec => Promise!CallbacksSafety
<1>1. Spec => [][Promise!CallbacksNext]_CallStatus
  <2>1. IInv /\ WInv /\ [Next]_vars => [Promise!CallbacksNext]_CallStatus
    BY StepWaiters DEF Kept
  <2> QED
    BY <2>1, Invariant, PTL DEF Spec
<1>2. Spec => Promise!CallbacksInit
  BY InitWaiters DEF Spec
<1> QED
  BY <1>1, <1>2 DEF Promise!CallbacksSafety
=============================================================================
