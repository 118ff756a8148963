--------------------------- MODULE HttpdDnsProofs ---------------------------
(***************************************************************************)
(* The DNS client of lib/http/httpd-std-dns.h, for any number of tasks,    *)
(* names and pending requests, any reuse of ids and any answers.           *)
(*                                                                         *)
(* It never gives a task or its cache the address of another name.  The    *)
(* argument rests on the name that dns_recv() compares and on the requests *)
(* keeping the name of their task, AsksFor(PeerName).                      *)
(*                                                                         *)
(* Its table stays sound, a task waits if and only if it has a pending     *)
(* request, and each call is answered at most once.  The argument rests on *)
(* the shape of the chains, SoundTable, and on the requests being for      *)
(* different tasks, OneEach(Askers).                                       *)
(***************************************************************************)
EXTENDS HttpdDns, ReqTableProofs

TasksTyped ==
  task \in [Tasks -> [status : {"new", "waiting", "told", "refused", "gone"},
                      nwad : Names \union {NULL}]]

CacheTyped == cache \in [Names -> Names \union {"none", "nx"}]

TableInv == PointersTyped /\ AsksFor(PeerName)

TaskInv == TasksTyped /\ \A t \in Tasks : task[t].nwad \in {NULL, PeerName[t]}

CacheInv == CacheTyped /\ \A n \in Names : cache[n] \in {"none", "nx", n}

IInv == TableInv /\ TaskInv /\ CacheInv

-----------------------------------------------------------------------------
(* The tasks.                                                              *)

(* A task is told nothing, or the address of its peer.                     *)
LEMMA BecomesKeeps ==
  ASSUME TaskInv, NEW t, NEW nwad,
         t \in Tasks => nwad \in {NULL, PeerName[t]},
         NEW status \in {"new", "waiting", "told", "refused", "gone"},
         Becomes(t, status, nwad)
  PROVE  TaskInv'
<1>1. CASE t \notin Tasks
  <2>1. task' = task
    BY <1>1 DEF Becomes, TaskInv, TasksTyped
  <2> QED
    BY <2>1 DEF TaskInv, TasksTyped
<1>2. CASE t \in Tasks
  <2>1. nwad \in Names \union {NULL}
    BY <1>2, HttpdDnsAssumption
  <2>2. Task(status, nwad) \in
          [status : {"new", "waiting", "told", "refused", "gone"},
           nwad : Names \union {NULL}]
    BY <2>1 DEF Task
  <2>3. TasksTyped'
    BY <2>2 DEF Becomes, TaskInv, TasksTyped
  <2>4. \A u \in Tasks : task'[u].nwad \in {NULL, PeerName[u]}
    BY <1>2 DEF Becomes, TaskInv, TasksTyped, Task
  <2> QED
    BY <2>3, <2>4 DEF TaskInv
<1> QED
  BY <1>1, <1>2

(* A task that is called back.                                             *)
LEMMA ToldKeeps ==
  ASSUME TaskInv, NEW t, NEW nwad,
         t \in Tasks => nwad \in {NULL, PeerName[t]},
         on_peer_name_resolved(t, nwad)
  PROVE  TaskInv'
<1> DEFINE told == IF task[t].status = "gone" THEN NULL ELSE nwad
<1>1. Becomes(t, "told", told) /\ (t \in Tasks => told \in {NULL, PeerName[t]})
  BY DEF on_peer_name_resolved
<1> HIDE DEF told
<1> QED
  BY <1>1, BecomesKeeps

-----------------------------------------------------------------------------
(* The cache.                                                              *)

(* The cache keeps an answer for the name that it is about.                *)
LEMMA CachedKeeps ==
  ASSUME CacheInv, NEW n \in Names, NEW answer \in {"none", "nx", n},
         cache' = [cache EXCEPT ![n] = answer]
  PROVE  CacheInv'
  BY DEF CacheInv, CacheTyped

(* An entry is evicted.                                                    *)
LEMMA EvictKeeps == ASSUME CacheInv, NEW n \in Names, Evict(n) PROVE CacheInv'
  BY CachedKeeps DEF Evict

-----------------------------------------------------------------------------
(* The steps.                                                              *)

(* The table is left alone.                                                *)
LEMMA TableSame ==
  ASSUME TableInv, UNCHANGED <<seq, reqs, req>> PROVE TableInv'
  BY DEF TableInv, PointersTyped, AsksFor

(* The sequence number is used up.                                         *)
LEMMA TableCounts ==
  ASSUME TableInv, seq' = NextSeq, UNCHANGED <<reqs, req>> PROVE TableInv'
  BY NextSeqInRange DEF TableInv, PointersTyped, AsksFor

(* The cache is left alone.                                                *)
LEMMA CacheSame == ASSUME CacheInv, UNCHANGED cache PROVE CacheInv'
  BY DEF CacheInv, CacheTyped

(* The tasks are left alone.                                               *)
LEMMA TaskSame == ASSUME TaskInv, UNCHANGED task PROVE TaskInv'
  BY DEF TaskInv, TasksTyped

(* A request for the name of the task's peer enters the table.             *)
LEMMA SendAccepted ==
  ASSUME IInv, NEW t \in Tasks, NEW name, name = PeerName[t],
         NEW expired, NEW queries \in QueryFlags, NEW retries \in RetryLimits,
         Send(t, name, expired, queries, retries)
  PROVE  IInv'
<1>1. TableInv /\ TaskInv /\ CacheInv
  BY DEF IInv
<1>2. name \in Names
  BY HttpdDnsAssumption
<1> DEFINE request ==
             NewRequest(name, t, NextSeq, {"A", "AAAA"} \ queries, retries)
<1>3. request \in Request /\ request.ctx = t /\ request.name = name
  BY <1>1, <1>2, NextSeqInRange, ReqTableAssumption
  DEF NewRequest, Request, TableInv, Pointers
<1>4. PICK r \in Chunks : Link(r, request)
  BY DEF Send
<1>5. seq' = NextSeq /\ Evict(name) /\ Becomes(t, "waiting", NULL)
  BY DEF Send
<1> HIDE DEF request
<1>6. TableInv'
  BY <1>1, <1>3, <1>4, <1>5, LinkKeeps DEF TableInv
<1>7. TaskInv'
  BY <1>1, <1>5, BecomesKeeps
<1>8. CacheInv'
  BY <1>1, <1>2, <1>5, EvictKeeps
<1> QED
  BY <1>6, <1>7, <1>8 DEF IInv

(* A call of dns_send() for the name of the task's peer.                   *)
LEMMA SendInv ==
  ASSUME IInv, NEW t \in Tasks, NEW name, name = PeerName[t], dns_send(t, name)
  PROVE  IInv'
<1>1. TableInv /\ TaskInv /\ CacheInv
  BY DEF IInv
<1>2. name \in Names
  BY HttpdDnsAssumption
<1>3. CASE NoDns(t)
  <2>1. TableInv' /\ CacheInv'
    BY <1>1, <1>3, TableSame, CacheSame DEF NoDns, table
  <2>2. TaskInv'
    BY <1>1, <1>3, BecomesKeeps DEF NoDns
  <2> QED
    BY <2>1, <2>2 DEF IInv
<1>4. CASE SendFromCache(t, name)
  <2>1. TableInv' /\ CacheInv'
    BY <1>1, <1>4, TableSame, CacheSame DEF SendFromCache, table
  <2> DEFINE nwad == IF cache[name] = "nx" THEN NULL ELSE cache[name]
  <2>2. Becomes(t, "told", nwad)
    BY <1>4 DEF SendFromCache
  <2>3. nwad \in {NULL, PeerName[t]}
    BY <1>1, <1>2, <1>4 DEF SendFromCache, CacheMiss, CacheInv
  <2> HIDE DEF nwad
  <2>4. TaskInv'
    BY <1>1, <2>2, <2>3, BecomesKeeps
  <2> QED
    BY <2>1, <2>4 DEF IInv
<1>5. ASSUME NEW expired \in BOOLEAN, SendRefused(t, name, expired)
      PROVE  IInv'
  <2>1. TableInv'
    BY <1>1, <1>5, TableSame DEF SendRefused, table
  <2>2. TaskInv'
    BY <1>1, <1>5, BecomesKeeps DEF SendRefused
  <2>3. CacheInv'
    BY <1>1, <1>2, <1>5, EvictKeeps DEF SendRefused
  <2> QED
    BY <2>1, <2>2, <2>3 DEF IInv
<1>6. ASSUME NEW expired \in BOOLEAN, SendFails(t, name, expired)
      PROVE  IInv'
  <2>1. TableInv'
    BY <1>1, <1>6, TableCounts DEF SendFails
  <2>2. TaskInv'
    BY <1>1, <1>6, BecomesKeeps DEF SendFails
  <2>3. CacheInv'
    BY <1>1, <1>2, <1>6, EvictKeeps DEF SendFails
  <2> QED
    BY <2>1, <2>2, <2>3 DEF IInv
<1> QED
  BY <1>3, <1>4, <1>5, <1>6, SendAccepted DEF dns_send

(* A request is resolved with the address of its name, or without one.     *)
LEMMA ResolvedInv ==
  ASSUME IInv, NEW r \in Chunks, NEW id, NEW answer, NEW nwad,
         req[r].name \in Names,
         answer \in {"nx", req[r].name}, nwad \in {NULL, req[r].name},
         Resolved(r, id, answer, nwad)
  PROVE  IInv'
<1>1. TableInv /\ TaskInv /\ CacheInv
  BY DEF IInv
<1>2. req[r] \in Request
  BY <1>1 DEF TableInv, PointersTyped
<1>3. remove_tmr_tmout(req[r]) \in Request
  BY <1>2 DEF remove_tmr_tmout, Request
<1>4. TableInv'
  <2>1. Unlink(r, xid_of_answer(id), remove_tmr_tmout(req[r])) /\ UNCHANGED seq
    BY DEF Resolved
  <2> QED
    BY <1>1, <1>3, <2>1, UnlinkKeeps DEF TableInv
<1>5. TaskInv'
  <2>1. req[r].ctx \in Tasks => nwad \in {NULL, PeerName[req[r].ctx]}
    BY <1>1 DEF TableInv, AsksFor
  <2>2. on_peer_name_resolved(req[r].ctx, nwad)
    BY DEF Resolved
  <2> QED
    BY <1>1, <2>1, <2>2, ToldKeeps
<1>6. CacheInv'
  BY <1>1, CachedKeeps DEF Resolved, dns_cache_answer
<1> QED
  BY <1>4, <1>5, <1>6 DEF IInv

(* A request that matches an answer is for the name in the answer.         *)
LEMMA MatchingName ==
  ASSUME NEW r \in Chunks, NEW id, NEW name, Matching(r, id, name)
  PROVE  req[r].name = name
  BY DEF Matching, IsFirst, Matches

(* An answer arrives.                                                      *)
LEMMA RecvInv ==
  ASSUME IInv, NEW id \in Ids, NEW name \in Names,
         RecvAddress(id, name) \/ RecvNothing(id, name)
  PROVE  IInv'
<1>1. CASE RecvAddress(id, name)
  BY <1>1, MatchingName, ResolvedInv DEF RecvAddress
<1>2. CASE RecvNothing(id, name)
  <2> DEFINE flags(r) == req[r].flags \union {FlagOf(r, id)}
  <2>1. PICK r \in Chunks :
          /\ Matching(r, id, name)
          /\ \/ Resolved(r, id, "nx", NULL)
             \/ /\ req' = [req EXCEPT ![r].flags = flags(r)]
                /\ UNCHANGED <<active, seq, reqs, req_count, cache, task>>
    BY <1>2 DEF RecvNothing
  <2>2. CASE Resolved(r, id, "nx", NULL)
    BY <2>1, <2>2, MatchingName, ResolvedInv
  <2>3. CASE /\ req' = [req EXCEPT ![r].flags = flags(r)]
             /\ UNCHANGED <<active, seq, reqs, req_count, cache, task>>
    <3>1. TableInv /\ TaskInv /\ CacheInv
      BY DEF IInv
    <3>2. \A q \in Chunks : req[q] \in Request
      BY <3>1 DEF TableInv, PointersTyped
    <3>3. flags(r) \in SUBSET {"A", "AAAA"}
      BY <3>2 DEF Request, FlagOf
    <3> HIDE DEF flags
    <3>4. [req[r] EXCEPT !.flags = flags(r)] \in Request
      BY <3>2, <3>3 DEF Request
    <3>5. PointersTyped'
      BY <2>3, <3>1, <3>4 DEF TableInv, PointersTyped
    <3>6. \A q \in Chunks : KeepsQuestion(q)
      BY <2>3, <3>1, <3>2 DEF KeepsQuestion, TableInv, PointersTyped, Request
    <3>7. TableInv'
      BY <3>1, <3>5, <3>6, KeepsAsksFor DEF TableInv
    <3> QED
      BY <2>3, <3>1, <3>7, TaskSame, CacheSame DEF IInv
  <2> QED
    BY <2>1, <2>2, <2>3
<1> QED
  BY <1>1, <1>2

(* A timer event fires.                                                    *)
LEMMA TmoutInv ==
  ASSUME IInv, NEW r \in Chunks, tmr_dns_tmout_handle(r) PROVE IInv'
<1>1. TableInv /\ TaskInv /\ CacheInv
  BY DEF IInv
<1>2. CASE Resend(r)
  <2>1. TableInv'
    BY <1>1, <1>2, ResentKeeps DEF Resend, TableInv
  <2> QED
    BY <1>1, <1>2, <2>1, TaskSame, CacheSame DEF IInv, Resend
<1>3. CASE GiveUp(r)
  <2>1. [req[r] EXCEPT !.timed = FALSE] \in Request
    BY <1>1 DEF TableInv, PointersTyped, Request
  <2>2. Unlink(r, xid(seqa(r)), [req[r] EXCEPT !.timed = FALSE]) /\ UNCHANGED seq
    BY <1>3 DEF GiveUp
  <2>3. TableInv'
    BY <1>1, <2>1, <2>2, UnlinkKeeps DEF TableInv
  <2>4. TaskInv'
    BY <1>1, <1>3, ToldKeeps DEF GiveUp
  <2>5. CacheInv'
    BY <1>1, <1>3, CacheSame DEF GiveUp
  <2> QED
    BY <2>3, <2>4, <2>5 DEF IInv
<1> QED
  BY <1>2, <1>3 DEF tmr_dns_tmout_handle

(* The tasks and the cache of a loop that starts or has ended.             *)
LEMMA Afresh ==
  /\ task' = [t \in Tasks |-> NewTask] => TaskInv'
  /\ cache' = [n \in Names |-> "none"] => CacheInv'
  BY DEF TaskInv, TasksTyped, CacheInv, CacheTyped, NewTask, Task

(* The loop starts or ends.                                                *)
LEMMA OpenCloseInv == ASSUME IInv, dns_open \/ dns_close PROVE IInv'
<1>1. TableInv /\ TaskInv /\ CacheInv
  BY DEF IInv
<1>2. CASE dns_open
  <2>1. TableInv'
    BY <1>1, <1>2, ClearedKeeps DEF dns_open, TableInv
  <2> QED
    BY <1>1, <1>2, <2>1, TaskSame, Afresh DEF IInv, dns_open
<1>3. CASE dns_close
  <2>1. TableInv'
    BY <1>1, <1>3, FreeAllKeeps DEF dns_close, TableInv
  <2> QED
    BY <1>3, <2>1, Afresh DEF IInv, dns_close
<1> QED
  BY <1>2, <1>3

(* The invariant holds at first.                                           *)
LEMMA InitInv == Init => IInv
<1> SUFFICES ASSUME Init PROVE IInv
  OBVIOUS
<1>1. TableInv
  BY TableInitTyped DEF Init, TableInv
<1>2. TaskInv /\ CacheInv
  BY DEF Init, TaskInv, TasksTyped, CacheInv, CacheTyped, NewTask, Task
<1> QED
  BY <1>1, <1>2 DEF IInv

(* Every step keeps the invariant.                                         *)
LEMMA StepInv == IInv /\ [Next]_vars => IInv'
<1> SUFFICES ASSUME IInv, [Next]_vars PROVE IInv'
  OBVIOUS
<1>1. TableInv /\ TaskInv /\ CacheInv
  BY DEF IInv
<1>2. ASSUME NEW t \in Tasks, dns_send(t, PeerName[t]) PROVE IInv'
  BY <1>2, SendInv
<1>3. ASSUME NEW t \in Tasks, NextRequest(t) \/ PurgeIdle(t) PROVE IInv'
  <2>1. TableInv' /\ CacheInv'
    BY <1>1, <1>3, TableSame, CacheSame DEF NextRequest, PurgeIdle, table
  <2>2. TaskInv'
    BY <1>1, <1>3, BecomesKeeps DEF NextRequest, PurgeIdle
  <2> QED
    BY <2>1, <2>2 DEF IInv
<1>4. ASSUME NEW id \in Ids, NEW n \in Names, RecvAddress(id, n) \/ RecvNothing(id, n)
      PROVE  IInv'
  BY <1>4, RecvInv
<1>5. ASSUME NEW r \in Chunks, tmr_dns_tmout_handle(r) PROVE IInv'
  BY <1>5, TmoutInv
<1>6. CASE UNCHANGED vars
  BY <1>1, <1>6, TableSame, TaskSame, CacheSame DEF IInv, vars, table
<1> QED
  BY <1>2, <1>3, <1>4, <1>5, <1>6, OpenCloseInv DEF Next

(* Whatever answers arrive, in whatever order and for whatever ids, a task *)
(* is told the address of the name it asked for or none, and the cache     *)
(* holds no other answer for a name: dns_recv() compares the name.         *)
THEOREM AnswersFit == Spec => []AnswersFitNames
<1>1. IInv => AnswersFitNames
  BY DEF IInv, TaskInv, CacheInv, AnswersFitNames
<1> QED
  BY <1>1, InitInv, StepInv, PTL DEF Spec

-----------------------------------------------------------------------------
(* The table and the tasks that wait.                                      *)

WInv == SoundTable /\ OneEach(Askers)

(* What the abstract specification of the callbacks allows a step to do.   *)
Kept == Promise!CallbacksNext \/ CallStatus' = CallStatus

(* What changing one task does to the tasks that wait.                     *)
BecomesEffect(t, status) ==
  LET waits == status \in {"waiting", "gone"}
  IN  /\ Askers' = IF waits THEN Askers \union {t} ELSE Askers \ {t}
      /\ CallStatus' = [CallStatus EXCEPT ![t] = IF waits THEN "waiting" ELSE status]

(* Becomes has this effect.                                                *)
LEMMA BecomesDoes ==
  ASSUME TasksTyped, NEW t \in Tasks, NEW status, NEW nwad, Becomes(t, status, nwad)
  PROVE  BecomesEffect(t, status)
<1>1. /\ task'[t].status = status
      /\ \A u \in Tasks \ {t} : task'[u] = task[u]
  BY DEF TasksTyped, Becomes, Task
<1>2. ASSUME NEW u \in Tasks
      PROVE  u \in Askers' <=>
               IF u = t THEN status \in {"waiting", "gone"} ELSE u \in Askers
  BY <1>1 DEF Askers
<1>3. Askers \subseteq Tasks /\ Askers' \subseteq Tasks
  BY DEF Askers
<1>4. Askers' = IF status \in {"waiting", "gone"} THEN Askers \union {t}
                ELSE Askers \ {t}
  BY <1>2, <1>3
<1> DEFINE s == IF status \in {"waiting", "gone"} THEN "waiting" ELSE status
<1>5. ASSUME NEW u \in Tasks
      PROVE  CallStatus'[u] = IF u = t THEN s ELSE CallStatus[u]
  BY <1>1, <1>2 DEF CallStatus
<1>6. CallStatus' = [CallStatus EXCEPT ![t] = s]
  <2> HIDE DEF s
  <2>1. /\ CallStatus' = [u \in Tasks |-> CallStatus'[u]]
        /\ CallStatus = [u \in Tasks |-> CallStatus[u]]
    BY DEF CallStatus
  <2> QED
    BY <1>5, <2>1
<1> QED
  BY <1>4, <1>6 DEF BecomesEffect

(* The table and the set of tasks that wait are left alone.                *)
LEMMA QuietStep ==
  ASSUME WInv, UNCHANGED <<active, reqs, req, req_count>>, Askers' = Askers
  PROVE  WInv'
<1>1. \A q \in Chunks : SameRequest(q) /\ SamePointers(q)
  BY Untouched
<1>2. SoundTable'
  BY <1>1, SameSound DEF WInv
<1>3. PICK waits : waits = Askers
  OBVIOUS
<1>4. OneEach(waits)'
  BY <1>1, <1>3, SameOneEach DEF WInv
<1>5. OneEach(Askers)'
  BY <1>3, <1>4 DEF OneEach
<1> QED
  BY <1>2, <1>5 DEF WInv

(* A task that does not wait gets another state in which it does not wait. *)
LEMMA NotWaiting ==
  ASSUME TasksTyped, WInv, NEW t \in Tasks, task[t].status \notin {"waiting", "gone"},
         NEW status \in {"new", "told", "refused"}, NEW nwad,
         Becomes(t, status, nwad), UNCHANGED <<active, reqs, req, req_count>>
  PROVE  /\ WInv'
         /\ CallStatus[t] = task[t].status
         /\ CallStatus' = [CallStatus EXCEPT ![t] = status]
<1>1. BecomesEffect(t, status)
  BY BecomesDoes
<1>2. t \notin Askers
  BY DEF Askers
<1>3. Askers' = Askers
  BY <1>1, <1>2 DEF BecomesEffect
<1>4. CallStatus' = [CallStatus EXCEPT ![t] = status]
  BY <1>1 DEF BecomesEffect
<1>5. CallStatus[t] = task[t].status
  BY <1>2 DEF CallStatus
<1> QED
  BY <1>3, <1>4, <1>5, QuietStep

(* A call that is refused or answered before it returns.                   *)
LEMMA ReturnsAtOnce ==
  ASSUME TasksTyped, WInv, NEW t \in Tasks, task[t].status = "new",
         NEW status \in {"told", "refused"}, NEW nwad,
         Becomes(t, status, nwad), UNCHANGED <<active, reqs, req, req_count>>
  PROVE  WInv' /\ Kept
<1>1. /\ WInv'
      /\ CallStatus[t] = "new"
      /\ CallStatus' = [CallStatus EXCEPT ![t] = status]
  BY NotWaiting
<1>2. Promise!AskAndReturn(t)
  BY <1>1 DEF Promise!AskAndReturn
<1> QED
  BY <1>1, <1>2 DEF Kept, Promise!CallbacksNext

(* A request leaves the table and its task is called back.                 *)
LEMMA TellStep ==
  ASSUME TableInv, TasksTyped, WInv, UNCHANGED active,
         NEW x \in Slots, NEW r \in Chunks, Belongs(r, x),
         NEW request \in Request, ~ request.timed, Unlink(r, x, request),
         NEW t, t = req[r].ctx, NEW nwad, on_peer_name_resolved(t, nwad)
  PROVE  WInv' /\ Kept
<1>1. PointersTyped
  BY DEF TableInv
<1>2. SoundTable' /\ Allocated' = Allocated \ {r} /\ UnlinkEffect(r, x)
  BY <1>1, UnlinkSound DEF WInv
<1>3. r \in Allocated /\ t \in Askers
  BY DEF Belongs, WInv, OneEach
<1>4. t \in Tasks
  BY <1>3 DEF Askers
<1>5. PICK told : Becomes(t, "told", told)
  BY DEF on_peer_name_resolved
<1>6. BecomesEffect(t, "told")
  BY <1>4, <1>5, BecomesDoes
<1>7. Askers' = Askers \ {t} /\ CallStatus' = [CallStatus EXCEPT ![t] = "told"]
  BY <1>6 DEF BecomesEffect
<1>8. CallStatus[t] = "waiting"
  BY <1>3, <1>4 DEF CallStatus
<1>9. Promise!Tell(t)
  BY <1>7, <1>8 DEF Promise!Tell
<1>10. PICK before, after : before = Askers /\ after = Askers \ {t}
  OBVIOUS
<1>11. OneEach(after)'
  BY <1>2, <1>3, <1>10, UnlinkOneEach DEF WInv
<1>12. OneEach(Askers)'
  BY <1>7, <1>10, <1>11 DEF OneEach
<1> QED
  BY <1>2, <1>4, <1>9, <1>12 DEF WInv, Kept, Promise!CallbacksNext

(* A request is accepted.                                                  *)
LEMMA AskStep ==
  ASSUME IInv, WInv, NEW t \in Tasks, NEW name \in Names,
         NEW expired, NEW queries \in QueryFlags, NEW retries \in RetryLimits,
         Send(t, name, expired, queries, retries)
  PROVE  WInv' /\ Kept
<1>1. PointersTyped /\ TasksTyped
  BY DEF IInv, TableInv, TaskInv
<1>2. NewRequest(name, t, NextSeq, {"A", "AAAA"} \ queries, retries) \in Request
  BY <1>1, NextSeqInRange, ReqTableAssumption DEF NewRequest, Request, Pointers
<1>3. PICK request \in Request :
        request = NewRequest(name, t, NextSeq, {"A", "AAAA"} \ queries, retries)
  BY <1>2
<1>4. /\ request.prev = NULL /\ request.name # NULL /\ request.timed = TRUE
      /\ request.ctx = t
  BY <1>3, ReqTableAssumption DEF NewRequest, NULL
<1>5. PICK r \in Chunks \ Allocated : Link(r, request)
  BY <1>3 DEF Send
<1>6. active /\ ~ Full /\ UNCHANGED active /\ task[t].status = "new"
  BY DEF Send
<1>7. SoundTable' /\ Allocated' = Allocated \union {r} /\ LinkEffect(r, request)
  BY <1>1, <1>4, <1>5, <1>6, LinkSound DEF WInv
<1>8. BecomesEffect(t, "waiting")
  BY <1>1, BecomesDoes DEF Send
<1>9. /\ Askers' = Askers \union {t}
      /\ CallStatus' = [CallStatus EXCEPT ![t] = "waiting"]
  BY <1>8 DEF BecomesEffect
<1>10. t \notin Askers /\ CallStatus[t] = "new"
  BY <1>6 DEF Askers, CallStatus
<1>11. PICK before, after : before = Askers /\ after = Askers \union {t}
  OBVIOUS
<1>12. OneEach(after)'
  BY <1>4, <1>7, <1>10, <1>11, LinkOneEach DEF WInv
<1>13. OneEach(Askers)'
  BY <1>9, <1>11, <1>12 DEF OneEach
<1>14. Promise!Ask(t)
  <2>1. Cardinality(Allocated) = Cardinality(Askers)
    BY <1>1, OneEachMeans DEF WInv
  <2>2. Cardinality(Askers) < COUNTOF_reqs
    BY <1>6, <2>1, AllocatedFinite, ReqTableAssumption DEF Full, WInv, SoundTable, Counted
  <2>3. Promise!Waiting = Askers
    <3>1. \A u \in Tasks : CallStatus[u] = "waiting" <=> u \in Askers
      BY DEF CallStatus, Askers
    <3> QED
      BY <3>1 DEF Promise!Waiting, Askers
  <2>4. Promise!Cardinality(Askers) = Cardinality(Askers)
    BY DEF Promise!Cardinality, Cardinality
  <2> QED
    BY <1>9, <1>10, <2>2, <2>3, <2>4 DEF Promise!Ask
<1> QED
  BY <1>7, <1>13, <1>14 DEF WInv, Kept, Promise!CallbacksNext

(* A call of dns_send().                                                   *)
LEMMA SendStep ==
  ASSUME IInv, WInv, NEW t \in Tasks, NEW name \in Names, dns_send(t, name)
  PROVE  WInv' /\ Kept
<1>1. TasksTyped
  BY DEF IInv, TaskInv
<1>2. CASE NoDns(t)
  BY <1>1, <1>2, ReturnsAtOnce DEF NoDns, table
<1>3. CASE SendFromCache(t, name)
  BY <1>1, <1>3, ReturnsAtOnce DEF SendFromCache, table
<1>4. ASSUME NEW expired \in BOOLEAN, SendRefused(t, name, expired)
      PROVE  WInv' /\ Kept
  BY <1>1, <1>4, ReturnsAtOnce DEF SendRefused, table
<1>5. ASSUME NEW expired \in BOOLEAN, SendFails(t, name, expired)
      PROVE  WInv' /\ Kept
  BY <1>1, <1>5, ReturnsAtOnce DEF SendFails
<1>6. ASSUME NEW expired \in BOOLEAN, NEW queries \in QueryFlags,
             NEW retries \in RetryLimits,
             Send(t, name, expired, queries, retries)
      PROVE  WInv' /\ Kept
  BY <1>6, AskStep
<1> QED
  BY <1>2, <1>3, <1>4, <1>5, <1>6 DEF dns_send

(* A task ends, or its client is purged.                                   *)
LEMMA TaskStep ==
  ASSUME IInv, WInv, NEW t \in Tasks, NextRequest(t) \/ PurgeIdle(t)
  PROVE  WInv' /\ Kept
<1>1. TasksTyped
  BY DEF IInv, TaskInv
<1>2. UNCHANGED <<active, reqs, req, req_count>>
  BY DEF NextRequest, PurgeIdle, table
<1>3. CASE NextRequest(t)
  <2>1. /\ WInv'
        /\ CallStatus[t] = task[t].status
        /\ CallStatus' = [CallStatus EXCEPT ![t] = "new"]
    BY <1>1, <1>2, <1>3, NotWaiting DEF NextRequest
  <2>2. Promise!Renew(t)
    BY <1>3, <2>1 DEF NextRequest, Promise!Renew
  <2> QED
    BY <2>1, <2>2 DEF Kept, Promise!CallbacksNext
<1>4. CASE PurgeIdle(t)
  <2>1. BecomesEffect(t, "gone")
    BY <1>1, <1>4, BecomesDoes DEF PurgeIdle
  <2>2. t \in Askers
    BY <1>4 DEF PurgeIdle, Askers
  <2>3. Askers' = Askers
    BY <2>1, <2>2 DEF BecomesEffect
  <2>4. CallStatus' = CallStatus
    BY <2>1, <2>2 DEF BecomesEffect, CallStatus
  <2> QED
    BY <1>2, <2>3, <2>4, QuietStep DEF Kept
<1> QED
  BY <1>3, <1>4

(* A request changes in what does not concern the chains.                  *)
LEMMA ChangeStep ==
  ASSUME WInv, UNCHANGED <<active, reqs, req_count, task>>,
         \A q \in Chunks : SameRequest(q) /\ SamePointers(q)
  PROVE  WInv' /\ Kept
<1>1. SoundTable'
  BY SameSound DEF WInv
<1>2. PICK waits : waits = Askers
  OBVIOUS
<1>3. OneEach(waits)'
  BY <1>2, SameOneEach DEF WInv
<1>4. Askers' = Askers
  BY DEF Askers
<1>5. OneEach(Askers)'
  BY <1>2, <1>3, <1>4 DEF OneEach
<1>6. CallStatus' = CallStatus
  BY <1>4 DEF CallStatus
<1> QED
  BY <1>1, <1>5, <1>6 DEF WInv, Kept

(* An answer that ends the request it matches.                             *)
LEMMA ResolvedStep ==
  ASSUME IInv, WInv, NEW id \in Ids, NEW name \in Names, NEW r \in Chunks,
         Matching(r, id, name), NEW answer, NEW nwad, Resolved(r, id, answer, nwad)
  PROVE  WInv' /\ Kept
<1>1. TableInv /\ PointersTyped /\ TasksTyped
  BY DEF IInv, TableInv, TaskInv
<1>2. xid_of_answer(id) \in Slots
  BY XidInRange, ReqTableAssumption DEF xid_of_answer, Ids
<1>3. PICK x \in Slots : x = xid_of_answer(id)
  BY <1>2
<1>4. Belongs(r, x)
  BY <1>3, FirstBelongs DEF Matching, WInv
<1>5. PICK request \in Request : request = remove_tmr_tmout(req[r]) /\ ~ request.timed
  BY <1>1, Untimed
<1>6. PICK t : t = req[r].ctx
  OBVIOUS
<1>7. Unlink(r, x, request) /\ on_peer_name_resolved(t, nwad) /\ UNCHANGED active
  BY <1>3, <1>5, <1>6 DEF Resolved
<1> QED
  BY <1>1, <1>4, <1>5, <1>6, <1>7, TellStep

(* An answer with an address, or with none.                                *)
LEMMA RecvStep ==
  ASSUME IInv, WInv, NEW id \in Ids, NEW name \in Names,
         RecvAddress(id, name) \/ RecvNothing(id, name)
  PROVE  WInv' /\ Kept
<1>1. CASE RecvAddress(id, name)
  BY <1>1, ResolvedStep DEF RecvAddress
<1>2. CASE RecvNothing(id, name)
  <2>0. PICK r \in Chunks : \E flags :
          /\ Matching(r, id, name)
          /\ \/ Resolved(r, id, "nx", NULL)
             \/ /\ req' = [req EXCEPT ![r].flags = flags]
                /\ UNCHANGED <<active, seq, reqs, req_count, cache, task>>
    BY <1>2 DEF RecvNothing
  <2>1. PICK flags :
          /\ Matching(r, id, name)
          /\ \/ Resolved(r, id, "nx", NULL)
             \/ /\ req' = [req EXCEPT ![r].flags = flags]
                /\ UNCHANGED <<active, seq, reqs, req_count, cache, task>>
    BY <2>0
  <2>2. CASE Resolved(r, id, "nx", NULL)
    BY <2>1, <2>2, ResolvedStep
  <2>3. CASE /\ req' = [req EXCEPT ![r].flags = flags]
             /\ UNCHANGED <<active, seq, reqs, req_count, cache, task>>
    <3>1. \A q \in Chunks : req[q] \in Request
      BY DEF IInv, TableInv, PointersTyped
    <3>2. req \in [Chunks -> Request]
      BY DEF IInv, TableInv, PointersTyped
    <3>3. \A q \in Chunks : SameRequest(q) /\ SamePointers(q)
      BY <2>3, <3>1, <3>2 DEF SameRequest, SamePointers, Request
    <3> QED
      BY <2>3, <3>3, ChangeStep
  <2> QED
    BY <2>1, <2>2, <2>3
<1> QED
  BY <1>1, <1>2

(* A timer event fires.                                                    *)
LEMMA TmoutStep ==
  ASSUME IInv, WInv, NEW r \in Chunks, tmr_dns_tmout_handle(r)
  PROVE  WInv' /\ Kept
<1>1. TableInv /\ PointersTyped /\ TasksTyped
  BY DEF IInv, TableInv, TaskInv
<1>2. CASE Resend(r)
  <2>1. req \in [Chunks -> Request] /\ \A q \in Chunks : req[q] \in Request
    BY <1>1 DEF PointersTyped
  <2>2. req[r].timed = TRUE
    BY <1>2, <2>1 DEF Resend, Request
  <2>3. req' = [req EXCEPT ![r] = [req[r] EXCEPT !.retries = req[r].retries - 1,
                                                 !.timed = TRUE]]
    BY <1>2, <2>1 DEF Resend, Resent, Request
  <2>4. \A q \in Chunks : SameRequest(q) /\ SamePointers(q)
    BY <2>1, <2>2, <2>3 DEF SameRequest, SamePointers, Request
  <2> QED
    BY <1>2, <2>4, ChangeStep DEF Resend, Resent
<1>3. CASE GiveUp(r)
  <2>1. Belongs(r, xid(req[r].seq)) /\ xid(req[r].seq) \in Slots
    BY <1>1, <1>3, TimedBelongs DEF GiveUp, WInv
  <2>2. PICK x \in Slots : x = xid(req[r].seq)
    BY <2>1
  <2>3. PICK request \in Request :
          request = [req[r] EXCEPT !.timed = FALSE] /\ ~ request.timed
    BY <1>1, Untimed
  <2>4. PICK t : t = req[r].ctx
    OBVIOUS
  <2>5. Unlink(r, x, request) /\ on_peer_name_resolved(t, NULL) /\ UNCHANGED active
    BY <1>3, <2>2, <2>3, <2>4 DEF GiveUp, seqa
  <2>6. Belongs(r, x)
    BY <2>1, <2>2
  <2> QED
    BY <1>1, <2>3, <2>4, <2>5, <2>6, TellStep
<1> QED
  BY <1>2, <1>3 DEF tmr_dns_tmout_handle

(* The loop starts or ends.                                                *)
LEMMA OpenCloseStep ==
  ASSUME IInv, WInv, dns_open \/ dns_close PROVE WInv' /\ Kept
<1>1. PointersTyped
  BY DEF IInv, TableInv
<1>2. CASE dns_open
  <2>1. SoundTable' /\ Allocated' = {} /\ Allocated = {}
    BY <1>2, ClearedSound DEF dns_open, WInv
  <2>2. Askers' = Askers /\ CallStatus' = CallStatus
    BY <1>2 DEF dns_open, Askers, CallStatus
  <2>3. Askers = {}
    BY <2>1 DEF WInv, OneEach
  <2>4. OneEach(Askers)'
    BY <2>1, <2>2, <2>3 DEF OneEach
  <2> QED
    BY <2>1, <2>2, <2>4 DEF WInv, Kept
<1>3. CASE dns_close
  <2>1. SoundTable' /\ Allocated' = {}
    BY <1>1, <1>3, FreeAllSound DEF dns_close, WInv
  <2>2. \A t \in Tasks : task'[t].status = "new"
    BY <1>3 DEF dns_close, NewTask, Task
  <2>3. Askers' = {}
    BY <2>2 DEF Askers
  <2>4. OneEach(Askers)'
    BY <2>1, <2>3 DEF OneEach
  <2>5. Promise!EndAll
    BY <2>2, <2>3 DEF Promise!EndAll, CallStatus
  <2> QED
    BY <2>1, <2>4, <2>5 DEF WInv, Kept, Promise!CallbacksNext
<1> QED
  BY <1>2, <1>3

(* Nobody waits at first.                                                  *)
LEMMA InitWaiters == Init => WInv /\ Promise!CallbacksInit
<1> SUFFICES ASSUME Init PROVE WInv /\ Promise!CallbacksInit
  OBVIOUS
<1>1. SoundTable /\ Allocated = {}
  BY TableInitSound DEF Init
<1>2. \A t \in Tasks : task[t].status = "new"
  BY DEF Init, NewTask, Task
<1>3. Askers = {}
  BY <1>2 DEF Askers
<1>4. OneEach(Askers)
  BY <1>1, <1>3 DEF OneEach
<1>5. Promise!CallbacksInit
  BY <1>2, <1>3 DEF Promise!CallbacksInit, CallStatus
<1> QED
  BY <1>1, <1>4, <1>5 DEF WInv

(* Every step keeps the table sound and the promise.                       *)
LEMMA StepWaiters == IInv /\ WInv /\ [Next]_vars => WInv' /\ Kept
<1> SUFFICES ASSUME IInv, WInv, [Next]_vars PROVE WInv' /\ Kept
  OBVIOUS
<1>1. ASSUME NEW t \in Tasks, dns_send(t, PeerName[t]) PROVE WInv' /\ Kept
  <2>1. PeerName[t] \in Names
    BY HttpdDnsAssumption
  <2> QED
    BY <1>1, <2>1, SendStep
<1>2. ASSUME NEW t \in Tasks, NextRequest(t) \/ PurgeIdle(t) PROVE WInv' /\ Kept
  BY <1>2, TaskStep
<1>3. ASSUME NEW id \in Ids, NEW n \in Names, RecvAddress(id, n) \/ RecvNothing(id, n)
      PROVE  WInv' /\ Kept
  BY <1>3, RecvStep
<1>4. ASSUME NEW r \in Chunks, tmr_dns_tmout_handle(r) PROVE WInv' /\ Kept
  BY <1>4, TmoutStep
<1>5. CASE UNCHANGED vars
  <2>1. UNCHANGED <<active, reqs, req, req_count, task>>
    BY <1>5 DEF vars, table
  <2> QED
    BY <2>1, Untouched, ChangeStep
<1> QED
  BY <1>1, <1>2, <1>3, <1>4, <1>5, OpenCloseStep DEF Next

(* Both invariants together.                                               *)
LEMMA Invariant == Spec => [](IInv /\ WInv)
  BY InitInv, InitWaiters, StepInv, StepWaiters, PTL DEF Spec

(* The chains stay doubly linked lists that hold the requests, each in the *)
(* chain of its number, the count that limits them is exact, and exactly   *)
(* the pending requests have a timer event: on all of the paths of         *)
(* dns_send(), dns_recv(), tmr_dns_tmout_handle() and dns_close(), for any *)
(* length of the table and any sequence numbers.                           *)
THEOREM TableSound == Spec => []TableIsSound
<1>1. IInv /\ WInv => TableIsSound
  BY SoundMeans DEF IInv, TableInv, WInv
<1> QED
  BY <1>1, Invariant, PTL

(* A task waits if and only if it has a pending request, and then one.     *)
THEOREM WaitersPending == Spec => []WaitersArePending
<1>1. IInv /\ WInv => WaitersArePending
  <2> SUFFICES ASSUME IInv, WInv PROVE WaitersArePending
    OBVIOUS
  <2>1. PointersTyped /\ TasksTyped /\ CacheTyped
    BY DEF IInv, TableInv, TaskInv, CacheInv
  <2>2. TableTypeOK
    BY <2>1, SoundMeans DEF WInv
  <2>3. OneRequestPerWaiter(Askers)
    BY <2>1, OneEachMeans DEF WInv
  <2> QED
    BY <2>1, <2>2, <2>3 DEF WaitersArePending, TypeOK, TasksTyped, CacheTyped
<1> QED
  BY <1>1, Invariant, PTL

(* Every call of qse_httpd_resolvename() is refused, answered at once or   *)
(* accepted, and an accepted one is answered at most once, with no more    *)
(* than the limit outstanding.  That it is answered in the end is left to  *)
(* the run.                                                                *)
THEOREM KeepsPromise == Spec => Promise!CallbacksSafety
<1>1. Spec => [][Promise!CallbacksNext]_CallStatus
  <2>1. IInv /\ WInv /\ [Next]_vars => [Promise!CallbacksNext]_CallStatus
    BY StepWaiters DEF Kept
  <2> QED
    BY <2>1, Invariant, PTL DEF Spec
<1>2. Spec => Promise!CallbacksInit
  BY InitWaiters DEF Spec
<1> QED
  BY <1>1, <1>2 DEF Promise!CallbacksSafety
=============================================================================
