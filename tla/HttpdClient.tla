---------------------------- MODULE HttpdClient -----------------------------
(***************************************************************************)
(* One client connection of the web server in lib/http/httpd.c: its queue  *)
(* of tasks, the triggers of the task at the head of the queue, and what   *)
(* of it is registered in the multiplexer.                                 *)
(*                                                                         *)
(* The server is a single thread.  It polls the multiplexer, which reports *)
(* a batch of events; each event is dispatched to the client it belongs    *)
(* to, and what happens for one event may make the others of the batch     *)
(* stale.  A dispatch is cut here where the code calls out to a reader, a  *)
(* task or a request handler, whose choices are nondeterministic.  Each of *)
(* these steps takes the set F of the handles the multiplexer would refuse *)
(* to add (qse_mux_insert() may run out of memory).                        *)
(*                                                                         *)
(* The content of a request is read after the request has been given a     *)
(* task.  A proxy or a CGI task takes it in with a callback of the reader, *)
(* which changes the trigger of the task behind the back of the server.    *)
(***************************************************************************)
EXTENDS Naturals, Sequences, FiniteSets, FiniteSetsExt

CONSTANTS
  Handles,     \* the pipes and sockets of tasks: a CGI program, a proxy peer
  CliHandle,   \* client->handle
  NoHandle,    \* the handle of an unused element of trigger.v, which is 0
  NumSlots,    \* QSE_HTTPD_TASK_TRIGGER_MAX
  FeedSlot,    \* the element whose handle takes the content of a request
  Masks,       \* what a task can wait for on a handle of its own
  MaxTasks,    \* bound on the length of the task queue
  MaxEvents,   \* bound on the number of events a poll reports
  MUTECLIENT   \* httpd->opt.trait & QSE_HTTPD_MUTECLIENT

ASSUME HttpdClientAssumption ==
  /\ CliHandle \notin Handles
  /\ NoHandle \notin Handles \union {CliHandle}
  /\ NumSlots \in Nat \ {0}
  /\ FeedSlot \in 0..NumSlots - 1
  /\ Masks \subseteq SUBSET {"READ", "WRITE"}
  /\ {} \in Masks
  /\ MaxTasks \in Nat \ {0}
  /\ MaxEvents \in Nat \ {0}
  /\ MUTECLIENT \in BOOLEAN

VARIABLES
  pc,      \* where the server is
  mux,     \* what the multiplexer watches each handle for
  batch,   \* the events of this poll that have not been dispatched yet
  evt,     \* the event that is being dispatched
  client,  \* the fields of the qse_httpd_client_t
  tasks    \* its task queue, head first

vars == <<pc, mux, batch, evt, client, tasks>>

Slots == 0..NumSlots - 1
Dirs == {"READ", "WRITE"}

(* Descriptor 0 can be put into the multiplexer like any other.            *)
AllHandles == Handles \union {CliHandle, NoHandle}

(* qse_httpd_task_trigger_t: cmask for the client's own handle, the flag   *)
(* QSE_HTTPD_TASK_TRIGGER_INACTIVE and the vector v.                       *)
Triggers ==
  [cmask : SUBSET Dirs, inactive : BOOLEAN,
   v : [Slots -> [handle : Handles \union {NoHandle}, mask : SUBSET Dirs]]]

NoTrigger ==
  [cmask |-> {}, inactive |-> FALSE,
   v |-> [i \in Slots |-> [handle |-> NoHandle, mask |-> {}]]]

(* `ran' says whether the task has been run since it was queued or since   *)
(* the answer it waited for came, and `put_off' whether it was to be run   *)
(* again, but was not.  `failed' stands for PROXY_INIT_FAILED: the task    *)
(* can only report an error and end.  `fed' says that its callback takes   *)
(* in the content of its request, which has not been read to its end.      *)
NewTask(fed) ==
  [trigger |-> NoTrigger, ran |-> FALSE, put_off |-> FALSE, failed |-> FALSE, fed |-> fed]

(* client->status is split into the bits for the client's handle, the bits *)
(* for each element of trigger.v, and the others.                          *)
StatusBits == {"BAD", "READY", "MUTE", "MUTE_DELETED"}

NoClient ==
  [handle_in_mux |-> {}, trigger_in_mux |-> [i \in Slots |-> {}],
   status |-> {}, trigger |-> NoTrigger]

NoEvent == [handle |-> NoHandle, mask |-> {}]

Init ==
  /\ pc = "none"
  /\ mux = [h \in AllHandles |-> {}]
  /\ batch = {}
  /\ evt = NoEvent
  /\ client = NoClient
  /\ tasks = <<>>

Is(bit) == bit \in client.status
mark_bad_client(c) == [c EXCEPT !.status = @ \union {"BAD"}]

-----------------------------------------------------------------------------
(* Registration in the multiplexer.  An operator that registers returns    *)
(* the new multiplexer, the new client and whether it succeeded.           *)

Result(m, c, ok) == [mux |-> m, client |-> c, ok |-> ok]

(* The multiplexer without the task triggers that the status bits say are  *)
(* in it; their handles are looked up in the vector v.                     *)
DelTriggers(v) ==
  [h \in AllHandles |->
     IF \E i \in Slots : client.trigger_in_mux[i] # {} /\ v[i].handle = h
       THEN {} ELSE mux[h]]

(* The elements of t.v that are put into the multiplexer, one after the    *)
(* other until one is refused.                                             *)
Wanted(t) == {i \in Slots : t.v[i].mask # {} /\ t.v[i].handle # CliHandle}
Refused(t, F) == {i \in Wanted(t) : t.v[i].handle \in F}
Added(t, F) == {i \in Wanted(t) : \A j \in Refused(t, F) : i < j}

AddTriggers(m, t, F) ==
  [h \in AllHandles |->
     LET slots == {i \in Added(t, F) : t.v[i].handle = h}
     IN  IF slots = {} THEN m[h] ELSE t.v[Min(slots)].mask]

(* Put the client's handle into the multiplexer for the directions in      *)
(* mask, if it is not there for exactly these already.                     *)
SetHandle(m, c, mask, F) ==
  CASE c.handle_in_mux = mask ->
         Result(m, c, TRUE)
    [] c.handle_in_mux # mask /\ mask # {} /\ CliHandle \in F ->
         Result([m EXCEPT ![CliHandle] = {}], [c EXCEPT !.handle_in_mux = {}], FALSE)
    [] OTHER ->
         Result([m EXCEPT ![CliHandle] = mask], [c EXCEPT !.handle_in_mux = mask], TRUE)

(* Mutant: a task that waits for nothing is never woken.                   *)
HandleMask_NoDefault(t) ==
  IF Is("MUTE") THEN t.cmask \ {"READ"} ELSE t.cmask

(* What the client's handle is watched for while a task goes on.           *)
HandleMask(t) ==
  LET asked == IF Is("MUTE") THEN t.cmask \ {"READ"} ELSE t.cmask
  IN  IF asked = {} /\ Wanted(t) = {} THEN {"WRITE"} ELSE asked

Rewire(t, F) ==
  LET m1 == AddTriggers(DelTriggers(client.trigger.v), t, F)
      c1 == [client EXCEPT
               !.trigger_in_mux =
                 [i \in Slots |-> IF i \in Added(t, F) THEN t.v[i].mask ELSE {}]]
      c2 == IF Is("MUTE") THEN [c1 EXCEPT !.status = @ \union {"MUTE_DELETED"}]
                          ELSE c1
      r  == SetHandle(m1, c2, HandleMask(t), F)
  IN  CASE Refused(t, F) # {} -> Result(m1, c1, FALSE)
        [] Refused(t, F) = {} /\ ~ r.ok -> r
        [] OTHER -> [r EXCEPT !.client.trigger = t]

(* Mutant: going inactive leaves the client's own handle registered.       *)
Detach_TriggersOnly(t) ==
  Result(DelTriggers(client.trigger.v),
         [client EXCEPT !.trigger_in_mux = [i \in Slots |-> {}], !.trigger = t],
         TRUE)

Detach(t) ==
  LET m == DelTriggers(client.trigger.v)
  IN  Result(IF client.handle_in_mux = {} THEN m ELSE [m EXCEPT ![CliHandle] = {}],
             [client EXCEPT !.handle_in_mux = {},
                            !.trigger_in_mux = [i \in Slots |-> {}],
                            !.trigger = t],
             TRUE)

(* Mutant: only the vector of handles is compared.                         *)
NothingToDo_VectorOnly(t) ==
  /\ t.v = client.trigger.v
  /\ t.inactive = client.trigger.inactive
  /\ Is("MUTE") => Is("MUTE_DELETED")

NothingToDo(t) ==
  /\ t = client.trigger
  /\ Is("MUTE") => Is("MUTE_DELETED")

(* The task at the head goes on, and t is its trigger.                     *)
update_mux_for_current_task(t, F) ==
  CASE NothingToDo(t) ->
         Result(mux, client, TRUE)
    [] ~ NothingToDo(t) /\ t.inactive /\ ~ client.trigger.inactive ->
         Detach(t)
    [] ~ NothingToDo(t) /\ t.inactive /\ client.trigger.inactive ->
         Result(mux, [client EXCEPT !.trigger = t], TRUE)
    [] OTHER ->
         Rewire(t, F)

(* What the client's handle is watched for until the task at the head of   *)
(* the queue q is run for the first time.                                  *)
FirstMask(q) ==
  IF q = <<>> THEN {"READ"}
  ELSE IF Is("MUTE") THEN {"WRITE"} ELSE Dirs

(* A task has become the head of the queue q, or q has become empty.  c    *)
(* and m are the client and the multiplexer so far.                        *)
update_mux_for_next_task(m, c, q, F) ==
  IF q = <<>> /\ "MUTE" \in c.status
    THEN Result(m, c, FALSE)
    ELSE SetHandle(m, c, FirstMask(q), F)

(* ... which also sets the client mask of the task.                        *)
Primed(q) ==
  IF q = <<>> THEN q ELSE [q EXCEPT ![1].trigger.cmask = FirstMask(q)]

-----------------------------------------------------------------------------
(* The task queue.                                                         *)

(* Mutant: a task that ends leaves its triggers in the multiplexer.        *)
DequeueMux_Leaves == mux

(* dequeue_task() looks the handles up in the task, not in the trigger     *)
(* that the client remembers: the two differ after a failed update.        *)
DequeueMux == DelTriggers(tasks[1].trigger.v)

Dequeued(c) == [c EXCEPT !.trigger_in_mux = [i \in Slots |-> {}]]

(* qse_httpd_entask(): queue a task behind the first n ones.  `queued'     *)
(* says whether enqueue_task() could allocate and initialise it, fed       *)
(* whether it takes in the content of the request that is being read.      *)
qse_httpd_entask(n, queued, fed, F) ==
  LET q == SubSeq(tasks, 1, n) \o <<NewTask(fed)>> \o SubSeq(tasks, n + 1, Len(tasks))
      r == update_mux_for_next_task(mux, client, q, F)
  IN  CASE ~ queued ->
             [mux |-> mux, client |-> mark_bad_client(client), tasks |-> tasks, ok |-> FALSE]
        [] queued /\ n > 0 ->
             [mux |-> mux, client |-> client, tasks |-> q, ok |-> TRUE]
        [] queued /\ n = 0 /\ r.ok ->
             [mux |-> r.mux, client |-> r.client, tasks |-> Primed(q), ok |-> TRUE]
        [] OTHER ->
             [mux |-> r.mux, client |-> mark_bad_client(r.client), tasks |-> tasks, ok |-> FALSE]

-----------------------------------------------------------------------------
(* The life of a client.                                                   *)

(* accept_client(), when the client can be allocated and its handle added. *)
(* Without a client.accepted callback it is ready at once.                 *)
accept_client(ready) ==
  /\ pc = "none"
  /\ mux' = [mux EXCEPT ![CliHandle] = {"READ"}]
  /\ client' = [NoClient EXCEPT !.handle_in_mux = {"READ"},
                                !.status = IF ready THEN {"READY"} ELSE {}]
  /\ pc' = "poll"
  /\ UNCHANGED <<batch, evt, tasks>>

(* free_client(): the first dequeue_task() of purge_tasks() takes care of  *)
(* the task triggers.                                                      *)
FreeClient ==
  LET m == IF tasks = <<>> THEN mux ELSE DequeueMux
  IN  /\ mux' = IF client.handle_in_mux = {} THEN m ELSE [m EXCEPT ![CliHandle] = {}]
      /\ client' = NoClient
      /\ tasks' = <<>>
      /\ pc' = "none"
      /\ UNCHANGED <<batch, evt>>

(* The idle timer purges a client between two polls.                       *)
PurgeIdle == pc = "poll" /\ FreeClient

-----------------------------------------------------------------------------
(* The multiplexer.                                                        *)

(* A poll reports each handle it watches at most once for a direction, in  *)
(* one event or in two.                                                    *)
Events == {[handle |-> h, mask |-> m] : h \in AllHandles, m \in SUBSET Dirs \ {{}}}

Poll ==
  /\ pc = "poll"
  /\ \E B \in SUBSET {e \in Events : e.mask \subseteq mux[e.handle]} :
       /\ Cardinality(B) \in 1..MaxEvents
       /\ \A e1, e2 \in B :
            e1 # e2 /\ e1.handle = e2.handle => e1.mask \intersect e2.mask = {}
       /\ batch' = B
  /\ pc' = "dispatch"
  /\ UNCHANGED <<mux, evt, client, tasks>>

(* All the events are dispatched: purge_bad_clients() and the next poll.   *)
PollEnds ==
  /\ pc = "dispatch"
  /\ batch = {}
  /\ \/ /\ Is("BAD")
        /\ FreeClient
     \/ /\ ~ Is("BAD")
        /\ pc' = "poll"
        /\ UNCHANGED <<mux, batch, evt, client, tasks>>

Ignores == Is("BAD")

(* perform_client_task(), up to the call of client.accepted() or           *)
(* read_from_client().                                                     *)
perform_client_task(e) ==
  /\ pc = "dispatch"
  /\ e \in batch
  /\ batch' = batch \ {e}
  /\ \/ /\ Ignores
        /\ UNCHANGED <<pc, evt, client>>
     \/ /\ ~ Ignores
        /\ ~ Is("READY")
        /\ client' \in {client, mark_bad_client(client),
                        [client EXCEPT !.status = @ \union {"READY"}]}
        /\ UNCHANGED <<pc, evt>>
     \/ /\ ~ Ignores
        /\ Is("READY")
        /\ evt' = e
        /\ pc' = IF e.handle = CliHandle /\ "READ" \in e.mask /\ ~ Is("MUTE")
                   THEN "read" ELSE "invoke"
        /\ UNCHANGED client
  /\ UNCHANGED <<mux, tasks>>

-----------------------------------------------------------------------------
(* read_from_client().                                                     *)

(* proxy_snatch_client_input[_raw]() and cgi_snatch_client_input(): a      *)
(* piece of content is to be forwarded, to a handle that the task may not  *)
(* have opened yet; and the end of the content.  The client is not told.   *)
(* When forwarding has failed before, the content is dropped.              *)
AfterContent(t) == [t EXCEPT !.v[FeedSlot].mask = @ \union {"WRITE"}]

AfterLastContent(t) ==
  LET done == [t EXCEPT !.cmask = @ \ {"READ"}]
  IN  {t, done} \union
      (IF t.v[FeedSlot].handle = NoHandle THEN {} ELSE {AfterContent(done)})

ReadContent(n) ==
  /\ pc = "read"
  /\ tasks[n].fed
  /\ \/ tasks' = [tasks EXCEPT ![n].trigger = AfterContent(@)]
     \/ \E t \in AfterLastContent(tasks[n].trigger) :
          tasks' = [tasks EXCEPT ![n].trigger = t, ![n].fed = FALSE]
  /\ UNCHANGED <<pc, mux, batch, evt, client>>

(* There is nothing more to read, or nothing that completes a request.     *)
ReadEnds ==
  /\ pc = "read"
  /\ pc' = "invoke"
  /\ UNCHANGED <<mux, batch, evt, client, tasks>>

(* A read error, or a request that cannot be understood.                   *)
ReadFails ==
  /\ pc = "read"
  /\ client' = mark_bad_client(client)
  /\ pc' = "dispatch"
  /\ evt' = NoEvent
  /\ UNCHANGED <<mux, batch, tasks>>

(* All that has been read is taken in: no task waits for more content.     *)
AllRead == \A n \in 1..Len(tasks) : ~ tasks[n].fed

(* The end of the input, when the client may have closed its half of the   *)
(* connection only.  Otherwise it is a failure.                            *)
ReadHalfClose ==
  /\ pc = "read"
  /\ MUTECLIENT
  /\ tasks # <<>>
  /\ AllRead
  /\ client' = [client EXCEPT !.status = @ \union {"MUTE"}]
  /\ pc' = "invoke"
  /\ UNCHANGED <<mux, batch, evt, tasks>>

(* The header of a request has been read, and its handler queues a task.   *)
ReadRequest(queued, fed, F) ==
  /\ pc = "read"
  /\ AllRead
  /\ Len(tasks) < MaxTasks
  /\ LET r == qse_httpd_entask(Len(tasks), queued, fed, F)
     IN  /\ mux' = r.mux
         /\ client' = r.client
         /\ tasks' = r.tasks
         /\ pc' = IF r.ok THEN "read" ELSE "dispatch"
         /\ evt' = IF r.ok THEN evt ELSE NoEvent
  /\ UNCHANGED batch

-----------------------------------------------------------------------------
(* invoke_client_task(), after the client has been read from.              *)

Fired(e, t) ==
  \/ e.handle = CliHandle
  \/ \E i \in Slots : t.v[i].handle = e.handle

(* There is no task, and the end of the input is no longer deferred.       *)
InvokeNothing ==
  /\ pc = "invoke"
  /\ tasks = <<>>
  /\ client' = IF Is("MUTE") THEN mark_bad_client(client) ELSE client
  /\ pc' = "dispatch"
  /\ evt' = NoEvent
  /\ UNCHANGED <<mux, batch, tasks>>

(* The client turns out not to be writable: the task is not run, and the   *)
(* multiplexer is left as it is even if reading has changed the trigger.   *)
InvokeLater ==
  /\ pc = "invoke"
  /\ tasks # <<>>
  /\ Fired(evt, tasks[1].trigger)
  /\ ~ (evt.handle = CliHandle /\ "WRITE" \in evt.mask)
  /\ tasks' = [tasks EXCEPT ![1].put_off = tasks[1].ran]
  /\ pc' = "dispatch"
  /\ evt' = NoEvent
  /\ UNCHANGED <<mux, batch, client>>

HasTask == tasks # <<>>

(* An event that does not belong to a trigger runs the task as well.       *)
InvokeTask ==
  /\ pc = "invoke"
  /\ HasTask
  /\ tasks' = [tasks EXCEPT ![1].ran = TRUE, ![1].put_off = FALSE]
  /\ pc' = "main"
  /\ evt' = NoEvent
  /\ UNCHANGED <<mux, batch, client>>

-----------------------------------------------------------------------------
(* What the main function of the task at the head can do.                  *)

(* The handles a task uses are its own.                                    *)
Used(n) == {tasks[n].trigger.v[i].handle : i \in Slots}
FreeHandles == Handles \ UNION {Used(n) : n \in 1..Len(tasks)}

(* The triggers t that can follow s: a task opens its handles once and     *)
(* keeps them, and changes the masks as it likes.                          *)
NextTriggers(s) ==
  {t \in [cmask : SUBSET Dirs, inactive : {FALSE},
          v : [Slots -> [handle : FreeHandles \union Used(1) \union {NoHandle},
                         mask : Masks \union {s.v[i].mask : i \in Slots}]]] :
     /\ \A i \in Slots :
          /\ t.v[i].mask \in Masks \union {s.v[i].mask}
          /\ s.v[i].handle # NoHandle => t.v[i].handle = s.v[i].handle
          /\ t.v[i].handle = NoHandle => t.v[i].mask = {}
     /\ \A i, j \in Slots :
          i # j /\ t.v[i].handle # NoHandle => t.v[i].handle # t.v[j].handle}

(* main() returns a positive number, with its trigger as it is or with t.  *)
(* It can give up the content that is still to be read; to go on taking it *)
(* in, it must have opened the handle it is for.                           *)
MainGoesOn(t, fed, F) ==
  /\ pc = "main"
  /\ ~ tasks[1].failed
  /\ \/ t = tasks[1].trigger /\ fed = tasks[1].fed
     \/ /\ ~ tasks[1].trigger.inactive
        /\ t \in NextTriggers(tasks[1].trigger)
        /\ fed => t.v[FeedSlot].handle # NoHandle
  /\ LET r == update_mux_for_current_task(t, F)
     IN  /\ mux' = r.mux
         /\ client' = IF r.ok THEN r.client ELSE mark_bad_client(r.client)
  /\ tasks' = [tasks EXCEPT ![1].trigger = t, ![1].fed = fed]
  /\ pc' = "dispatch"
  /\ UNCHANGED <<batch, evt>>

(* main() has asked for a name to be resolved or a URL to be rewritten,    *)
(* calls qse_httpd_inactivatetasktrigger() and returns a positive number:  *)
(* the update of the multiplexer that follows finds nothing to do.         *)
MainInactivates ==
  /\ pc = "main"
  /\ ~ tasks[1].failed
  /\ ~ tasks[1].trigger.inactive
  /\ LET t == [tasks[1].trigger EXCEPT !.inactive = TRUE]
         r == update_mux_for_current_task(t, {})
     IN  /\ mux' = r.mux
         /\ client' = r.client
         /\ tasks' = [tasks EXCEPT ![1].trigger = t]
  /\ pc' = "dispatch"
  /\ UNCHANGED <<batch, evt>>

(* main() queues a task behind itself or behind one it queued before; if   *)
(* that fails it returns -1.                                               *)
MainEntasks(n, queued) ==
  /\ pc = "main"
  /\ ~ tasks[1].trigger.inactive
  /\ Len(tasks) < MaxTasks
  /\ LET r == qse_httpd_entask(n, queued, FALSE, {})
     IN  /\ client' = r.client
         /\ tasks' = r.tasks
         /\ pc' = IF r.ok THEN "main" ELSE "dispatch"
  /\ UNCHANGED <<mux, batch, evt>>

(* main() returns -1.                                                      *)
MainFails ==
  /\ pc = "main"
  /\ ~ tasks[1].trigger.inactive
  /\ client' = mark_bad_client(client)
  /\ pc' = "dispatch"
  /\ UNCHANGED <<mux, batch, evt, tasks>>

(* main() returns 0: the task is dequeued, its successor is set up and the *)
(* trigger remembered is forgotten.                                        *)
MainEnds(F) ==
  /\ pc = "main"
  /\ ~ tasks[1].trigger.inactive
  /\ LET q == Tail(tasks)
         r == update_mux_for_next_task(DequeueMux, Dequeued(client), q, F)
         c == [r.client EXCEPT !.trigger = NoTrigger]
     IN  /\ mux' = r.mux
         /\ client' = IF r.ok THEN c ELSE mark_bad_client(c)
         /\ tasks' = IF r.ok THEN Primed(q) ELSE q
  /\ pc' = "dispatch"
  /\ UNCHANGED <<batch, evt>>

(* Mutant: activation does not ask for writing.                            *)
ActivationMask_AsIs(t) == t.cmask

ActivationMask(t) == t.cmask \union {"WRITE"}

(* The answer for an inactive task arrives, from the DNS or URS socket or  *)
(* as a timeout.  A failure is left to the task, which is not told to the  *)
(* client.                                                                 *)
qse_httpd_activatetasktrigger(F) ==
  /\ pc \in {"poll", "dispatch"}
  /\ tasks # <<>>
  /\ tasks[1].trigger.inactive
  /\ LET t == [tasks[1].trigger EXCEPT !.inactive = FALSE]
         r == update_mux_for_current_task([t EXCEPT !.cmask = ActivationMask(t)], F)
     IN  /\ mux' = r.mux
         /\ client' = r.client
         /\ tasks' = [tasks EXCEPT ![1].trigger = t, ![1].ran = FALSE,
                                   ![1].put_off = FALSE, ![1].failed = ~ r.ok]
  /\ UNCHANGED <<pc, batch, evt>>

-----------------------------------------------------------------------------
(* The server stops at the first handle that is refused.                   *)
Refusals == {{}} \union {{h} : h \in AllHandles}

Next ==
  \/ \E ready \in BOOLEAN : accept_client(ready)
  \/ PurgeIdle
  \/ Poll
  \/ PollEnds
  \/ \E e \in batch : perform_client_task(e)
  \/ \E n \in 1..Len(tasks) : ReadContent(n)
  \/ ReadEnds
  \/ ReadFails
  \/ ReadHalfClose
  \/ \E queued, fed \in BOOLEAN, F \in Refusals : ReadRequest(queued, fed, F)
  \/ InvokeNothing
  \/ InvokeLater
  \/ InvokeTask
  \/ /\ pc = "main"
     /\ \E t \in NextTriggers(tasks[1].trigger) \union {tasks[1].trigger},
           fed \in {FALSE, tasks[1].fed}, F \in Refusals : MainGoesOn(t, fed, F)
  \/ MainInactivates
  \/ \E n \in 1..Len(tasks), queued \in BOOLEAN : MainEntasks(n, queued)
  \/ MainFails
  \/ \E F \in Refusals : MainEnds(F)
  \/ \E F \in Refusals : qse_httpd_activatetasktrigger(F)

Spec == Init /\ [][Next]_vars

-----------------------------------------------------------------------------
(* Properties.                                                             *)

TypeOK ==
  /\ pc \in {"none", "poll", "dispatch", "read", "invoke", "main"}
  /\ mux \in [AllHandles -> SUBSET Dirs]
  /\ batch \subseteq Events
  /\ evt \in Events \union {NoEvent}
  /\ client \in [handle_in_mux : SUBSET Dirs, trigger_in_mux : [Slots -> SUBSET Dirs],
                 status : SUBSET StatusBits, trigger : Triggers]
  /\ tasks \in Seq([trigger : Triggers, ran : BOOLEAN, put_off : BOOLEAN,
                     failed : BOOLEAN, fed : BOOLEAN])
  /\ pc = "main" => tasks # <<>>

(* The status bits are the server's only record of what it has put into    *)
(* the multiplexer.  They tell the truth at every moment, also after a     *)
(* registration that failed half-way: the client's handle is watched for   *)
(* exactly the directions recorded, a task handle is watched only if it is *)
(* recorded under a slot where the head task has that handle.  So a handle *)
(* is out of the multiplexer before dequeue_task() lets its task close it, *)
(* and a client that is freed leaves nothing behind.  A client that has    *)
(* been found mute is never watched for reading again: its socket is       *)
(* readable for ever, and the server would spin.                           *)
StatusMatchesMux ==
  /\ TypeOK
  /\ mux[CliHandle] = client.handle_in_mux
  /\ \A h \in AllHandles \ {CliHandle} : mux[h] # {} =>
       /\ tasks # <<>>
       /\ \E i \in Slots : tasks[1].trigger.v[i].handle = h
                           /\ client.trigger_in_mux[i] = mux[h]
  /\ \A i \in Slots : client.trigger_in_mux[i] # {} =>
       /\ tasks # <<>>
       /\ tasks[1].trigger.v[i].handle # CliHandle
       /\ mux[tasks[1].trigger.v[i].handle] = client.trigger_in_mux[i]
  /\ Is("MUTE_DELETED") => "READ" \notin mux[CliHandle]

(* The assertion in qse_httpd_activatetasktrigger(): as long as the head   *)
(* task waits inactive for an answer, nothing of its client is in the      *)
(* multiplexer, whatever was left in the batch when it went inactive.      *)
InactiveIsDetached ==
  tasks # <<>> /\ tasks[1].trigger.inactive =>
    /\ client.handle_in_mux = {}
    /\ \A i \in Slots : client.trigger_in_mux[i] = {}

(* No client sleeps for ever: when the server goes to poll, the client is  *)
(* watched for something, unless its task waits for an answer or could not *)
(* be put back when the answer came.                                       *)
ClientCanBeWoken ==
  pc = "poll" =>
    \/ mux[CliHandle] # {} /\ (tasks = <<>> => mux[CliHandle] = {"READ"})
    \/ tasks # <<>> /\ \E h \in Handles : mux[h] # {}
    \/ tasks # <<>> /\ (tasks[1].trigger.inactive \/ tasks[1].failed)

(* "A new task should be invoked at least once regardless of the data      *)
(* availability", and so should one whose answer has come: when the server *)
(* goes to poll and the task at the head has not been run since, the       *)
(* client is watched for writing.                                          *)
NewTaskIsTriggered ==
  (pc = "poll" /\ tasks # <<>> /\ ~ tasks[1].ran /\ ~ tasks[1].failed) =>
    "WRITE" \in mux[CliHandle]

(* What a running task asked for is what the server polls for, also when   *)
(* it keeps changing its mind within one batch of events.  If it was put   *)
(* off since it was last run, that is what it asked for then: what the     *)
(* callbacks have added to its trigger since, at most the wish to forward  *)
(* content and the end of the wish for more of it, goes unheard.           *)
TriggersAreHonoured ==
  (pc = "poll" /\ tasks # <<>> /\ tasks[1].ran /\ ~ tasks[1].failed) =>
    LET t == tasks[1].trigger
        asked == IF tasks[1].put_off THEN client.trigger ELSE t
    IN  ~ t.inactive =>
          /\ \A i \in Slots :
               asked.v[i].handle # NoHandle => mux[asked.v[i].handle] = asked.v[i].mask
          /\ "WRITE" \in asked.cmask => "WRITE" \in mux[CliHandle]
          /\ "READ" \in asked.cmask /\ ~ Is("MUTE") => "READ" \in mux[CliHandle]
          /\ \A i \in Slots :
               /\ t.v[i].handle = asked.v[i].handle
               /\ t.v[i].mask = asked.v[i].mask \/
                    (i = FeedSlot /\ t.v[i].mask = asked.v[i].mask \union {"WRITE"})
          /\ t.cmask = asked.cmask \/ (t.cmask = asked.cmask \ {"READ"} /\ ~ tasks[1].fed)

=============================================================================
