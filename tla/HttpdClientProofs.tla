------------------------- MODULE HttpdClientProofs --------------------------
(***************************************************************************)
(* Proofs about a client of lib/http/httpd.c for any handles, any number   *)
(* of trigger slots, any masks and any length of the task queue.           *)
(***************************************************************************)
EXTENDS HttpdClient, SequenceTheorems, TLAPS

ClientType ==
  [handle_in_mux : SUBSET Dirs, trigger_in_mux : [Slots -> SUBSET Dirs],
   status : SUBSET StatusBits, trigger : Triggers]

TaskType ==
  [trigger : Triggers, ran : BOOLEAN, put_off : BOOLEAN, failed : BOOLEAN, fed : BOOLEAN]

MuxType == [AllHandles -> SUBSET Dirs]

TaskHandles == Handles \union {NoHandle}

(* The trigger of the task at the head of the queue q.                     *)
HeadTrigger(q) == IF q = <<>> THEN NoTrigger ELSE q[1].trigger

(* A slot without a handle waits for nothing, unless it is the one for     *)
(* content, and no handle is in two slots.                                 *)
Proper(t) ==
  /\ \A i \in Slots : t.v[i].handle = NoHandle /\ i # FeedSlot => t.v[i].mask = {}
  /\ \A i, j \in Slots :
       i # j /\ t.v[i].handle # NoHandle => t.v[i].handle # t.v[j].handle

SameHandles(v, w) == \A i \in Slots : v[i].handle = w[i].handle

(* What the status bits of the client c say of the multiplexer m is true,  *)
(* with the handles of the vector v.                                       *)
Registered(m, c, v) ==
  /\ m[CliHandle] = c.handle_in_mux
  /\ \A h \in TaskHandles : m[h] # {} =>
       \E i \in Slots : v[i].handle = h /\ c.trigger_in_mux[i] = m[h]
  /\ \A i \in Slots : c.trigger_in_mux[i] # {} =>
       v[i].handle \in TaskHandles /\ m[v[i].handle] = c.trigger_in_mux[i]
  /\ "MUTE_DELETED" \in c.status => "READ" \notin c.handle_in_mux

NoneInMux(c) == \A i \in Slots : c.trigger_in_mux[i] = {}

Detached(c) == c.handle_in_mux = {} /\ NoneInMux(c)

(* A task that has not come to the head of the queue: all that can have    *)
(* happened to it is that content was read.                                *)
Untouched(x) ==
  /\ ~ x.ran /\ ~ x.put_off /\ ~ x.failed
  /\ x.trigger.cmask = {} /\ ~ x.trigger.inactive
  /\ SameHandles(x.trigger.v, NoTrigger.v)
  /\ Proper(x.trigger)

QueueInv ==
  /\ \A n \in 2..Len(tasks) : Untouched(tasks[n])
  /\ Proper(HeadTrigger(tasks))
  /\ pc = "none" => tasks = <<>> /\ client = NoClient
  /\ HeadTrigger(tasks).inactive => tasks[1].ran /\ ~ tasks[1].failed /\ Detached(client)
  /\ pc = "main" => tasks[1].ran
  /\ tasks = <<>> => NoneInMux(client)

StatusInv ==
  /\ Is("BAD") => pc = "dispatch"
  /\ Is("MUTE_DELETED") => Is("MUTE")
  /\ pc = "read" => ~ Is("MUTE")

(* What the callbacks of the reader can have made of the trigger asked by  *)
(* now.  fed says whether there is more content to come.                   *)
Snatched(asked, t, fed) ==
  /\ t.inactive = asked.inactive
  /\ \A i \in Slots :
       /\ t.v[i].handle = asked.v[i].handle
       /\ t.v[i].mask = asked.v[i].mask \/
            (i = FeedSlot /\ t.v[i].mask = asked.v[i].mask \union {"WRITE"})
  /\ t.cmask = asked.cmask \/ (t.cmask = asked.cmask \ {"READ"} /\ ~ fed)

(* The slot for content has no handle yet, and content is to go there: the *)
(* client is to be woken by other means.                                   *)
Homeless(t, fed) ==
  t.v[FeedSlot].handle = NoHandle /\ (fed \/ t.v[FeedSlot].mask # {})

(* The server runs the task at the head and has not given its client up.   *)
Running == ~ Is("BAD") /\ tasks # <<>> /\ tasks[1].ran /\ ~ tasks[1].failed

(* How the trigger that the client remembers is related to the one of the  *)
(* task: it has the same handles, after a failure excepted, when the       *)
(* client is bad; and it is the same but for what reading has changed,     *)
(* unless the task is running.                                             *)
TriggerInv ==
  /\ tasks = <<>> => client.trigger = NoTrigger
  /\ HeadTrigger(tasks).inactive => client.trigger.inactive
  /\ client.trigger.inactive /\ ~ HeadTrigger(tasks).inactive => tasks[1].failed
  /\ ~ Is("BAD") => SameHandles(client.trigger.v, HeadTrigger(tasks).v)
  /\ Running /\ pc # "main" =>
       Snatched(client.trigger, tasks[1].trigger, tasks[1].fed)
  /\ Running /\ pc \in {"poll", "dispatch"} /\ ~ tasks[1].put_off =>
       client.trigger = tasks[1].trigger
  /\ ~ Is("BAD") /\ tasks # <<>> /\ Homeless(tasks[1].trigger, tasks[1].fed) =>
       "WRITE" \in tasks[1].trigger.cmask

(* What the trigger remembered in c asks for is in the multiplexer.        *)
Watched(c) ==
  ~ c.trigger.inactive =>
    /\ \A i \in Slots : c.trigger_in_mux[i] = c.trigger.v[i].mask
    /\ "WRITE" \in c.trigger.cmask => "WRITE" \in c.handle_in_mux
    /\ "READ" \in c.trigger.cmask /\ "MUTE" \notin c.status => "READ" \in c.handle_in_mux
    /\ \/ c.handle_in_mux # {}
       \/ \E i \in Slots : c.trigger_in_mux[i] # {} /\ c.trigger.v[i].handle \in Handles

WatchInv ==
  (~ Is("BAD") /\ pc # "none") =>
    /\ tasks = <<>> => client.handle_in_mux = {"READ"}
    /\ tasks # <<>> /\ ~ tasks[1].ran /\ ~ tasks[1].failed =>
         "WRITE" \in client.handle_in_mux
    /\ Watched(client)

IInv ==
  /\ TypeOK
  /\ Registered(mux, client, HeadTrigger(tasks).v)
  /\ QueueInv
  /\ StatusInv
  /\ TriggerInv
  /\ WatchInv

-----------------------------------------------------------------------------
(* The operators that register and unregister.                             *)

USE HttpdClientAssumption

(* The types of the initial values, and what they hold.                    *)
LEMMA Types ==
  /\ NoTrigger \in Triggers /\ NoTrigger.cmask = {} /\ NoTrigger.inactive = FALSE
  /\ \A i \in Slots : NoTrigger.v[i].handle = NoHandle /\ NoTrigger.v[i].mask = {}
  /\ NoClient \in ClientType /\ NoClient.handle_in_mux = {} /\ NoClient.status = {}
  /\ NoClient.trigger = NoTrigger
  /\ \A i \in Slots : NoClient.trigger_in_mux[i] = {}
  /\ \A fed \in BOOLEAN :
       NewTask(fed) \in TaskType /\ Untouched(NewTask(fed)) /\ NewTask(fed).fed = fed
  /\ Proper(NoTrigger)
<1>1. /\ NoTrigger \in Triggers /\ NoTrigger.cmask = {} /\ NoTrigger.inactive = FALSE
      /\ \A i \in Slots : NoTrigger.v[i].handle = NoHandle /\ NoTrigger.v[i].mask = {}
  BY DEF NoTrigger, Triggers
<1>2. /\ NoClient \in ClientType /\ NoClient.handle_in_mux = {} /\ NoClient.status = {}
      /\ NoClient.trigger = NoTrigger
      /\ \A i \in Slots : NoClient.trigger_in_mux[i] = {}
  BY <1>1 DEF NoClient, ClientType
<1>4. Proper(NoTrigger)
  BY <1>1 DEF Proper
<1>3. ASSUME NEW fed \in BOOLEAN
      PROVE  NewTask(fed) \in TaskType /\ Untouched(NewTask(fed)) /\ NewTask(fed).fed = fed
  <2> DEFINE x == NewTask(fed)
  <2>1. /\ x \in TaskType /\ x.trigger = NoTrigger /\ x.fed = fed
        /\ x.ran = FALSE /\ x.put_off = FALSE /\ x.failed = FALSE
    BY <1>1 DEF NewTask, TaskType
  <2> HIDE DEF x
  <2> QED
    BY <1>1, <1>4, <2>1 DEF Untouched, SameHandles, x
<1> QED
  BY <1>1, <1>2, <1>3, <1>4

(* The fields of a trigger.                                                *)
LEMMA TriggerFields ==
  ASSUME NEW t \in Triggers
  PROVE  /\ t.cmask \subseteq Dirs /\ t.inactive \in BOOLEAN
         /\ \A i \in Slots : t.v[i].handle \in TaskHandles
                             /\ t.v[i].mask \subseteq Dirs
         /\ \A i \in Slots : t.v[i].handle # CliHandle
  BY DEF Triggers, TaskHandles

(* The result r of putting the client's handle into the multiplexer.       *)
HandleSet(m, c, mask, r) ==
  /\ r.mux \in MuxType /\ r.client \in ClientType /\ r.ok \in BOOLEAN
  /\ \A h \in TaskHandles : r.mux[h] = m[h]
  /\ r.mux[CliHandle] = r.client.handle_in_mux
  /\ r.ok => r.client.handle_in_mux = mask
  /\ ~ r.ok => r.client.handle_in_mux = {}
  /\ r.client.trigger_in_mux = c.trigger_in_mux
  /\ r.client.status = c.status
  /\ r.client.trigger = c.trigger
  /\ r = [mux |-> r.mux, client |-> r.client, ok |-> r.ok]

(* Registering the client's own handle: done as asked, or refused with the *)
(* handle out of the multiplexer; the task handles are left alone.         *)
LEMMA SetHandleFacts ==
  ASSUME NEW m \in MuxType, NEW c \in ClientType, NEW mask \in SUBSET Dirs, NEW F,
         m[CliHandle] = c.handle_in_mux,
         NEW r, r = SetHandle(m, c, mask, F)
  PROVE  HandleSet(m, c, mask, r)
<1>1. CliHandle \in AllHandles /\ \A h \in TaskHandles : h \in AllHandles /\ h # CliHandle
  BY DEF AllHandles, TaskHandles
<1>2. CASE c.handle_in_mux = mask
  <2>1. r = [mux |-> m, client |-> c, ok |-> TRUE]
    BY <1>2 DEF SetHandle, Result
  <2> QED
    BY <1>2, <2>1 DEF HandleSet
<1>3. CASE c.handle_in_mux # mask /\ mask # {} /\ CliHandle \in F
  <2> DEFINE m1 == [m EXCEPT ![CliHandle] = {}]
             c1 == [c EXCEPT !.handle_in_mux = {}]
  <2>1. r = [mux |-> m1, client |-> c1, ok |-> FALSE]
    BY <1>3 DEF SetHandle, Result
  <2>2. m1 \in MuxType /\ m1[CliHandle] = {} /\ \A h \in TaskHandles : m1[h] = m[h]
    BY <1>1 DEF MuxType
  <2>3. /\ c1 \in ClientType /\ c1.handle_in_mux = {} /\ c1.trigger_in_mux = c.trigger_in_mux
        /\ c1.status = c.status /\ c1.trigger = c.trigger
    BY DEF ClientType
  <2> HIDE DEF m1, c1
  <2>4. r.mux = m1 /\ r.client = c1 /\ r.ok = FALSE
    BY <2>1
  <2> QED
    BY <2>1, <2>2, <2>3, <2>4 DEF HandleSet
<1>4. CASE c.handle_in_mux # mask /\ ~ (mask # {} /\ CliHandle \in F)
  <2> DEFINE m1 == [m EXCEPT ![CliHandle] = mask]
             c1 == [c EXCEPT !.handle_in_mux = mask]
  <2>1. r = [mux |-> m1, client |-> c1, ok |-> TRUE]
    BY <1>4 DEF SetHandle, Result
  <2>2. m1 \in MuxType /\ m1[CliHandle] = mask /\ \A h \in TaskHandles : m1[h] = m[h]
    BY <1>1 DEF MuxType
  <2>3. /\ c1 \in ClientType /\ c1.handle_in_mux = mask /\ c1.trigger_in_mux = c.trigger_in_mux
        /\ c1.status = c.status /\ c1.trigger = c.trigger
    BY DEF ClientType
  <2> HIDE DEF m1, c1
  <2>4. r.mux = m1 /\ r.client = c1 /\ r.ok = TRUE
    BY <2>1
  <2> QED
    BY <2>1, <2>2, <2>3, <2>4 DEF HandleSet
<1> QED
  BY <1>2, <1>3, <1>4

(* The multiplexer without the triggers of the task, if the handles can be *)
(* looked up in the vector v.                                              *)
LEMMA DelFacts ==
  ASSUME TypeOK, NEW v, Registered(mux, client, v), \A i \in Slots : v[i].handle # CliHandle
  PROVE  /\ DelTriggers(v) \in MuxType
         /\ DelTriggers(v)[CliHandle] = mux[CliHandle]
         /\ \A h \in TaskHandles : DelTriggers(v)[h] = {}
<1>1. CliHandle \in AllHandles /\ \A h \in TaskHandles : h \in AllHandles
  BY DEF AllHandles, TaskHandles
<1>2. mux \in MuxType
  BY DEF TypeOK, MuxType
<1>3. DelTriggers(v) \in MuxType
  BY <1>2 DEF DelTriggers, MuxType
<1>4. DelTriggers(v)[CliHandle] = mux[CliHandle]
  BY <1>1 DEF DelTriggers
<1>5. ASSUME NEW h \in TaskHandles PROVE DelTriggers(v)[h] = {}
  <2>1. CASE mux[h] = {}
    BY <1>1, <2>1 DEF DelTriggers
  <2>2. CASE mux[h] # {}
    <3>1. PICK i \in Slots : v[i].handle = h /\ client.trigger_in_mux[i] = mux[h]
      BY <2>2 DEF Registered
    <3> QED
      BY <1>1, <2>2, <3>1 DEF DelTriggers
  <2> QED
    BY <2>1, <2>2
<1> QED
  BY <1>3, <1>4, <1>5

(* The triggers that are added: each handle has the mask of its slot.      *)
LEMMA AddFacts ==
  ASSUME NEW m \in MuxType, \A h \in TaskHandles : m[h] = {}, NEW t \in Triggers, Proper(t), NEW F,
         NEW r, r = AddTriggers(m, t, F)
  PROVE  /\ r \in MuxType
         /\ r[CliHandle] = m[CliHandle]
         /\ \A i \in Added(t, F) : t.v[i].handle \in TaskHandles /\ r[t.v[i].handle] = t.v[i].mask
         /\ \A h \in TaskHandles : r[h] # {} =>
              \E i \in Added(t, F) : t.v[i].handle = h /\ t.v[i].mask = r[h]
<1> DEFINE A == Added(t, F)
           S(h) == {i \in A : t.v[i].handle = h}
<1>1. CliHandle \in AllHandles /\ \A h \in TaskHandles : h \in AllHandles
  BY DEF AllHandles, TaskHandles
<1>2. /\ \A i \in A : i \in Slots /\ t.v[i].mask # {} /\ t.v[i].handle \in TaskHandles
      /\ \A i \in A : t.v[i].mask \in SUBSET Dirs /\ t.v[i].handle # CliHandle
  BY TriggerFields DEF Added, Wanted, Proper
<1>3. \A i, j \in A : t.v[i].handle = t.v[j].handle => i = j
  BY <1>2 DEF Proper
<1>4. \A h \in AllHandles : r[h] = IF S(h) = {} THEN m[h] ELSE t.v[Min(S(h))].mask
  BY DEF AddTriggers
<1> HIDE DEF A
<1>5. ASSUME NEW i \in A PROVE S(t.v[i].handle) = {i} /\ Min(S(t.v[i].handle)) = i
  <2>1. S(t.v[i].handle) = {i}
    BY <1>3
  <2>2. Slots \subseteq Int /\ i \in Slots
    BY <1>2 DEF Slots
  <2>3. Min({i}) = i
    BY <2>2 DEF Min
  <2> QED
    BY <2>1, <2>3
<1>6. \A i \in A : r[t.v[i].handle] = t.v[i].mask
  <2> SUFFICES ASSUME NEW i \in A PROVE r[t.v[i].handle] = t.v[i].mask
    OBVIOUS
  <2>1. S(t.v[i].handle) # {} /\ Min(S(t.v[i].handle)) = i
    BY <1>5
  <2> QED
    BY <1>1, <1>2, <1>4, <2>1
<1>7. \A h \in AllHandles : (\A i \in A : t.v[i].handle # h) => r[h] = m[h]
  BY <1>4
<1>8. r[CliHandle] = m[CliHandle]
  BY <1>1, <1>2, <1>7
<1>9. \A h \in TaskHandles : r[h] # {} => \E i \in A : t.v[i].handle = h /\ t.v[i].mask = r[h]
  BY <1>1, <1>6, <1>7
<1>10. r \in MuxType
  <2>1. DOMAIN r = AllHandles /\ r = [h \in AllHandles |-> r[h]]
    BY DEF AddTriggers
  <2>2. \A h \in AllHandles : r[h] \in SUBSET Dirs
    <3> SUFFICES ASSUME NEW h \in AllHandles PROVE r[h] \in SUBSET Dirs
      OBVIOUS
    <3>1. CASE \E i \in A : t.v[i].handle = h
      BY <1>2, <1>6, <3>1
    <3>2. CASE \A i \in A : t.v[i].handle # h
      BY <1>7, <3>2 DEF MuxType
    <3> QED
      BY <3>1, <3>2
  <2> QED
    BY <2>1, <2>2 DEF MuxType
<1> QED
  BY <1>2, <1>6, <1>8, <1>9, <1>10 DEF A

(* The step of the update that registers anew, also when it fails half-way *)
(* through.                                                                *)
LEMMA RewireFacts ==
  ASSUME TypeOK, Registered(mux, client, client.trigger.v),
         Is("MUTE_DELETED") => Is("MUTE"),
         NEW t \in Triggers, Proper(t), NEW F,
         NEW r, r = Rewire(t, F)
  PROVE  /\ r.mux \in MuxType /\ r.client \in ClientType /\ r.ok \in BOOLEAN
         /\ Registered(r.mux, r.client, t.v)
         /\ r.client.status \ {"MUTE_DELETED"} = client.status \ {"MUTE_DELETED"}
         /\ "MUTE_DELETED" \in r.client.status => Is("MUTE")
         /\ ~ r.ok => r.client.trigger = client.trigger
         /\ r.ok => /\ r.client.trigger = t
                    /\ \A i \in Slots : r.client.trigger_in_mux[i] = t.v[i].mask
                    /\ r.client.handle_in_mux = HandleMask(t)
<1> DEFINE m0 == DelTriggers(client.trigger.v)
           m1 == AddTriggers(m0, t, F)
           A == Added(t, F)
           c1 == [client EXCEPT
                    !.trigger_in_mux = [i \in Slots |-> IF i \in A THEN t.v[i].mask ELSE {}]]
           c2 == IF Is("MUTE") THEN [c1 EXCEPT !.status = @ \union {"MUTE_DELETED"}] ELSE c1
           s == SetHandle(m1, c2, HandleMask(t), F)
<1>1. /\ client \in ClientType /\ client.trigger \in Triggers
      /\ \A i \in Slots : client.trigger.v[i].handle # CliHandle
  <2>1. client \in ClientType
    BY DEF TypeOK, ClientType
  <2>2. client.trigger \in Triggers
    BY <2>1 DEF ClientType
  <2> QED
    BY <2>1, <2>2, TriggerFields
<1>2. m0 \in MuxType /\ m0[CliHandle] = mux[CliHandle] /\ \A h \in TaskHandles : m0[h] = {}
  BY <1>1, DelFacts
<1>3. mux[CliHandle] = client.handle_in_mux
  BY DEF Registered
<1> HIDE DEF m0
<1>4. /\ m1 \in MuxType
      /\ m1[CliHandle] = m0[CliHandle]
      /\ \A i \in A : t.v[i].handle \in TaskHandles /\ m1[t.v[i].handle] = t.v[i].mask
      /\ \A h \in TaskHandles : m1[h] # {} => \E i \in A : t.v[i].handle = h /\ t.v[i].mask = m1[h]
  BY <1>2, AddFacts
<1>5. A \subseteq Slots /\ \A i \in Slots : t.v[i].mask \in SUBSET Dirs
  BY TriggerFields DEF Added, Wanted
<1>6. HandleMask(t) \in SUBSET Dirs
  BY TriggerFields DEF HandleMask, Dirs
<1> HIDE DEF m1, A
<1>7. /\ c1 \in ClientType /\ c1.handle_in_mux = client.handle_in_mux
      /\ c1.status = client.status /\ c1.trigger = client.trigger
      /\ \A i \in Slots : c1.trigger_in_mux[i] = IF i \in A THEN t.v[i].mask ELSE {}
  BY <1>1, <1>5 DEF ClientType
<1> HIDE DEF c1
<1>8. /\ c2 \in ClientType /\ c2.handle_in_mux = c1.handle_in_mux
      /\ c2.trigger = c1.trigger /\ c2.trigger_in_mux = c1.trigger_in_mux
      /\ c2.status = IF Is("MUTE") THEN c1.status \union {"MUTE_DELETED"} ELSE c1.status
  BY <1>7 DEF ClientType, StatusBits
<1> HIDE DEF c2
<1>9. /\ s.mux \in MuxType /\ s.client \in ClientType /\ s.ok \in BOOLEAN
      /\ \A h \in TaskHandles : s.mux[h] = m1[h]
      /\ s.mux[CliHandle] = s.client.handle_in_mux
      /\ s.ok => s.client.handle_in_mux = HandleMask(t)
      /\ ~ s.ok => s.client.handle_in_mux = {}
      /\ s.client.trigger_in_mux = c2.trigger_in_mux
      /\ s.client.status = c2.status
      /\ s.client.trigger = c2.trigger
      /\ s = [mux |-> s.mux, client |-> s.client, ok |-> s.ok]
  <2>1. m1[CliHandle] = c2.handle_in_mux
    BY <1>2, <1>3, <1>4, <1>7, <1>8
  <2>2. s = SetHandle(m1, c2, HandleMask(t), F)
    OBVIOUS
  <2> HIDE DEF s
  <2>3. HandleSet(m1, c2, HandleMask(t), s)
    BY <1>4, <1>6, <1>8, <2>1, <2>2, SetHandleFacts
  <2> QED
    BY <2>3 DEF HandleSet
<1>10. r = CASE Refused(t, F) # {} -> Result(m1, c1, FALSE)
             [] Refused(t, F) = {} /\ ~ s.ok -> s
             [] OTHER -> [s EXCEPT !.client.trigger = t]
  BY DEF Rewire, s, c2, c1, m1, m0, A
<1> HIDE DEF s
(* Whatever the client and the multiplexer become, their triggers are      *)
(* those that were added.                                                  *)
<1>11. ASSUME NEW m, NEW c, m[CliHandle] = c.handle_in_mux,
              \A h \in TaskHandles : m[h] = m1[h],
              c.trigger_in_mux = c1.trigger_in_mux,
              "MUTE_DELETED" \in c.status => "READ" \notin c.handle_in_mux
       PROVE  Registered(m, c, t.v)
  <2>1. \A h \in TaskHandles : m[h] # {} =>
          \E i \in Slots : t.v[i].handle = h /\ c.trigger_in_mux[i] = m[h]
    BY <1>4, <1>5, <1>7, <1>11
  <2>2. \A i \in Slots : c.trigger_in_mux[i] # {} =>
          t.v[i].handle \in TaskHandles /\ m[t.v[i].handle] = c.trigger_in_mux[i]
    BY <1>4, <1>7, <1>11
  <2> QED
    BY <1>11, <2>1, <2>2 DEF Registered
<1>12. CASE Refused(t, F) # {}
  <2>1. r.mux = m1 /\ r.client = c1 /\ r.ok = FALSE
    BY <1>10, <1>12 DEF Result
  <2>2. "MUTE_DELETED" \in client.status => "READ" \notin client.handle_in_mux
    BY DEF Registered
  <2>3. Registered(m1, c1, t.v)
    BY <1>2, <1>3, <1>4, <1>7, <1>11, <2>2
  <2> QED
    BY <1>4, <1>7, <2>1, <2>3 DEF Is
<1>13. "MUTE_DELETED" \in s.client.status => s.client.handle_in_mux = {} \/ (s.ok /\ Is("MUTE"))
  BY <1>7, <1>8, <1>9 DEF Is
<1>14. Is("MUTE") => "READ" \notin HandleMask(t)
  BY DEF HandleMask
<1>15. "MUTE_DELETED" \in s.client.status => "READ" \notin s.client.handle_in_mux
  BY <1>9, <1>13, <1>14
<1>16. Registered(s.mux, s.client, t.v)
  BY <1>8, <1>9, <1>11, <1>15
<1>17. CASE Refused(t, F) = {} /\ ~ s.ok
  <2>1. r = s
    BY <1>10, <1>17
  <2>2. s.client.status = IF Is("MUTE") THEN client.status \union {"MUTE_DELETED"} ELSE client.status
    BY <1>7, <1>8, <1>9
  <2> QED
    BY <1>7, <1>8, <1>9, <1>16, <1>17, <2>1, <2>2 DEF Is
<1>18. CASE Refused(t, F) = {} /\ s.ok
  <2> DEFINE c3 == [s.client EXCEPT !.trigger = t]
  <2>1. r = [mux |-> s.mux, client |-> c3, ok |-> TRUE]
    <3>1. r = [s EXCEPT !.client.trigger = t]
      BY <1>10, <1>18
    <3> QED
      BY <1>9, <1>18, <3>1
  <2>2. /\ c3 \in ClientType /\ c3.trigger = t
        /\ c3.handle_in_mux = s.client.handle_in_mux
        /\ c3.trigger_in_mux = s.client.trigger_in_mux
        /\ c3.status = s.client.status
    BY <1>9 DEF ClientType
  <2> HIDE DEF c3
  <2>3. r.mux = s.mux /\ r.client = c3 /\ r.ok = TRUE
    BY <2>1
  <2>4. Registered(s.mux, c3, t.v)
    BY <1>16, <2>2 DEF Registered
  <2>5. \A i \in Slots : c3.trigger_in_mux[i] = t.v[i].mask
    <3>1. \A i \in Slots : i \notin A => t.v[i].mask = {}
      BY <1>18, TriggerFields DEF A, Added, Wanted
    <3>2. c3.trigger_in_mux = c1.trigger_in_mux
      BY <1>8, <1>9, <2>2
    <3> QED
      BY <1>7, <3>1, <3>2
  <2>6. c3.status = IF Is("MUTE") THEN client.status \union {"MUTE_DELETED"} ELSE client.status
    BY <1>7, <1>8, <1>9, <2>2
  <2> QED
    BY <1>9, <1>18, <2>2, <2>3, <2>4, <2>5, <2>6 DEF Is
<1> QED
  BY <1>9, <1>12, <1>17, <1>18

-----------------------------------------------------------------------------
(* Types and the task queue.                                               *)

(* The parts of the state have their types.                                *)
LEMMA StateTypes ==
  ASSUME TypeOK
  PROVE  /\ client \in ClientType /\ mux \in MuxType /\ tasks \in Seq(TaskType)
         /\ client.trigger \in Triggers /\ client.status \subseteq StatusBits
         /\ tasks # <<>> => /\ Len(tasks) \in Nat \ {0} /\ tasks[1] \in TaskType
                            /\ tasks[1].trigger \in Triggers
         /\ HeadTrigger(tasks) \in Triggers
<1>1. client \in ClientType /\ mux \in MuxType /\ tasks \in Seq(TaskType)
  BY DEF TypeOK, ClientType, MuxType, TaskType
<1>2. client.trigger \in Triggers /\ client.status \subseteq StatusBits
  BY <1>1 DEF ClientType
<1>3. ASSUME tasks # <<>>
      PROVE  Len(tasks) \in Nat \ {0} /\ tasks[1] \in TaskType /\ tasks[1].trigger \in Triggers
  <2>1. Len(tasks) \in Nat \ {0}
    BY <1>1, <1>3, EmptySeq, LenProperties
  <2>2. tasks[1] \in TaskType
    BY <1>1, <2>1, ElementOfSeq
  <2> QED
    BY <2>1, <2>2 DEF TaskType
<1>4. HeadTrigger(tasks) \in Triggers
  BY <1>3, Types DEF HeadTrigger
<1> QED
  BY <1>1, <1>2, <1>3, <1>4

(* The queue q with the task x at its head is r.                           *)
WithHead(q, x, r) ==
  /\ r \in Seq(TaskType) /\ r # <<>> /\ Len(r) = Len(q)
  /\ r[1] = x
  /\ \A n \in 2..Len(q) : r[n] = q[n]

(* Replacing the task at the head leaves the others alone.                 *)
LEMMA HeadSet ==
  ASSUME NEW q \in Seq(TaskType), q # <<>>, NEW x \in TaskType,
         NEW r, r = [q EXCEPT ![1] = x]
  PROVE  WithHead(q, x, r)
<1>1. Len(q) \in Nat \ {0} /\ DOMAIN q = 1..Len(q)
  BY EmptySeq, LenProperties
<1>2. 1 \in 1..Len(q) /\ \A n \in 2..Len(q) : n \in 1..Len(q) /\ n # 1
  BY <1>1
<1>3. r \in Seq(TaskType) /\ Len(r) = Len(q)
  BY <1>2, ExceptSeq
<1>4. r[1] = x /\ \A n \in 2..Len(q) : r[n] = q[n]
  BY <1>1, <1>2
<1>5. r # <<>>
  BY <1>1, <1>3, EmptySeq
<1> QED
  BY <1>3, <1>4, <1>5 DEF WithHead

(* The task x is queued behind the first n ones.                           *)
QueuedBehind(q, n, x) == SubSeq(q, 1, n) \o <<x>> \o SubSeq(q, n + 1, Len(q))

(* The sequence r is a of length i followed by b of length j.              *)
IsConcat(S, a, b, i, j, r) ==
  /\ r \in Seq(S) /\ Len(r) = i + j
  /\ \A k \in 1..(i + j) : r[k] = IF k <= i THEN a[k] ELSE b[k - i]

(* The members of a concatenation.                                         *)
LEMMA Concat ==
  ASSUME NEW S, NEW a \in Seq(S), NEW b \in Seq(S), NEW i, NEW j,
         Len(a) = i, Len(b) = j, NEW r, r = a \o b
  PROVE  IsConcat(S, a, b, i, j, r)
<1>1. /\ a \o b \in Seq(S) /\ Len(a \o b) = Len(a) + Len(b)
      /\ \A k \in 1..(Len(a) + Len(b)) : (a \o b)[k] = IF k <= Len(a) THEN a[k] ELSE b[k - Len(a)]
  BY ConcatProperties
<1>2. /\ r \in Seq(S) /\ Len(r) = Len(a) + Len(b)
      /\ \A k \in 1..(Len(a) + Len(b)) : r[k] = IF k <= Len(a) THEN a[k] ELSE b[k - Len(a)]
  BY <1>1, Zenon
<1> QED
  BY <1>2, Zenon DEF IsConcat

(* A task queued behind another one leaves the head alone and is new.      *)
LEMMA QueueBehind ==
  ASSUME NEW q \in Seq(TaskType), NEW n \in 1..Len(q),
         NEW x \in TaskType, Untouched(x), \A k \in 2..Len(q) : Untouched(q[k])
  PROVE  /\ QueuedBehind(q, n, x) \in Seq(TaskType) /\ QueuedBehind(q, n, x) # <<>>
         /\ QueuedBehind(q, n, x)[1] = q[1]
         /\ \A k \in 2..Len(QueuedBehind(q, n, x)) : Untouched(QueuedBehind(q, n, x)[k])
<1> DEFINE N == Len(q)
           a == SubSeq(q, 1, n)
           b == <<x>>
           c == SubSeq(q, n + 1, N)
           ab == a \o b
           r == QueuedBehind(q, n, x)
<1>1. N \in Nat /\ n \in Nat 
  BY LenProperties
<1>2. a \in Seq(TaskType) /\ Len(a) = n /\ \A i \in 1..n : a[i] = q[i]
  BY <1>1, SubSeqProperties
<1>3. b \in Seq(TaskType) /\ Len(b) = 1 /\ b[1] = x
  BY <1>1
<1>4. c \in Seq(TaskType) /\ Len(c) = N - n /\ \A i \in 1..(N - n) : c[i] = q[n + i]
  BY <1>1, SubSeqProperties
<1> HIDE DEF a, b, c
<1>6. ab = a \o b /\ r = ab \o c
  BY DEF a, b, c, QueuedBehind
<1> HIDE DEF r, ab
<1>5. /\ ab \in Seq(TaskType) /\ Len(ab) = n + 1
      /\ \A i \in 1..(n + 1) : ab[i] = IF i <= n THEN a[i] ELSE b[i - n]
  <2>1. IsConcat(TaskType, a, b, n, 1, ab)
    BY <1>2, <1>3, <1>6, Concat
  <2> QED
    BY <2>1 DEF IsConcat
<1>7. /\ r \in Seq(TaskType) /\ Len(r) = N + 1
      /\ \A i \in 1..(N + 1) : r[i] = IF i <= n + 1 THEN ab[i] ELSE c[i - (n + 1)]
  <2>1. n + 1 \in Nat /\ N - n \in Nat /\ (n + 1) + (N - n) = N + 1
    BY <1>1
  <2>2. IsConcat(TaskType, ab, c, n + 1, N - n, r)
    BY <1>4, <1>5, <1>6, Concat
  <2> QED
    BY <2>1, <2>2 DEF IsConcat
<1> HIDE DEF N
<1>8. r[1] = q[1]
  <2>1. 1 \in 1..(N + 1) /\ 1 \in 1..(n + 1) /\ 1 \in 1..n
    BY <1>1
  <2> QED
    BY <1>1, <1>2, <1>5, <1>7, <2>1
<1>9. ASSUME NEW k \in 2..(N + 1) PROVE Untouched(r[k])
  <2>1. \A i \in 2..N : Untouched(q[i])
    BY DEF N
  <2>2. CASE k <= n
    <3>1. k \in 1..(N + 1) /\ k \in 1..(n + 1) /\ k \in 1..n /\ k \in 2..N
      BY <1>1, <2>2 DEF N
    <3> QED
      BY <1>2, <1>5, <1>7, <2>1, <2>2, <3>1
  <2>3. CASE k = n + 1
    <3>1. k \in 1..(N + 1) /\ k \in 1..(n + 1) /\ k - n = 1 /\ ~ (k <= n) /\ k <= n + 1
      BY <1>1, <2>3
    <3> QED
      BY <1>3, <1>5, <1>7, <3>1
  <2>4. CASE k > n + 1
    <3>1. /\ k \in 1..(N + 1) /\ ~ (k <= n + 1)
          /\ k - (n + 1) \in 1..(N - n) /\ n + (k - (n + 1)) = k - 1 /\ k - 1 \in 2..N
      BY <1>1, <2>4
    <3> QED
      BY <1>4, <1>7, <2>1, <3>1
  <2>5. k <= n \/ k = n + 1 \/ k > n + 1
    BY <1>1
  <2> QED
    BY <2>2, <2>3, <2>4, <2>5
<1>10. r # <<>>
  BY <1>1, <1>7, EmptySeq
<1> QED
  BY <1>7, <1>8, <1>9, <1>10 DEF N, r

-----------------------------------------------------------------------------
(* The inductive invariant.                                                *)

(* The invariant holds before the client is accepted.                      *)
LEMMA InitInv == Init => IInv
<1> SUFFICES ASSUME Init PROVE IInv
  OBVIOUS
<1>1. tasks = <<>> /\ client = NoClient /\ pc = "none" /\ HeadTrigger(tasks) = NoTrigger
  BY DEF Init, HeadTrigger
<1>2. TypeOK
  BY Types DEF Init, TypeOK, ClientType, Events
<1>3. Registered(mux, client, HeadTrigger(tasks).v)
  BY <1>1, Types DEF Registered, Init, AllHandles, TaskHandles
<1>4. QueueInv
  BY <1>1, Types, EmptySeq DEF QueueInv, NoneInMux
<1>5. StatusInv /\ TriggerInv
  BY <1>1, Types DEF StatusInv, TriggerInv, SameHandles, Running, Is
<1>6. WatchInv
  BY <1>1 DEF WatchInv
<1> QED
  BY <1>2, <1>3, <1>4, <1>5, <1>6 DEF IInv

(* A step that leaves the multiplexer, the task at the head and what the   *)
(* client remembers alone.                                                 *)
LEMMA QuietStep ==
  ASSUME IInv, TypeOK', StatusInv', pc # "none", pc' # "none", mux' = mux,
         tasks = <<>> <=> tasks' = <<>>, tasks # <<>> => tasks'[1] = tasks[1],
         \A n \in 2..Len(tasks') : Untouched(tasks'[n]),
         client'.handle_in_mux = client.handle_in_mux,
         client'.trigger_in_mux = client.trigger_in_mux,
         client'.trigger = client.trigger,
         client.status \subseteq client'.status,
         "MUTE_DELETED" \in client'.status => Is("MUTE_DELETED"),
         pc = "main" => pc' = "main" \/ "BAD" \in client'.status,
         pc' = "main" => pc = "main",
         pc' \in {"poll", "dispatch"} =>
           pc \in {"poll", "dispatch"} \/ "BAD" \in client'.status \/ tasks = <<>>
  PROVE  IInv'
<1>1. HeadTrigger(tasks') = HeadTrigger(tasks)
  BY DEF HeadTrigger
<1>2. Registered(mux, client, HeadTrigger(tasks).v)'
  BY <1>1 DEF IInv, Registered, Is
<1>3. QueueInv'
  <2>1. pc' = "main" => tasks # <<>>
    BY DEF IInv, TypeOK
  <2>2. HeadTrigger(tasks).inactive => tasks # <<>>
    BY Types DEF HeadTrigger
  <2>3. Proper(HeadTrigger(tasks))'
    BY <1>1 DEF IInv, QueueInv
  <2> QED
    BY <1>1, <2>1, <2>2, <2>3 DEF IInv, QueueInv, Detached, NoneInMux
<1>4. TriggerInv'
  <2>1. client.trigger.inactive => tasks # <<>>
    BY Types DEF IInv, TriggerInv
  <2>2. ~ Is("BAD")' => ~ Is("BAD")
    BY DEF Is
  <2>3. Running' => Running
    BY <2>2 DEF Running
  <2> QED
    BY <1>1, <2>1, <2>2, <2>3 DEF IInv, TriggerInv, Running, Is
<1>5. WatchInv'
  BY DEF IInv, WatchInv, Watched, Is
<1> QED
  BY <1>2, <1>3, <1>4, <1>5 DEF IInv

(* A client that is freed.                                                 *)
LEMMA FreeInv ==
  ASSUME IInv, FreeClient
  PROVE  IInv'
<1>1. TypeOK /\ Registered(mux, client, HeadTrigger(tasks).v)
  BY DEF IInv
<1>2. HeadTrigger(tasks) \in Triggers /\ mux \in MuxType
  BY <1>1, StateTypes
<1> DEFINE m == IF tasks = <<>> THEN mux ELSE DequeueMux
<1>3. m \in MuxType /\ m[CliHandle] = mux[CliHandle] /\ \A h \in TaskHandles : m[h] = {}
  <2>1. CASE tasks = <<>>
    <3>1. NoneInMux(client)
      BY <2>1 DEF IInv, QueueInv
    <3> QED
      BY <1>1, <1>2, <2>1, <3>1 DEF Registered, NoneInMux
  <2>2. CASE tasks # <<>>
    <3>1. m = DelTriggers(HeadTrigger(tasks).v)
      BY <2>2 DEF DequeueMux, HeadTrigger
    <3> QED
      BY <1>1, <1>2, <3>1, DelFacts, TriggerFields
  <2> QED
    BY <2>1, <2>2
<1>4. /\ mux' = IF client.handle_in_mux = {} THEN m ELSE [m EXCEPT ![CliHandle] = {}]
      /\ client' = NoClient /\ tasks' = <<>> /\ pc' = "none" /\ UNCHANGED <<batch, evt>>
  BY DEF FreeClient
<1>5. CliHandle \in AllHandles /\ \A h \in TaskHandles : h \in AllHandles /\ h # CliHandle
  BY DEF AllHandles, TaskHandles
<1> HIDE DEF m
<1>6. mux' \in MuxType /\ mux'[CliHandle] = {} /\ \A h \in TaskHandles : mux'[h] = {}
  BY <1>1, <1>3, <1>4, <1>5 DEF MuxType, Registered
<1>7. HeadTrigger(tasks') = NoTrigger
  BY <1>4 DEF HeadTrigger
<1>8. TypeOK'
  BY <1>1, <1>4, <1>6, Types DEF TypeOK, MuxType, ClientType
<1>9. Registered(mux, client, HeadTrigger(tasks).v)'
  BY <1>4, <1>6, <1>7, Types DEF Registered
<1>10. QueueInv'
  BY <1>4, <1>7, Types, EmptySeq DEF QueueInv, NoneInMux
<1>11. StatusInv' /\ TriggerInv'
  BY <1>4, <1>7, Types DEF StatusInv, TriggerInv, SameHandles, Running, Is
<1>12. WatchInv'
  BY <1>4 DEF WatchInv
<1> QED
  BY <1>8, <1>9, <1>10, <1>11, <1>12 DEF IInv

(* A client is accepted and watched for reading.                           *)
LEMMA AcceptInv ==
  ASSUME IInv, NEW ready \in BOOLEAN, accept_client(ready)
  PROVE  IInv'
<1>1. TypeOK /\ Registered(mux, client, HeadTrigger(tasks).v) /\ mux \in MuxType
  BY StateTypes DEF IInv
<1>2. /\ pc = "none" /\ pc' = "poll" /\ tasks = <<>> /\ client = NoClient
      /\ mux' = [mux EXCEPT ![CliHandle] = {"READ"}]
      /\ UNCHANGED <<batch, evt, tasks>>
  BY DEF IInv, QueueInv, accept_client
<1>3. /\ client' \in ClientType /\ client'.handle_in_mux = {"READ"}
      /\ client'.status = IF ready THEN {"READY"} ELSE {}
      /\ client'.trigger = NoTrigger
      /\ \A i \in Slots : client'.trigger_in_mux[i] = {}
  BY Types DEF accept_client, ClientType, StatusBits, Dirs
<1>4. HeadTrigger(tasks) = NoTrigger /\ HeadTrigger(tasks') = NoTrigger
  BY <1>2 DEF HeadTrigger
<1>5. CliHandle \in AllHandles /\ \A h \in TaskHandles : h \in AllHandles /\ h # CliHandle
  BY DEF AllHandles, TaskHandles
<1>6. \A h \in TaskHandles : mux[h] = {}
  BY <1>1, <1>2, <1>4, Types DEF Registered
<1>7. mux' \in MuxType /\ mux'[CliHandle] = {"READ"} /\ \A h \in TaskHandles : mux'[h] = {}
  BY <1>1, <1>2, <1>5, <1>6 DEF MuxType, Dirs
<1>8. TypeOK'
  BY <1>1, <1>2, <1>3, <1>7 DEF TypeOK, MuxType, ClientType
<1>9. Registered(mux, client, HeadTrigger(tasks).v)'
  BY <1>3, <1>4, <1>7 DEF Registered
<1>10. QueueInv'
  BY <1>2, <1>3, <1>4, Types, EmptySeq DEF QueueInv, NoneInMux
<1>11. StatusInv' /\ TriggerInv'
  BY <1>2, <1>3, <1>4, Types DEF StatusInv, TriggerInv, SameHandles, Running, Is
<1>12. WatchInv'
  BY <1>2, <1>3, Types DEF WatchInv, Watched
<1> QED
  BY <1>8, <1>9, <1>10, <1>11, <1>12 DEF IInv

(* The steps that at most set bits of the status.                          *)
LEMMA StatusSteps ==
  ASSUME IInv,
         \/ Poll
         \/ PollEnds /\ ~ FreeClient
         \/ \E e \in batch : perform_client_task(e)
         \/ ReadEnds \/ ReadFails \/ ReadHalfClose
         \/ InvokeNothing
         \/ MainFails
  PROVE  IInv'
<1>1. TypeOK /\ client \in ClientType
  BY StateTypes DEF IInv
<1>2. UNCHANGED <<mux, tasks>> /\ pc # "none" /\ pc' # "none" /\ pc' # "main"
  BY DEF Poll, PollEnds, perform_client_task, ReadEnds, ReadFails, ReadHalfClose,
         InvokeNothing, MainFails
<1>3. \/ client' = client
      \/ \E b \in {"BAD", "READY", "MUTE"} : client' = [client EXCEPT !.status = @ \union {b}]
  BY DEF Poll, PollEnds, perform_client_task, ReadEnds, ReadFails, ReadHalfClose,
         InvokeNothing, MainFails, mark_bad_client
<1>4. PICK b \in {"BAD", "READY", "MUTE"} :
        client' = client \/ client' = [client EXCEPT !.status = @ \union {b}]
  BY <1>3
<1>5. /\ client' \in ClientType
      /\ client'.handle_in_mux = client.handle_in_mux
      /\ client'.trigger_in_mux = client.trigger_in_mux
      /\ client'.trigger = client.trigger
      /\ client'.status \in {client.status, client.status \union {b}}
  BY <1>1, <1>4 DEF ClientType, StatusBits
<1>6. TypeOK'
  <2>1. batch' \subseteq Events
    BY <1>1 DEF TypeOK, Poll, PollEnds, perform_client_task, ReadEnds, ReadFails,
                ReadHalfClose, InvokeNothing, MainFails
  <2>2. evt' \in Events \union {NoEvent}
    BY <1>1 DEF TypeOK, Poll, PollEnds, perform_client_task, ReadEnds, ReadFails,
                ReadHalfClose, InvokeNothing, MainFails
  <2>3. pc' \in {"none", "poll", "dispatch", "read", "invoke", "main"}
    BY <1>1 DEF TypeOK, Poll, PollEnds, perform_client_task, ReadEnds, ReadFails,
                ReadHalfClose, InvokeNothing, MainFails
  <2> QED
    BY <1>1, <1>2, <1>5, <2>1, <2>2, <2>3 DEF TypeOK, ClientType
<1>7. pc = "main" => "BAD" \in client'.status
  BY <1>1 DEF Poll, PollEnds, perform_client_task, ReadEnds, ReadFails, ReadHalfClose,
              InvokeNothing, MainFails, mark_bad_client, ClientType
<1>8. StatusInv'
  <2>1. StatusInv
    BY DEF IInv
  <2>2. CASE Poll \/ ReadEnds \/ (PollEnds /\ ~ FreeClient)
    BY <2>1, <2>2 DEF StatusInv, Is, Poll, PollEnds, ReadEnds
  <2>3. CASE \E e \in batch : perform_client_task(e)
    BY <1>1, <2>1, <2>3 DEF StatusInv, Is, perform_client_task, mark_bad_client, Ignores,
                            ClientType
  <2>4. CASE ReadFails \/ ReadHalfClose \/ InvokeNothing \/ MainFails
    BY <1>1, <2>1, <2>4 DEF StatusInv, Is, ReadFails, ReadHalfClose, InvokeNothing, MainFails,
                            mark_bad_client, ClientType
  <2> QED
    BY <2>2, <2>3, <2>4
<1>9. \A n \in 2..Len(tasks') : Untouched(tasks'[n])
  BY <1>2 DEF IInv, QueueInv
<1>10. pc' \in {"poll", "dispatch"} =>
         pc \in {"poll", "dispatch"} \/ "BAD" \in client'.status \/ tasks = <<>>
  BY <1>1 DEF Poll, PollEnds, perform_client_task, ReadEnds, ReadFails, ReadHalfClose,
              InvokeNothing, MainFails, mark_bad_client, ClientType
<1> QED
  BY <1>2, <1>5, <1>6, <1>7, <1>8, <1>9, <1>10, QuietStep DEF Is

(* A queue of tasks that have not been run, with nothing registered.       *)
FreshQueue(q) ==
  /\ q \in Seq(TaskType)
  /\ \A n \in 2..Len(q) : Untouched(q[n])
  /\ q # <<>> => /\ SameHandles(q[1].trigger.v, NoTrigger.v) /\ Proper(q[1].trigger)
                 /\ q[1].trigger.inactive = FALSE
                 /\ q[1].ran = FALSE /\ q[1].failed = FALSE

(* A queue of untouched tasks is fresh, also when its head has been set up *)
(* to be run.                                                              *)
LEMMA NewTasks ==
  ASSUME NEW q \in Seq(TaskType), \A n \in 1..Len(q) : Untouched(q[n])
  PROVE  /\ FreshQueue(q) /\ FreshQueue(Primed(q)) /\ (Primed(q) = <<>> <=> q = <<>>)
         /\ q # <<>> => Primed(q)[1].trigger.cmask = FirstMask(q)
<1>1. Len(q) \in Nat /\ (q # <<>> => Len(q) # 0)
  BY EmptySeq, LenProperties
<1>2. \A n \in 2..Len(q) : Untouched(q[n])
  BY <1>1
<1>3. q # <<>> => q[1] \in TaskType /\ Untouched(q[1])
  BY <1>1, ElementOfSeq
<1>4. FreshQueue(q)
  BY <1>2, <1>3 DEF FreshQueue, Untouched, TaskType, Triggers
<1>5. CASE q = <<>>
  <2>1. Primed(q) = q
    BY <1>5 DEF Primed
  <2> QED
    BY <1>4, <1>5, <2>1
<1>6. CASE q # <<>>
  <2> DEFINE mask == FirstMask(q)
             t == [q[1].trigger EXCEPT !.cmask = mask]
             x == [q[1] EXCEPT !.trigger = t]
  <2>1. mask \in SUBSET Dirs
    BY DEF FirstMask, Dirs
  <2> HIDE DEF mask
  <2>2. q[1].trigger \in Triggers
    BY <1>3, <1>6 DEF TaskType
  <2>3. t \in Triggers /\ t.v = q[1].trigger.v /\ t.inactive = q[1].trigger.inactive
        /\ t.cmask = mask
    BY <2>1, <2>2 DEF Triggers
  <2>4. Primed(q) = [q EXCEPT ![1] = x]
    BY <1>6 DEF Primed, mask
  <2> HIDE DEF t
  <2>5. x \in TaskType /\ x.trigger = t /\ x.ran = q[1].ran /\ x.failed = q[1].failed
    BY <1>3, <1>6, <2>3 DEF TaskType
  <2> HIDE DEF x
  <2>6. /\ Primed(q) \in Seq(TaskType) /\ Primed(q) # <<>> /\ Len(Primed(q)) = Len(q)
        /\ Primed(q)[1] = x
        /\ \A n \in 2..Len(q) : Primed(q)[n] = q[n]
    <3>1. WithHead(q, x, Primed(q))
      BY <1>6, <2>4, <2>5, HeadSet
    <3> QED
      BY <3>1 DEF WithHead
  <2>7. Proper(t)
    BY <1>3, <1>6, <2>3 DEF Proper, Untouched
  <2>8. FreshQueue(Primed(q))
    BY <1>2, <1>4, <1>6, <2>3, <2>5, <2>6, <2>7 DEF FreshQueue
  <2> QED
    BY <1>4, <1>6, <2>3, <2>5, <2>6, <2>8 DEF mask
<1> QED
  BY <1>5, <1>6

(* The result r of update_mux_for_next_task().                             *)
NextSet(m, c, q, r) ==
  /\ r.mux \in MuxType /\ r.client \in ClientType /\ r.ok \in BOOLEAN
  /\ \A h \in TaskHandles : r.mux[h] = m[h]
  /\ r.mux[CliHandle] = r.client.handle_in_mux
  /\ r.ok => /\ r.client.handle_in_mux = FirstMask(q)
             /\ q = <<>> => "MUTE" \notin c.status
  /\ ~ r.ok => r.client.handle_in_mux \in {{}, c.handle_in_mux}
  /\ r.client.trigger_in_mux = c.trigger_in_mux
  /\ r.client.status = c.status
  /\ r.client.trigger = c.trigger

(* What update_mux_for_next_task() does when all task handles are out of   *)
(* the multiplexer.                                                        *)
LEMMA NextTaskFacts ==
  ASSUME NEW m \in MuxType, NEW c \in ClientType, m[CliHandle] = c.handle_in_mux,
         NEW q, NEW F, NEW r, r = update_mux_for_next_task(m, c, q, F)
  PROVE  NextSet(m, c, q, r)
<1>1. CASE q = <<>> /\ "MUTE" \in c.status
  <2>1. r.mux = m /\ r.client = c /\ r.ok = FALSE
    BY <1>1 DEF update_mux_for_next_task, Result
  <2> QED
    BY <1>1, <2>1 DEF NextSet
<1>2. CASE ~ (q = <<>> /\ "MUTE" \in c.status)
  <2>1. r = SetHandle(m, c, FirstMask(q), F)
    BY <1>2 DEF update_mux_for_next_task
  <2>2. FirstMask(q) \in SUBSET Dirs
    BY DEF FirstMask, Dirs
  <2>3. HandleSet(m, c, FirstMask(q), r)
    BY <2>1, <2>2, SetHandleFacts
  <2> QED
    BY <1>2, <2>3 DEF HandleSet, NextSet
<1> QED
  BY <1>1, <1>2

(* A queue whose head, if any, has not been run, and nothing of a task is  *)
(* in the multiplexer.                                                     *)
LEMMA FreshStep ==
  ASSUME TypeOK', pc' # "none", pc' # "main", FreshQueue(tasks'), StatusInv',
         mux'[CliHandle] = client'.handle_in_mux,
         \A h \in TaskHandles : mux'[h] = {},
         \A i \in Slots : client'.trigger_in_mux[i] = {},
         client'.trigger = NoTrigger,
         "MUTE_DELETED" \in client'.status => "READ" \notin client'.handle_in_mux,
         "BAD" \notin client'.status /\ tasks' = <<>> => client'.handle_in_mux = {"READ"},
         "BAD" \notin client'.status /\ tasks' # <<>> =>
           "WRITE" \in client'.handle_in_mux /\ "WRITE" \in tasks'[1].trigger.cmask
  PROVE  IInv'
<1>1. /\ SameHandles(NoTrigger.v, HeadTrigger(tasks').v) /\ Proper(HeadTrigger(tasks'))
      /\ HeadTrigger(tasks').inactive = FALSE
  BY Types DEF HeadTrigger, FreshQueue, SameHandles
<1>2. Registered(mux, client, HeadTrigger(tasks).v)'
  BY <1>1 DEF Registered
<1>3. QueueInv'
  <2>1. Proper(HeadTrigger(tasks))'
    BY <1>1
  <2> QED
    BY <1>1, <2>1 DEF QueueInv, FreshQueue, NoneInMux
<1>4. TriggerInv'
  <2>1. ~ Running'
    BY DEF Running, FreshQueue
  <2> QED
    BY <1>1, <2>1, Types DEF TriggerInv, Is
<1>5. WatchInv'
  BY Types DEF WatchInv, Watched, FreshQueue, Is
<1> QED
  BY <1>2, <1>3, <1>4, <1>5 DEF IInv

(* The task at the head ends and the next one takes its place.             *)
LEMMA MainEndsInv ==
  ASSUME IInv, NEW F, MainEnds(F)
  PROVE  IInv'
<1>1. /\ TypeOK /\ Registered(mux, client, HeadTrigger(tasks).v)
      /\ StatusInv /\ pc = "main" /\ tasks # <<>> /\ pc' = "dispatch"
      /\ UNCHANGED <<batch, evt>>
  BY DEF IInv, MainEnds, TypeOK
<1>2. /\ HeadTrigger(tasks) \in Triggers /\ mux \in MuxType /\ client \in ClientType
      /\ tasks \in Seq(TaskType) /\ Len(tasks) \in Nat \ {0}
  BY <1>1, StateTypes
<1> DEFINE q == Tail(tasks)
           m == DequeueMux
           c0 == Dequeued(client)
           r == update_mux_for_next_task(m, c0, q, F)
           c == [r.client EXCEPT !.trigger = NoTrigger]
<1>3. q \in Seq(TaskType) /\ \A n \in 1..Len(q) : Untouched(q[n])
  <2>1. /\ q \in Seq(TaskType) /\ Len(q) = Len(tasks) - 1
        /\ \A n \in 1..Len(q) : q[n] = tasks[n + 1]
    BY <1>1, <1>2, HeadTailProperties
  <2>2. \A n \in 1..Len(q) : n + 1 \in 2..Len(tasks)
    BY <1>2, <2>1
  <2> QED
    BY <2>1, <2>2 DEF IInv, QueueInv
<1>4. m \in MuxType /\ m[CliHandle] = mux[CliHandle] /\ \A h \in TaskHandles : m[h] = {}
  <2>1. m = DelTriggers(HeadTrigger(tasks).v)
    BY <1>1 DEF DequeueMux, HeadTrigger
  <2> QED
    BY <1>1, <1>2, <2>1, DelFacts, TriggerFields
<1>5. /\ c0 \in ClientType /\ c0.handle_in_mux = client.handle_in_mux
      /\ c0.status = client.status /\ c0.trigger_in_mux = [i \in Slots |-> {}]
  BY <1>2 DEF Dequeued, ClientType
<1>6. m[CliHandle] = c0.handle_in_mux
  BY <1>1, <1>4, <1>5 DEF Registered
<1>7. /\ mux' = r.mux
      /\ client' = IF r.ok THEN c ELSE mark_bad_client(c)
      /\ tasks' = IF r.ok THEN Primed(q) ELSE q
  BY DEF MainEnds
<1>8. r = update_mux_for_next_task(m, c0, q, F)
  OBVIOUS
<1> HIDE DEF r, m, c0, q
<1>9. /\ r.mux \in MuxType /\ r.client \in ClientType /\ r.ok \in BOOLEAN
      /\ \A h \in TaskHandles : r.mux[h] = m[h]
      /\ r.mux[CliHandle] = r.client.handle_in_mux
      /\ r.ok => /\ r.client.handle_in_mux = FirstMask(q)
                 /\ q = <<>> => "MUTE" \notin c0.status
      /\ ~ r.ok => r.client.handle_in_mux \in {{}, c0.handle_in_mux}
      /\ r.client.trigger_in_mux = c0.trigger_in_mux
      /\ r.client.status = c0.status
  <2>1. NextSet(m, c0, q, r)
    BY <1>4, <1>5, <1>6, <1>8, NextTaskFacts
  <2> QED
    BY <2>1 DEF NextSet
<1>10. /\ client' \in ClientType
       /\ client'.handle_in_mux = r.client.handle_in_mux
       /\ client'.trigger_in_mux = r.client.trigger_in_mux
       /\ client'.trigger = NoTrigger
       /\ client'.status = IF r.ok THEN r.client.status ELSE r.client.status \union {"BAD"}
  <2>1. /\ c \in ClientType /\ c.handle_in_mux = r.client.handle_in_mux
        /\ c.trigger_in_mux = r.client.trigger_in_mux /\ c.trigger = NoTrigger
        /\ c.status = r.client.status
    BY <1>9, Types DEF ClientType
  <2> HIDE DEF c
  <2> QED
    BY <1>7, <1>9, <2>1 DEF mark_bad_client, ClientType, StatusBits
<1>11. /\ FreshQueue(tasks') /\ (tasks' = <<>> <=> q = <<>>)
       /\ r.ok /\ q # <<>> => tasks'[1].trigger.cmask = FirstMask(q)
  BY <1>3, <1>7, <1>9, NewTasks
<1>12. TypeOK'
  BY <1>1, <1>7, <1>9, <1>10, <1>11 DEF TypeOK, ClientType, MuxType, TaskType, FreshQueue
<1>13. StatusInv'
  BY <1>1, <1>5, <1>9, <1>10 DEF StatusInv, Is
<1>14. \A i \in Slots : client'.trigger_in_mux[i] = {}
  BY <1>5, <1>9, <1>10
<1>15. r.ok => /\ q = <<>> => FirstMask(q) = {"READ"} /\ ~ Is("MUTE")
               /\ q # <<>> => FirstMask(q) = IF Is("MUTE") THEN {"WRITE"} ELSE Dirs
  BY <1>5, <1>9 DEF FirstMask, Is
<1>16. "MUTE_DELETED" \in client'.status => "READ" \notin client'.handle_in_mux
  <2>1. "MUTE_DELETED" \in client'.status => Is("MUTE_DELETED")
    BY <1>5, <1>9, <1>10 DEF Is
  <2>2. Is("MUTE_DELETED") => Is("MUTE") /\ "READ" \notin client.handle_in_mux
    BY <1>1 DEF StatusInv, Registered, Is
  <2>3. CASE r.ok
    BY <1>9, <1>10, <1>15, <2>1, <2>2, <2>3
  <2>4. CASE ~ r.ok
    BY <1>5, <1>9, <1>10, <2>1, <2>2, <2>4
  <2> QED
    BY <2>3, <2>4
<1>17. /\ "BAD" \notin client'.status /\ tasks' = <<>> => client'.handle_in_mux = {"READ"}
       /\ "BAD" \notin client'.status /\ tasks' # <<>> =>
            "WRITE" \in client'.handle_in_mux /\ "WRITE" \in tasks'[1].trigger.cmask
  BY <1>9, <1>10, <1>11, <1>15 DEF Dirs
<1>18. mux'[CliHandle] = client'.handle_in_mux /\ \A h \in TaskHandles : mux'[h] = {}
  BY <1>4, <1>7, <1>9, <1>10
<1> QED
  BY <1>1, <1>10, <1>11, <1>12, <1>13, <1>14, <1>16, <1>17, <1>18, FreshStep

(* A task is queued behind another one.                                    *)
LEMMA EntaskBehind ==
  ASSUME IInv, NEW n \in 1..Len(tasks), NEW queued \in BOOLEAN, NEW fed \in BOOLEAN, NEW F,
         NEW r, r = qse_httpd_entask(n, queued, fed, F),
         pc \in {"read", "main"}, mux' = mux, client' = r.client, tasks' = r.tasks,
         pc' = IF r.ok THEN pc ELSE "dispatch",
         batch' = batch, evt' \in {evt, NoEvent}
  PROVE  IInv'
<1>1. TypeOK /\ tasks \in Seq(TaskType) /\ client \in ClientType
  BY StateTypes DEF IInv
<1>2. Len(tasks) \in Nat /\ n > 0 /\ tasks # <<>>
  BY <1>1, LenProperties, EmptySeq
<1>3. /\ \A k \in 2..Len(tasks) : Untouched(tasks[k])
      /\ NewTask(fed) \in TaskType /\ Untouched(NewTask(fed))
  BY Types DEF IInv, QueueInv
<1>4. CASE queued
  <2>1. r.mux = mux /\ r.client = client /\ r.tasks = QueuedBehind(tasks, n, NewTask(fed)) /\ r.ok = TRUE
    <3>1. r = [mux |-> mux, client |-> client, tasks |-> QueuedBehind(tasks, n, NewTask(fed)), ok |-> TRUE]
      BY <1>2, <1>4 DEF qse_httpd_entask, QueuedBehind
    <3> QED
      BY <3>1
  <2>2. /\ tasks' \in Seq(TaskType) /\ tasks' # <<>> /\ tasks'[1] = tasks[1]
        /\ \A k \in 2..Len(tasks') : Untouched(tasks'[k])
    BY <1>1, <1>3, <2>1, QueueBehind
  <2>3. TypeOK'
    BY <1>1, <2>1, <2>2 DEF TypeOK, TaskType
  <2>4. StatusInv'
    BY <2>1 DEF IInv, StatusInv, Is
  <2> QED
    BY <1>2, <2>1, <2>2, <2>3, <2>4, QuietStep DEF Is
<1>5. CASE ~ queued
  <2>1. r.client = mark_bad_client(client) /\ r.tasks = tasks /\ r.ok = FALSE
    BY <1>5 DEF qse_httpd_entask
  <2>2. /\ client' \in ClientType
        /\ client'.handle_in_mux = client.handle_in_mux
        /\ client'.trigger_in_mux = client.trigger_in_mux
        /\ client'.trigger = client.trigger
        /\ client'.status = client.status \union {"BAD"}
    BY <1>1, <2>1 DEF mark_bad_client, ClientType, StatusBits
  <2>3. TypeOK'
    BY <1>1, <2>1, <2>2 DEF TypeOK, ClientType
  <2>4. StatusInv'
    BY <2>1, <2>2 DEF IInv, StatusInv, Is
  <2> QED
    BY <1>2, <1>3, <2>1, <2>2, <2>3, <2>4, QuietStep DEF Is
<1> QED
  BY <1>4, <1>5

(* A running task queues another one.                                      *)
LEMMA MainEntasksInv ==
  ASSUME IInv, NEW n \in 1..Len(tasks), NEW queued \in BOOLEAN, MainEntasks(n, queued)
  PROVE  IInv'
<1> DEFINE r == qse_httpd_entask(n, queued, FALSE, {})
<1>1. /\ pc = "main" /\ mux' = mux /\ client' = r.client /\ tasks' = r.tasks
      /\ pc' = IF r.ok THEN pc ELSE "dispatch"
      /\ UNCHANGED <<batch, evt>>
  BY DEF MainEntasks
<1>2. r = qse_httpd_entask(n, queued, FALSE, {})
  OBVIOUS
<1> HIDE DEF r
<1> QED
  BY <1>1, <1>2, EntaskBehind

(* The reader completes a request and may queue a task for it.             *)
LEMMA ReadRequestInv ==
  ASSUME IInv, NEW queued \in BOOLEAN, NEW fed \in BOOLEAN, NEW F,
         ReadRequest(queued, fed, F)
  PROVE  IInv'
<1> DEFINE r == qse_httpd_entask(Len(tasks), queued, fed, F)
<1>1. /\ pc = "read" /\ mux' = r.mux /\ client' = r.client /\ tasks' = r.tasks
      /\ pc' = IF r.ok THEN pc ELSE "dispatch"
      /\ batch' = batch /\ evt' = IF r.ok THEN evt ELSE NoEvent
  BY DEF ReadRequest
<1>2. r = qse_httpd_entask(Len(tasks), queued, fed, F)
  OBVIOUS
<1>3. /\ TypeOK /\ tasks \in Seq(TaskType) /\ client \in ClientType /\ mux \in MuxType
      /\ Registered(mux, client, HeadTrigger(tasks).v)
  BY StateTypes DEF IInv
<1>4. Len(tasks) \in Nat /\ (tasks = <<>> <=> Len(tasks) = 0)
  BY <1>3, LenProperties, EmptySeq
<1> HIDE DEF r
<1>5. CASE tasks # <<>>
  <2>1. Len(tasks) \in 1..Len(tasks) /\ Len(tasks) > 0
    BY <1>4, <1>5
  <2>2. r.mux = mux
    BY <1>2, <2>1 DEF qse_httpd_entask
  <2>3. evt' \in {evt, NoEvent} /\ mux' = mux
    BY <1>1, <2>2
  <2> QED
    BY <1>1, <1>2, <2>1, <2>3, EntaskBehind
<1>6. CASE tasks = <<>>
  <2> DEFINE x == NewTask(fed)
             q == SubSeq(tasks, 1, 0) \o <<x>> \o SubSeq(tasks, 1, 0)
             s == update_mux_for_next_task(mux, client, q, F)
  <2>1. q \in Seq(TaskType) /\ q # <<>> /\ \A k \in 1..Len(q) : Untouched(q[k])
    <3>4. x \in TaskType /\ Untouched(x)
      BY Types
    <3> HIDE DEF x
    <3>1. <<x>> \in Seq(TaskType)
      BY <3>4
    <3>2. SubSeq(tasks, 1, 0) = <<>>
      BY <1>6
    <3>3. q = <<x>>
      BY <3>1, <3>2, ConcatEmptySeq
    <3> HIDE DEF q
    <3> QED
      BY <3>3, <3>4
  <2>2. /\ \A i \in Slots : client.trigger_in_mux[i] = {}
        /\ \A h \in TaskHandles : mux[h] = {}
        /\ client.trigger = NoTrigger /\ client.handle_in_mux = {"READ"}
        /\ mux[CliHandle] = client.handle_in_mux
    <3>1. NoneInMux(client)
      BY <1>6 DEF IInv, QueueInv
    <3>2. ~ Is("BAD")
      BY <1>1 DEF IInv, StatusInv
    <3> QED
      BY <1>1, <1>3, <1>6, <3>1, <3>2 DEF Registered, NoneInMux, IInv, TriggerInv, WatchInv
  <2>3. s = update_mux_for_next_task(mux, client, q, F)
    OBVIOUS
  <2>4. /\ ~ queued => r.mux = mux /\ r.client = mark_bad_client(client) /\ r.tasks = tasks
                       /\ r.ok = FALSE
        /\ queued /\ s.ok => r.mux = s.mux /\ r.client = s.client /\ r.tasks = Primed(q)
                             /\ r.ok = TRUE
        /\ queued /\ ~ s.ok => r.mux = s.mux /\ r.client = mark_bad_client(s.client)
                               /\ r.tasks = tasks /\ r.ok = FALSE
    <3>1. Len(tasks) = 0
      BY <1>4, <1>6
    <3> QED
      BY <1>2, <1>6, <3>1 DEF qse_httpd_entask
  <2> HIDE DEF s, q, x
  <2>5. /\ s.mux \in MuxType /\ s.client \in ClientType /\ s.ok \in BOOLEAN
        /\ \A h \in TaskHandles : s.mux[h] = mux[h]
        /\ s.mux[CliHandle] = s.client.handle_in_mux
        /\ s.ok => s.client.handle_in_mux = FirstMask(q)
        /\ ~ s.ok => s.client.handle_in_mux \in {{}, client.handle_in_mux}
        /\ s.client.trigger_in_mux = client.trigger_in_mux
        /\ s.client.status = client.status
        /\ s.client.trigger = client.trigger
    <3>1. NextSet(mux, client, q, s)
      BY <1>3, <2>2, <2>3, NextTaskFacts
    <3> QED
      BY <3>1 DEF NextSet
  <2>6. \A c \in ClientType :
          /\ mark_bad_client(c) \in ClientType
          /\ mark_bad_client(c).handle_in_mux = c.handle_in_mux
          /\ mark_bad_client(c).trigger_in_mux = c.trigger_in_mux
          /\ mark_bad_client(c).trigger = c.trigger
          /\ mark_bad_client(c).status = c.status \union {"BAD"}
    BY DEF mark_bad_client, ClientType, StatusBits
  <2>7. /\ client' \in ClientType /\ mux' \in MuxType
        /\ client'.trigger_in_mux = client.trigger_in_mux
        /\ client'.trigger = client.trigger
        /\ mux'[CliHandle] = client'.handle_in_mux
        /\ \A h \in TaskHandles : mux'[h] = mux[h]
        /\ r.ok \in BOOLEAN
        /\ client'.status = IF r.ok THEN client.status ELSE client.status \union {"BAD"}
        /\ r.ok => client'.handle_in_mux = FirstMask(q) /\ tasks' = Primed(q)
        /\ ~ r.ok => tasks' = tasks
    <3>1. CASE ~ queued
      <4>1. client' = mark_bad_client(client) /\ mux' = mux /\ tasks' = tasks /\ r.ok = FALSE
        BY <1>1, <2>4, <3>1
      <4>2. /\ client' \in ClientType /\ client'.status = client.status \union {"BAD"}
            /\ client'.handle_in_mux = client.handle_in_mux
            /\ client'.trigger_in_mux = client.trigger_in_mux
            /\ client'.trigger = client.trigger
        BY <1>3, <2>6, <4>1
      <4> QED
        BY <1>3, <2>2, <4>1, <4>2
    <3>2. CASE queued /\ s.ok
      BY <1>1, <2>4, <2>5, <3>2
    <3>3. CASE queued /\ ~ s.ok
      <4>1. client' = mark_bad_client(s.client) /\ mux' = s.mux /\ tasks' = tasks /\ r.ok = FALSE
        BY <1>1, <2>4, <3>3
      <4>2. /\ client' \in ClientType /\ client'.status = s.client.status \union {"BAD"}
            /\ client'.handle_in_mux = s.client.handle_in_mux
            /\ client'.trigger_in_mux = s.client.trigger_in_mux
            /\ client'.trigger = s.client.trigger
        BY <1>3, <2>5, <2>6, <4>1
      <4> QED
        BY <1>3, <2>5, <2>2, <4>1, <4>2
    <3> QED
      BY <2>5, <3>1, <3>2, <3>3
  <2>8. /\ FreshQueue(tasks')
        /\ r.ok => tasks' # <<>> /\ tasks'[1].trigger.cmask = FirstMask(q)
    <3>1. FreshQueue(tasks)
      BY <1>3, <1>4, <1>6 DEF FreshQueue
    <3> QED
      BY <2>1, <2>7, <3>1, NewTasks
  <2>9. ~ Is("MUTE") /\ ~ Is("MUTE_DELETED") /\ ~ Is("BAD")
    BY <1>1 DEF IInv, StatusInv
  <2>10. r.ok => client'.handle_in_mux = Dirs /\ tasks'[1].trigger.cmask = Dirs
    BY <2>1, <2>7, <2>8, <2>9 DEF FirstMask
  <2>11. TypeOK'
    <3>1. pc' \in {"read", "dispatch"} /\ evt' \in {evt, NoEvent}
      BY <1>1
    <3> QED
      BY <1>1, <1>3, <2>7, <2>8, <3>1 DEF TypeOK, ClientType, MuxType, TaskType, FreshQueue
  <2>12. StatusInv'
    BY <1>1, <2>7, <2>9 DEF StatusInv, Is
  <2>13. /\ "MUTE_DELETED" \notin client'.status
         /\ "BAD" \notin client'.status => r.ok
    BY <2>7, <2>9 DEF Is
  <2> QED
    BY <1>1, <2>2, <2>7, <2>8, <2>10, <2>11, <2>12, <2>13, FreshStep DEF Dirs
<1> QED
  BY <1>5, <1>6

(* The task n of the queue q is replaced by x and then by y.               *)
Replaced(q, n, y, r) ==
  /\ r \in Seq(TaskType) /\ Len(r) = Len(q) /\ r # <<>>
  /\ r[n] = y /\ \A k \in 1..Len(q) : k # n => r[k] = q[k]
  /\ n = 1 => r[1] = y /\ \A k \in 2..Len(q) : r[k] = q[k]

(* Replacing a task leaves the others alone.                               *)
LEMMA TaskSet ==
  ASSUME NEW q \in Seq(TaskType), NEW n \in 1..Len(q), NEW x \in TaskType,
         NEW r, r = [q EXCEPT ![n] = x]
  PROVE  Replaced(q, n, x, r)
<1>1. Len(q) \in Nat /\ DOMAIN q = 1..Len(q)
  BY LenProperties
<1>2. r \in Seq(TaskType) /\ Len(r) = Len(q)
  BY ExceptSeq
<1>3. r[n] = x /\ \A k \in 1..Len(q) : k # n => r[k] = q[k]
  BY <1>1
<1>4. \A k \in 2..Len(q) : k \in 1..Len(q) /\ k # 1
  BY <1>1
<1>5. r # <<>>
  BY <1>1, <1>2, EmptySeq
<1> QED
  BY <1>2, <1>3, <1>4, <1>5 DEF Replaced

(* Two fields of a task are changed, one after the other.                  *)
LEMMA TaskSetTwice ==
  ASSUME NEW q \in Seq(TaskType), NEW n \in 1..Len(q), NEW x \in TaskType, NEW y \in TaskType,
         NEW p, p = [q EXCEPT ![n] = x], NEW r, r = [p EXCEPT ![n] = y]
  PROVE  Replaced(q, n, y, r)
<1>1. Replaced(q, n, x, p)
  BY TaskSet
<1>2. p \in Seq(TaskType) /\ n \in 1..Len(p) /\ Len(p) = Len(q)
  BY <1>1 DEF Replaced
<1>3. Replaced(p, n, y, r)
  BY <1>2, TaskSet
<1> QED
  BY <1>1, <1>2, <1>3 DEF Replaced

(* The number of the task at the head.                                     *)
LEMMA HeadNumber ==
  ASSUME TypeOK, tasks # <<>>
  PROVE  1 \in 1..Len(tasks)
<1>1. Len(tasks) \in Nat \ {0}
  BY StateTypes
<1> QED
  BY <1>1

(* The main function of the task is called.                                *)
LEMMA InvokeTaskInv ==
  ASSUME IInv, InvokeTask
  PROVE  IInv'
<1> DEFINE x == [tasks[1] EXCEPT !.ran = TRUE]
           q == [tasks EXCEPT ![1] = x]
           y == [q[1] EXCEPT !.put_off = FALSE]
<1>1. /\ TypeOK /\ pc = "invoke" /\ pc' = "main" /\ tasks # <<>>
      /\ tasks' = [q EXCEPT ![1] = y]
      /\ evt' = NoEvent /\ UNCHANGED <<mux, batch, client>>
  BY DEF IInv, InvokeTask, HasTask
<1>2. tasks \in Seq(TaskType) /\ tasks[1] \in TaskType /\ 1 \in 1..Len(tasks)
  BY <1>1, StateTypes, HeadNumber
<1>3. x \in TaskType
  BY <1>2 DEF TaskType
<1>4. q[1] = x
  <2>1. Replaced(tasks, 1, x, q)
    BY <1>2, <1>3, TaskSet
  <2> QED
    BY <2>1 DEF Replaced
<1>5. /\ y \in TaskType /\ y.trigger = tasks[1].trigger /\ y.failed = tasks[1].failed
      /\ y.fed = tasks[1].fed /\ y.ran = TRUE
  BY <1>2, <1>4 DEF TaskType
<1> HIDE DEF y
<1>6. /\ tasks' \in Seq(TaskType) /\ tasks' # <<>> /\ Len(tasks') = Len(tasks)
      /\ tasks'[1] = y
      /\ \A n \in 2..Len(tasks) : tasks'[n] = tasks[n]
  <2>1. q = [tasks EXCEPT ![1] = x]
    OBVIOUS
  <2> HIDE DEF x, q
  <2>2. Replaced(tasks, 1, y, tasks')
    BY <1>1, <1>2, <1>3, <1>5, <2>1, TaskSetTwice
  <2> QED
    BY <2>2 DEF Replaced
<1>7. HeadTrigger(tasks') = HeadTrigger(tasks)
  BY <1>1, <1>5, <1>6 DEF HeadTrigger
<1>8. TypeOK'
  BY <1>1, <1>6 DEF TypeOK, TaskType
<1>9. Registered(mux, client, HeadTrigger(tasks).v)'
  BY <1>1, <1>7 DEF IInv
<1>10. QueueInv'
  <2>1. Proper(HeadTrigger(tasks))'
    BY <1>7 DEF IInv, QueueInv
  <2> QED
    BY <1>1, <1>5, <1>6, <1>7, <2>1 DEF IInv, QueueInv
<1>11. StatusInv'
  BY <1>1 DEF IInv, StatusInv, Is
<1>12. TriggerInv'
  BY <1>1, <1>5, <1>6, <1>7 DEF IInv, TriggerInv, Is
<1>13. WatchInv'
  BY <1>1, <1>5, <1>6 DEF IInv, WatchInv, Is
<1> QED
  BY <1>8, <1>9, <1>10, <1>11, <1>12, <1>13 DEF IInv

(* The task is put off.                                                    *)
LEMMA InvokeLaterInv ==
  ASSUME IInv, InvokeLater
  PROVE  IInv'
<1> DEFINE x == [tasks[1] EXCEPT !.put_off = tasks[1].ran]
<1>1. /\ TypeOK /\ pc = "invoke" /\ pc' = "dispatch" /\ tasks # <<>>
      /\ tasks' = [tasks EXCEPT ![1] = x]
      /\ evt' = NoEvent /\ UNCHANGED <<mux, batch, client>>
  BY DEF IInv, InvokeLater
<1>2. tasks \in Seq(TaskType) /\ tasks[1] \in TaskType /\ 1 \in 1..Len(tasks)
  BY <1>1, StateTypes, HeadNumber
<1>3. /\ x \in TaskType /\ x.trigger = tasks[1].trigger /\ x.failed = tasks[1].failed
      /\ x.fed = tasks[1].fed /\ x.ran = tasks[1].ran /\ x.put_off = tasks[1].ran
  BY <1>2 DEF TaskType
<1> HIDE DEF x
<1>4. /\ tasks' \in Seq(TaskType) /\ tasks' # <<>> /\ Len(tasks') = Len(tasks)
      /\ tasks'[1] = x
      /\ \A n \in 2..Len(tasks) : tasks'[n] = tasks[n]
  <2>1. Replaced(tasks, 1, x, tasks')
    BY <1>1, <1>2, <1>3, TaskSet
  <2> QED
    BY <2>1 DEF Replaced
<1>5. HeadTrigger(tasks') = HeadTrigger(tasks)
  BY <1>1, <1>3, <1>4 DEF HeadTrigger
<1>6. TypeOK'
  BY <1>1, <1>4 DEF TypeOK, TaskType
<1>7. Registered(mux, client, HeadTrigger(tasks).v)'
  BY <1>1, <1>5 DEF IInv
<1>8. QueueInv'
  <2>1. Proper(HeadTrigger(tasks))'
    BY <1>5 DEF IInv, QueueInv
  <2> QED
    BY <1>1, <1>3, <1>4, <1>5, <2>1 DEF IInv, QueueInv
<1>9. StatusInv'
  BY <1>1 DEF IInv, StatusInv, Is
<1>10. TriggerInv'
  <2>1. Running' => Running /\ tasks'[1].put_off
    BY <1>1, <1>3, <1>4 DEF Running, Is
  <2>2. Running => Snatched(client.trigger, tasks[1].trigger, tasks[1].fed)
    BY <1>1 DEF IInv, TriggerInv
  <2> QED
    BY <1>1, <1>3, <1>4, <1>5, <2>1, <2>2 DEF IInv, TriggerInv, Is
<1>11. WatchInv'
  BY <1>1, <1>3, <1>4 DEF IInv, WatchInv, Is
<1> QED
  BY <1>6, <1>7, <1>8, <1>9, <1>10, <1>11 DEF IInv

(* Reading content has made u of the trigger t; fed says whether there is  *)
(* more of it.                                                             *)
ContentTaken(t, u, fed) ==
  /\ u \in Triggers
  /\ Snatched(t, u, fed)
  /\ ~ fed /\ u.v[FeedSlot].handle = NoHandle => u.v[FeedSlot].mask = t.v[FeedSlot].mask

(* What the callbacks of the reader do to a trigger.                       *)
LEMMA ContentFacts ==
  ASSUME NEW t \in Triggers
  PROVE  /\ ContentTaken(t, AfterContent(t), TRUE)
         /\ \A u \in AfterLastContent(t) : ContentTaken(t, u, FALSE)
<1>1. FeedSlot \in Slots
  BY DEF Slots
<1>2. ASSUME NEW s \in Triggers
      PROVE  /\ AfterContent(s) \in Triggers
             /\ AfterContent(s).cmask = s.cmask /\ AfterContent(s).inactive = s.inactive
             /\ \A i \in Slots :
                  /\ AfterContent(s).v[i].handle = s.v[i].handle
                  /\ AfterContent(s).v[i].mask =
                       IF i = FeedSlot THEN s.v[i].mask \union {"WRITE"} ELSE s.v[i].mask
  <2> DEFINE e == [s.v[FeedSlot] EXCEPT !.mask = s.v[FeedSlot].mask \union {"WRITE"}]
             w == [s.v EXCEPT ![FeedSlot] = e]
             E == [handle : Handles \union {NoHandle}, mask : SUBSET Dirs]
  <2>1. AfterContent(s) = [s EXCEPT !.v = w]
    BY DEF AfterContent
  <2>2. s.v \in [Slots -> E] /\ s.v[FeedSlot] \in E
    BY <1>1 DEF Triggers
  <2>3. /\ e \in E /\ e.handle = s.v[FeedSlot].handle
        /\ e.mask = s.v[FeedSlot].mask \union {"WRITE"}
    BY <2>2 DEF Dirs
  <2> HIDE DEF e, E
  <2>4. /\ w \in [Slots -> E] /\ w[FeedSlot] = e
        /\ \A i \in Slots : i # FeedSlot => w[i] = s.v[i]
    BY <1>1, <2>2, <2>3
  <2> HIDE DEF w
  <2>5. /\ [s EXCEPT !.v = w] \in Triggers /\ [s EXCEPT !.v = w].v = w
        /\ [s EXCEPT !.v = w].cmask = s.cmask /\ [s EXCEPT !.v = w].inactive = s.inactive
    BY <2>4 DEF Triggers, E
  <2> QED
    BY <2>1, <2>3, <2>4, <2>5
<1> DEFINE done == [t EXCEPT !.cmask = @ \ {"READ"}]
<1>3. /\ done \in Triggers /\ done.cmask = t.cmask \ {"READ"}
      /\ done.inactive = t.inactive /\ done.v = t.v
  BY DEF Triggers
<1>4. \A u \in AfterLastContent(t) :
        u = t \/ u = done \/ (u = AfterContent(done) /\ t.v[FeedSlot].handle # NoHandle)
  BY DEF AfterLastContent
<1> HIDE DEF done
<1>5. ContentTaken(t, AfterContent(t), TRUE)
  BY <1>2 DEF ContentTaken, Snatched
<1>6. ContentTaken(t, t, FALSE) /\ ContentTaken(t, done, FALSE)
  BY <1>3 DEF ContentTaken, Snatched
<1>7. ASSUME t.v[FeedSlot].handle # NoHandle PROVE ContentTaken(t, AfterContent(done), FALSE)
  BY <1>1, <1>2, <1>3, <1>7 DEF ContentTaken, Snatched
<1> QED
  BY <1>4, <1>5, <1>6, <1>7

(* Content read behind content, a trigger that is proper stays proper, and *)
(* what is registered with its handles stays registered.                   *)
LEMMA SnatchedFacts ==
  ASSUME NEW t \in Triggers, NEW u \in Triggers, NEW fed \in BOOLEAN, Snatched(t, u, fed)
  PROVE  /\ \A a : Snatched(a, t, TRUE) => Snatched(a, u, fed)
         /\ Proper(t) => Proper(u)
         /\ SameHandles(u.v, t.v)
         /\ \A a : SameHandles(a.v, t.v) => SameHandles(a.v, u.v)
         /\ SameHandles(t.v, NoTrigger.v) => SameHandles(u.v, NoTrigger.v)
         /\ \A m, c : Registered(m, c, t.v) => Registered(m, c, u.v)
<1>1. \A i \in Slots : u.v[i].handle = t.v[i].handle
  BY DEF Snatched
<1>2. ASSUME NEW a, Snatched(a, t, TRUE) PROVE Snatched(a, u, fed)
  BY <1>2 DEF Snatched
<1>3. Proper(t) => Proper(u)
  BY DEF Snatched, Proper
<1>4. /\ SameHandles(u.v, t.v)
      /\ \A a : SameHandles(a.v, t.v) => SameHandles(a.v, u.v)
      /\ SameHandles(t.v, NoTrigger.v) => SameHandles(u.v, NoTrigger.v)
  BY <1>1 DEF SameHandles
<1>5. \A m, c : Registered(m, c, t.v) => Registered(m, c, u.v)
  BY <1>1 DEF Registered
<1> QED
  BY <1>2, <1>3, <1>4, <1>5

(* A piece of the content of a request is read, or its end.                *)
LEMMA ReadContentInv ==
  ASSUME IInv, NEW n \in 1..Len(tasks), ReadContent(n)
  PROVE  IInv'
<1>1. /\ TypeOK /\ pc = "read" /\ tasks[n].fed
      /\ UNCHANGED <<pc, mux, batch, evt, client>>
      /\ Registered(mux, client, HeadTrigger(tasks).v)
      /\ QueueInv /\ StatusInv /\ TriggerInv /\ WatchInv
  BY DEF IInv, ReadContent
<1>2. tasks \in Seq(TaskType) /\ Len(tasks) \in Nat
  BY <1>1, StateTypes, LenProperties
<1>3. tasks[n] \in TaskType /\ tasks[n].trigger \in Triggers
  <2>1. tasks[n] \in TaskType
    BY <1>2, ElementOfSeq
  <2> QED
    BY <2>1 DEF TaskType
<1>4. PICK u, fed, x :
        /\ fed \in BOOLEAN /\ ContentTaken(tasks[n].trigger, u, fed)
        /\ x \in TaskType /\ x.trigger = u /\ x.fed = fed /\ x.ran = tasks[n].ran
        /\ x.put_off = tasks[n].put_off /\ x.failed = tasks[n].failed
        /\ Replaced(tasks, n, x, tasks')
  <2>1. CASE tasks' = [tasks EXCEPT ![n].trigger = AfterContent(@)]
    <3> DEFINE t == AfterContent(tasks[n].trigger)
               y == [tasks[n] EXCEPT !.trigger = t]
    <3>1. ContentTaken(tasks[n].trigger, t, TRUE)
      BY <1>3, ContentFacts
    <3>2. t \in Triggers
      BY <3>1 DEF ContentTaken
    <3>3. tasks' = [tasks EXCEPT ![n] = y]
      BY <2>1
    <3> HIDE DEF t
    <3>4. /\ y \in TaskType /\ y.trigger = t /\ y.fed = TRUE /\ y.ran = tasks[n].ran
          /\ y.put_off = tasks[n].put_off /\ y.failed = tasks[n].failed
      BY <1>1, <1>3, <3>2 DEF TaskType
    <3> HIDE DEF y
    <3>5. Replaced(tasks, n, y, tasks')
      BY <1>2, <3>3, <3>4, TaskSet
    <3> QED
      BY <3>1, <3>4, <3>5
  <2>2. CASE \E t \in AfterLastContent(tasks[n].trigger) :
               tasks' = [tasks EXCEPT ![n].trigger = t, ![n].fed = FALSE]
    <3>1. PICK t \in AfterLastContent(tasks[n].trigger) :
            tasks' = [tasks EXCEPT ![n].trigger = t, ![n].fed = FALSE]
      BY <2>2
    <3> DEFINE z == [tasks[n] EXCEPT !.trigger = t]
               q == [tasks EXCEPT ![n] = z]
               y == [q[n] EXCEPT !.fed = FALSE]
    <3>2. ContentTaken(tasks[n].trigger, t, FALSE)
      BY <1>3, ContentFacts
    <3>3. t \in Triggers
      BY <3>2 DEF ContentTaken
    <3>5. /\ z \in TaskType /\ z.trigger = t /\ z.ran = tasks[n].ran
          /\ z.put_off = tasks[n].put_off /\ z.failed = tasks[n].failed
      BY <1>3, <3>3 DEF TaskType
    <3>4. q[n] = z
      <4>1. Replaced(tasks, n, z, q)
        BY <1>2, <3>5, TaskSet
      <4> QED
        BY <4>1 DEF Replaced
    <3>7. tasks' = [q EXCEPT ![n] = y] /\ q = [tasks EXCEPT ![n] = z]
      BY <3>1
    <3> HIDE DEF q, z
    <3>6. /\ y \in TaskType /\ y.trigger = t /\ y.fed = FALSE /\ y.ran = tasks[n].ran
          /\ y.put_off = tasks[n].put_off /\ y.failed = tasks[n].failed
      BY <3>3, <3>4, <3>5 DEF TaskType
    <3> HIDE DEF y
    <3>8. Replaced(tasks, n, y, tasks')
      BY <1>2, <3>5, <3>6, <3>7, TaskSetTwice
    <3> QED
      BY <3>2, <3>6, <3>8
  <2> QED
    BY <2>1, <2>2 DEF ReadContent
<1> DEFINE t == tasks[n].trigger
<1>5. /\ u \in Triggers /\ Snatched(t, u, fed) /\ u.inactive = t.inactive
      /\ "WRITE" \in t.cmask => "WRITE" \in u.cmask
      /\ Homeless(u, fed) => Homeless(t, TRUE)
  <2>1. FeedSlot \in Slots
    BY DEF Slots
  <2> QED
    BY <1>4, <2>1 DEF ContentTaken, Snatched, Homeless
<1>6. /\ \A a : Snatched(a, t, TRUE) => Snatched(a, u, fed)
      /\ Proper(t) => Proper(u)
      /\ SameHandles(u.v, t.v)
      /\ \A a : SameHandles(a.v, t.v) => SameHandles(a.v, u.v)
      /\ SameHandles(t.v, NoTrigger.v) => SameHandles(u.v, NoTrigger.v)
      /\ \A m, c : Registered(m, c, t.v) => Registered(m, c, u.v)
  <2>1. t \in Triggers /\ u \in Triggers /\ fed \in BOOLEAN /\ Snatched(t, u, fed)
    BY <1>3, <1>4, <1>5
  <2> HIDE DEF t
  <2> QED
    BY <2>1, SnatchedFacts, Zenon
<1>7. /\ tasks' \in Seq(TaskType) /\ Len(tasks') = Len(tasks)
      /\ tasks # <<>> /\ tasks' # <<>>
      /\ tasks'[n] = x /\ \A k \in 1..Len(tasks) : k # n => tasks'[k] = tasks[k]
  BY <1>2, <1>4, EmptySeq DEF Replaced
<1>8. TypeOK'
  BY <1>1, <1>7 DEF TypeOK, TaskType
<1>9. StatusInv'
  BY <1>1 DEF StatusInv, Is
<1>10. CASE n = 1
  <2>1. /\ HeadTrigger(tasks) = t /\ HeadTrigger(tasks') = u /\ tasks'[1].trigger = u
        /\ tasks'[1].fed = fed /\ tasks'[1].ran = tasks[1].ran
        /\ tasks'[1].put_off = tasks[1].put_off /\ tasks'[1].failed = tasks[1].failed
        /\ tasks[1].fed
    BY <1>1, <1>4, <1>7, <1>10 DEF HeadTrigger
  <2>2. \A k \in 2..Len(tasks') : tasks'[k] = tasks[k]
    BY <1>2, <1>7, <1>10
  <2>3. Registered(mux, client, HeadTrigger(tasks).v)'
    BY <1>1, <1>6, <2>1
  <2>4. QueueInv'
    <3>1. Proper(HeadTrigger(tasks))'
      BY <1>1, <1>6, <2>1 DEF QueueInv
    <3> QED
      BY <1>1, <1>5, <1>7, <2>1, <2>2, <3>1 DEF QueueInv
  <2>5. TriggerInv'
    <3>1. Running' <=> Running
      BY <1>1, <1>7, <2>1 DEF Running, Is
    <3>2. Running => Snatched(client.trigger, u, fed)
      BY <1>1, <1>6, <1>10, <2>1 DEF TriggerInv
    <3>3. ~ Is("BAD") => SameHandles(client.trigger.v, u.v)
      BY <1>1, <1>6, <2>1 DEF TriggerInv
    <3>4. ~ Is("BAD") /\ Homeless(u, fed) => "WRITE" \in u.cmask
      BY <1>1, <1>5, <1>7, <1>10, <2>1 DEF TriggerInv
    <3> QED
      BY <1>1, <1>5, <1>7, <2>1, <3>1, <3>2, <3>3, <3>4 DEF TriggerInv, Is
  <2>6. WatchInv'
    BY <1>1, <1>7, <2>1 DEF WatchInv, Is
  <2> QED
    BY <1>8, <1>9, <2>3, <2>4, <2>5, <2>6 DEF IInv
<1>11. CASE n # 1
  <2>1. tasks'[1] = tasks[1] /\ n \in 2..Len(tasks)
    BY <1>2, <1>7, <1>11
  <2>2. Untouched(x)
    <3>1. Untouched(tasks[n])
      BY <1>1, <2>1 DEF QueueInv
    <3>2. u.cmask = {}
      BY <1>5, <3>1 DEF Untouched, Snatched
    <3> QED
      BY <1>4, <1>5, <1>6, <3>1, <3>2 DEF Untouched
  <2>3. \A k \in 2..Len(tasks') : Untouched(tasks'[k])
    <3> SUFFICES ASSUME NEW k \in 2..Len(tasks) PROVE Untouched(tasks'[k])
      BY <1>7
    <3>1. k \in 1..Len(tasks) /\ Untouched(tasks[k])
      BY <1>1, <1>2 DEF QueueInv
    <3> QED
      BY <1>7, <2>2, <3>1
  <2> QED
    BY <1>1, <1>7, <1>8, <1>9, <2>1, <2>3, QuietStep DEF Is
<1> QED
  BY <1>10, <1>11

(* What the client's handle is watched for honours the trigger.            *)
LEMMA MaskFacts ==
  ASSUME NEW t \in Triggers, Proper(t),
         t.v[FeedSlot].handle = NoHandle /\ t.v[FeedSlot].mask # {} => "WRITE" \in t.cmask
  PROVE  /\ "WRITE" \in t.cmask => "WRITE" \in HandleMask(t)
         /\ "READ" \in t.cmask /\ ~ Is("MUTE") => "READ" \in HandleMask(t)
         /\ \/ HandleMask(t) # {}
            \/ \E i \in Slots : t.v[i].mask # {} /\ t.v[i].handle \in Handles
<1>1. "WRITE" \in t.cmask => "WRITE" \in HandleMask(t)
  BY DEF HandleMask
<1>2. "READ" \in t.cmask /\ ~ Is("MUTE") => "READ" \in HandleMask(t)
  BY DEF HandleMask
<1>3. ASSUME HandleMask(t) = {}
      PROVE  \E i \in Slots : t.v[i].mask # {} /\ t.v[i].handle \in Handles
  <2>1. "WRITE" \notin t.cmask /\ Wanted(t) # {}
    BY <1>1, <1>3 DEF HandleMask
  <2>2. PICK i \in Slots : t.v[i].mask # {}
    BY <2>1 DEF Wanted
  <2>3. t.v[i].handle # NoHandle
    BY <2>1, <2>2 DEF Proper
  <2> QED
    BY <2>2, <2>3, TriggerFields DEF TaskHandles
<1> QED
  BY <1>1, <1>2, <1>3

(* The bits that do not concern the registration do not matter.            *)
LEMMA SameRegistered ==
  ASSUME NEW m, NEW c, NEW d, NEW v, Registered(m, c, v),
         d.handle_in_mux = c.handle_in_mux, d.trigger_in_mux = c.trigger_in_mux,
         "MUTE_DELETED" \in d.status <=> "MUTE_DELETED" \in c.status
  PROVE  Registered(m, d, v)
  BY DEF Registered

(* The task at the head has the trigger t.                                 *)
HeadIs(t, fed, q) ==
  /\ q \in Seq(TaskType) /\ q # <<>> /\ Len(q) = Len(tasks)
  /\ q[1].trigger = t /\ q[1].fed = fed /\ q[1].ran = tasks[1].ran
  /\ q[1].put_off = tasks[1].put_off /\ q[1].failed = tasks[1].failed
  /\ \A n \in 2..Len(tasks) : q[n] = tasks[n]
  /\ HeadTrigger(q) = t

(* The head task's trigger becomes t.                                      *)
LEMMA TriggerSet ==
  ASSUME TypeOK, tasks # <<>>, NEW t \in Triggers, NEW fed \in BOOLEAN,
         \/ tasks' = [tasks EXCEPT ![1].trigger = t] /\ fed = tasks[1].fed
         \/ tasks' = [tasks EXCEPT ![1].trigger = t, ![1].fed = fed]
  PROVE  HeadIs(t, fed, tasks')
<1> DEFINE x == [tasks[1] EXCEPT !.trigger = t]
           q == [tasks EXCEPT ![1] = x]
           y == [q[1] EXCEPT !.fed = fed]
<1>1. tasks \in Seq(TaskType) /\ tasks[1] \in TaskType /\ 1 \in 1..Len(tasks)
  BY StateTypes, HeadNumber
<1>2. /\ x \in TaskType /\ x.trigger = t /\ x.fed = tasks[1].fed /\ x.ran = tasks[1].ran
      /\ x.put_off = tasks[1].put_off /\ x.failed = tasks[1].failed
  BY <1>1 DEF TaskType
<1>3. q[1] = x
  <2>1. Replaced(tasks, 1, x, q)
    BY <1>1, <1>2, TaskSet
  <2> QED
    BY <2>1 DEF Replaced
<1>4. /\ y \in TaskType /\ y.trigger = t /\ y.fed = fed /\ y.ran = tasks[1].ran
      /\ y.put_off = tasks[1].put_off /\ y.failed = tasks[1].failed
  BY <1>1, <1>3 DEF TaskType
<1>5. tasks' = [tasks EXCEPT ![1].trigger = t] => tasks' = [tasks EXCEPT ![1] = x]
  OBVIOUS
<1>6. /\ tasks' = [tasks EXCEPT ![1].trigger = t, ![1].fed = fed] => tasks' = [q EXCEPT ![1] = y]
      /\ q = [tasks EXCEPT ![1] = x]
  OBVIOUS
<1> HIDE DEF y, q, x
<1>7. CASE tasks' = [tasks EXCEPT ![1].trigger = t] /\ fed = tasks[1].fed
  <2>1. Replaced(tasks, 1, x, tasks')
    BY <1>1, <1>2, <1>5, <1>7, TaskSet
  <2> QED
    BY <1>2, <1>7, <2>1 DEF Replaced, HeadIs, HeadTrigger
<1>8. CASE tasks' = [tasks EXCEPT ![1].trigger = t, ![1].fed = fed]
  <2>1. Replaced(tasks, 1, y, tasks')
    BY <1>1, <1>2, <1>4, <1>6, <1>8, TaskSetTwice
  <2> QED
    BY <1>4, <2>1 DEF Replaced, HeadIs, HeadTrigger
<1> QED
  BY <1>7, <1>8

(* The handles remembered are those of the task.                           *)
LEMMA RegisteredToo ==
  ASSUME NEW m, NEW c, NEW v, NEW w, Registered(m, c, w), SameHandles(v, w)
  PROVE  Registered(m, c, v)
BY DEF Registered, SameHandles

(* The triggers a task can go on with.                                     *)
LEMMA NextTriggersFacts ==
  ASSUME TypeOK, tasks # <<>>, NEW t \in NextTriggers(tasks[1].trigger)
  PROVE  /\ t \in Triggers /\ Proper(t) /\ t.inactive = FALSE
         /\ \A i \in Slots : t.v[i].handle = NoHandle => t.v[i].mask = {}
<1> DEFINE s == tasks[1].trigger
           H == FreeHandles \union Used(1) \union {NoHandle}
           M == Masks \union {s.v[i].mask : i \in Slots}
           V == [handle : H, mask : M]
           W == [handle : Handles \union {NoHandle}, mask : SUBSET Dirs]
<1>1. s \in Triggers
  BY StateTypes
<1>2. H \subseteq Handles \union {NoHandle}
  BY <1>1, TriggerFields DEF FreeHandles, Used, TaskHandles
<1>3. M \subseteq SUBSET Dirs
  <2>1. Masks \subseteq SUBSET Dirs
    BY DEF Dirs
  <2>2. \A i \in Slots : s.v[i].mask \subseteq Dirs
    BY <1>1, TriggerFields
  <2> HIDE DEF s
  <2>3. {s.v[i].mask : i \in Slots} \subseteq SUBSET Dirs
    BY <2>2
  <2> QED
    BY <2>1, <2>3
<1>4. t \in [cmask : SUBSET Dirs, inactive : {FALSE}, v : [Slots -> V]]
  BY DEF NextTriggers
<1> HIDE DEF H, M, s
<1>5. V \subseteq W
  BY <1>2, <1>3
<1> HIDE DEF V
<1>6. [Slots -> V] \subseteq [Slots -> W]
  BY <1>5
<1>7. t \in Triggers /\ t.inactive = FALSE
  BY <1>4, <1>6 DEF Triggers
<1>8. Proper(t) /\ \A i \in Slots : t.v[i].handle = NoHandle => t.v[i].mask = {}
  BY DEF NextTriggers, Proper
<1> QED
  BY <1>7, <1>8

(* The task goes on with other triggers.                                   *)
LEMMA MainGoesOnInv ==
  ASSUME IInv, pc = "main", NEW F, NEW t, NEW fed \in {FALSE, tasks[1].fed},
         MainGoesOn(t, fed, F)
  PROVE  IInv'
<1> DEFINE T == HeadTrigger(tasks)
           C == client.trigger
           r == update_mux_for_current_task(t, F)
<1>1. /\ TypeOK /\ tasks # <<>> /\ T = tasks[1].trigger
      /\ Registered(mux, client, T.v) /\ StatusInv /\ TriggerInv /\ QueueInv /\ WatchInv
  BY DEF IInv, TypeOK, HeadTrigger
<1>2. /\ client \in ClientType /\ mux \in MuxType /\ C \in Triggers /\ T \in Triggers
      /\ tasks[1].fed \in BOOLEAN
  <2>1. tasks[1] \in TaskType
    BY <1>1, StateTypes
  <2> QED
    BY <1>1, <2>1, StateTypes DEF TaskType
<1>3. /\ pc' = "dispatch" /\ ~ tasks[1].failed
      /\ mux' = r.mux
      /\ client' = IF r.ok THEN r.client ELSE mark_bad_client(r.client)
      /\ tasks' = [tasks EXCEPT ![1].trigger = t, ![1].fed = fed]
      /\ UNCHANGED <<batch, evt>>
  BY <1>1 DEF MainGoesOn
<1> HIDE DEF T
<1>4. /\ ~ Is("BAD") /\ SameHandles(C.v, T.v) /\ (C.inactive <=> T.inactive)
      /\ T.inactive => Detached(client)
      /\ tasks[1].ran
      /\ Homeless(T, tasks[1].fed) => "WRITE" \in T.cmask
  <2>1. ~ Is("BAD")
    BY <1>1 DEF StatusInv
  <2>2. C.inactive \in BOOLEAN /\ T.inactive \in BOOLEAN
    BY <1>2, TriggerFields
  <2>3. C.inactive <=> T.inactive
    BY <1>1, <1>3, <2>2 DEF TriggerInv, T
  <2> QED
    BY <1>1, <2>1, <2>3 DEF TriggerInv, QueueInv, T
<1>5. /\ t \in Triggers /\ Proper(t) /\ (t.inactive => t = T)
      /\ Homeless(t, fed) => "WRITE" \in t.cmask
      /\ T.inactive => t = T
  <2>1. CASE t = T /\ fed = tasks[1].fed
    BY <1>1, <1>2, <1>4, <2>1 DEF QueueInv, T
  <2>2. CASE /\ ~ T.inactive /\ t \in NextTriggers(tasks[1].trigger)
             /\ fed => t.v[FeedSlot].handle # NoHandle
    <3>1. /\ t \in Triggers /\ Proper(t) /\ t.inactive = FALSE
          /\ \A i \in Slots : t.v[i].handle = NoHandle => t.v[i].mask = {}
      BY <1>1, <2>2, NextTriggersFacts
    <3>2. ~ Homeless(t, fed)
      BY <2>2, <3>1 DEF Homeless, Slots
    <3> QED
      BY <2>2, <3>1, <3>2
  <2> QED
    BY <1>1, <2>1, <2>2 DEF MainGoesOn
<1>6. HeadIs(t, fed, tasks')
  <2>1. t \in Triggers /\ fed \in BOOLEAN
    BY <1>2, <1>5
  <2>2. tasks' = [tasks EXCEPT ![1].trigger = t, ![1].fed = fed]
    BY <1>3
  <2> QED
    BY <1>1, <2>1, <2>2, TriggerSet
<1>7. /\ tasks' \in Seq(TaskType) /\ tasks' # <<>> /\ Len(tasks') = Len(tasks)
      /\ tasks'[1].trigger = t /\ tasks'[1].fed = fed /\ tasks'[1].ran = tasks[1].ran
      /\ tasks'[1].failed = tasks[1].failed
      /\ \A n \in 2..Len(tasks) : tasks'[n] = tasks[n]
      /\ HeadTrigger(tasks') = t
  BY <1>6 DEF HeadIs
<1>8. SameHandles(t.v, t.v) /\ Snatched(t, t, fed)
  BY DEF SameHandles, Snatched
<1>9. CASE t.inactive \/ NothingToDo(t)
  <2>1. /\ mux' = mux /\ client' \in ClientType
        /\ client'.handle_in_mux = client.handle_in_mux
        /\ client'.trigger_in_mux = client.trigger_in_mux
        /\ client'.status = client.status
        /\ client'.trigger = t
    <3>1. CASE NothingToDo(t)
      <4>1. r.mux = mux /\ r.client = client /\ r.ok = TRUE
        BY <3>1 DEF update_mux_for_current_task, Result
      <4> QED
        BY <1>2, <1>3, <3>1, <4>1 DEF NothingToDo
    <3>2. CASE ~ NothingToDo(t) /\ t.inactive
      <4>1. C.inactive
        BY <1>4, <1>5, <3>2
      <4>2. r.mux = mux /\ r.client = [client EXCEPT !.trigger = t] /\ r.ok = TRUE
        BY <3>2, <4>1 DEF update_mux_for_current_task, Result
      <4> QED
        BY <1>2, <1>3, <1>5, <4>2 DEF ClientType
    <3> QED
      BY <1>9, <3>1, <3>2
  <2>2. SameHandles(t.v, T.v) /\ (t.inactive => Detached(client))
    BY <1>4, <1>5, <1>9 DEF NothingToDo, SameHandles
  <2>3. TypeOK'
    BY <1>1, <1>3, <1>7, <2>1 DEF TypeOK, ClientType, TaskType
  <2>4. Registered(mux, client, HeadTrigger(tasks).v)'
    <3>1. Registered(mux, client, t.v)
      BY <1>1, <2>2, RegisteredToo
    <3> QED
      BY <1>7, <2>1, <3>1 DEF Registered
  <2>5. QueueInv'
    <3>1. Proper(HeadTrigger(tasks))'
      BY <1>5, <1>7
    <3> QED
      BY <1>1, <1>3, <1>4, <1>7, <2>1, <2>2, <3>1 DEF QueueInv, Detached, NoneInMux
  <2>6. StatusInv'
    BY <1>1, <1>3, <2>1 DEF StatusInv, Is
  <2>7. TriggerInv'
    BY <1>5, <1>7, <1>8, <2>1 DEF TriggerInv
  <2>8. WatchInv'
    <3>1. ~ t.inactive => NothingToDo(t) /\ C = t
      BY <1>9 DEF NothingToDo
    <3>2. Watched(client)
      BY <1>1, <1>4 DEF WatchInv
    <3>3. Watched(client')
      BY <2>1, <3>1, <3>2 DEF Watched
    <3> QED
      BY <1>3, <1>4, <1>7, <3>3 DEF WatchInv
  <2> QED
    BY <2>3, <2>4, <2>5, <2>6, <2>7, <2>8 DEF IInv
<1>10. CASE ~ t.inactive /\ ~ NothingToDo(t)
  <2>1. r = Rewire(t, F)
    BY <1>10 DEF update_mux_for_current_task
  <2>2. ~ C.inactive /\ ~ T.inactive
    BY <1>4, <1>5, <1>10
  <2> HIDE DEF r, C
  <2>3. /\ r.mux \in MuxType /\ r.client \in ClientType /\ r.ok \in BOOLEAN
        /\ Registered(r.mux, r.client, t.v)
        /\ r.client.status \ {"MUTE_DELETED"} = client.status \ {"MUTE_DELETED"}
        /\ "MUTE_DELETED" \in r.client.status => Is("MUTE")
        /\ ~ r.ok => r.client.trigger = client.trigger
        /\ r.ok => /\ r.client.trigger = t
                   /\ \A i \in Slots : r.client.trigger_in_mux[i] = t.v[i].mask
                   /\ r.client.handle_in_mux = HandleMask(t)
    <3>1. Registered(mux, client, client.trigger.v) /\ (Is("MUTE_DELETED") => Is("MUTE"))
      BY <1>1, <1>4, RegisteredToo DEF StatusInv, C
    <3> QED
      BY <1>1, <1>5, <2>1, <3>1, RewireFacts
  <2>4. /\ client' \in ClientType
        /\ client'.handle_in_mux = r.client.handle_in_mux
        /\ client'.trigger_in_mux = r.client.trigger_in_mux
        /\ client'.trigger = r.client.trigger
        /\ client'.status = IF r.ok THEN r.client.status ELSE r.client.status \union {"BAD"}
    BY <1>3, <2>3 DEF mark_bad_client, ClientType, StatusBits
  <2>5. /\ \A b \in {"BAD", "MUTE", "READY"} : b \in r.client.status <=> b \in client.status
        /\ "BAD" \in client'.status <=> ~ r.ok
        /\ "MUTE" \in client'.status <=> Is("MUTE")
        /\ "MUTE_DELETED" \in client'.status <=> "MUTE_DELETED" \in r.client.status
    <3>1. \A b \in {"BAD", "MUTE", "READY"} : b \in r.client.status <=> b \in client.status
      BY <2>3
    <3> QED
      BY <1>4, <2>3, <2>4, <3>1 DEF Is
  <2>6. TypeOK'
    BY <1>1, <1>3, <1>7, <2>3, <2>4 DEF TypeOK, ClientType, TaskType, MuxType
  <2>7. Registered(mux, client, HeadTrigger(tasks).v)'
    <3>1. Registered(r.mux, client', t.v)
      BY <2>3, <2>4, <2>5, SameRegistered
    <3> QED
      BY <1>3, <1>7, <3>1
  <2>8. QueueInv'
    <3>1. Proper(HeadTrigger(tasks))'
      BY <1>5, <1>7
    <3> QED
      BY <1>1, <1>3, <1>7, <1>10, <3>1 DEF QueueInv
  <2>9. StatusInv'
    BY <1>3, <2>3, <2>5 DEF StatusInv, Is
  <2>10. TriggerInv'
    <3>1. ~ Is("BAD")' => r.ok
      BY <2>5 DEF Is
    <3>2. Running' => r.ok
      BY <3>1 DEF Running
    <3>3. client'.trigger.inactive = FALSE
      BY <1>5, <1>10, <2>2, <2>3, <2>4, TriggerFields DEF C
    <3> QED
      BY <1>5, <1>7, <1>8, <1>10, <2>3, <2>4, <3>1, <3>2, <3>3 DEF TriggerInv
  <2>11. WatchInv'
    <3>1. t.v[FeedSlot].handle = NoHandle /\ t.v[FeedSlot].mask # {} => "WRITE" \in t.cmask
      BY <1>5 DEF Homeless
    <3>2. /\ "WRITE" \in t.cmask => "WRITE" \in HandleMask(t)
          /\ "READ" \in t.cmask /\ ~ Is("MUTE") => "READ" \in HandleMask(t)
          /\ \/ HandleMask(t) # {}
             \/ \E i \in Slots : t.v[i].mask # {} /\ t.v[i].handle \in Handles
      BY <1>5, <3>1, MaskFacts
    <3>3. r.ok => Watched(client')
      BY <2>3, <2>4, <2>5, <3>2 DEF Watched
    <3> QED
      BY <1>3, <1>4, <1>7, <2>3, <2>5, <3>3 DEF WatchInv, Is
  <2> QED
    BY <2>6, <2>7, <2>8, <2>9, <2>10, <2>11 DEF IInv
<1> QED
  BY <1>9, <1>10

(* A trigger with another flag or another mask for the client's handle.    *)
LEMMA TriggerChanged ==
  ASSUME NEW t \in Triggers
  PROVE  /\ \A b \in BOOLEAN :
              LET u == [t EXCEPT !.inactive = b]
              IN  u \in Triggers /\ u.inactive = b /\ u.v = t.v /\ u.cmask = t.cmask
         /\ \A mask \in SUBSET Dirs :
              LET u == [t EXCEPT !.cmask = mask]
              IN  u \in Triggers /\ u.cmask = mask /\ u.v = t.v /\ u.inactive = t.inactive
  BY DEF Triggers

(* The client c when it has been detached for the trigger t is d.          *)
IsDetached(c, t, d) ==
  /\ d \in ClientType /\ d.handle_in_mux = {}
  /\ \A i \in Slots : d.trigger_in_mux[i] = {}
  /\ d.trigger = t /\ d.status = c.status

(* A client that is detached remembers its trigger and its status.         *)
LEMMA ClientDetached ==
  ASSUME NEW c \in ClientType, NEW t \in Triggers,
         NEW d, d = [c EXCEPT !.handle_in_mux = {},
                              !.trigger_in_mux = [i \in Slots |-> {}],
                              !.trigger = t]
  PROVE  IsDetached(c, t, d)
<1> DEFINE f == [i \in Slots |-> {}]
<1>1. f \in [Slots -> SUBSET Dirs] /\ \A i \in Slots : f[i] = {}
  OBVIOUS
<1>2. d = [c EXCEPT !.handle_in_mux = {}, !.trigger_in_mux = f, !.trigger = t]
  OBVIOUS
<1> HIDE DEF f
<1>3. c.status \in SUBSET StatusBits
  BY DEF ClientType
<1>4. d = [handle_in_mux |-> {}, trigger_in_mux |-> f, status |-> c.status, trigger |-> t]
  BY <1>2 DEF ClientType
<1> QED
  BY <1>1, <1>3, <1>4 DEF ClientType, IsDetached

(* The task makes its triggers inactive.                                   *)
LEMMA MainInactivatesInv ==
  ASSUME IInv, MainInactivates
  PROVE  IInv'
<1> DEFINE T == HeadTrigger(tasks)
           t == [tasks[1].trigger EXCEPT !.inactive = TRUE]
           r == update_mux_for_current_task(t, {})
<1>1. /\ TypeOK /\ tasks # <<>> /\ T = tasks[1].trigger
      /\ Registered(mux, client, T.v) /\ StatusInv /\ TriggerInv /\ QueueInv
  BY DEF IInv, TypeOK, HeadTrigger, MainInactivates
<1>2. /\ client \in ClientType /\ mux \in MuxType /\ T \in Triggers
      /\ client.trigger \in Triggers /\ tasks[1].fed \in BOOLEAN
  <2>1. tasks[1] \in TaskType
    BY <1>1, StateTypes
  <2> QED
    BY <1>1, <2>1, StateTypes DEF TaskType
<1>3. /\ pc = "main" /\ pc' = "dispatch" /\ ~ tasks[1].failed /\ ~ T.inactive
      /\ mux' = r.mux /\ client' = r.client
      /\ tasks' = [tasks EXCEPT ![1].trigger = t]
      /\ UNCHANGED <<batch, evt>>
  BY <1>1 DEF MainInactivates
<1>4. t \in Triggers /\ t.v = T.v /\ t.inactive = TRUE /\ t.cmask = T.cmask
  BY <1>1, <1>2 DEF Triggers
<1> HIDE DEF T, t
<1>5. /\ ~ Is("BAD") /\ ~ client.trigger.inactive /\ tasks[1].ran
      /\ Registered(mux, client, client.trigger.v)
      /\ Homeless(T, tasks[1].fed) => "WRITE" \in T.cmask
  <2>1. /\ ~ Is("BAD") /\ ~ client.trigger.inactive /\ tasks[1].ran
        /\ SameHandles(client.trigger.v, T.v)
        /\ Homeless(T, tasks[1].fed) => "WRITE" \in T.cmask
    BY <1>1, <1>3 DEF StatusInv, TriggerInv, QueueInv, T
  <2> QED
    BY <1>1, <2>1, RegisteredToo
<1>18. HeadIs(t, tasks[1].fed, tasks')
  BY <1>1, <1>2, <1>3, <1>4, TriggerSet
<1>6. /\ tasks' \in Seq(TaskType) /\ tasks' # <<>> /\ Len(tasks') = Len(tasks)
      /\ tasks'[1].trigger = t /\ tasks'[1].fed = tasks[1].fed /\ tasks'[1].ran = tasks[1].ran
      /\ tasks'[1].failed = tasks[1].failed
      /\ \A n \in 2..Len(tasks) : tasks'[n] = tasks[n]
      /\ HeadTrigger(tasks') = t
  BY <1>18 DEF HeadIs
<1> DEFINE m == DelTriggers(client.trigger.v)
<1>7. m \in MuxType /\ m[CliHandle] = mux[CliHandle] /\ \A h \in TaskHandles : m[h] = {}
  BY <1>1, <1>2, <1>5, DelFacts, TriggerFields
<1>8. r = Detach(t)
  <2>1. ~ NothingToDo(t)
    BY <1>4, <1>5 DEF NothingToDo
  <2> QED
    BY <1>4, <1>5, <2>1 DEF update_mux_for_current_task
<1> HIDE DEF r
<1>9. /\ r.mux = (IF client.handle_in_mux = {} THEN m ELSE [m EXCEPT ![CliHandle] = {}])
      /\ r.client = [client EXCEPT !.handle_in_mux = {},
                                   !.trigger_in_mux = [i \in Slots |-> {}],
                                   !.trigger = t]
  BY <1>8 DEF Detach, Result
<1> HIDE DEF m
<1>10. mux' \in MuxType /\ mux'[CliHandle] = {} /\ \A h \in TaskHandles : mux'[h] = {}
  <2>1. mux[CliHandle] = client.handle_in_mux
    BY <1>1 DEF Registered
  <2>2. CliHandle \in AllHandles /\ \A h \in TaskHandles : h \in AllHandles /\ h # CliHandle
    BY DEF AllHandles, TaskHandles
  <2> QED
    BY <1>3, <1>7, <1>9, <2>1, <2>2 DEF MuxType
<1>11. /\ client' \in ClientType /\ client'.handle_in_mux = {}
       /\ \A i \in Slots : client'.trigger_in_mux[i] = {}
       /\ client'.trigger = t /\ client'.status = client.status
  <2>1. IsDetached(client, t, r.client)
    BY <1>2, <1>4, <1>9, ClientDetached
  <2> QED
    BY <1>3, <2>1 DEF IsDetached
<1>12. TypeOK'
  BY <1>1, <1>3, <1>6, <1>10, <1>11 DEF TypeOK, ClientType, TaskType, MuxType
<1>13. Registered(mux, client, HeadTrigger(tasks).v)'
  BY <1>1, <1>10, <1>11 DEF Registered, StatusInv
<1>14. QueueInv'
  <2>1. Proper(t)
    BY <1>1, <1>4 DEF QueueInv, Proper, T
  <2>2. Proper(HeadTrigger(tasks))'
    BY <1>6, <2>1
  <2> QED
    BY <1>1, <1>3, <1>5, <1>6, <1>11, <2>2 DEF QueueInv, Detached, NoneInMux
<1>15. StatusInv'
  BY <1>1, <1>3, <1>11 DEF StatusInv, Is
<1>16. TriggerInv'
  <2>1. SameHandles(t.v, t.v) /\ Snatched(t, t, tasks[1].fed)
    BY DEF SameHandles, Snatched
  <2>2. Homeless(t, tasks[1].fed) => "WRITE" \in t.cmask
    BY <1>4, <1>5 DEF Homeless
  <2> QED
    BY <1>6, <1>11, <2>1, <2>2 DEF TriggerInv
<1>17. WatchInv'
  BY <1>4, <1>5, <1>6, <1>11 DEF WatchInv, Watched
<1> QED
  BY <1>12, <1>13, <1>14, <1>15, <1>16, <1>17 DEF IInv

(* The answer that an inactive task waited for has come.                   *)
LEMMA ActivateInv ==
  ASSUME IInv, NEW F, qse_httpd_activatetasktrigger(F)
  PROVE  IInv'
<1> DEFINE T == HeadTrigger(tasks)
           t == [tasks[1].trigger EXCEPT !.inactive = FALSE]
           u == [t EXCEPT !.cmask = ActivationMask(t)]
           r == update_mux_for_current_task(u, F)
<1>1. /\ TypeOK /\ tasks # <<>> /\ T = tasks[1].trigger
      /\ Registered(mux, client, T.v) /\ StatusInv /\ TriggerInv /\ QueueInv
  BY DEF IInv, HeadTrigger, qse_httpd_activatetasktrigger
<1>2. /\ client \in ClientType /\ mux \in MuxType /\ T \in Triggers
      /\ tasks \in Seq(TaskType) /\ tasks[1] \in TaskType
  BY <1>1, StateTypes
<1>3. /\ pc \in {"poll", "dispatch"} /\ T.inactive
      /\ mux' = r.mux /\ client' = r.client
      /\ tasks' = [tasks EXCEPT ![1].trigger = t, ![1].ran = FALSE,
                                ![1].put_off = FALSE, ![1].failed = ~ r.ok]
      /\ UNCHANGED <<pc, batch, evt>>
  BY <1>1 DEF qse_httpd_activatetasktrigger
<1>4. /\ t \in Triggers /\ t.v = T.v /\ t.inactive = FALSE
      /\ t.cmask = T.cmask /\ t.cmask \in SUBSET Dirs
  BY <1>1, <1>2 DEF Triggers
<1> HIDE DEF T, t
<1>5. /\ u \in Triggers /\ u.v = T.v /\ u.inactive = FALSE
      /\ "WRITE" \in u.cmask
  <2>1. ActivationMask(t) \in SUBSET Dirs /\ "WRITE" \in ActivationMask(t)
    BY <1>4 DEF ActivationMask, Dirs
  <2> QED
    BY <1>4, <2>1, TriggerChanged
<1> HIDE DEF u
<1>6. /\ client.trigger.inactive /\ Detached(client)
      /\ ~ Is("BAD") => SameHandles(client.trigger.v, T.v)
      /\ Is("MUTE_DELETED") => Is("MUTE")
      /\ ~ Is("BAD") /\ Homeless(T, tasks[1].fed) => "WRITE" \in T.cmask
  BY <1>1, <1>3 DEF TriggerInv, QueueInv, StatusInv, T
<1>7. Proper(t) /\ Proper(u)
  BY <1>1, <1>4, <1>5 DEF QueueInv, Proper, T
<1>8. r = Rewire(u, F)
  <2>1. ~ NothingToDo(u)
    BY <1>5, <1>6 DEF NothingToDo
  <2> QED
    BY <1>5, <2>1 DEF update_mux_for_current_task
<1> HIDE DEF r
<1>9. Registered(mux, client, client.trigger.v)
  BY <1>1, <1>6 DEF Registered, Detached, NoneInMux
<1>10. /\ r.mux \in MuxType /\ r.client \in ClientType /\ r.ok \in BOOLEAN
       /\ Registered(r.mux, r.client, u.v)
       /\ r.client.status \ {"MUTE_DELETED"} = client.status \ {"MUTE_DELETED"}
       /\ "MUTE_DELETED" \in r.client.status => Is("MUTE")
       /\ ~ r.ok => r.client.trigger = client.trigger
       /\ r.ok => /\ r.client.trigger = u
                  /\ \A i \in Slots : r.client.trigger_in_mux[i] = u.v[i].mask
                  /\ r.client.handle_in_mux = HandleMask(u)
  BY <1>1, <1>5, <1>6, <1>7, <1>8, <1>9, RewireFacts
<1>11. \A b \in {"BAD", "MUTE", "READY"} : b \in client'.status <=> Is(b)
  <2>1. \A b \in {"BAD", "MUTE", "READY"} : b \in r.client.status <=> b \in client.status
    BY <1>10
  <2> QED
    BY <1>3, <2>1 DEF Is
<1>12. /\ tasks' \in Seq(TaskType) /\ tasks' # <<>> /\ Len(tasks') = Len(tasks)
       /\ tasks'[1].trigger = t /\ tasks'[1].fed = tasks[1].fed
       /\ tasks'[1].ran = FALSE /\ tasks'[1].failed = ~ r.ok
       /\ \A n \in 2..Len(tasks) : tasks'[n] = tasks[n]
  <2> DEFINE x1 == [tasks[1] EXCEPT !.trigger = t]
             q1 == [tasks EXCEPT ![1] = x1]
             x2 == [q1[1] EXCEPT !.ran = FALSE]
             q2 == [q1 EXCEPT ![1] = x2]
             x3 == [q2[1] EXCEPT !.put_off = FALSE]
             q3 == [q2 EXCEPT ![1] = x3]
             x4 == [q3[1] EXCEPT !.failed = ~ r.ok]
  <2>1. tasks' = [q3 EXCEPT ![1] = x4]
    BY <1>3
  <2>2. x1 \in TaskType /\ x1.trigger = t /\ x1.fed = tasks[1].fed
    BY <1>2, <1>4 DEF TaskType
  <2> HIDE DEF x1
  <2>3. WithHead(tasks, x1, q1)
    BY <1>1, <1>2, <2>2, HeadSet
  <2>4. q1 \in Seq(TaskType) /\ q1 # <<>> /\ q1[1] = x1
    BY <2>3 DEF WithHead
  <2> HIDE DEF q1
  <2>5. x2 \in TaskType /\ x2.trigger = t /\ x2.fed = tasks[1].fed /\ x2.ran = FALSE
    BY <2>2, <2>4 DEF TaskType
  <2> HIDE DEF x2
  <2>6. WithHead(q1, x2, q2)
    BY <2>4, <2>5, HeadSet
  <2>7. q2 \in Seq(TaskType) /\ q2 # <<>> /\ q2[1] = x2
    BY <2>6 DEF WithHead
  <2> HIDE DEF q2
  <2>8. x3 \in TaskType /\ x3.trigger = t /\ x3.fed = tasks[1].fed /\ x3.ran = FALSE
    BY <2>5, <2>7 DEF TaskType
  <2> HIDE DEF x3
  <2>9. WithHead(q2, x3, q3)
    BY <2>7, <2>8, HeadSet
  <2>10. q3 \in Seq(TaskType) /\ q3 # <<>> /\ q3[1] = x3
    BY <2>9 DEF WithHead
  <2> HIDE DEF q3
  <2>11. /\ x4 \in TaskType /\ x4.trigger = t /\ x4.fed = tasks[1].fed
         /\ x4.ran = FALSE /\ x4.failed = ~ r.ok
    BY <2>8, <2>10 DEF TaskType
  <2> HIDE DEF x4
  <2>12. WithHead(q3, x4, tasks')
    BY <2>1, <2>10, <2>11, HeadSet
  <2> QED
    BY <2>3, <2>6, <2>9, <2>11, <2>12 DEF WithHead
<1>14. /\ tasks' \in Seq(TaskType) /\ tasks' # <<>> /\ Len(tasks') = Len(tasks)
       /\ tasks'[1].trigger = t /\ tasks'[1].fed = tasks[1].fed
       /\ tasks'[1].ran = FALSE /\ tasks'[1].failed = ~ r.ok
       /\ \A n \in 2..Len(tasks) : tasks'[n] = tasks[n]
       /\ HeadTrigger(tasks') = t
  BY <1>12 DEF HeadTrigger
<1>15. TypeOK'
  BY <1>1, <1>3, <1>10, <1>14 DEF TypeOK, ClientType, TaskType, MuxType
<1>16. Registered(mux, client, HeadTrigger(tasks).v)'
  BY <1>3, <1>4, <1>5, <1>10, <1>14
<1>17. QueueInv'
  <2>1. Proper(HeadTrigger(tasks))'
    BY <1>7, <1>14
  <2> QED
    BY <1>1, <1>3, <1>4, <1>14, <2>1 DEF QueueInv
<1>18. StatusInv'
  BY <1>1, <1>3, <1>10, <1>11 DEF StatusInv, Is
<1>19. TriggerInv'
  <2>1. ~ Running'
    BY <1>14 DEF Running
  <2>2. ~ Is("BAD")' => SameHandles(client'.trigger.v, t.v)
    BY <1>3, <1>4, <1>5, <1>6, <1>10, <1>11 DEF SameHandles, Is
  <2>3. ~ Is("BAD")' /\ Homeless(t, tasks[1].fed) => "WRITE" \in t.cmask
    BY <1>4, <1>6, <1>11 DEF Homeless, Is
  <2>4. client'.trigger.inactive => ~ r.ok
    BY <1>3, <1>5, <1>10
  <2> QED
    BY <1>4, <1>14, <2>1, <2>2, <2>3, <2>4 DEF TriggerInv
<1>20. WatchInv'
  <2>1. r.ok => Watched(client') /\ "WRITE" \in client'.handle_in_mux
    <3>1. /\ "WRITE" \in u.cmask => "WRITE" \in HandleMask(u)
          /\ "READ" \in u.cmask /\ ~ Is("MUTE") => "READ" \in HandleMask(u)
      BY <1>5, <1>7, MaskFacts
    <3> QED
      BY <1>3, <1>5, <1>10, <1>11, <3>1 DEF Watched, Is
  <2>2. ~ r.ok => Watched(client')
    BY <1>3, <1>6, <1>10 DEF Watched
  <2> QED
    BY <1>10, <1>14, <2>1, <2>2 DEF WatchInv
<1> QED
  BY <1>15, <1>16, <1>17, <1>18, <1>19, <1>20 DEF IInv

(* Every step keeps the invariant.                                         *)
LEMMA StepInv == IInv /\ [Next]_vars => IInv'
<1> SUFFICES ASSUME IInv, [Next]_vars PROVE IInv'
  OBVIOUS
<1>1. CASE UNCHANGED vars
  <2>1. UNCHANGED <<pc, mux, batch, evt, client, tasks>>
    BY <1>1 DEF vars
  <2>2. TypeOK' /\ Registered(mux, client, HeadTrigger(tasks).v)'
    BY <2>1 DEF IInv, TypeOK
  <2>3. QueueInv' /\ StatusInv'
    BY <2>1 DEF IInv, QueueInv, StatusInv, Is
  <2>4. TriggerInv' /\ WatchInv'
    BY <2>1 DEF IInv, TriggerInv, Running, WatchInv, Is
  <2> QED
    BY <2>2, <2>3, <2>4 DEF IInv
<1>2. CASE Next
  <2>1. CASE PollEnds \/ PurgeIdle
    <3>1. CASE FreeClient
      BY <3>1, FreeInv
    <3>2. CASE ~ FreeClient
      BY <2>1, <3>2, StatusSteps DEF PurgeIdle
    <3> QED
      BY <3>1, <3>2
  <2>2. ASSUME pc = "main", NEW t, NEW fed \in {FALSE, tasks[1].fed}, NEW F,
               MainGoesOn(t, fed, F)
        PROVE  IInv'
    BY <2>2, MainGoesOnInv
  <2>4. CASE /\ pc = "main"
             /\ \E t \in NextTriggers(tasks[1].trigger) \union {tasks[1].trigger},
                   fed \in {FALSE, tasks[1].fed}, F \in Refusals : MainGoesOn(t, fed, F)
    BY ONLY <2>2, <2>4
  <2>3. CASE \E n \in 1..Len(tasks) : ReadContent(n)
    BY <2>3, ReadContentInv
  <2> QED
    BY <1>2, <2>1, <2>3, <2>4, AcceptInv, StatusSteps, ReadRequestInv, InvokeLaterInv,
       InvokeTaskInv, MainInactivatesInv, MainEntasksInv, MainEndsInv, ActivateInv DEF Next
<1> QED
  BY <1>1, <1>2

-----------------------------------------------------------------------------
(* Theorems.                                                               *)

(* The invariant always holds.                                             *)
LEMMA IInvHolds == Spec => []IInv
  BY InitInv, StepInv, PTL DEF Spec

(* The status bits of a client say at every moment what of it is in the    *)
(* multiplexer, with any number of handles and of trigger slots, also      *)
(* after a registration that failed half-way: nothing is left behind when  *)
(* a task is dequeued or the client is freed.                              *)
THEOREM MuxRecorded == Spec => []StatusMatchesMux
<1>1. IInv => StatusMatchesMux
  <2> SUFFICES ASSUME IInv PROVE StatusMatchesMux
    OBVIOUS
  <2>1. TypeOK /\ Registered(mux, client, HeadTrigger(tasks).v)
    BY DEF IInv
  <2>2. tasks = <<>> => NoneInMux(client)
    BY DEF IInv, QueueInv
  <2>3. tasks # <<>> => HeadTrigger(tasks) = tasks[1].trigger
    BY DEF HeadTrigger
  <2>6. TaskHandles = AllHandles \ {CliHandle} /\ CliHandle \notin TaskHandles
    BY DEF TaskHandles, AllHandles
  <2>4. \A h \in TaskHandles : mux[h] # {} =>
          /\ tasks # <<>>
          /\ \E i \in Slots : tasks[1].trigger.v[i].handle = h
                              /\ client.trigger_in_mux[i] = mux[h]
    BY <2>1, <2>2, <2>3 DEF Registered, NoneInMux
  <2>5. \A i \in Slots : client.trigger_in_mux[i] # {} =>
          /\ tasks # <<>>
          /\ tasks[1].trigger.v[i].handle \in TaskHandles
          /\ mux[tasks[1].trigger.v[i].handle] = client.trigger_in_mux[i]
    BY <2>1, <2>2, <2>3 DEF Registered, NoneInMux
  <2> QED
    BY <2>1, <2>4, <2>5, <2>6 DEF StatusMatchesMux, Registered, Is
<1> QED
  BY <1>1, IInvHolds, PTL

(* The assertion in qse_httpd_activatetasktrigger() holds: nothing of a    *)
(* client whose task is inactive is in the multiplexer.                    *)
THEOREM InactiveDetached == Spec => []InactiveIsDetached
<1>1. IInv => InactiveIsDetached
  BY DEF IInv, QueueInv, HeadTrigger, InactiveIsDetached, Detached, NoneInMux
<1> QED
  BY <1>1, IInvHolds, PTL

(* A client that is polled for is watched for something, or its task waits *)
(* for an answer or could not be put back when the answer came.            *)
THEOREM CanBeWoken == Spec => []ClientCanBeWoken
<1>1. IInv => ClientCanBeWoken
  <2> SUFFICES ASSUME IInv, pc = "poll"
               PROVE  \/ mux[CliHandle] # {} /\ (tasks = <<>> => mux[CliHandle] = {"READ"})
                      \/ tasks # <<>> /\ \E h \in Handles : mux[h] # {}
                      \/ tasks # <<>> /\ (tasks[1].trigger.inactive \/ tasks[1].failed)
    BY DEF ClientCanBeWoken
  <2>1. ~ Is("BAD") /\ mux[CliHandle] = client.handle_in_mux
    BY DEF IInv, StatusInv, Registered
  <2>2. CASE tasks = <<>>
    BY <2>1, <2>2 DEF IInv, WatchInv
  <2>3. CASE tasks # <<>>
    <3>1. HeadTrigger(tasks) = tasks[1].trigger
      BY <2>3 DEF HeadTrigger
    <3>2. client.trigger.inactive => tasks[1].trigger.inactive \/ tasks[1].failed
      BY <3>1 DEF IInv, TriggerInv
    <3>3. ~ client.trigger.inactive =>
            \/ client.handle_in_mux # {}
            \/ \E i \in Slots : /\ client.trigger_in_mux[i] # {}
                               /\ client.trigger.v[i].handle \in Handles
      BY <2>1 DEF IInv, WatchInv, Watched
    <3>4. (\E i \in Slots : /\ client.trigger_in_mux[i] # {}
                           /\ client.trigger.v[i].handle \in Handles) =>
            \E h \in Handles : mux[h] # {}
      <4>1. SameHandles(client.trigger.v, HeadTrigger(tasks).v)
        BY <2>1 DEF IInv, TriggerInv
      <4> QED
        BY <4>1 DEF IInv, Registered, SameHandles
    <3> QED
      BY <2>1, <2>3, <3>2, <3>3, <3>4
  <2> QED
    BY <2>2, <2>3
<1> QED
  BY <1>1, IInvHolds, PTL

(* A task that has not been run since it was queued, or since its answer   *)
(* came, has its client watched for writing.                               *)
THEOREM NewTriggered == Spec => []NewTaskIsTriggered
<1>1. IInv => NewTaskIsTriggered
  BY DEF IInv, StatusInv, WatchInv, Registered, NewTaskIsTriggered
<1> QED
  BY <1>1, IInvHolds, PTL

(* What a running task asked for last is what is polled for, for every     *)
(* number of handles and of slots; if it was put off after that, only what *)
(* reading content has changed goes unheard.                               *)
THEOREM TriggersHonoured == Spec => []TriggersAreHonoured
<1>1. IInv => TriggersAreHonoured
  <2> DEFINE t == tasks[1].trigger
             asked == IF tasks[1].put_off THEN client.trigger ELSE t
             C == client.trigger
  <2> SUFFICES ASSUME IInv, pc = "poll", tasks # <<>>, tasks[1].ran, ~ tasks[1].failed,
                      ~ t.inactive
               PROVE  /\ \A i \in Slots :
                           asked.v[i].handle # NoHandle =>
                             mux[asked.v[i].handle] = asked.v[i].mask
                      /\ "WRITE" \in asked.cmask => "WRITE" \in mux[CliHandle]
                      /\ "READ" \in asked.cmask /\ ~ Is("MUTE") => "READ" \in mux[CliHandle]
                      /\ \A i \in Slots :
                           /\ t.v[i].handle = asked.v[i].handle
                           /\ t.v[i].mask = asked.v[i].mask \/
                                (i = FeedSlot /\ t.v[i].mask = asked.v[i].mask \union {"WRITE"})
                      /\ \/ t.cmask = asked.cmask
                         \/ t.cmask = asked.cmask \ {"READ"} /\ ~ tasks[1].fed
    BY DEF TriggersAreHonoured
  <2>1. /\ TypeOK /\ ~ Is("BAD") /\ mux[CliHandle] = client.handle_in_mux
        /\ HeadTrigger(tasks) = t
    BY DEF IInv, StatusInv, Registered, HeadTrigger
  <2>2. Running
    BY <2>1 DEF Running
  <2>3. asked = C /\ Snatched(C, t, tasks[1].fed)
    BY <2>2 DEF IInv, TriggerInv
  <2>4. t \in Triggers /\ Proper(t) /\ C \in Triggers
    BY <2>1, StateTypes DEF IInv, QueueInv
  <2>5. ~ C.inactive /\ \A i \in Slots : t.v[i].handle = C.v[i].handle
    BY <2>3 DEF Snatched
  <2>6. /\ \A i \in Slots : client.trigger_in_mux[i] = C.v[i].mask
        /\ "WRITE" \in C.cmask => "WRITE" \in client.handle_in_mux
        /\ "READ" \in C.cmask /\ ~ Is("MUTE") => "READ" \in client.handle_in_mux
    BY <2>1, <2>5 DEF IInv, WatchInv, Watched, Is
  <2>7. /\ \A h \in TaskHandles : mux[h] # {} =>
             \E i \in Slots : t.v[i].handle = h /\ client.trigger_in_mux[i] = mux[h]
        /\ \A i \in Slots : client.trigger_in_mux[i] # {} =>
             mux[t.v[i].handle] = client.trigger_in_mux[i]
    BY <2>1 DEF IInv, Registered
  <2> HIDE DEF t, C, asked
  <2>8. ASSUME NEW i \in Slots, C.v[i].handle # NoHandle PROVE mux[C.v[i].handle] = C.v[i].mask
    <3>1. t.v[i].handle \in TaskHandles /\ t.v[i].handle = C.v[i].handle
      BY <2>4, <2>5, TriggerFields
    <3>2. CASE C.v[i].mask # {}
      BY <2>6, <2>7, <3>1, <3>2
    <3>3. CASE C.v[i].mask = {}
      <4>1. ASSUME mux[t.v[i].handle] # {} PROVE FALSE
        <5>1. PICK j \in Slots : /\ t.v[j].handle = t.v[i].handle
                                 /\ client.trigger_in_mux[j] = mux[t.v[i].handle]
          BY <2>7, <3>1, <4>1
        <5>2. j = i
          BY <2>4, <2>8, <3>1, <5>1 DEF Proper
        <5> QED
          BY <2>6, <3>3, <4>1, <5>1, <5>2
      <4> QED
        BY <3>1, <3>3, <4>1
    <3> QED
      BY <3>2, <3>3
  <2> QED
    BY <2>1, <2>3, <2>6, <2>8 DEF Snatched
<1> QED
  BY <1>1, IInvHolds, PTL

=============================================================================
