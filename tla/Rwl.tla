-------------------------------- MODULE Rwl ---------------------------------
(***************************************************************************)
(* The reader-writer lock of lib/si/rwl.c, built from one mutex, two       *)
(* condition variables and four counters.                                  *)
(*                                                                         *)
(* The counters are only touched with rwl->mtx held, so everything between *)
(* acquiring the mutex and giving it back (by unlocking it or by waiting   *)
(* on a condition variable) is one step.  The condition variables are      *)
(* those of POSIX: a signal wakes one sleeper if there is one, a broadcast *)
(* wakes all, and a sleeper may also wake without a signal.  A woken       *)
(* thread has to get the mutex back before it looks at the counters again; *)
(* other threads may run in between.                                       *)
(*                                                                         *)
(* A thread only unlocks what it has locked, so that the returns of -1 for *)
(* a count of 0 in the unlock functions are never taken.                   *)
(***************************************************************************)
EXTENDS Naturals, FiniteSets

CONSTANTS
  Threads,        \* the threads that share the lock
  PREFER_WRITER,  \* flags & QSE_RWL_PREFER_WRITER
  TimedReaders,   \* may qse_rwl_lockr() be given a waiting time?
  TimedWriters    \* may qse_rwl_lockw() be given a waiting time?

ASSUME RwlAssumption ==
  /\ IsFiniteSet(Threads)
  /\ {PREFER_WRITER, TimedReaders, TimedWriters} \subseteq BOOLEAN

VARIABLES
  rwait_count, wwait_count,      \* rwl->rwait_count, rwl->wwait_count
  ractive_count, wactive_count,  \* rwl->ractive_count, rwl->wactive_count
  pc,        \* what each thread is doing
  deadline   \* of its waiting time: "none", "ahead" or "passed"

counts == <<rwait_count, wwait_count, ractive_count, wactive_count>>
rwlvars == <<counts, pc, deadline>>

(* A thread sleeps in qse_cnd_wait() on rcnd or wcnd, or has been woken    *)
(* and is waiting for the mutex.                                           *)
States == {"idle", "reading", "writing", "rsleep", "rwoken", "wsleep", "wwoken"}

At(s) == {t \in Threads : pc[t] = s}

RwlInit ==
  /\ rwait_count = 0
  /\ wwait_count = 0
  /\ ractive_count = 0
  /\ wactive_count = 0
  /\ pc = [t \in Threads |-> "idle"]
  /\ deadline = [t \in Threads |-> "none"]

-----------------------------------------------------------------------------
(* The condition variables.                                                *)

(* The states of the threads after thread t has gone to state s and the    *)
(* sleepers in W have been woken.                                          *)
Become(t, s, W) ==
  pc' = [u \in Threads |->
           IF u = t THEN s
           ELSE IF u \in W THEN (IF pc[u] = "rsleep" THEN "rwoken" ELSE "wwoken")
           ELSE pc[u]]

(* The sets of sleepers a signal, or a broadcast, can wake.                *)
qse_cnd_signal(sleepers) ==
  IF sleepers = {} THEN {{}} ELSE {{u} : u \in sleepers}

qse_cnd_broadcast(sleepers) == {sleepers}

(* A wake-up without a signal, which POSIX allows.                         *)
SpuriousWakeup(t) ==
  /\ pc[t] \in {"rsleep", "wsleep"}
  /\ Become(t, IF pc[t] = "rsleep" THEN "rwoken" ELSE "wwoken", {})
  /\ UNCHANGED <<counts, deadline>>

(* The waiting time of a call is used up, whether its thread sleeps or has *)
(* been woken just before.                                                 *)
Expire(t) ==
  /\ deadline[t] = "ahead"
  /\ deadline' = [deadline EXCEPT ![t] = "passed"]
  /\ Become(t, CASE pc[t] = "rsleep" -> "rwoken"
                 [] pc[t] = "wsleep" -> "wwoken"
                 [] OTHER -> pc[t], {})
  /\ UNCHANGED counts

-----------------------------------------------------------------------------
(* Readers.                                                                *)

ReaderMustWait ==
  wactive_count > 0 \/ (PREFER_WRITER /\ wwait_count > 0)

GetReadLock(t) ==
  /\ ractive_count' = ractive_count + 1
  /\ Become(t, "reading", {})
  /\ deadline' = [deadline EXCEPT ![t] = "none"]
  /\ UNCHANGED <<wwait_count, wactive_count>>

(* A timed call that cannot get the mutex, or whose time is up before it   *)
(* first sleeps, returns -1 and leaves everything as it was.               *)
qse_rwl_lockr(t, timed) ==
  /\ pc[t] = "idle"
  /\ \/ /\ ~ ReaderMustWait
        /\ GetReadLock(t)
        /\ UNCHANGED rwait_count
     \/ /\ ReaderMustWait
        /\ rwait_count' = rwait_count + 1
        /\ Become(t, "rsleep", {})
        /\ deadline' = [deadline EXCEPT ![t] = IF timed THEN "ahead" ELSE "none"]
        /\ UNCHANGED <<wwait_count, ractive_count, wactive_count>>

(* The rest of the loop of qse_rwl_lockr() once qse_cnd_wait() returns.    *)
ReaderResumes(t) ==
  /\ pc[t] = "rwoken"
  /\ \/ /\ ~ ReaderMustWait
        /\ rwait_count' = rwait_count - 1
        /\ GetReadLock(t)
     \/ /\ ReaderMustWait
        /\ deadline[t] = "passed"
        /\ rwait_count' = rwait_count - 1
        /\ Become(t, "idle", {})
        /\ deadline' = [deadline EXCEPT ![t] = "none"]
        /\ UNCHANGED <<wwait_count, ractive_count, wactive_count>>
     \/ /\ ReaderMustWait
        /\ deadline[t] # "passed"
        /\ Become(t, "rsleep", {})
        /\ UNCHANGED <<counts, deadline>>

(* Mutant: a writer is woken while other readers are still active, and not *)
(* when the last one leaves.                                               *)
LastReaderOut_First == ractive_count > 1 /\ wwait_count > 0

(* The reader that unlocks is the last, and a writer waits.                *)
LastReaderOut == ractive_count = 1 /\ wwait_count > 0

qse_rwl_unlockr(t) ==
  /\ pc[t] = "reading"
  /\ ractive_count' = ractive_count - 1
  /\ \E W \in (IF LastReaderOut THEN qse_cnd_signal(At("wsleep")) ELSE {{}}) :
       Become(t, "idle", W)
  /\ UNCHANGED <<rwait_count, wwait_count, wactive_count, deadline>>

-----------------------------------------------------------------------------
(* Writers.                                                                *)

(* Mutant: a writer looks at the other writers only.                       *)
WriterMustWait_WritersOnly == wactive_count > 0

WriterMustWait == wactive_count > 0 \/ ractive_count > 0

GetWriteLock(t) ==
  /\ wactive_count' = wactive_count + 1
  /\ Become(t, "writing", {})
  /\ deadline' = [deadline EXCEPT ![t] = "none"]
  /\ UNCHANGED <<rwait_count, ractive_count>>

qse_rwl_lockw(t, timed) ==
  /\ pc[t] = "idle"
  /\ \/ /\ ~ WriterMustWait
        /\ GetWriteLock(t)
        /\ UNCHANGED wwait_count
     \/ /\ WriterMustWait
        /\ wwait_count' = wwait_count + 1
        /\ Become(t, "wsleep", {})
        /\ deadline' = [deadline EXCEPT ![t] = IF timed THEN "ahead" ELSE "none"]
        /\ UNCHANGED <<rwait_count, ractive_count, wactive_count>>

(* Mutant: a writer that gives up stays counted as waiting.                *)
WriterGivesUp_Counted(t) ==
  /\ Become(t, "idle", {})
  /\ deadline' = [deadline EXCEPT ![t] = "none"]
  /\ UNCHANGED counts

WriterGivesUp(t) ==
  /\ wwait_count' = wwait_count - 1
  /\ Become(t, "idle", {})
  /\ deadline' = [deadline EXCEPT ![t] = "none"]
  /\ UNCHANGED <<rwait_count, ractive_count, wactive_count>>

WriterResumes(t) ==
  /\ pc[t] = "wwoken"
  /\ \/ /\ ~ WriterMustWait
        /\ wwait_count' = wwait_count - 1
        /\ GetWriteLock(t)
     \/ /\ WriterMustWait
        /\ deadline[t] = "passed"
        /\ WriterGivesUp(t)
     \/ /\ WriterMustWait
        /\ deadline[t] # "passed"
        /\ Become(t, "wsleep", {})
        /\ UNCHANGED <<counts, deadline>>

(* Mutant: the `else' that is commented out in the code.                   *)
Wakeups_Else ==
  IF rwait_count > 0 THEN qse_cnd_broadcast(At("rsleep"))
  ELSE IF wwait_count > 0 THEN qse_cnd_signal(At("wsleep"))
  ELSE {{}}

(* Mutant: one reader is woken instead of all.                             *)
Wakeups_OneReader ==
  LET readers == IF rwait_count > 0 THEN qse_cnd_signal(At("rsleep")) ELSE {{}}
      writers == IF wwait_count > 0 THEN qse_cnd_signal(At("wsleep")) ELSE {{}}
  IN  {R \union W : R \in readers, W \in writers}

(* The sets of threads qse_rwl_unlockw() may wake: all the readers, and    *)
(* one writer.                                                             *)
Wakeups ==
  LET readers == IF rwait_count > 0 THEN qse_cnd_broadcast(At("rsleep")) ELSE {{}}
      writers == IF wwait_count > 0 THEN qse_cnd_signal(At("wsleep")) ELSE {{}}
  IN  {R \union W : R \in readers, W \in writers}

qse_rwl_unlockw(t) ==
  /\ pc[t] = "writing"
  /\ wactive_count' = wactive_count - 1
  /\ \E W \in Wakeups : Become(t, "idle", W)
  /\ UNCHANGED <<rwait_count, wwait_count, ractive_count, deadline>>

-----------------------------------------------------------------------------
RwlNext ==
  \E t \in Threads :
    \/ SpuriousWakeup(t)
    \/ Expire(t)
    \/ \E timed \in {FALSE, TimedReaders} : qse_rwl_lockr(t, timed)
    \/ ReaderResumes(t)
    \/ qse_rwl_unlockr(t)
    \/ \E timed \in {FALSE, TimedWriters} : qse_rwl_lockw(t, timed)
    \/ WriterResumes(t)
    \/ qse_rwl_unlockw(t)

RwlSpec == RwlInit /\ [][RwlNext]_rwlvars

(* A thread that has been woken gets the mutex in the end, and a thread    *)
(* that has the lock gives it back.  Nothing is assumed about wake-ups     *)
(* without a signal, about time-outs or about new calls.                   *)
Fairness ==
  \A t \in Threads :
    /\ WF_rwlvars(ReaderResumes(t))
    /\ WF_rwlvars(WriterResumes(t))
    /\ WF_rwlvars(qse_rwl_unlockr(t))
    /\ WF_rwlvars(qse_rwl_unlockw(t))

FairSpec == RwlSpec /\ Fairness

-----------------------------------------------------------------------------
(* Properties.                                                             *)

RwlTypeOK ==
  /\ {rwait_count, wwait_count, ractive_count, wactive_count} \subseteq Nat
  /\ pc \in [Threads -> States]
  /\ deadline \in [Threads -> {"none", "ahead", "passed"}]

(* The counters, on which every decision of the lock is based, say exactly *)
(* how many threads read, write and wait, whatever woke the waiters and    *)
(* whichever of them gave up.                                              *)
CountsMatch ==
  /\ ractive_count = Cardinality(At("reading"))
  /\ wactive_count = Cardinality(At("writing"))
  /\ rwait_count = Cardinality(At("rsleep") \union At("rwoken"))
  /\ wwait_count = Cardinality(At("wsleep") \union At("wwoken"))

(* A thread that writes is alone: no other thread writes or reads between  *)
(* its qse_rwl_lockw() and its qse_rwl_unlockw().                          *)
WriterIsAlone ==
  \A t \in At("writing") :
    \A u \in Threads \ {t} : pc[u] \notin {"reading", "writing"}

(* No wake-up is lost for readers: a reader only sleeps while the          *)
(* condition of its loop holds.                                            *)
NoReaderSleepsInVain == At("rsleep") # {} => ReaderMustWait

(* No wake-up is lost for writers: when nobody has the lock and a writer   *)
(* sleeps, some writer has been woken and is about to take the lock or to  *)
(* wake the next one when it gives it back.                                *)
NoWriterForgotten ==
  At("wsleep") # {} =>
    ractive_count > 0 \/ wactive_count > 0 \/ At("wwoken") # {}

(* As long as threads wait, the lock goes on being handed out.             *)
WaitersAreServed ==
  (\E t \in Threads : pc[t] \in {"rsleep", "rwoken", "wsleep", "wwoken"})
    ~> (\E t \in Threads : pc[t] \in {"reading", "writing"})

=============================================================================
