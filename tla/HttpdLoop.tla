----------------------------- MODULE HttpdLoop ------------------------------
(***************************************************************************)
(* The main loop of lib/http/httpd.c and the lives of the clients in it:   *)
(* who is on the client list, who is on the list of bad clients, whose     *)
(* idle timer is armed.  What a client's tasks do is in HttpdClient; here  *)
(* a dispatched event just succeeds or fails.  The timer is the one that   *)
(* TimerQueue promises and Tmr implements.                                 *)
(*                                                                         *)
(* An iteration of the loop polls, dispatches the events of the batch,     *)
(* fires the timer and purges the bad clients.  Time passes in the poll    *)
(* only: an iteration is short compared with the idle limit.               *)
(***************************************************************************)
EXTENDS Naturals, Sequences, SequencesExt

CONSTANTS
  Clients,           \* the blocks of memory a client can be allocated in
  Servers,           \* httpd->server.list
  IdleLimit,         \* httpd->opt.idle_limit
  Tmout,             \* httpd->opt.tmout
  MaxTime            \* bound on the clock

ASSUME HttpdLoopAssumption ==
  /\ Clients \intersect Servers = {}
  /\ IdleLimit \in Nat \ {0}
  /\ Tmout \in Nat
  /\ MaxTime \in Nat

VARIABLES
  state,        \* the part of qse_httpd_loop() that is being executed
  clock,        \* qse_gettime()
  stopreq,      \* httpd->stopreq
  active,       \* the servers with QSE_HTTPD_SERVER_ACTIVE
  ursactive,    \* httpd->ursactive
  ursopen,      \* is the URS context really open?
  batch,        \* whose events of this poll are not dispatched yet
  open,         \* the clients that are allocated
  list,         \* httpd->client.list, head first
  bad,          \* httpd->client.bad, head first
  status,       \* client->status
  last_active,  \* client->last_active
  firing,       \* the events whose handler is running, at most one
  pending, phase, now  \* the timer: see TimerQueue

timer == <<pending, phase, now>>
conn == <<open, list, bad, status, last_active>>
vars == <<state, clock, stopreq, active, ursactive, ursopen, batch, conn, firing, timer>>

Timer == INSTANCE TimerQueue WITH Ctx <- Clients, Times <- Nat

Init ==
  /\ state = "stopped"
  /\ clock = 0
  /\ stopreq = FALSE
  /\ active = {}
  /\ ursactive = FALSE
  /\ ursopen = FALSE
  /\ batch = {}
  /\ open = {}
  /\ list = <<>>
  /\ bad = <<>>
  /\ status = [c \in Clients |-> {}]
  /\ last_active = [c \in Clients |-> 0]
  /\ firing = {}
  /\ pending = {}
  /\ phase = "none"
  /\ now = 0

-----------------------------------------------------------------------------
(* Clients.                                                                *)

Has(c, bit) == bit \in status[c]

(* Mutant: marking a client twice links it twice.                          *)
MarkedBad_Twice(c, b) == <<c>> \o b

(* mark_bad_client(): the list of bad clients b with c on it.              *)
MarkedBad(c, b) == IF Has(c, "BAD") THEN b ELSE <<c>> \o b

mark_bad_client(c) ==
  /\ status' = [status EXCEPT ![c] = @ \union {"BAD"}]
  /\ bad' = MarkedBad(c, bad)

(* Mutant: the client is not moved.                                        *)
MovedToTail_Stays(c) == list

(* move_client_to_tail().                                                  *)
MovedToTail(c) == Append(RemoveFirst(list, c), c)

TimersOf(c) == {e \in pending : e.ctx = c}

(* Mutant: the idle timer is left behind.                                  *)
TimersLeft_All(C) == pending

(* The timer events that remain when the clients in C are freed.           *)
TimersLeft(C) == {e \in pending : e.ctx \notin C}

(* purge_client(): free_client() and taking it off the client list.  It    *)
(* stays on the list of bad clients if it is there.                        *)
purge_client(c) ==
  /\ open' = open \ {c}
  /\ list' = RemoveFirst(list, c)
  /\ pending' = TimersLeft({c})
  /\ UNCHANGED <<status, last_active>>

-----------------------------------------------------------------------------
(* The start and the end of the loop.                                      *)

(* qse_httpd_loop() up to the loop.  The servers in S can be opened and    *)
(* registered; without any it gives up.                                    *)
StartLoop(S, urs) ==
  /\ state = "stopped"
  /\ stopreq' = FALSE
  /\ ursactive' = (ursactive \/ urs)
  /\ \/ /\ S = {}
        /\ ursopen' = FALSE
        /\ UNCHANGED <<state, active>>
     \/ /\ S # {}
        /\ ursopen' = urs
        /\ active' = S
        /\ state' = "poll"
  /\ UNCHANGED <<clock, batch, conn, firing, timer>>

(* qse_httpd_stop(), from a signal handler.                                *)
qse_httpd_stop ==
  /\ state # "stopped"
  /\ stopreq' = TRUE
  /\ UNCHANGED <<state, clock, active, ursactive, ursopen, batch, conn, firing, timer>>

(* Mutant: the servers stay active.                                        *)
ServersLeft_All == active

ServersLeft == {}

(* Mutant: a request to stop waits until the last client has gone.         *)
Stopping_WhenEmpty == stopreq /\ list = <<>>

Stopping == stopreq

(* What follows the loop: purge_client_list(), deactivate_servers() and    *)
(* deactivate_urs().                                                       *)
EndLoop ==
  /\ \/ state = "poll" /\ Stopping
     \/ state = "broken"
  /\ open' = {}
  /\ list' = <<>>
  /\ pending' = TimersLeft(ToSet(list))
  /\ active' = ServersLeft
  /\ ursopen' = IF ursactive THEN FALSE ELSE ursopen
  /\ state' = "stopped"
  /\ UNCHANGED <<clock, stopreq, ursactive, batch, bad, status, last_active, firing, phase, now>>

-----------------------------------------------------------------------------
(* One iteration.                                                          *)

(* The poll ends no later than the first timer event, given by             *)
(* qse_tmr_gettmout(), or after the default timeout if there is none.      *)
WakesBy(t) ==
  IF pending = {} THEN t <= clock + Tmout
  ELSE \A e \in pending : t <= e.when \/ t = clock

(* Of what is reported, B are the events of servers and clients.           *)
(* dispatch_mux() also hands events to the DNS and URS clients and to      *)
(* custom handles.  These answer tasks and activate their triggers, which  *)
(* is the subject of HttpdDns, HttpdUrs and HttpdClient, and touch none of *)
(* the variables here: no client is marked bad, moved or made active.      *)
Poll(t, B) ==
  /\ state = "poll"
  /\ ~ Stopping
  /\ clock <= t
  /\ WakesBy(t)
  /\ clock' = t
  /\ batch' = B
  /\ state' = "dispatch"
  /\ UNCHANGED <<stopreq, active, ursactive, ursopen, conn, firing, timer>>

(* The poll fails, other than because of a signal, and the loop is left.   *)
(* qse_mux_poll() fails before it dispatches anything.                     *)
PollFails ==
  /\ state = "poll"
  /\ ~ Stopping
  /\ state' = "broken"
  /\ UNCHANGED <<clock, stopreq, active, ursactive, ursopen, batch, conn, firing, timer>>

(* accept_client(), for an event of server s.  A client that cannot be     *)
(* allocated, armed or registered is as if it had never been there.        *)
(* Without a client.accepted callback (without TLS) it is ready at once.   *)
accept_client(s, c, ready) ==
  /\ state = "dispatch"
  /\ s \in batch
  /\ c \notin open
  /\ batch' = batch \ {s}
  /\ open' = open \union {c}
  /\ list' = Append(list, c)
  /\ status' = [status EXCEPT ![c] = IF ready THEN {"READY"} ELSE {}]
  /\ last_active' = [last_active EXCEPT ![c] = clock]
  /\ pending' = pending \union {[ctx |-> c, when |-> clock + IdleLimit]}
  /\ UNCHANGED <<state, clock, stopreq, active, ursactive, ursopen, bad, firing, phase, now>>

AcceptFails(s) ==
  /\ state = "dispatch"
  /\ s \in batch
  /\ batch' = batch \ {s}
  /\ UNCHANGED <<state, clock, stopreq, active, ursactive, ursopen, conn, firing, timer>>

Touched(c) == [last_active EXCEPT ![c] = clock]

(* perform_client_task(), for an event of client c.                        *)
perform_client_task(c) ==
  /\ state = "dispatch"
  /\ c \in batch
  /\ batch' = batch \ {c}
  /\ \/ /\ Has(c, "BAD")
        /\ UNCHANGED conn
     \/ /\ ~ Has(c, "BAD")          \* client.accepted() returns 0 ...
        /\ ~ Has(c, "READY")
        /\ UNCHANGED conn
     \/ /\ ~ Has(c, "BAD")          \* ... or -1 ...
        /\ ~ Has(c, "READY")
        /\ mark_bad_client(c)
        /\ UNCHANGED <<open, list, last_active>>
     \/ /\ ~ Has(c, "BAD")          \* ... or 1
        /\ ~ Has(c, "READY")
        /\ status' = [status EXCEPT ![c] = @ \union {"READY"}]
        /\ last_active' = Touched(c)
        /\ list' = MovedToTail(c)
        /\ UNCHANGED <<open, bad>>
     \/ /\ ~ Has(c, "BAD")          \* invoke_client_task() returns 0 ...
        /\ Has(c, "READY")
        /\ last_active' = Touched(c)
        /\ list' = MovedToTail(c)
        /\ UNCHANGED <<open, bad, status>>
     \/ /\ ~ Has(c, "BAD")          \* ... or -1
        /\ Has(c, "READY")
        /\ mark_bad_client(c)
        /\ last_active' = Touched(c)
        /\ list' = MovedToTail(c)
        /\ UNCHANGED open
  /\ UNCHANGED <<state, clock, stopreq, active, ursactive, ursopen, firing, timer>>

-----------------------------------------------------------------------------
(* qse_tmr_fire(), with the handler of the idle timer.                     *)

AllDispatched == batch = {}

StartFiring ==
  /\ state = "dispatch"
  /\ AllDispatched
  /\ Timer!Fire(clock)
  /\ state' = "fire"
  /\ UNCHANGED <<clock, stopreq, active, ursactive, ursopen, batch, conn, firing>>

FireEvent(e) ==
  /\ state = "fire"
  /\ Timer!FireEvent(e)
  /\ firing' = {e}
  /\ UNCHANGED <<state, clock, stopreq, active, ursactive, ursopen, batch, conn>>

(* Mutant: the limit has to be exceeded.                                   *)
IsIdle_Beyond(c) == now - last_active[c] > IdleLimit

IsIdle(c) == now - last_active[c] >= IdleLimit

Rearmed(e) == [ctx |-> e.ctx, when |-> now + IdleLimit]

(* tmr_idle_handle(): purge the client, or arm its timer anew.  If that    *)
(* cannot be done the client is bad.                                       *)
tmr_idle_handle(e) ==
  /\ state = "fire"
  /\ e \in firing
  /\ \/ /\ IsIdle(e.ctx)
        /\ purge_client(e.ctx)
        /\ UNCHANGED <<bad, phase, now>>
     \/ /\ ~ IsIdle(e.ctx)
        /\ Timer!Schedule(Rearmed(e))
        /\ UNCHANGED conn
     \/ /\ ~ IsIdle(e.ctx)
        /\ mark_bad_client(e.ctx)
        /\ UNCHANGED <<open, list, last_active, timer>>
  /\ firing' = {}
  /\ UNCHANGED <<state, clock, stopreq, active, ursactive, ursopen, batch>>

HandlerReturns ==
  /\ state = "fire"
  /\ firing = {}
  /\ Timer!HandlerReturns
  /\ UNCHANGED <<state, clock, stopreq, active, ursactive, ursopen, batch, conn, firing>>

EndFiring ==
  /\ state = "fire"
  /\ Timer!FireReturns
  /\ state' = "purge"
  /\ UNCHANGED <<clock, stopreq, active, ursactive, ursopen, batch, conn, firing>>

(* purge_bad_clients(), one client at a time.  Freeing a client again is   *)
(* undefined: nothing is said of what happens then.                        *)
purge_bad_clients ==
  /\ state = "purge"
  /\ bad # <<>>
  /\ \/ /\ Head(bad) \in open
        /\ bad' = Tail(bad)
        /\ purge_client(Head(bad))
        /\ UNCHANGED <<state, phase, now>>
     \/ /\ Head(bad) \notin open
        /\ state' = "undefined"
        /\ UNCHANGED <<conn, timer>>
  /\ UNCHANGED <<clock, stopreq, active, ursactive, ursopen, batch, firing>>

NextIteration ==
  /\ state = "purge"
  /\ bad = <<>>
  /\ state' = "poll"
  /\ UNCHANGED <<clock, stopreq, active, ursactive, ursopen, batch, conn, firing, timer>>

-----------------------------------------------------------------------------
Iterate ==
  \/ \E t \in clock..MaxTime, B \in SUBSET (active \union ToSet(list)) : Poll(t, B)
  \/ \E s \in batch \intersect Servers, c \in Clients, ready \in BOOLEAN :
       accept_client(s, c, ready)
  \/ \E s \in batch \intersect Servers : AcceptFails(s)
  \/ \E c \in batch \intersect Clients : perform_client_task(c)
  \/ StartFiring
  \/ \E e \in pending : FireEvent(e)
  \/ \E e \in firing : tmr_idle_handle(e)
  \/ HandlerReturns
  \/ EndFiring
  \/ purge_bad_clients
  \/ NextIteration

Next ==
  \/ \E S \in SUBSET Servers, urs \in BOOLEAN : StartLoop(S, urs)
  \/ qse_httpd_stop
  \/ PollFails
  \/ EndLoop
  \/ Iterate

Spec == Init /\ [][Next]_vars

(* The loop keeps going.                                                   *)
FairSpec == Spec /\ WF_vars(EndLoop) /\ WF_vars(Iterate)

-----------------------------------------------------------------------------
(* Properties.                                                             *)

TypeOK ==
  /\ state \in {"stopped", "poll", "dispatch", "fire", "purge", "broken", "undefined"}
  /\ clock \in Nat
  /\ {stopreq, ursactive, ursopen} \subseteq BOOLEAN
  /\ active \subseteq Servers
  /\ batch \subseteq Servers \union Clients
  /\ open \subseteq Clients
  /\ list \in Seq(Clients)
  /\ bad \in Seq(Clients)
  /\ status \in [Clients -> SUBSET {"READY", "BAD"}]
  /\ last_active \in [Clients -> Nat]
  /\ firing \subseteq Timer!Events
  /\ pending \subseteq Timer!Events
  /\ phase \in Timer!Phases
  /\ now \in Nat
  /\ state # "dispatch" => batch = {}

(* The client list holds the clients that are allocated, each once, in the *)
(* order of their last activity.                                           *)
ListInActivityOrder ==
  /\ TypeOK
  /\ ToSet(list) = open
  /\ \A i, j \in 1..Len(list) : i < j =>
       /\ list[i] # list[j]
       /\ last_active[list[i]] <= last_active[list[j]]

(* free_client() asserts that the client it is given has an open request   *)
(* reader: the list of bad clients must hold allocated clients only, or    *)
(* purge_bad_clients() frees a client a second time.                       *)
BadAreOpen == ToSet(bad) \subseteq open

(* A client that has got through its handshake is freed once, although it  *)
(* may become bad, be touched and reach its idle limit in one iteration:   *)
(* while it is on the list of bad clients it is allocated, and it is there *)
(* once.                                                                   *)
ReadyAreFreedOnce ==
  /\ \A c \in ToSet(bad) : Has(c, "READY") => c \in open
  /\ \A i, j \in 1..Len(bad) : i # j => bad[i] # bad[j]

(* A timer event refers to a client that is still there, and a client that *)
(* is there has its idle timer armed: no client escapes the idle limit.    *)
(* The exceptions last until the end of the iteration.                     *)
IdleTimerIsArmed ==
  /\ \A e \in pending \union firing : e.ctx \in open
  /\ \A c \in open :
       \/ \E e \in pending \union firing : e.ctx = c
       \/ c \in ToSet(bad)

(* A client that does nothing is gone before twice the idle limit is over, *)
(* whatever the other clients, the timer and the poll do meanwhile.        *)
IdleClientsGo == \A c \in open : clock - last_active[c] < 2 * IdleLimit

(* The assertions at the start and at the end of qse_httpd_loop(): nothing *)
(* of one run of the loop is left for the next.                            *)
LoopLeavesNothing ==
  state = "stopped" =>
    list = <<>> /\ pending = {} /\ active = {} /\ bad = <<>> /\ ~ ursopen

(* A request to stop ends the loop, whatever the loop is doing when it is  *)
(* made.  Nothing is said of what follows undefined behaviour.             *)
StopIsHonoured ==
  (stopreq /\ state # "stopped") ~> (state \in {"stopped", "undefined"})

=============================================================================
