# A verification project for QSE

QSE is a collection of C libraries (with C++ wrappers) and a few programs on top
of them: containers, strings and I/O, an AWK interpreter, a stream editor, and an
embeddable HTTP server that also proxies, runs CGI programs, resolves names and
asks an external service to rewrite URLs. This directory holds TLA+ models of
the parts of QSE in which the order of events matters, TLC configurations that
check them on small instances, and TLAPS proofs of what matters most.

The models are translated from the source. Where a definition and a comment in
the source disagree, the definition follows the code. Paths below are relative
to the repository.

* [Inventory](#1-inventory)
* [The modules and the code](#2-the-modules-and-the-code)
* [The runs](#3-the-runs)
* [Fairness](#4-fairness)
* [The proofs](#5-the-proofs)
* [Findings and observations](#6-findings-and-observations)
* [What is not modelled](#7-what-is-not-modelled)
* [Plan](#8-plan)

To repeat a run: `tlc -config MCTmr.cfg MCTmr`. To repeat a proof:
`tlapm LibProofs.tla`.

## 1. Inventory

`PROJECT.json` lists every component with its sources and its status. The ones
that carry concurrent, asynchronous or otherwise order-dependent behaviour are
these.

### Timer queue, `lib/cmn/tmr.c`

State: a growing array used as a binary min-heap of events (time, owner,
handler, updater). Operations: insert, delete, update, fire, clear,
gettmout. Every owner keeps the array index of its event; the heap reports moves
through the event's *updater* callback, from inside its sift loops, and calls
handlers, which may use the heap, from inside its firing loop. Used by the HTTP
server for idle clients and by the DNS and URS clients for time-outs.

Hard: indices that go stale while events move; an event that replaces a deleted
one may have to go up *or* down; handlers that change the queue being fired.
Correct if owners always know their slots, the root is the earliest event, and no
event is lost, repeated, fired early or left behind.

### Reader-writer lock, `lib/si/rwl.c`

State: one mutex, two condition variables, four counters, the `PREFER_WRITER`
flag. Operations: lock and unlock for readers and for writers, with optional
waiting times. Hard: signals that race time-outs, spurious wake-ups, threads that
take the lock between a signal and the return of the woken thread. Correct if
writers exclude everyone, the counters are exact and no wake-up is lost.

### HTTP server, `lib/http/httpd*.c`, `lib/http/httpd-std*.h`

A single-threaded event loop over a multiplexer.

* *Main loop* (`qse_httpd_loop()`): opens the multiplexer, the DNS and URS
  clients and the servers, then polls, dispatches events, fires timers and purges
  bad clients until it is stopped or the poll fails, then closes everything. State:
  the lists of clients and of bad clients, the stop request, the active servers,
  the timer.
* *Clients and tasks*: a client has a queue of tasks; the task at the head has
  *triggers* (what it waits for on the client's own handle and on up to three
  handles of its own). What is in the multiplexer is recorded in status bits.
  A task may be inactive, waiting for an answer of the DNS or URS client, a
  client may have closed its sending half and be *mute*.
* *DNS client* (`httpd-std-dns.h`) and *URS client* (`httpd-std-urs.h`): tables
  of pending requests with timers, retries, sequence numbers that wrap around, a
  limit, and (DNS) a cache. Called by proxy tasks, which they call back.
* *Proxy and CGI tasks*: transfer between the client and a peer or a child
  process, with both ends blocking, closing and failing independently. State: the
  phase (`task->main`), the request still to be forwarded, the reply still to be
  relayed with the offset of what has been, the flags of both, the triggers.
* *Cache of proxy peers*: connections kept open for later proxy tasks.
* *HTTP reader and message* (`htrd.c`, `htre.c`): finds messages in a stream that
  comes in pieces. State: what of a head, a chunk or the trailers has been read,
  the content still needed, and the message so far with its content callback.
  One reader for each client and for each proxy or CGI task.
* *File, directory, text, error tasks*: sequential producers of a response.

Hard: events of one poll that an earlier event of the same poll has made stale;
registrations that fail half-way; answers that are late, lost or repeated;
callbacks to tasks that are gone; clients that become idle and bad at once; a
request to stop at any moment. Correct if the status bits agree with the
multiplexer, no client sleeps for ever or is freed twice, idle clients go, each
accepted request is answered exactly once, replies are relayed whole and in
order, what a message means does not depend on how it is cut, and the loop ends
with nothing left.

### Allocator, `lib/cmn/xma.c`

State: a zone tiled by blocks with headers (size, size of the block before, free
or not), chains of the free ones by classes of sizes, counters. Operations:
open, allocate, free, change of size. Every one of them splits or joins blocks,
and adjusts the neighbour's header, the chains and the counters. Hard: a slip
shows only after a particular history; the first and the last block; remainders
too small for a block. Correct if the blocks tile the zone, free neighbours are
joined, the chains hold exactly the free blocks and users get memory of their own.

### Other components

| Component | State and operations | Where it is hard |
| --- | --- | --- |
| UDP proxy daemon, `lib/http/upxd*.c` | sessions with time-outs | as the HTTP server, simpler |
| Multiplexer, `lib/si/mux.c` | handles and masks over select, kqueue, epoll and others | deletion while events of a batch are delivered |
| Mutex, condition variable, thread, `lib/si/{mtx,cnd,thr}.c` | wrappers; the Win32 condition variable is an emulation | wake-ups of the emulation |
| Coroutine tasks, `lib/si/task.c` | scheduler over saved contexts | order of resumption, ends of tasks |
| C++ server framework, `lib/si/TcpServer.cpp` and others | worker threads per connection | stopping while accepting |
| Containers, strings, formatting, paths, time, regular expressions | sequential data structures and functions | numeric edges |
| AWK (`lib/awk`), sed (`lib/sed`), configuration (`lib/xli`) | sequential interpreters and parsers | reference counting of AWK values |
| RADIUS, DHCP, STTP messages; cryptography | encoders, decoders, numeric functions | lengths |
| Commands, `cmd/` | options and wiring | none of their own |

The hazards of the modelled components, each at the line where it bites, are
listed under `hazards` in `PROJECT.json`, with the properties that cover them.

## 2. The modules and the code

```
TimerQueue  <---implements---  Tmr *               Callbacks        Allocator
    ^                                                ^      ^            ^
    | INSTANCE                            implements |      |            | implements
HttpdLoop *    HttpdClient *    Rwl *         HttpdDns *  HttpdUrs *    Xma *
                                                      \     /
HttpdProxy     Htrd *                                 ReqTable *
```

`MC*` modules add bounds, symmetry and comments on the choice of an instance. A
module with a star has theorems, in a module of its name with `Proofs` behind it,
those of `Tmr` and `Rwl` together in `LibProofs` (which is why names that every
module has, like `Init` and `Next`, are `RwlInit` and `RwlNext` in `Rwl`);
`ReqTableProofs` holds the lemmas that `HttpdDnsProofs` and `HttpdUrsProofs`
share. Definitions ending in an underscore
and a word (`RepairDirection_DownOnly`) are *mutants*: plausible mistakes that are
substituted for the definition of the same name to see that a property notices.

### `TimerQueue` and `Tmr`

`TimerQueue` is the abstract promise: a set of events, at most one per owner;
firing takes due events earliest first and ends only when none is left; the user
may change the set between firings and inside a handler.

`Tmr` is `tmr.c`: `size`, `capa` and `event` are the fields of `qse_tmr_t`;
`idx` is the index each owner remembers (`client->tmr_idle` and its like). The
loops of `sift_up()` and `sift_down()` take one step per iteration, `sift` being
their local variables, because an updater, with assertions in it, runs in every
iteration. `phase` says whether the loop of `qse_tmr_fire()` or of
`qse_tmr_clear()` is running, or a handler inside the first. In a handler the
user's operations are enabled. Failing reallocations change nothing and are
stutters. The refinement maps the abstract set to the events in the array, with
the one in hand of a sift loop in place of the stale copy in its slot.

### `Rwl`

Everything between getting `rwl->mtx` and giving it back is one step. `pc` says
where a thread is: holding the lock, asleep in a condition variable, or woken and
waiting for the mutex. `qse_cnd_signal()` wakes one sleeper, if there is one;
`SpuriousWakeup` needs no signal; `Expire` passes a waiting time at any moment,
also after the thread was signalled. The conditions of the two wait loops are
`ReaderMustWait` and `WriterMustWait`. A thread unlocks only what it has locked.

### `HttpdClient`

One client. `mux` is what the multiplexer watches, `batch` the events of a poll
not dispatched yet, `client` the status bits and the remembered trigger, `tasks`
the queue. A dispatch is cut where the code calls out: `perform_client_task()`
up to the reader, `read_from_client()` per request, `invoke_client_task()` up to
the task's main function, and the update of the multiplexer after it. What a
reader, a request handler and a task may do is chosen nondeterministically:
requests complete or not, tasks change their trigger masks as they like, open
handles, queue more tasks, go inactive, end or fail. Reading also feeds the content
of a request to the task that takes it in (`fed`), whose callback
(`proxy_snatch_client_input()`, `cgi_snatch_client_input()`) changes the task's
trigger without telling the server: `ReadContent`. If the task is then not called
because the client is not writable (`InvokeLater`, `put_off`), the multiplexer does
not learn of the change. `TriggersAreHonoured` says that of a task that has run the
multiplexer watches what it asked for when it last ran, and that what goes unheard
of a task that was put off is what content has changed and nothing else. `F` is the set of handles
`qse_mux_insert()` would refuse in this step; the update stops at the first one
refused, as the code does, with the deletions and additions made so far.
`update_mux_for_current_task()` and `update_mux_for_next_task()` keep the code's
case distinctions, including "nothing has changed" and the first call of a task.

Data abstracted: bytes, requests and responses; `keepalive` and content handling
are within the choice whether a request completes a task. `FeedSlot` is the slot of
the handle that content goes to, 0 in the code.

### `HttpdLoop`

The loop and all its clients, with each dispatched event just succeeding or
failing. `state` is the position in `qse_httpd_loop()`. The lists are
sequences; `mark_bad_client()`, `move_client_to_tail()` and `purge_client()` are
operators on them. The timer is `TimerQueue` by `INSTANCE`, so that what `Tmr`
has been proved to implement is what the loop relies on. Time passes in the poll,
which ends no later than the first timer event. `open` is the set of allocated
clients: freeing a client that is not open is undefined behaviour and ends the
behaviour of the model (`state = "undefined"`). `BadAreOpen`, which would exclude
it, is violated (section 6); `ReadyAreFreedOnce` is the part of it that holds: a
client that has completed its handshake is not freed twice. The
flags `ursactive` and `ursopen` are separate because the code does not clear the
first when a loop starts. Events of the DNS and URS clients, which `dispatch_mux()`
hands out as well, change none of this module's state; what they do to tasks is in
`HttpdDns`, `HttpdUrs` and `HttpdClient`, and their timer events only make a poll end
earlier, which `Poll` allows at any time.

### `ReqTable`, `HttpdDns`, `HttpdUrs` and `Callbacks`

The DNS and the URS client keep the same table, modelled once in `ReqTable`:
chunks of memory with `next` and `prev` pointers, heads of chains indexed by
sequence number modulo the length of the table, the count, the wrapping sequence
counter and one timer event per request (`timed`). `Link` and `Unlink` are the
pointer assignments of the code. `HttpdDns` adds the two queries (A and AAAA)
with their two ids, partial answers, the cache and its expiry, retries and
giving up; `HttpdUrs` the checksum of the URL. Both contain the callers' side:
the proxy task that asks, waits, and is told by `on_peer_name_resolved()` or
`on_url_rewritten()`. A client may be purged while its task waits (`PurgeIdle`);
the request stays in the table (`Askers`).

The network is the worst one: an answer with any id to any question may arrive at
any time, or never, or again. Hence no set of messages in flight is needed. Time
is abstract: a timer event that is set may fire at any moment.

`Callbacks` is what a caller may expect: refused or answered at once, or accepted
and then answered exactly once, in the end, unless the loop ends; never more
than the limit outstanding. The refinement hides everything but the state of each
task's call.

### `HttpdProxy`

One client, its requests one after the other, a proxy task for each, and a peer.
`proxy` is `task_proxy_t` with the task's triggers; `main` is its phase; `res`,
`res_consumed` and `buf` are the two buffers of the reply; `mux` is what the
multiplexer watches. A step is one event of the multiplexer, with everything
`invoke_client_task()` does for it: reading the client, the phases
(`task_main_proxy()`, `task_main_proxy_1()` to `_5()`), which forward, receive,
feed the reader, relay, change phase and triggers; then the update of the
multiplexer and, at the end of a task, `task_fini_proxy()` with the cache of
peers, and the next task. Client and peer read, send, close and reset in steps of
their own, and have room for few tokens, so that every partial send and receive
occurs.

Data abstracted: a message is a sequence of tokens (head, pieces of content, end
of chunks), and streams are cut between tokens; an error page is one token, sent
as a whole; the rest of the content of a request that has failed is read and
dropped; there is one peer address; whether a cached connection is too old is a
choice. The peer conforms to HTTP. Left out: TLS to the peer (`PENDING`),
upgrades (in `Htrd`), chunked replies to requests of HTTP/1.0.

`EveryTaskEnds` says that every task ends, and names the exceptions, each as a
predicate on states: both ends keep a tunnel open and all they have sent has got
through (`TunnelIsIdle`), which is as it should be, and four states in which the code
leaves a task waiting for what does not come (`AwaitsContentOfHead`, `ReplyDropped`,
`ForwardingUntold`, `ClientUnwatched`; see section 6). The run reaches all of them:
without any one of them the property is violated. `RepliesInOrder` and `PeerIsInStep`
likewise say nothing of what follows a misread interim reply (`Hinting`), and are
violated without this exception.

### `Htrd`

`qse_htrd_feed()` is one loop with jumps into its middle. An action is what it
does from one label to the next: `pc` is the label, `ptr`, `req`, `end` and
`peeking` are its local variables, `htrd` the fields of the reader, which are all
that one call leaves to the next, and `re` the message. `Feed(n)` hands over the
next `n` characters of a stream and jumps; `ReadHead`, `GetChunkLen`,
`GetTrailers`, `ReadContent` and `EndChunk` read; `Complete`, `Peek`, `Poke` and
`clear_feed` end a message. The user is one that keeps, streams or discards the
content, fails, asks for an upgrade (`qse_htrd_suspend()`, `qse_htrd_dummify()`,
decided later by `Resume`) or connects, as the tasks of the server do. `Halt` is
`qse_htrd_halt()`.

A line of a head is one character; line ends, spaces, digits of chunk lengths and
contents are characters of their own, so that every cut that matters occurs. A
scenario holds a stream and what it means (where heads and messages end, content,
trailers, whether it is malformed), and three properties compare what the user has
seen with that.

The fourth, `ReadsAsIfUncut`, needs nothing but the stream: `Uncut(s)` reads it in
one go, a character at a time, with no buffer, no label and nothing to be saved at
the end of a feed, and tells for every position whether it is in a head, a content,
a chunk's length, trailers and so on, how many heads there have been, and whether
the stream has been refused. The reader must agree, wherever it was cut. `Uncut`
shares with the model what a head means (`parse_initial_line_and_headers`,
`Framing`) and how line ends are counted (`NextCrlf`), but none of the actions.
Behind three places the code's behaviour does depend on the cuts, and `Uncut`
leaves it open (`any`): the rest of a feed behind a reply with neither a length nor
an end, which is dropped; a digit behind the spaces behind a chunk's length; and
an end of stream that ends no reply. Reading of heads only (`peekonly`, CGI
programs) is left to the other properties.

The fifth, `ContentAsIfUncut`, does the same for what the user gets. The content of
a message is the characters at which the uncut reading is in the data of that
message (`UncutContent`), its trailers are the fields among those at which it is in
its trailers; both are known for every position of the stream. After a feed that
succeeded, a user that streams has got what there is up to the reader's position, a
user that keeps got all of it with the poke, the end of content came once and not
early, and nothing came from the framing or from another message.

### `Xma` and `Allocator`

`xma.blk` maps the addresses of headers to headers, `xma.xfree` the classes to
heads of chains; `attach_to_freelist()` and `detach_from_freelist()` are the
pointer assignments. Each operation is one step. `overruns` records accesses
behind the zone, which are otherwise without effect. `Allocator` is what users
see: disjoint regions in the zone, of the sizes asked for, that stay where they
are until they are freed or resized.

## 3. The runs

| Run | States | What it checks |
| --- | --- | --- |
| `tmr` | 38,394 | types and capacity; owners know their slots at every iteration of a sift loop; heap order; refinement of `TimerQueue` |
| `rwl` | 10,732 | exact counters, exclusion, no lost wake-up for readers or writers, progress; without `PREFER_WRITER`, everyone may time out |
| `httpd_client` | 236,538 | status bits agree with the multiplexer; an inactive task is detached; a client can be woken; new tasks are triggered; triggers are honoured |
| `httpd_loop` | 407,606 | list in the order of activity; clients that are ready are freed once; idle timers armed; idle clients go; a loop leaves nothing; stop is honoured; handshakes may fail |
| `httpd_loop_tls_bad` | violation | the list of bad clients holds allocated clients only |
| `httpd_dns` | 150,072 | chains, count and timer events of the table at its limit; waiting tasks and pending requests correspond; answers fit names; refinement of `Callbacks`; clients are purged while their tasks wait |
| `httpd_dns_gone` | violation | a callback finds its task waiting |
| `httpd_urs` | 212,256 | the table with chains of up to three requests; waiting tasks and pending requests correspond; answers fit URLs; refinement of `Callbacks` |
| `httpd_proxy` | 52,365 | replies well formed and in order; the peer gets whole requests and a connection is kept only if it owes nothing; every task ends, but for the states named; client and peer fail at any moment |
| `htrd` | 149,380 | messages are told once and in time; contents, ends, trailers and raw data are exact; the malformed is refused; messages, contents and trailers are those of the stream read in one go; wherever it is cut |
| `xma` | 8,314 | blocks tile the zone; chains hold the free blocks; the search misses none; refinement of `Allocator` |
| `xma_zone` | violation | the allocator stays in its zone |

Bounds, and why they are enough to be interesting:

* `tmr`: six owners and three times. Six is the least number with which a
  deletion moves the last event into another subtree, where it goes *up*.
  The theorems remove the bound. Owners are symmetric.
* `rwl`: four threads, so that two sleepers of one kind compete with one of the
  other kind while the fourth has the lock. For the safety properties the
  theorems remove the bound. No symmetry, as progress is checked.
* `httpd_client`: two task handles, two of the three trigger slots, masks that
  watch or do not watch a task handle (its direction plays no role), a queue of two
  tasks: a task with two handles, a successor that takes over one, and batches with
  events for both or for one and the client. A poll reports at most two events
  (`MaxEvents`), the least with which one can make the other stale. Task handles are
  symmetric. The theorems remove the bounds.
* `httpd_loop`: two clients, so that the list has an order and one client may be
  bad while another is idle; one server; idle limit 2 and a clock up to 6, three
  times the limit, so that a client is active, found not idle when its timer
  fires, and purged when it fires again. `Tmout` is 3. For the safety properties
  the theorems remove the bounds.
* `httpd_dns`: two chains, sequence numbers modulo 3, two names, three tasks, two
  of them for the same name, and at most two pending requests. 3 is not a multiple
  of 2, as 32765 is not one of the code's table length, so that the wrap-around hits
  the chains unevenly; all ids, the ones of AAAA queries included, are enumerated
  for answers.
* `httpd_urs`: three chains, numbers modulo 4, three tasks: 0 and 3 share a chain,
  and with retries a chain can hold three requests, so that one leaves from the
  middle. For the safety properties of both clients the theorems remove the bounds.
* `httpd_proxy`: sockets for two (client) and three (peer) tokens, buffers of two,
  and contents of up to three pieces, so that every buffer is full at some time
  and every phase sends and receives parts. One request of each kind (by length,
  chunked, until close, without content; HEAD; HTTP/1.0; with content, expecting
  "100 Continue" and waiting for it or not; answered early; raw), and pairs on one
  connection, so that a connection is kept, tested and used again. Among them are
  the requests that make trouble (`Awkward` in `MCHttpdProxy`): HEAD answered with a
  length, content sent without waiting, an interim reply nobody asked for.
* `htrd`: one or two messages of each kind of framing, contents with line ends in
  them, chunk lengths of two digits with spaces around, trailers, CR LF and LF;
  malformed tails and bodies. Two messages are the least with which state of one
  can be left for another, and every division of every stream into feeds is tried.
  `SIZE_RANGE`, the range of `qse_size_t`, is larger than any stream. For
  `ReadsAsIfUncut` and `ContentAsIfUncut` the theorems remove the bounds.
* `xma`: pointers of one byte, two classes of small blocks, zones of 21 and 19
  bytes (the second not aligned), requests that are rounded up, exact, small and
  large: up to five blocks, with all neighbours free or not. The theorems remove
  the bounds.

Deadlock is checked in all runs. Every property of a passing run has a mutant
in `PROJECT.json` that violates it.

## 4. Fairness

* `Rwl`: a thread that has been woken gets the mutex in the end and a thread
  that has the lock gives it back. Nothing is assumed of time-outs, spurious
  wake-ups or new calls. `WaitersAreServed` says that the lock goes on being handed
  out while threads wait, not that each thread gets it: readers may starve
  writers, which is what `PREFER_WRITER` is for.
* `HttpdLoop`: weak fairness of an iteration and of the end of the loop. The
  loop is one thread that blocks only in a poll with a time-out; the bound on the
  clock limits time, not iterations.
* `HttpdProxy`: the loop attends to a handle that stays ready, by level-triggered
  polls. Client and peer go on reading and sending unless they fail (`ClientGoes`,
  `PeerCloses` and `PeerResets` are owed only where the protocol says so: after a
  reply that the end of the connection ends, and as the answer to data sent to a
  closed connection; nobody owes the end of a tunnel); a connection is established or refused in the end. Nothing
  else ends a task: the idle timer, which would hide a lost wake-up, is left out.
* `HttpdDns`, `HttpdUrs`: each pending timer event is handled in the end, as the
  loop polls no longer than until the first one and fires all that are due. The
  network owes nothing: liveness comes from retries that run out.

## 5. The proofs

Eight modules are proved about, for all values of their constants.

`LibProofs`, from `TmrAssumption` (times are integers, there is one, the initial
capacity is a natural number):

* `TypeCorrect`, `OwnersCorrect`, `HeapCorrect`: the invariants of the run `tmr`.
  The inductive invariant is `TypeOK /\ OwnersKnowTheirSlots /\ HeapOrder`. The
  second and the third conjunct speak of the states inside a sift loop: every
  event but the one in hand is settled, the owner of the one in hand remembers the
  slot it came from, and the order may be broken only around the open slot and only
  in the direction of the sift. That a *child* of the open slot is not earlier
  than its *grandparent* is the strengthening without which one iteration does not
  preserve the order. Deletion, insertion and update open a slot in a settled
  heap (lemma `RepairHeap`); each iteration preserves the invariant
  (`SiftUpHeap`, `SiftDownHeap`, `MoveOwners`); the end closes the slot
  (`SiftDoneHeap`, `SiftDoneOwners`).
* `RootCorrect`: the root is the earliest event. From the order between
  parent and child, by a *least slot with an event earlier than the root* argument,
  since induction over data is out of the prover's reach.
* `Refinement`: every step of the heap is a step of `TimerQueue` or a stutter. A
  sift step keeps the set of events (`MoveKeepsPending`), a deletion removes
  exactly one (`DeletePending`, which needs that owners know their slots, so that
  no two events are equal), firing uses `RootEarliest`.

`LibProofs`, from `RwlAssumption` (finitely many threads, flags are Booleans):

* `CountsCorrect`, `Exclusion`: the counters are exact and writers are alone, for
  all flags and waiting times. The inductive invariant adds to both that only a
  thread that waits has a deadline. Each action moves one thread from one state to
  another, and possibly some sleepers to woken (`NextShape`); counts of sets that
  gain or lose one element are `CountOne`.
* `WritersRemembered`: no wake-up of a writer is lost, for all flags and times.
* `ReadersAwake`: no reader sleeps in vain, unless writers are preferred and may
  time out (see below).

`RootCorrect`, and `ReadersAwake` for `PREFER_WRITER`, are proved only; no run
repeats them.

`HttpdLoopProofs`, from `HttpdLoopAssumption` (no client is a server, the idle limit
is positive), for any number of clients and servers:

* `ListCorrect`: the list of clients holds the allocated clients, each once, in the
  order of last activity, although clients move to its end, are purged from its
  middle and arrive while others are bad. `FreedOnce`: a client that is ready is
  never freed twice.
* `TimerArmed`, `IdleLimitHolds`: a timer event refers to a client that is there, a
  client that is there and not bad has one, and none stays for twice the idle limit
  without activity. `NothingLeft`: a loop that has ended has left no client, timer
  event, active server or bad client.
* The inductive invariant joins the five with what they lean on: the position of
  the loop and what may hold there (`Control`), no activity in the future
  (`NoFuture`), *a bad client that is ready was active just now or its timer is not
  armed* (`BadInv`, which is why purging by the timer and purging the bad do not
  meet), and *each client has at most one event, less than two limits behind its
  last activity* (`TimerInv`). The timer is used as `TimerQueue` describes it, which
  `Tmr` has been proved to implement.

`HttpdClientProofs`, from `HttpdClientAssumption` (handles, the client's own and "no
handle" are different; there are slots and room for a task), for any number of task
handles, trigger slots and queued tasks:

* `MuxRecorded`: the status bits of a client say what the multiplexer watches, also
  when insertions fail half-way. `InactiveDetached`: an inactive task has nothing
  in the multiplexer. `CanBeWoken`: when the server polls, the client is watched
  unless its task waits for an answer or could not be put back. `NewTriggered` and
  `TriggersHonoured`: a new task will be run; what the multiplexer watches is
  what the task at the head asked for when it last ran; and reading content is all
  that can have changed its trigger since, if it was put off.
* The inductive invariant adds that the *remembered* trigger is the task's, except
  for what reading content has changed, while the task runs and after a failure
  (`TriggerInv`), that a task takes in content only for a handle it has opened or if
  it will be called for writing anyway, that what the remembered
  trigger asks for is registered (`WatchInv`), and how queue, status bits and the
  place in a dispatch go together (`QueueInv`, `StatusInv`). TLC checked it as an
  invariant of `httpd_client` before it was proved.

`HttpdDnsProofs` and `HttpdUrsProofs`, from `ReqTableAssumption` (the number of
chains is positive and below that of sequence numbers, NULL is no chunk, task or
name) and from each task having one name or URL to ask about:

* `AnswersFit`, in both: no task is told, and the DNS cache never holds, what
  belongs to another name, or to a URL with another checksum, although ids are
  reused while old answers may arrive and chunks are reused by later requests.
  `AnswersFitNames` and `AnswersFitUrls` say nothing of the requests that lead from
  a task to its answer; the inductive invariant adds that every request in memory
  asks about what its task is concerned with (`AsksFor`). A freed chunk belongs to
  no task, so that nothing about the shape of the chains is needed: the comparison
  of the name or checksum in `dns_recv()` and `urs_recv()` is what the argument
  rests on.
* `TableSound`: chains, count and timer events of the table. `WaitersPending`: the
  pending requests and the waiting tasks correspond one to one. Both follow from
  `SoundTable`, in which each chain is given as the sequence its pointers run
  through (`Linked`), every timer event belongs to a request, the count is exact
  and nothing is allocated while the client is closed; and from `OneEach`,
  requests are for different tasks, those that wait. `ReqTableProofs` shows that
  linking puts a member in front of such a sequence, that unlinking takes one out
  of any place, and that the recursive `Walk` of the model finds exactly the
  sequence (`ChainIs`).
* `KeepsPromise`: each step is a step of `Callbacks` or a stutter. A task is never
  called back twice, or without having been accepted, and no more requests than the
  limit are outstanding. Together with the run's fairness this is the refinement
  `ImplementsCallbacks`.

`XmaProofs`, from `XmaAssumption` (alignment and number of small classes are powers
of two, a size fits `SIZE_BITS` bits with room to round it up, a zone handed in has
room for a block):

* `TilesTheZone`, `ChainsHold`, `SearchComplete`: the three invariants, for zones of
  any size and any requests. The inductive invariant `IInv` is `Good(xma)` and that
  what each user asked for lies within its block (`Users`). `Good` says in a form that
  can be reasoned about what the invariants say together: every block ends where
  another one begins or at the end of the zone and none begins inside another
  (`Tiled`), every block knows the size of the one before (`Known`), no two free
  blocks are neighbours (`Apart`), each chain is a sequence its pointers run through
  and the chains hold exactly the free blocks (`Listed`), and the counters owe
  nothing. An operation breaks several of these and repairs them in an order of its
  own: it takes blocks out of chains, joins or splits, tells the block behind, lists
  the result, and counts in between. `Mid(x, S, T, F)` is `Good` without the counters
  with the exceptions named: blocks behind `S` need not know the size before them,
  blocks of `T` may have free neighbours, the chains hold `F`. There is one lemma per
  helper from `Mid` to `Mid` (`MidDetach`, `MidSwallow`, `MidBroken`, `MidTell`, ...)
  and one per variant of an operation from `Good` to `Good` (`AllocSplit`,
  `AllocWhole`; `FreedAlone`, `FreedNext`, `FreedPrev`, `FreedBoth`; `GrownDoes`,
  `ShrunkDoes`). Counters are followed as *debts*, what a counter says less what it
  should say (`AllocDue` and others), so that each helper moves a debt by what it does
  to the blocks or to the counter.
* For `SearchComplete`, `szlog2()` is shown to be monotone and a block of the class
  of the last chain but one, which the search skips, to be impossible.
* `Refinement`: every step is a step of `Allocator` or a stutter, under the mapping
  that skips the headers. Regions are disjoint because blocks tile the zone.

The same assumption is what `qse_xma_alloc()` relies on without checking it: a
request so large that rounding it up overflows is excluded (see section 6 for
what happens at the end of the zone, which the refinement does not speak of).

`HtrdProofs`, from `HtrdAssumption` (a stream is a sequence of characters, and a
`qse_size_t` has more than one value):

* `ReaderTypes`: the positions of `qse_htrd_feed()` stay in order and within what it
  was fed, and the fields of the reader keep their types. A feed that is in memory is
  shorter than the largest `qse_size_t`; that is what keeps the count down to the
  end of a reply that the connection ends, which starts there, from reaching 0.
* `DivisionDoesNotMatter`: for every stream and every division of it, every user and
  every width of `qse_size_t`, the reader has told its user of exactly the messages
  that are in the stream up to where it is, has ended those that are over, and fails
  only if the stream is refused, or its user fails or has suspended it.
  The inductive invariant is `TypeInv /\ ReadInv`. `ReadInv` says at every label,
  not only between feeds, that the fields of the reader tell where the uncut reading
  is (`InStep`): the buffers hold what there is of the head or the trailers so far,
  the counters what the uncut reading has counted; and that the user has been told
  as much, up to the peek and the poke that the label still owes (`Told`). Each
  action reads a run of characters, and the lemmas about runs say what the uncut
  reading does with one (`LinesRun`, `SpaceRun`, `DigitRun`, `DataRun` and others):
  a head is found in the piece in which its empty line ends, a content that is cut
  is counted down by what there was of it. A head that is put together from pieces is
  the head that is in the stream, so that both make the same of it.
* `DivisionKeepsContent`: for every stream, every division and every user, the
  content, its end and the trailers that the user of each message has got are those
  of the uncut reading. The inductive invariant adds `ContentInv`, which holds at
  every label: messages that are over have all of theirs (`Final`); of the message
  in progress, what the user of a streamed content has got, or what is in the buffer
  before a peek or for a user that keeps it, is the content up to `ptr` (`Body`); the
  trailers are in `tra` until they are complete and in the message from then on
  (`Ends`); between messages nothing is left in the message and no content callback
  is set (`Rest`); the callback for raw data is set only while the reader is
  suspended. An action is either
  quiet, reading framing only, and adds to no message (`QuietParts`), or adds the
  characters it reads to one message and nothing to the others (`BusyParts`), and
  the premises for these come from the same lemmas about runs.

Induction over data is out of the prover's reach, as the library's induction
theorems take operators as parameters. Where an argument needs it (`RootCorrect`,
the existence of the recursive `Walk`, what `Walk` finds, the sum of the sizes of
a set of blocks, the uncut reading of a run of characters), it is given by a *least counterexample* of a set of natural numbers.

Only model-checked: everything about `HttpdProxy`; `ToldOnceInTime`,
`ContentIsExact` and `RefusesTheMalformed`, which compare the reader with what a
scenario says its stream means, and so depend on scenarios that say it rightly; and
all liveness (`WaitersAreServed`, `StopIsHonoured`, `EveryTaskEnds`, the fairness part
of `ImplementsCallbacks`), which the prover does not support.

## 6. Findings and observations

Three runs show a disagreement between the code and what the repository says.

1. `httpd_loop_tls_bad`: a client whose handshake fails in the very iteration in
   which its idle limit is reached is marked bad by the dispatch, freed by its
   idle timer without leaving the list of bad clients, and purged again. The
   assertion at `lib/http/httpd.c:695` would notice in a debug build. It cannot
   happen to a client that is ready (`ReadyAreFreedOnce`): marking it bad goes
   with activity, and an active client is not idle.
2. `httpd_dns_gone`: nothing ties a pending DNS request to the life of its task. If
   the idle limit is reached while a task waits, the client and the task are
   freed, and the request calls back with the freed task. The same holds of the
   URS client. With the default options the resolution gives up before the idle
   limit.
3. `xma_zone`: shrinking the last block of a zone (in the run, the second of two that
   fill it) writes the size into the header
   behind it, which is behind the zone; the test that guards this store everywhere
   else is commented out at `lib/cmn/xma.c:601`. A change of size by a move copies
   as much as is asked for now and may read behind the zone (`xma.c:643`).

Observations on proxy tasks. The run `httpd_proxy` contains the requests that lead to
them, and its properties say how far they go.

* A reply to HEAD that has a Content-Length makes the task wait for a content that
  never comes: `lib/http/httpd-proxy.c:545` comes before the test at 568, whose
  comment quotes the RFC, by which such a reply "is always terminated by the first
  empty line after the header fields, regardless of the entity-header fields present
  in the message" (`AwaitsContentOfHead`).
* A "100 Continue" has no length and keeps the connection, and for such replies
  the reader drops what was received with them (`lib/http/htrd.c:1384`). If the
  final reply comes in the same call, as it may if a client sends its content
  without waiting, it is lost, and the task waits for ever (`ReplyDropped`).
* `invoke_client_task()` reads the client, which may set a trigger, and then
  returns without telling the multiplexer if the client is not writable
  (`lib/http/httpd.c:1685`). The content read is not forwarded until something
  else happens, and a peer that waits for it or a tunnel waits for ever
  (`ForwardingUntold`; in `HttpdClient`, the last part of `TriggersAreHonoured`).
* When the head of a reply has been sent, the client is no longer watched for
  writing (`lib/http/httpd-proxy.c:1735`), and phase 4 does not ask for it again. If
  the client had no room for what the peer of a tunnel has sent, and the peer sends
  no more, that part stays in the buffer (`ClientUnwatched`).
* An interim reply other than an awaited "100" is taken for the final one
  (`lib/http/httpd-proxy.c:512`), and the connection may be kept while the final
  one is still to come; the next request gets it (`Hinting`).
* Content that arrives before a proxy task has a peer makes its first slot wait for
  writing with the handle still 0. If the task goes inactive for a name and is
  activated, descriptor 0 is put into the multiplexer (`HttpdClient`, where `NoHandle`
  can be watched like any other).

Observations on the reader, from the code:

* The length of a chunk is not checked for overflow (`lib/http/htrd.c:1021`),
  unlike a Content-Length (`AddDigit` wraps around as the code does).
* Of a chunk's length, spaces behind the digits are forgotten between two feeds:
  "1 0" is refused in one feed and read as 16 if the cut is before the "0".
* "chunked" followed by "Content-Length: 0" sets both flags and breaks the
  assertion at `lib/http/htrd.c:1288`; in the other order it is refused.

Others:

* `lib/http/httpd.c:1470` comments that the client's handle "is always registered
  for reading if not for QSE_HTTPD_CLIENT_MUTE"; from the second call of a task
  on, it is registered only if the task asks for it (`HandleMask`).
* With `PREFER_WRITER` readers wait for waiting writers. When the last waiting
  writer times out, no reader is woken (`lib/si/rwl.c:191`), and readers may
  sleep although nothing is in their way until another writer comes and goes.
  This is the one setting excluded from `ReadersAwake`.
* `httpd->ursactive`, unlike `dnsactive`, is not cleared when a loop starts.
* A request to stop made before the loop has started is lost, as the loop clears
  it.
* After a failed re-activation of an inactive task (`HttpdClient`, `failed`), the
  client has nothing in the multiplexer and goes by its idle timer only.
* A small request that finds its own chain empty goes to the chains of large
  blocks, so that a fragmented zone with larger small blocks free refuses it
  (`lib/cmn/xma.c:458`; `SearchFindsWhatFits` says exactly which are refused).
* The last block of a zone whose size is not a multiple of the alignment can be
  larger than its class says. Taken from a chain of small blocks, it breaks the
  assertion at `lib/cmn/xma.c:425` in a debug build: in the zone of 19 bytes, a
  request for 9 leaves a block of 5, which a request for 4 takes. Without the
  assertion nothing comes of it, and the model leaves it out (`Candidate`).

## 7. What is not modelled

Within the modelled components: attachment and detachment of servers, extension
callbacks (`ecb`), the `impede` callback, custom handles, logging; `urs_prerewrite()`; the
content of packets, requests and responses; more than one DNS server; a clock
that is set back; interrupted polls other than as polls without events; the text
of heads, folded fields and the table of fields; TLS to a proxy's peer; failing
allocations, other than where a section above says so; `fma.c` and `pma.c`.
Handlers of the timer queue are assumed to use it through the documented
operations.

Whole components: see `PROJECT.json`. Pure functions on data (strings, formatting,
cryptography, message encoding) have no states to explore and are better served
by tests; character tables are data; the interpreters' input languages are out of
TLC's reach; wrappers of system calls have little state of their own. Most of the
repository's lines are of these kinds, so that the modelled share of all lines is
small; of the HTTP server's core (`httpd.c`, `httpd-proxy.c`, the two clients,
`htrd.c`) and of `tmr.c`, `rwl.c` and `xma.c` it is most.

## 8. Plan

Done, in this order: `Tmr` with `TimerQueue` and their proofs; `Rwl` and its
proofs; `HttpdClient`; `HttpdLoop`, composed with `TimerQueue`; `ReqTable`,
`HttpdDns`, `HttpdUrs` and `Callbacks`; `Xma` with `Allocator`; `HttpdProxy`;
`Htrd`; the proofs about `HttpdDns` and `HttpdUrs`, `HttpdLoop`, `HttpdClient`,
`Xma` and `Htrd`.

Next, models:

1. A composition of `HttpdClient`, `HttpdLoop` and `Callbacks`: a task that goes
   inactive, is answered, or is purged meanwhile.
2. CGI tasks (`httpd-cgi.c`), which share the structure of proxy tasks.
3. Candidates after these: the Win32 condition variable (`cnd.c`), coroutine tasks
   (`task.c`), the UDP proxy daemon (`upxd.c`), the C++ TCP server, reference
   counting of AWK values.

Next, theorems: `RepliesInOrder` and `PeerIsInStep` of `HttpdProxy`.
