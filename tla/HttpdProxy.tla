----------------------------- MODULE HttpdProxy -----------------------------
(***************************************************************************)
(* The proxy task of lib/http/httpd-proxy.c: it relays a client's requests *)
(* to a peer and the peer's replies to the client, driven by events of the *)
(* multiplexer, and keeps the connection to the peer for the next request  *)
(* of the client (the cache of proxy peers in lib/http/httpd.c).           *)
(*                                                                         *)
(* What travels is abstracted to tokens <<kind, request, n>>: a head of a  *)
(* message, a piece of content, the end of a chunked content.  Sockets     *)
(* hold a few tokens, so that any cut of the byte streams at these places  *)
(* occurs.  The peer's replies are read by the HTTP reader (htrd.c), whose *)
(* treatment of tokens is FeedToken.                                       *)
(***************************************************************************)
EXTENDS Integers, FiniteSetsExt, SequencesExt

CONSTANTS
  Scenarios,    \* sequences of requests, see Request
  MAX_SEND_SIZE,\* the size of proxy->buf, and of what is sent at once
  CLIENT_ROOM,  \* what the client's socket holds before it blocks
  PEER_ROOM,    \* what the peer's socket holds before it blocks
  Faults        \* who may fail: a subset of {"peer", "client"}

ASSUME ProxyAssumption ==
  /\ {MAX_SEND_SIZE, CLIENT_ROOM, PEER_ROOM} \subseteq Nat \ {0}
  /\ Faults \subseteq {"peer", "client"}

VARIABLES
  scn,     \* the requests of this client, and how the peer replies to them
  no,      \* the number of the request being served
  proxy,   \* the task and its task_proxy_t
  peer,    \* the connection to the peer, and the peer
  client,  \* the client's socket, and the client
  mux      \* what the multiplexer watches the two handles for

vars == <<scn, no, proxy, peer, client, mux>>

Tok(kind, r, n) == <<kind, r, n>>
Kind(t) == t[1]

(* The pieces of content of request r, and their end if they are chunked,  *)
(* are forwarded one by one; a request without them is complete in `req'.  *)
Content(r) == [i \in 1..scn[r].pieces |-> Tok("b", r, i)]
RequestOf(r) ==
  (IF scn[r].raw THEN <<>> ELSE <<Tok("req", r, 0)>>) \o Content(r) \o
  (IF scn[r].chunked THEN <<Tok("bend", r, 0)>> ELSE <<>>)

(* What the peer sends for request r: interim heads, the head, the content *)
(* and, if it is chunked, its end.  There is no content for HEAD.          *)
Body(r) == IF scn[r].head THEN <<>> ELSE [i \in 1..scn[r].size |-> Tok("c", r, i)]
ReplyOf(r) ==
  (IF scn[r].raw THEN <<>>
   ELSE [i \in 1..Len(scn[r].interim) |-> Tok(scn[r].interim[i], r, 0)]
        \o <<Tok("hdr", r, 0)>>) \o Body(r) \o
  (IF scn[r].reply = "chunked" /\ ~ scn[r].head THEN <<Tok("last", r, 0)>> ELSE <<>>)

NoPeer == [status |-> "none", first |-> 0, got |-> <<>>, read |-> 0,
           script |-> <<>>, in |-> <<>>, eof |-> FALSE]

(* task_init_proxy(): the head of the request, and the content if it has   *)
(* been received in full, are in the buffer to be forwarded; `req' is set  *)
(* if there is more to come.                                               *)
NewProxy(r) ==
  [main |-> "main", cmask |-> {}, v |-> {}, req |-> scn[r].raw \/ scn[r].pieces > 0,
   reqfwdbuf |-> IF scn[r].raw THEN <<>> ELSE <<Tok("req", r, 0)>>,
   FWDERR |-> FALSE, res |-> <<>>, res_consumed |-> 0, buf |-> <<>>,
   resflags |-> IF scn[r].raw THEN {}
                ELSE {"AWAIT_RESHDR"} \union
                     {f \in {"AWAIT_100"} : scn[r].expect /\ scn[r].v11},
   peer_output_length |-> 0, peer_output_received |-> 0,
   htrd |-> [mode |-> "hdr", need |-> 0]]

(* The proxy, the peer and the client, with what the call of the task has  *)
(* returned so far.                                                        *)
S == [proxy |-> proxy, peer |-> peer, client |-> client, ret |-> "more"]

Chop(seq, n) == SubSeq(seq, n + 1, Len(seq))
Least(a, b) == Min({a, b})

res_pending(p) == Len(p.res) - p.res_consumed

-----------------------------------------------------------------------------
(* The two directions.                                                     *)

ClientRoom(c) == CLIENT_ROOM - c.unread
PeerRoom(q) == PEER_ROOM - (Len(q.got) - q.read)

(* client.send: as much as there is room for; it fails when the client has *)
(* gone.  `n' is the number of tokens offered.                             *)
SentToClient(s, tokens) ==
  LET n == Least(Len(tokens), ClientRoom(s.client))
  IN  IF s.client.gone THEN [s EXCEPT !.ret = "fail"]
      ELSE [s EXCEPT !.client.out = @ \o SubSeq(tokens, 1, n), !.client.unread = @ + n]

Sent(s, t) == Len(t.client.out) - Len(s.client.out)

(* proxy_snatch_client_input() at the end of the content.                  *)
SnatchEnd(p, chunked, connected) ==
  LET q == [p EXCEPT !.reqfwdbuf = IF chunked THEN Append(@, Tok("bend", no, 0)) ELSE @,
                     !.req = FALSE, !.cmask = @ \ {"R"}]
  IN  IF q.reqfwdbuf # <<>> /\ connected THEN [q EXCEPT !.v = @ \union {"W"}] ELSE q

(* proxy_snatch_client_input() and proxy_snatch_client_input_raw() for the *)
(* pieces of content that have arrived, and for the end.                   *)
ReadClient(s) ==
  LET got == [i \in 1..s.client.arrived |->
                Tok("b", no, s.client.sent - s.client.arrived + i)]
      p == IF s.proxy.FWDERR THEN s.proxy
           ELSE [s.proxy EXCEPT !.reqfwdbuf = @ \o got, !.v = @ \union {"W"}]
      end == ~ scn[no].raw /\ s.client.sent = scn[no].pieces
  IN  IF s.client.gone THEN [s EXCEPT !.ret = "fail"]
      ELSE [s EXCEPT !.client.arrived = 0,
                     !.proxy = IF end /\ p.req
                               THEN SnatchEnd(p, scn[no].chunked,
                                              s.peer.status = "connected")
                               ELSE p]

(* There is nothing to forward now, and nothing to come if ~ req.          *)
NothingToForward(p) ==
  [p EXCEPT !.v = @ \ {"W"}, !.cmask = IF p.req THEN @ ELSE @ \ {"R"}]

proxy_forward_client_input_to_peer(s) ==
  LET p == s.proxy
      n == Least(Len(p.reqfwdbuf), PeerRoom(s.peer))
      broken == [p EXCEPT !.FWDERR = TRUE, !.reqfwdbuf = <<>>]
      left == [p EXCEPT !.reqfwdbuf = Chop(@, n)]
  IN  CASE p.reqfwdbuf = <<>> ->
             IF p.req THEN s ELSE [s EXCEPT !.proxy = NothingToForward(p)]
        [] p.reqfwdbuf # <<>> /\ p.FWDERR -> [s EXCEPT !.proxy.reqfwdbuf = <<>>]
        [] p.reqfwdbuf # <<>> /\ ~ p.FWDERR /\ s.peer.status = "broken" ->
             LET q == IF p.req /\ ~ scn[no].raw
                      THEN SnatchEnd(broken, scn[no].chunked, TRUE) ELSE broken
             IN  [s EXCEPT !.proxy = [q EXCEPT !.v = @ \ {"W"}]]
        [] OTHER ->
             [s EXCEPT !.peer.got = @ \o SubSeq(p.reqfwdbuf, 1, n),
                       !.proxy = IF left.reqfwdbuf = <<>> /\ n > 0
                                 THEN NothingToForward(left) ELSE left]

-----------------------------------------------------------------------------
(* The reader of the peer's replies (htrd.c) and its two callbacks.  While *)
(* it is fed, f.p is the task, f.pend the head seen in this feed but not   *)
(* yet peeked at, and f.content what came with it.                         *)

NoHead == Tok("none", 0, 0)
Interim == {"100", "103"}

(* No length, neither chunked nor to be closed: without a content.  A head *)
(* says this of itself; it need not be for the request being served.       *)
Framing(t) == IF Kind(t) \in Interim THEN "none" ELSE scn[t[2]].reply

(* Mutant: the offset of what was sent is kept when that is dropped.       *)
proxy_snatch_peer_output_Offset(p, t) ==
  [p EXCEPT !.res = Append(IF res_pending(p) > 0 THEN Chop(@, p.res_consumed) ELSE @, t)]

(* proxy_snatch_peer_output(): what was sent is dropped from the buffer    *)
(* only if something is left to be sent.                                   *)
proxy_snatch_peer_output(p, t) ==
  LET compact == res_pending(p) > 0
  IN  [p EXCEPT !.res = Append(IF compact THEN Chop(@, p.res_consumed) ELSE @, t),
                !.res_consumed = IF compact THEN 0 ELSE @]

Push(f, t) ==
  IF "CLIENT_CHUNK" \in f.p.resflags
  THEN [f EXCEPT !.p = proxy_snatch_peer_output(@, t)]
  ELSE [f EXCEPT !.content = Append(@, t)]

proxy_htrd_peek_peer_output(f, completed) ==
  LET p == f.p
      interim == Kind(f.pend) \in Interim
      framing == Framing(f.pend)
      nobody == scn[no].head \/ interim
      length == CASE framing = "length" -> scn[f.pend[2]].size
                  [] framing # "length" /\ completed -> Len(f.content)
                  [] framing # "length" /\ ~ completed -> 0
      sized == framing = "length" \/ completed \/ nobody
      flags == IF sized THEN {"PEER_LENGTH"}
               ELSE {IF scn[no].v11 THEN "CLIENT_CHUNK" ELSE "CLIENT_DISCON",
                     IF framing = "chunked" THEN "PEER_CHUNK" ELSE "PEER_CLOSE"}
      head == Tok(CASE interim -> Kind(f.pend)
                    [] ~ interim /\ sized -> "length"
                    [] ~ interim /\ ~ sized -> IF scn[no].v11 THEN "chunked" ELSE "close",
                  f.pend[2], length)
  IN  CASE "RECEIVED_RESHDR" \in p.resflags -> [f EXCEPT !.err = TRUE]
        [] "RECEIVED_RESHDR" \notin p.resflags /\ "AWAIT_100" \in p.resflags
           /\ Kind(f.pend) = "100" ->
             [f EXCEPT !.p.resflags = (@ \ {"AWAIT_100"}) \union {"RECEIVED_100"},
                       !.p.res = Append(@, Tok("100", no, 0))]
        [] OTHER ->
             [f EXCEPT !.p.resflags = (@ \ {"AWAIT_100", "AWAIT_RESHDR"})
                                      \union {"RECEIVED_RESHDR"} \union flags,
                       !.p.peer_output_length = length,
                       !.p.peer_output_received = Len(f.content),
                       !.p.res = Append(@, head) \o f.content,
                       !.err = sized /\ Len(f.content) > length]

(* The content is complete: qse_htre_completecontent(), then the callbacks *)
(* for a message whose head came in the same feed.                         *)
Complete(f) ==
  LET done == IF "CLIENT_CHUNK" \in f.p.resflags
              THEN [f EXCEPT !.p = [proxy_snatch_peer_output(@, Tok("last", no, 0)) EXCEPT
                              !.resflags = (@ \ {"AWAIT_RESCON"}) \union {"RECEIVED_RESCON"}]]
              ELSE f
      peeked == IF f.pend = NoHead THEN done ELSE proxy_htrd_peek_peer_output(done, TRUE)
  IN  [peeked EXCEPT !.pend = NoHead, !.content = <<>>,
                     !.p.htrd = [mode |-> "hdr", need |-> 0]]

(* The content is made of pieces of equal size; `drop' is what becomes of  *)
(* the rest of this feed.                                                  *)
FeedHead(f, t) ==
  LET framing == Framing(t)
      seen == [f EXCEPT !.pend = t]
  IN  CASE Kind(t) \notin Interim \union {"hdr"} -> [f EXCEPT !.err = TRUE]
        [] Kind(t) \in Interim \union {"hdr"} /\ framing = "none" ->
             [Complete(seen) EXCEPT !.drop = TRUE]
        [] Kind(t) = "hdr" /\ framing = "length" /\ scn[t[2]].size = 0 -> Complete(seen)
        [] OTHER -> [seen EXCEPT !.p.htrd = [mode |-> framing, need |-> scn[t[2]].size]]

FeedToken(f, t) ==
  LET mode == f.p.htrd.mode
      pushed == Push(f, t)
      rest == [pushed EXCEPT !.p.htrd.need = @ - 1]
  IN  CASE f.err \/ f.drop -> f
        [] ~ (f.err \/ f.drop) /\ mode = "hdr" -> FeedHead(f, t)
        [] ~ (f.err \/ f.drop) /\ mode = "length" ->
             IF rest.p.htrd.need = 0 THEN Complete(rest) ELSE rest
        [] ~ (f.err \/ f.drop) /\ mode = "chunked" ->
             IF Kind(t) = "last" THEN Complete(f) ELSE pushed
        [] ~ (f.err \/ f.drop) /\ mode = "close" -> pushed

qse_htrd_feed(p, tokens) ==
  LET f == FoldLeft(FeedToken, [p |-> p, pend |-> NoHead, content |-> <<>>,
                                drop |-> FALSE, err |-> FALSE], tokens)
  IN  IF f.err \/ f.pend = NoHead THEN f ELSE proxy_htrd_peek_peer_output(f, FALSE)

(* qse_htrd_halt(): the peer has closed a reply without a length.          *)
qse_htrd_halt(p) ==
  Complete([p |-> p, pend |-> NoHead, content |-> <<>>, drop |-> FALSE, err |-> FALSE]).p

-----------------------------------------------------------------------------
(* The phases of the task: task->main is one of them.  `readable' says if  *)
(* the call is for the peer's handle being readable.                       *)

Failing(s) == [s EXCEPT !.ret = "fail"]

(* An error page, unless part of the reply has been sent back.             *)
Oops(s) ==
  [s EXCEPT !.ret = IF "EVER_SENTBACK" \in s.proxy.resflags THEN "fail" ELSE "error"]

(* Mutant: the multiplexer is not asked to watch the client for writing.   *)
WaitForClient_Unwatched(p) == p

(* Arrange to be called when the client is writable.                       *)
WaitForClient(p) == [p EXCEPT !.cmask = @ \union {"W"}]

(* What is sent of proxy->res in phases 2 and 3.                           *)
SendRes(s) ==
  LET p == s.proxy
      count == Least(res_pending(p), MAX_SEND_SIZE)
      t == SentToClient(s, SubSeq(p.res, p.res_consumed + 1, p.res_consumed + count))
  IN  [t EXCEPT !.proxy.res_consumed = @ + Sent(s, t),
                !.proxy.resflags = IF Sent(s, t) > 0 THEN @ \union {"EVER_SENTBACK"} ELSE @]

(* The buffered part of the content in phases 4 and 5.                     *)
SendBuf(s) ==
  LET t == SentToClient(s, s.proxy.buf)
  IN  IF s.proxy.buf = <<>> THEN s ELSE [t EXCEPT !.proxy.buf = Chop(@, Sent(s, t))]

task_main_proxy_5(f) ==
  LET t == SendBuf(f)
      p == t.proxy
  IN  IF t.ret = "fail" \/ p.buf # <<>> \/ p.req \/ p.reqfwdbuf # <<>>
      THEN t ELSE [t EXCEPT !.ret = "done"]

(* All of the reply has been read from the peer.                           *)
ToPhase5(s) ==
  [s EXCEPT !.proxy = WaitForClient([@ EXCEPT !.main = "5", !.v = {}])]

(* The content is relayed as it is read.                                   *)
task_main_proxy_4(f, readable) ==
  LET p == f.proxy
      sized == "PEER_LENGTH" \in p.resflags
      n == Least(Len(f.peer.in), MAX_SEND_SIZE - Len(p.buf))
      t == [f EXCEPT !.proxy.buf = @ \o SubSeq(f.peer.in, 1, n),
                     !.proxy.peer_output_received = @ + n,
                     !.peer.in = Chop(@, n)]
      received == t.proxy.peer_output_received
      reading == readable /\ Len(p.buf) < MAX_SEND_SIZE
  IN  CASE reading /\ f.peer.status = "broken" -> Failing(f)
        [] reading /\ f.peer.status # "broken" /\ n = 0 /\ f.peer.eof ->
             IF sized /\ p.peer_output_received < p.peer_output_length
             THEN Failing(f)
             ELSE ToPhase5([f EXCEPT !.proxy.req = @ /\ ~ scn[no].raw])
        [] reading /\ n > 0 /\ sized /\ received > p.peer_output_length -> Failing(t)
        [] reading /\ n > 0 /\ sized /\ received = p.peer_output_length -> ToPhase5(t)
        [] reading /\ n > 0 /\ (sized => received < p.peer_output_length) -> SendBuf(t)
        [] OTHER -> SendBuf(f)

(* The head and what came with it are sent back, and then the rest of the  *)
(* content is to be read unless all of it has been.                        *)
task_main_proxy_3(f) ==
  LET t == IF res_pending(f.proxy) > 0 THEN SendRes(f) ELSE f
      p == t.proxy
      all == \/ "CLIENT_CHUNK" \in p.resflags
             \/ "PEER_LENGTH" \in p.resflags
                /\ p.peer_output_received >= p.peer_output_length
      sent == [p EXCEPT !.res = <<>>, !.res_consumed = 0]
  IN  IF Sent(f, t) = 0 \/ res_pending(p) > 0 THEN t
      ELSE [t EXCEPT !.proxy =
              IF all THEN WaitForClient([sent EXCEPT !.main = "5"])
              ELSE [sent EXCEPT !.main = "4", !.cmask = @ \ {"W"}]]

(* What phase 2 goes on to after it has fed the reader.                    *)
AfterFeed(p) ==
  LET has(f) == f \in p.resflags
  IN  CASE p.res = <<>> -> p
        [] p.res # <<>> /\ has("RECEIVED_RESCON") ->
             WaitForClient([p EXCEPT !.main = "3"])
        [] p.res # <<>> /\ ~ has("RECEIVED_RESCON") /\ has("AWAIT_RESCON") ->
             WaitForClient(p)
        [] p.res # <<>> /\ ~ has("RECEIVED_RESCON") /\ ~ has("AWAIT_RESCON")
           /\ has("RECEIVED_RESHDR") ->
             IF has("CLIENT_CHUNK")
             THEN WaitForClient([p EXCEPT !.resflags = @ \union {"AWAIT_RESCON"}])
             ELSE WaitForClient([p EXCEPT !.main = "3"])
        [] OTHER -> IF has("RECEIVED_100") /\ p.res # <<>> THEN WaitForClient(p) ELSE p

(* Phase 2 at the end of the peer's output.                                *)
EofInPhase2(s) ==
  LET has(f) == f \in s.proxy.resflags
  IN  IF has("RECEIVED_RESHDR") /\ has("PEER_CLOSE")
      THEN [s EXCEPT !.proxy = WaitForClient([qse_htrd_halt(@) EXCEPT !.main = "3"])]
      ELSE Oops(s)

(* The reply is read up to its head, or all of it if its content is turned *)
(* into chunks, while "100 Continue" and what is ready of it is sent back. *)
SendBack(s) ==
  LET t == IF res_pending(s.proxy) > 0 THEN SendRes(s) ELSE s
  IN  IF Sent(s, t) > 0 /\ res_pending(t.proxy) = 0
      THEN [t EXCEPT !.proxy.cmask = @ \ {"W"}] ELSE t

ReadSize(s) == Least(Len(s.peer.in), MAX_SEND_SIZE)

(* `fed' is the reader after it has been fed what can be read.             *)
task_main_proxy_2(s, fed, readable) ==
  LET n == ReadSize(s)
      t == [s EXCEPT !.peer.in = Chop(@, n), !.proxy = fed.p]
  IN  CASE s.ret = "fail" -> Oops(s)
        [] s.ret # "fail" /\ ~ readable -> s
        [] s.ret # "fail" /\ readable /\ s.peer.status = "broken" -> Oops(s)
        [] s.ret # "fail" /\ readable /\ s.peer.status # "broken" ->
             CASE n = 0 /\ s.peer.eof -> EofInPhase2(s)
               [] n = 0 /\ ~ s.peer.eof -> [s EXCEPT !.proxy = AfterFeed(@)]
               [] n > 0 -> IF fed.err THEN Oops(t) ELSE [t EXCEPT !.proxy = AfterFeed(@)]

(* Connected to the peer, at once or later: the head of the request goes   *)
(* out, and a raw proxy answers by itself.                                 *)
Connected(s) ==
  LET p == [s.proxy EXCEPT !.cmask = IF s.proxy.req THEN @ \union {"R"} ELSE @,
                           !.v = {"R"}]
      t == [s EXCEPT !.proxy = p, !.peer.status = "connected"]
      f == IF p.reqfwdbuf # <<>> THEN proxy_forward_client_input_to_peer(t) ELSE t
      g == IF f.proxy.reqfwdbuf # <<>>
           THEN [f EXCEPT !.proxy.v = @ \union {"W"}] ELSE f
  IN  IF scn[no].raw
      THEN [g EXCEPT !.proxy = WaitForClient([@ EXCEPT !.main = "3",
                                                       !.res = <<Tok("200", no, 0)>>])]
      ELSE [g EXCEPT !.proxy.main = "2"]

(* `ready': the peer's handle is readable or writable.                     *)
task_main_proxy_1(s, ready) ==
  CASE ready /\ s.peer.status = "refused" -> [s EXCEPT !.ret = "error"]
    [] ready /\ s.peer.status = "established" -> Connected(s)
    [] OTHER -> s

(* Two operations on the client's cache of peers; all requests are for the *)
(* same peer, so that it holds one connection at most.                     *)
qse_httpd_cacheproxypeer(q) == [q EXCEPT !.status = "cached"]
qse_httpd_decacheproxypeer(q, old) == q.status = "cached" /\ ~ old

(* A connection in the cache is taken if it is not too old, has not been   *)
(* closed and has nothing to be read.                                      *)
Reusable(q, old) == qse_httpd_decacheproxypeer(q, old) /\ q.in = <<>> /\ ~ q.eof

(* task_main_proxy(): `old' is the outcome of the test of the timestamp    *)
(* and `open' the one of peer.open.                                        *)
task_main_proxy(s, old, open) ==
  LET p == [s.proxy EXCEPT !.v = {"R"}, !.cmask = {}]
      q == [NoPeer EXCEPT !.status = open, !.first = no,
                          !.script = IF scn[no].raw THEN ReplyOf(no) ELSE <<>>]
  IN  IF Reusable(s.peer, old) THEN Connected([s EXCEPT !.proxy = p])
      ELSE CASE open = "refused" -> [s EXCEPT !.peer = NoPeer, !.ret = "error"]
             [] open = "connecting" ->
                  [s EXCEPT !.peer = q, !.proxy = [p EXCEPT !.v = {"R", "W"}, !.main = "1"]]
             [] open = "connected" -> Connected([s EXCEPT !.peer = q, !.proxy = p])

(* Mutant: a connection with something to be read is kept as well.         *)
task_fini_proxy_Dirty(s) ==
  IF ~ scn[no].raw /\ s.peer.status = "connected"
  THEN qse_httpd_cacheproxypeer(s.peer) ELSE NoPeer

(* task_fini_proxy(): a connection that is quiet is kept.                  *)
task_fini_proxy(s) ==
  IF /\ ~ scn[no].raw /\ "PEER_CLOSE" \notin s.proxy.resflags
     /\ s.peer.status = "connected" /\ s.peer.in = <<>> /\ ~ s.peer.eof
  THEN qse_httpd_cacheproxypeer(s.peer) ELSE NoPeer

-----------------------------------------------------------------------------
(* The server calls the task for events (invoke_client_task in httpd.c).   *)

Nothing == [client |-> {}, peer |-> {}]

ClientReady ==
  mux.client \intersect
    ((IF client.arrived > 0 \/ client.gone THEN {"R"} ELSE {}) \union
     (IF ClientRoom(client) > 0 \/ client.gone THEN {"W"} ELSE {}))
PeerReady ==
  mux.peer \intersect
    ((IF peer.in # <<>> \/ peer.eof \/ peer.status \in {"refused", "broken"}
      THEN {"R"} ELSE {}) \union
     (IF peer.status \in {"established", "refused", "broken"}
         \/ (peer.status = "connected" /\ PeerRoom(peer) > 0) THEN {"W"} ELSE {}))

(* update_mux_for_current_task()                                           *)
MuxFor(p) ==
  [client |-> IF p.cmask = {} /\ p.v = {} THEN {"W"} ELSE p.cmask, peer |-> p.v]

(* The task is over, and the next one of the client, if any, is begun; a   *)
(* task that has failed takes the client with it.                          *)
TaskEnds(s) ==
  LET page == s.ret = "error"
      last == \/ no = Len(scn) \/ scn[no].raw \/ "CLIENT_DISCON" \in s.proxy.resflags
      failed == s.ret = "fail" \/ (page /\ s.client.gone)
  IN  /\ client' = IF failed THEN s.client
                   ELSE [s.client EXCEPT
                           !.out = IF page THEN Append(@, Tok("err", no, 0)) ELSE @,
                           !.unread = IF page THEN @ + 1 ELSE @,
                           !.sent = IF last THEN @ ELSE 0,
                           !.arrived = IF last THEN @ ELSE 0]
      /\ peer' = IF failed THEN NoPeer ELSE task_fini_proxy(s)
      /\ IF failed \/ last
         THEN /\ proxy' = [s.proxy EXCEPT !.main = IF failed THEN "failed" ELSE "over"]
              /\ mux' = Nothing
              /\ UNCHANGED no
         ELSE /\ no' = no + 1
              /\ proxy' = NewProxy(no + 1)
              /\ mux' = [client |-> {"R", "W"}, peer |-> {}]

Applied(s) ==
  IF s.ret = "more"
  THEN proxy' = s.proxy /\ peer' = s.peer /\ client' = s.client /\ UNCHANGED no
       /\ mux' = MuxFor(s.proxy)
  ELSE TaskEnds(s)

(* What task->main returns; `old' and `open' matter to its first phase, and *)
(* the ones from 2 on begin with forwarding.                               *)
Results(s, ready) ==
  LET readable == "R" \in ready
      forwarded == {proxy_forward_client_input_to_peer(s)}
  IN  CASE s.proxy.main = "main" ->
             {task_main_proxy(s, old, open) :
                old \in {o \in BOOLEAN : o => s.peer.status = "cached"},
                open \in {"connecting", "connected"} \union
                         (IF "peer" \in Faults THEN {"refused"} ELSE {})}
        [] s.proxy.main = "1" -> {task_main_proxy_1(s, ready # {})}
        [] s.proxy.main = "2" ->
             UNION {{task_main_proxy_2(t, fed, readable) :
                       fed \in {qse_htrd_feed(t.proxy, SubSeq(t.peer.in, 1, ReadSize(t)))}} :
                    t \in {SendBack(f) : f \in forwarded}}
        [] s.proxy.main = "3" -> {task_main_proxy_3(f) : f \in forwarded}
        [] s.proxy.main = "4" -> {task_main_proxy_4(f, readable) : f \in forwarded}
        [] s.proxy.main = "5" -> {task_main_proxy_5(f) : f \in forwarded}

(* The task is called unless the client is not writable; then even the     *)
(* multiplexer is left as it is.                                           *)
Invoke(s, ready) ==
  \/ /\ s.ret = "fail"
     /\ TaskEnds(s)
  \/ /\ s.ret # "fail"
     /\ ClientRoom(s.client) = 0 /\ ~ s.client.gone
     /\ proxy' = s.proxy /\ client' = s.client
     /\ UNCHANGED <<no, peer, mux>>
  \/ /\ s.ret # "fail"
     /\ ClientRoom(s.client) > 0 \/ s.client.gone
     /\ \E t \in Results(s, ready) : Applied(t)

(* An event of the client's handle: it is read first.                      *)
ClientEvent ==
  /\ ClientReady # {}
  /\ \E s \in {IF "R" \in ClientReady THEN ReadClient(S) ELSE S} : Invoke(s, {})
  /\ UNCHANGED scn

PeerEvent ==
  /\ PeerReady # {}
  /\ \E s \in {S} : Invoke(s, PeerReady)
  /\ UNCHANGED scn

-----------------------------------------------------------------------------
(* The peer and the client.                                                *)

Serving == proxy.main \notin {"over", "failed"}

PeerConnects ==
  /\ peer.status = "connecting"
  /\ \E st \in {"established", "refused"} :
       /\ st = "refused" => "peer" \in Faults
       /\ peer' = [peer EXCEPT !.status = st]
  /\ UNCHANGED <<scn, no, proxy, client, mux>>

PeerIsUp == peer.status \in {"connected", "cached", "established"} /\ ~ peer.eof

(* The head of a request is what the peer's reply to it follows from.      *)
PeerReads ==
  /\ PeerIsUp
  /\ peer.read < Len(peer.got)
  /\ LET t == peer.got[peer.read + 1]
     IN  peer' = [peer EXCEPT !.read = @ + 1,
                              !.script = IF Kind(t) = "req" THEN @ \o ReplyOf(t[2]) ELSE @]
  /\ UNCHANGED <<scn, no, proxy, client, mux>>

(* The request is read in full before it is answered, unless the peer is   *)
(* early; "100 Continue" is for a content still to come.                   *)
HasRead(q, r) ==
  LET rq == RequestOf(r) IN Contains(SubSeq(q.got, 1, q.read), rq[Len(rq)])
PeerSends ==
  /\ PeerIsUp
  /\ peer.script # <<>>
  /\ Len(peer.in) < PEER_ROOM
  /\ LET t == Head(peer.script)
     IN  Kind(t) = "hdr" => scn[t[2]].early \/ HasRead(peer, t[2])
  /\ peer' = [peer EXCEPT !.in = Append(@, Head(peer.script)), !.script = Tail(@)]
  /\ UNCHANGED <<scn, no, proxy, client, mux>>

(* A reply that ends when the connection does.  Otherwise, and of a tunnel *)
(* above all, a peer may keep the connection for as long as it likes.      *)
PeerMustClose ==
  /\ PeerIsUp /\ peer.script = <<>>
  /\ ~ scn[no].raw /\ scn[no].reply = "close"
  /\ Contains(peer.got, Tok("req", no, 0)) /\ HasRead(peer, no)
PeerCloses ==
  /\ PeerMustClose \/ (PeerIsUp /\ "peer" \in Faults)
  /\ peer' = [peer EXCEPT !.eof = TRUE, !.script = <<>>]
  /\ UNCHANGED <<scn, no, proxy, client, mux>>

(* What is sent to a peer that has closed is answered with a reset.        *)
PeerMustReset ==
  /\ peer.status = "connected"
  /\ peer.eof /\ peer.read < Len(peer.got)
PeerResets ==
  /\ PeerMustReset \/ (peer.status = "connected" /\ "peer" \in Faults)
  /\ peer' = [peer EXCEPT !.status = "broken", !.in = <<>>, !.script = <<>>]
  /\ UNCHANGED <<scn, no, proxy, client, mux>>

ReadByClient == SubSeq(client.out, 1, Len(client.out) - client.unread)
ClientSends ==
  /\ Serving /\ ~ client.gone
  /\ client.sent < scn[no].pieces
  /\ (scn[no].expect /\ scn[no].waits) => \E i \in 1..Len(ReadByClient) : ReadByClient[i][2] = no
  /\ client' = [client EXCEPT !.sent = @ + 1, !.arrived = @ + 1]
  /\ UNCHANGED <<scn, no, proxy, peer, mux>>

ClientReads ==
  /\ client.unread > 0
  /\ client' = [client EXCEPT !.unread = @ - 1]
  /\ UNCHANGED <<scn, no, proxy, peer, mux>>

ClientGoes ==
  /\ Serving /\ "client" \in Faults /\ ~ client.gone
  /\ client' = [client EXCEPT !.gone = TRUE]
  /\ UNCHANGED <<scn, no, proxy, peer, mux>>

Done == ~ Serving /\ UNCHANGED vars

Init ==
  /\ scn \in Scenarios
  /\ no = 1
  /\ proxy = NewProxy(1)
  /\ peer = NoPeer
  /\ client = [out |-> <<>>, unread |-> 0, arrived |-> 0, sent |-> 0, gone |-> FALSE]
  /\ mux = [client |-> {"R", "W"}, peer |-> {}]

Next ==
  \/ ClientEvent \/ PeerEvent
  \/ PeerConnects \/ PeerReads \/ PeerSends \/ PeerCloses \/ PeerResets
  \/ ClientSends \/ ClientReads \/ ClientGoes
  \/ Done

(* The loop attends to every handle that stays ready; the peer and the     *)
(* client go on unless they fail, and a reset is not lost.                 *)
Fairness ==
  /\ WF_vars(ClientEvent) /\ WF_vars(PeerEvent)
  /\ WF_vars(PeerConnects) /\ WF_vars(PeerReads) /\ WF_vars(PeerSends)
  /\ WF_vars(PeerMustClose /\ PeerCloses)
  /\ WF_vars(PeerMustReset /\ PeerResets)
  /\ WF_vars(ClientSends) /\ WF_vars(ClientReads)

Spec == Init /\ [][Next]_vars /\ Fairness

-----------------------------------------------------------------------------
(* Properties.                                                             *)

Sent1(r) == SelectSeq(client.out, LAMBDA t : t[2] = r)
Ended(r) == r < no \/ proxy.main = "over"

(* An interim reply other than an awaited "100" is taken for the reply. *)
(* What follows it on the connection is taken for the next one.            *)
Hinted(r) == Contains(scn[r].interim, "103")
Hinting(first, last) == \E r \in first..last : Hinted(r)

(* What a client may be sent for request r; the content that only the end  *)
(* of the connection ends may be cut short by a failing peer.              *)
Contents(r) ==
  IF scn[r].reply = "close" /\ "peer" \in Faults
  THEN {SubSeq(Body(r), 1, n) : n \in 0..Len(Body(r))} ELSE {Body(r)}
Whole(r) ==
  {Tok("length", r, IF scn[r].head /\ scn[r].reply # "length" THEN 0 ELSE scn[r].size)}
WellFormed(r) ==
  IF scn[r].raw
  THEN {<<Tok("200", r, 0)>> \o SubSeq(Body(r), 1, n) : n \in 0..Len(Body(r))}
  ELSE LET sized == {<<h>> \o Body(r) : h \in Whole(r)}
           chunked == {<<Tok("chunked", r, 0)>> \o c \o <<Tok("last", r, 0)>> :
                         c \in IF scn[r].v11 THEN Contents(r) ELSE {}}
           closed == {<<Tok("close", r, 0)>> \o c :
                         c \in IF scn[r].v11 THEN {} ELSE Contents(r)}
           final == sized \union (IF scn[r].reply \in {"chunked", "close"} /\ ~ scn[r].head
                                  THEN chunked \union closed ELSE {})
       IN  IF Hinted(r) THEN {<<Tok("103", r, 0)>>}
           ELSE final \union {<<Tok("100", r, 0)>> \o f : f \in IF scn[r].expect THEN final ELSE {}}

(* What the client has been sent are the replies to its requests in their  *)
(* order, each one well formed: the head says how the content ends, and    *)
(* the content is the peer's, complete and in order, or else there is an   *)
(* error page in place of the whole reply.  A reply that is cut off is the *)
(* last thing sent.  (The buffers res and buf, their offsets, the phases   *)
(* and the reader's feeding in arbitrary pieces.)  Of a request that comes *)
(* after a misread interim reply nothing is said.                          *)
RepliesInOrder ==
  Hinting(1, no - 1) \/
    /\ client.out = FlattenSeq([r \in 1..no |-> Sent1(r)])
    /\ \A r \in 1..no :
         LET ok == WellFormed(r) \union {<<Tok("err", r, 0)>>}
         IN  IF Ended(r) THEN Sent1(r) \in ok
             ELSE Sent1(r) = <<>> \/ \E f \in ok : IsPrefix(Sent1(r), f)

(* A peer is sent the requests from the one its connection was opened for, *)
(* each one with all of its content before the next, and the connection is *)
(* put in the cache only when it has answered all of them in full: nothing *)
(* on it can be taken for a reply to the next request, unless an interim   *)
(* reply has been misread on it.                                           *)
PeerIsInStep ==
  LET upto(r) == FlattenSeq([i \in 1..(r - peer.first + 1) |-> RequestOf(peer.first + i - 1)])
      served == IF proxy.main = "over" THEN no ELSE no - 1
  IN  /\ peer.status # "none" => IsPrefix(peer.got, upto(no))
      /\ peer.status = "cached" =>
           /\ peer.got = upto(served)
           /\ Hinting(peer.first, served) \/ (peer.script = <<>> /\ peer.in = <<>>)

(* The states in which a task waits for something that does not come.      *)

(* A reply to HEAD has a length, and the content is waited for.            *)
AwaitsContentOfHead ==
  /\ scn[no].head /\ proxy.main = "4"
  /\ proxy.peer_output_received < proxy.peer_output_length

(* The head of the reply has been received and dropped by the reader, with *)
(* the rest of what came with an interim reply.                            *)
ReplyDropped ==
  /\ proxy.main = "2" /\ "AWAIT_RESHDR" \in proxy.resflags
  /\ Contains(SubSeq(peer.got, 1, peer.read), Tok("req", no, 0))
  /\ ~ Contains(peer.in \o peer.script, Tok("hdr", no, 0))

(* Input of the client waits to be forwarded and is not, as the call that  *)
(* has read it ended before the multiplexer was told.                      *)
ForwardingUntold ==
  /\ proxy.main \in {"2", "4"} /\ proxy.reqfwdbuf # <<>>
  /\ "W" \in proxy.v /\ "W" \notin mux.peer

(* Content of the reply waits to be sent to a client that is not watched.  *)
ClientUnwatched ==
  /\ scn[no].raw /\ proxy.main = "4" /\ proxy.buf # <<>>
  /\ "W" \notin mux.client

(* Both ends keep a tunnel open, and all they have sent has got through.   *)
TunnelIsIdle ==
  /\ scn[no].raw /\ proxy.main = "4"
  /\ proxy.buf = <<>> /\ peer.in = <<>> /\ peer.script = <<>>
  /\ proxy.reqfwdbuf = <<>> /\ peer.got = Content(no)

(* Every task ends and its client is answered or dropped, or a tunnel is   *)
(* idle, except in the four cases above: no other wake-up is lost between  *)
(* the two handles of a task, whose phases change what they are watched    *)
(* for at every call, whatever is full and whoever fails.                  *)
EveryTaskEnds ==
  \/ <>(~ Serving)
  \/ <>[]TunnelIsIdle
  \/ <>[]AwaitsContentOfHead
  \/ <>[]ReplyDropped
  \/ <>[]ForwardingUntold
  \/ <>[]ClientUnwatched

=============================================================================
