-------------------------------- MODULE Htrd --------------------------------
(***************************************************************************)
(* The incremental HTTP reader of lib/http/htrd.c with the message it      *)
(* fills, lib/http/htre.c.  It is fed a stream in pieces as they come from *)
(* a socket or a pipe, finds the messages in it and tells its user of      *)
(* them: `peek' once the head of a message has been read, `poke' when all  *)
(* of it has.                                                              *)
(*                                                                         *)
(* qse_htrd_feed() is one loop with jumps into its middle.  An action is   *)
(* what it does from one label to the next, so that what it keeps in its   *)
(* fields between two calls, and what only in its local variables, can be  *)
(* told apart.  The stream is a sequence of characters, in which the       *)
(* initial line and the fields of a head are one character each.           *)
(***************************************************************************)
EXTENDS Naturals, FiniteSetsExt, SequencesExt

CONSTANTS
  Scenarios,   \* what may be fed, see Init
  Policies,    \* what a user may do when it peeks at a message
  SIZE_RANGE   \* the number of values of qse_size_t

ASSUME HtrdAssumption ==
  /\ SIZE_RANGE \in Nat /\ SIZE_RANGE > 1
  /\ \A s \in Scenarios : s.stream \in Seq(STRING)

VARIABLES
  scn,     \* the messages sent, how the reader is set up, the stream
  pc,      \* the label of qse_htrd_feed(), "idle" between calls, "failed"
  ptr, req, end,  \* its local variables, as positions in the stream
  peeking, \* header_completed_during_this_feed
  htrd,    \* the fields of the reader
  re,      \* htrd->re, the message
  seen     \* what the user has seen of each message, and of raw data

locals == <<pc, ptr, req, end, peeking>>
vars == <<scn, locals, htrd, re, seen>>

is_space_octet == {"SP", "CR"}
is_whspace_octet == {"SP", "CR", "LF"}
xdigit == {"0", "1", "2", "3"}
xdigit_to_num(c) == CASE c = "0" -> 0 [] c = "1" -> 1 [] c = "2" -> 2 [] c = "3" -> 3
ContentLength == [length0 |-> 0, length2 |-> 2, length3 |-> 3]

Octets(from, upto) == SubSeq(scn.stream, from + 1, upto)

-----------------------------------------------------------------------------
(* The message.                                                            *)

NoMessage == [flags |-> {}, length |-> 0, content |-> <<>>, trailers |-> <<>>,
              state |-> "open", concb |-> "none"]

(* The record of a message in `seen', and of the data that follow one.     *)
NewlySeen == [content |-> <<>>, ends |-> 0, poked |-> 0, trailers |-> <<>>, policy |-> "none"]

Latest == Len(seen.messages)

(* qse_htre_addcontent(): to the callback, or else to the buffer.          *)
AddContent(octets) ==
  IF re.state # "open" \/ octets = <<>> THEN UNCHANGED <<re, seen>>
  ELSE CASE re.concb = "none" ->
              /\ re' = [re EXCEPT !.content = @ \o octets]
              /\ UNCHANGED seen
         [] re.concb = "content" ->
              /\ seen' = [seen EXCEPT !.messages[Latest].content = @ \o octets]
              /\ UNCHANGED re
         [] re.concb = "raw" ->
              /\ seen' = [seen EXCEPT !.raw = @ \o octets]
              /\ UNCHANGED re

(* qse_htre_completecontent(): the callback is told, and unset by its      *)
(* owner, as proxy, CGI and file tasks do.                                 *)
CompleteContent ==
  IF re.state # "open" THEN UNCHANGED <<re, seen>>
  ELSE /\ re' = [re EXCEPT !.state = "COMPLETED",
                           !.concb = IF @ = "content" THEN "none" ELSE @]
       /\ seen' = IF re.concb = "content"
                  THEN [seen EXCEPT !.messages[Latest].ends = @ + 1] ELSE seen

(* qse_htre_clear(): a callback set for a message that is complete stays.  *)
ClearMessage ==
  re' = [NoMessage EXCEPT !.concb = IF re.state = "open" THEN "none" ELSE re.concb]

-----------------------------------------------------------------------------
(* Reading a head.                                                         *)

(* capture_connection(), capture_content_length() and                      *)
(* capture_transfer_encoding(), in the order of the fields.                *)
Capture(h, field) ==
  CASE field = "close" -> [h EXCEPT !.flags = @ \ {"KEEPALIVE"}]
    [] field = "keep-alive" -> [h EXCEPT !.flags = @ \union {"KEEPALIVE"}]
    [] field = "chunked" ->
         IF "LENGTH" \in h.flags THEN [h EXCEPT !.bad = TRUE]
         ELSE [h EXCEPT !.flags = @ \union {"CHUNKED"}]
    [] field \in DOMAIN ContentLength ->
         IF "CHUNKED" \in h.flags /\ ContentLength[field] > 0 THEN [h EXCEPT !.bad = TRUE]
         ELSE [h EXCEPT !.flags = @ \union {"LENGTH"}, !.length = ContentLength[field]]
    [] field = "field" -> h
    [] OTHER -> [h EXCEPT !.bad = TRUE]

(* parse_initial_line_and_headers(); a CGI program sends no initial line.  *)
parse_initial_line_and_headers(option, raw) ==
  LET start == Min({i \in DOMAIN raw : raw[i] \notin is_space_octet})
      first == CASE option = "request" -> {"GET"}
                 [] option = "response" -> {"HTTP/1.1", "HTTP/1.0"}
                 [] option = "peekonly" -> {}
      skips == option = "peekonly"
      keeps == Contains(raw, "HTTP/1.1") \/ Contains(raw, "GET")
      h[i \in 0..Len(raw)] ==
        IF i = 0 THEN [flags |-> IF keeps THEN {"KEEPALIVE"} ELSE {}, length |-> 0,
                       bad |-> ~ skips /\ raw[start] \notin first]
        ELSE IF raw[i] \in is_whspace_octet \/ (~ skips /\ i <= start) THEN h[i - 1]
        ELSE Capture(h[i - 1], raw[i])
  IN  h[Len(raw)]

(* htrd->fed.s.crlf after character c; 4 stands for an empty line.         *)
NextCrlf(crlf, c) ==
  CASE crlf = 4 -> 4
    [] crlf < 4 /\ c = "LF" -> IF crlf <= 1 THEN 2 ELSE 4
    [] crlf < 4 /\ c = "CR" -> IF crlf \in {0, 2} THEN crlf + 1 ELSE 1
    [] OTHER -> 0

Crlf[p \in ptr..end] ==
  IF p = ptr THEN htrd.crlf ELSE NextCrlf(Crlf[p - 1], scn.stream[p])

(* The position behind the first empty line, or `end'.                     *)
EmptyLine == Min({p \in ptr..end : p = end \/ Crlf[p] = 4})

Goto(label) == pc' = label /\ UNCHANGED <<scn, req, end>>

HasNull == Contains(Octets(ptr, EmptyLine), "NUL")

(* A null character in a head or in trailers.                              *)
RejectNull ==
  /\ pc \in {"header", "dechunk_get_trailers"}
  /\ HasNull
  /\ ptr' = EmptyLine
  /\ Goto("failed")
  /\ UNCHANGED <<peeking, htrd, re, seen>>

(* Mutant: how much of the empty line has been seen is lost with the feed. *)
ReadPartOfHead_Forgets ==
  /\ pc = "header" /\ ~ HasNull
  /\ Crlf[end] < 4
  /\ htrd' = [htrd EXCEPT !.crlf = 0, !.raw = @ \o Octets(req, end)]
  /\ ptr' = end
  /\ Goto("feedme_more")
  /\ UNCHANGED <<peeking, re, seen>>

(* The loop over the characters of a head that is not complete yet.        *)
ReadPartOfHead ==
  /\ pc = "header" /\ ~ HasNull
  /\ Crlf[end] < 4
  /\ htrd' = [htrd EXCEPT !.crlf = Crlf[end], !.raw = @ \o Octets(req, end)]
  /\ ptr' = end
  /\ Goto("feedme_more")
  /\ UNCHANGED <<peeking, re, seen>>

Raw == htrd.raw \o Octets(req, EmptyLine)
HeadRead == htrd' = [htrd EXCEPT !.crlf = 0, !.raw = Raw]
HasHead(h) == re' = [re EXCEPT !.flags = h.flags, !.length = h.length]

(* Mutant: the state variables of the chunk before are kept.               *)
NewChunk_AsIs(x) == [x EXCEPT !.phase = "LEN"]

(* dechunk_start                                                           *)
NewChunk(x) == [x EXCEPT !.phase = "LEN", !.len = 0, !.count = 0]

(* What there is to read after the head, by its fields.                    *)
Framing(option, h) ==
  CASE "CHUNKED" \in h.flags -> "chunked"
    [] "CHUNKED" \notin h.flags /\ (option = "request" \/ "LENGTH" \in h.flags) -> "length"
    [] OTHER -> IF "KEEPALIVE" \in h.flags THEN "none" ELSE "close"

ReadHead ==
  /\ pc = "header" /\ ~ HasNull
  /\ Crlf[end] = 4
  /\ \E h \in {parse_initial_line_and_headers(scn.option, Raw)} :
       \/ /\ h.bad
          /\ HeadRead
          /\ ptr' = EmptyLine
          /\ Goto("failed")
          /\ UNCHANGED <<peeking, re, seen>>
       \/ /\ ~ h.bad /\ scn.option = "peekonly"
          /\ HeadRead
          /\ re' = [re EXCEPT !.flags = h.flags, !.length = h.length, !.state = "COMPLETED",
                              !.content = @ \o Octets(EmptyLine, end)]
          /\ ptr' = end
          /\ peeking' = TRUE
          /\ Goto("feedme_more")
          /\ UNCHANGED seen
       \/ /\ ~ h.bad /\ scn.option # "peekonly"
          /\ HasHead(h)
          /\ ptr' = IF Framing(scn.option, h) = "none" THEN end ELSE EmptyLine
          /\ peeking' = TRUE
          /\ LET x == [htrd EXCEPT !.crlf = 0, !.raw = Raw]
             IN  htrd' = CASE Framing(scn.option, h) = "chunked" -> NewChunk(x)
                           [] Framing(scn.option, h) = "length" -> [x EXCEPT !.need = h.length]
                           [] Framing(scn.option, h) = "close" ->
                                [x EXCEPT !.need = SIZE_RANGE - 1, !.until_close = TRUE]
                           [] Framing(scn.option, h) = "none" -> x
          /\ Goto(CASE Framing(scn.option, h) = "chunked" -> "dechunk_resume"
                    [] Framing(scn.option, h) # "chunked" /\ htrd'.need > 0 -> "content_resume"
                    [] OTHER -> "complete")
          /\ UNCHANGED seen

-----------------------------------------------------------------------------
(* Reading the content.                                                    *)

Skip(set, from) == Min({p \in from..end : p = end \/ scn.stream[p + 1] \notin set})

AddDigit(len, d) == (len * 16 + xdigit_to_num(d)) % SIZE_RANGE

(* The length of the chunk with the digits up to a position.               *)
ChunkLen(first, last) ==
  LET len[p \in first..last] ==
        IF p = first THEN htrd.len ELSE AddDigit(len[p - 1], scn.stream[p])
  IN  len[last]

(* getchunklen(), at dechunk_resume.                                       *)
GetChunkLen ==
  LET first == IF htrd.count = 0 THEN Skip(is_space_octet, ptr) ELSE ptr
      last == Skip(xdigit, first)
      stop == Skip(is_space_octet, last)
      x == [htrd EXCEPT !.len = ChunkLen(first, last),
                        !.count = @ + (last - first)]
      phase == CASE x.count = 0 -> "DONE"
                 [] x.count > 0 /\ x.len = 0 -> "TRAILERS"
                 [] x.count > 0 /\ x.len > 0 -> "DATA"
  IN  /\ pc = "dechunk_resume"
      /\ \/ /\ stop = end
            /\ htrd' = x
            /\ ptr' = stop
            /\ Goto("feedme_more")
         \/ /\ stop < end /\ scn.stream[stop + 1] = "LF"
            /\ htrd' = [x EXCEPT !.phase = phase, !.need = x.len,
                                 !.crlf = IF phase = "TRAILERS" THEN 2 ELSE @]
            /\ ptr' = stop + 1
            /\ Goto(CASE phase = "DONE" -> "complete"
                      [] phase = "TRAILERS" -> "dechunk_get_trailers"
                      [] phase = "DATA" -> "content_resume")
         \/ /\ stop < end /\ scn.stream[stop + 1] # "LF"
            /\ htrd' = x
            /\ ptr' = stop
            /\ Goto("failed")
      /\ UNCHANGED <<peeking, re, seen>>

Fields(tra) == SelectSeq(tra, LAMBDA c : c \notin is_whspace_octet)
AllFields(tra) == ToSet(Fields(tra)) \subseteq {"field"}

(* get_trailing_headers(), at dechunk_get_trailers.                        *)
GetTrailers ==
  /\ pc = "dechunk_get_trailers" /\ ~ HasNull
  /\ ptr' = EmptyLine
  /\ \/ /\ Crlf[end] = 4
        /\ htrd' = [htrd EXCEPT !.crlf = 0, !.phase = "DONE",
                                !.tra = @ \o Octets(ptr, EmptyLine)]
        /\ re' = [re EXCEPT !.trailers = SelectSeq(Fields(htrd'.tra), LAMBDA c : c = "field")]
        /\ Goto(IF AllFields(htrd'.tra) THEN "complete" ELSE "failed")
     \/ /\ Crlf[end] < 4
        /\ htrd' = [htrd EXCEPT !.crlf = Crlf[end], !.tra = @ \o Octets(ptr, end)]
        /\ Goto("feedme_more")
        /\ UNCHANGED re
  /\ UNCHANGED <<peeking, seen>>

(* At content_resume.                                                      *)
ReadContent ==
  LET n == Min({htrd.need, end - ptr})
      left == IF htrd.until_close THEN htrd.need ELSE htrd.need - n
  IN  /\ pc = "content_resume"
      /\ AddContent(Octets(ptr, ptr + n))
      /\ ptr' = ptr + n
      /\ htrd' = [htrd EXCEPT !.need = left,
                              !.phase = IF left = 0 /\ @ = "DATA" THEN "CRLF" ELSE @]
      /\ Goto(CASE end - ptr < htrd.need -> "feedme_more"
                [] end - ptr >= htrd.need /\ htrd.phase = "DATA" -> "dechunk_crlf"
                [] OTHER -> "complete")
      /\ UNCHANGED peeking

(* Mutant: whatever follows the data of a chunk is taken for its end.      *)
EndsChunk_Any(c) == TRUE

EndsChunk(c) == c = "LF"

(* At dechunk_crlf, behind the data of a chunk.                            *)
EndChunk ==
  LET stop == Skip(is_space_octet, ptr)
  IN  /\ pc = "dechunk_crlf"
      /\ \/ /\ stop = end
            /\ ptr' = stop
            /\ Goto("feedme_more")
            /\ UNCHANGED htrd
         \/ /\ stop < end /\ EndsChunk(scn.stream[stop + 1])
            /\ ptr' = stop + 1
            /\ htrd' = NewChunk(htrd)
            /\ Goto(IF stop + 1 < end THEN "dechunk_resume" ELSE "feedme_more")
         \/ /\ stop < end /\ ~ EndsChunk(scn.stream[stop + 1])
            /\ ptr' = stop
            /\ Goto("failed")
            /\ UNCHANGED htrd
      /\ UNCHANGED <<peeking, re, seen>>

-----------------------------------------------------------------------------
(* Telling the user.                                                       *)

(* The content has been received fully.                                    *)
Complete ==
  /\ pc = "complete"
  /\ CompleteContent
  /\ Goto(IF peeking THEN "peek" ELSE "poke")
  /\ UNCHANGED <<ptr, peeking, htrd>>

(* Mutant: a head read in this call is peeked at again after the message.  *)
PeekDone_Again == peeking

PeekDone == FALSE

(* recbs->peek().  A user takes the content as it comes (`stream', as      *)
(* proxy and CGI tasks do), leaves it in the buffer until the message is   *)
(* complete, or discards it.  It asks for another protocol if there is no  *)
(* more content to come, or fails.                                         *)
Peek(policy) ==
  /\ pc \in {"peek", "feedme_more"} /\ peeking
  /\ policy = "upgrade" => scn.option = "request" /\ re.state = "COMPLETED"
  /\ seen' = [seen EXCEPT !.messages = Append(@, [NewlySeen EXCEPT
                 !.policy = policy,
                 !.content = IF policy = "stream" THEN re.content ELSE <<>>,
                 !.ends = IF policy = "stream" /\ re.state = "COMPLETED" THEN 1 ELSE 0])]
  /\ re' = CASE policy = "stream" /\ re.state = "open" -> [re EXCEPT !.concb = "content"]
             [] policy = "discard" /\ re.state = "open" ->
                  [re EXCEPT !.state = "DISCARDED", !.content = <<>>]
             [] policy = "upgrade" -> [re EXCEPT !.concb = "raw"]
             [] OTHER -> re
  /\ htrd' = IF policy = "upgrade"
             THEN [htrd EXCEPT !.suspended = TRUE, !.dummified = TRUE] ELSE htrd
  /\ peeking' = PeekDone
  /\ Goto(CASE policy = "fail" -> "failed"
            [] policy # "fail" /\ pc = "peek" -> "poke"
            [] OTHER -> "idle")
  /\ UNCHANGED ptr

(* feedme_more, if the head had been read before.                          *)
FeedmeMore ==
  /\ pc = "feedme_more" /\ ~ peeking
  /\ Goto("idle")
  /\ UNCHANGED <<ptr, peeking, htrd, re, seen>>

(* recbs->poke().  After CONNECT whatever follows is data.                 *)
Poke(answer) ==
  /\ pc = "poke"
  /\ answer = "connect" => scn.option = "request" /\ ~ htrd.suspended
  /\ LET m == seen.messages[Latest]
     IN  seen' = [seen EXCEPT !.messages[Latest] = [m EXCEPT
                    !.poked = m.poked + 1,
                    !.policy = IF answer = "fail" THEN "fail" ELSE m.policy,
                    !.trailers = re.trailers,
                    !.content = IF m.policy = "keep" THEN re.content ELSE m.content]]
  /\ re' = IF answer = "connect" THEN [re EXCEPT !.concb = "raw"] ELSE re
  /\ htrd' = IF answer = "connect" THEN [htrd EXCEPT !.dummified = TRUE] ELSE htrd
  /\ Goto(IF answer = "fail" THEN "failed" ELSE "clear")
  /\ UNCHANGED <<ptr, peeking>>

Fresh == [crlf |-> 0, raw |-> <<>>, tra |-> <<>>, phase |-> "DONE", len |-> 0, count |-> 0,
          need |-> 0, until_close |-> FALSE, clean |-> TRUE,
          suspended |-> FALSE, dummified |-> FALSE]

(* Mutant: the trailers read are not cleared with the rest.                *)
Cleared_KeepsTrailers(x) ==
  [Fresh EXCEPT !.tra = x.tra, !.suspended = x.suspended, !.dummified = x.dummified]

(* clear_feed()                                                            *)
Cleared(x) == [Fresh EXCEPT !.suspended = x.suspended, !.dummified = x.dummified]

clear_feed ==
  /\ pc = "clear"
  /\ ClearMessage
  /\ UNCHANGED <<scn, end, peeking>>
  /\ \/ /\ ptr >= end
        /\ htrd' = Cleared(htrd)
        /\ pc' = "idle"
        /\ UNCHANGED <<ptr, req, seen>>
     \/ /\ ptr < end /\ htrd.suspended
        /\ htrd' = Cleared(htrd)
        /\ pc' = "failed"
        /\ UNCHANGED <<ptr, req, seen>>
     \/ /\ ptr < end /\ ~ htrd.suspended /\ htrd.dummified
        /\ htrd' = Cleared(htrd)
        /\ seen' = [seen EXCEPT !.raw = @ \o Octets(ptr, end)]
        /\ ptr' = end
        /\ pc' = "idle"
        /\ UNCHANGED req
     \/ /\ ptr < end /\ ~ htrd.suspended /\ ~ htrd.dummified
        /\ htrd' = [Cleared(htrd) EXCEPT !.clean = FALSE]
        /\ req' = ptr
        /\ pc' = "header"
        /\ UNCHANGED <<ptr, seen>>

-----------------------------------------------------------------------------
(* The calls.                                                              *)

Init ==
  /\ scn \in Scenarios
  /\ pc = "idle"
  /\ ptr = 0 /\ req = 0 /\ end = 0
  /\ peeking = FALSE
  /\ htrd = Fresh
  /\ re = NoMessage
  /\ seen = [messages |-> <<>>, raw |-> <<>>]

Peeked == scn.option = "peekonly" /\ re.state = "COMPLETED"

(* qse_htrd_feed() with the next n characters, to the first label.  A      *)
(* piece in memory is shorter than the largest qse_size_t.                 *)
Feed(n) ==
  /\ pc = "idle" /\ ~ Peeked
  /\ ptr + n <= Len(scn.stream) /\ n < SIZE_RANGE - 1
  /\ \A p \in (ptr + 1)..(ptr + n) : scn.stream[p] # "EOF"
  /\ end' = ptr + n
  /\ req' = ptr
  /\ peeking' = FALSE
  /\ UNCHANGED scn
  /\ \/ /\ htrd.suspended
        /\ pc' = "failed"
        /\ UNCHANGED <<ptr, htrd, re, seen>>
     \/ /\ ~ htrd.suspended /\ htrd.dummified
        /\ AddContent(Octets(ptr, ptr + n))
        /\ ptr' = ptr + n
        /\ pc' = "idle"
        /\ UNCHANGED htrd
     \/ /\ ~ htrd.suspended /\ ~ htrd.dummified
        /\ pc' = CASE htrd.need > 0 -> "content_resume"
                   [] htrd.need = 0 /\ htrd.phase = "LEN" -> "dechunk_resume"
                   [] htrd.need = 0 /\ htrd.phase = "CRLF" -> "dechunk_crlf"
                   [] htrd.need = 0 /\ htrd.phase = "TRAILERS" -> "dechunk_get_trailers"
                   [] OTHER -> "header"
        /\ htrd' = IF pc' = "header" THEN [htrd EXCEPT !.clean = FALSE] ELSE htrd
        /\ UNCHANGED <<ptr, re, seen>>

(* qse_htrd_halt(), called when the peer closes after a reply that extends *)
(* to the end of the stream.                                               *)
Halt ==
  /\ pc = "idle" /\ ptr < Len(scn.stream) /\ scn.stream[ptr + 1] = "EOF"
  /\ htrd.until_close \/ ~ htrd.clean
  /\ CompleteContent
  /\ ptr' = ptr + 1 /\ end' = ptr + 1
  /\ peeking' = FALSE
  /\ pc' = "poke"
  /\ UNCHANGED <<scn, req, htrd>>

(* The peer answers to the request to upgrade; see proxy_htrd_peek_peer_output. *)
Resume(granted) ==
  /\ pc = "idle" /\ htrd.suspended
  /\ htrd' = [htrd EXCEPT !.suspended = FALSE, !.dummified = granted]
  /\ re' = IF granted THEN re ELSE [re EXCEPT !.concb = "none"]
  /\ UNCHANGED <<scn, locals, seen>>

Done ==
  /\ pc = "failed" \/ (pc = "idle" /\ (ptr = Len(scn.stream) \/ Peeked))
  /\ UNCHANGED vars

Next ==
  \/ \E n \in 1..(Len(scn.stream) - ptr) : Feed(n)
  \/ RejectNull \/ ReadPartOfHead \/ ReadHead
  \/ GetChunkLen \/ GetTrailers \/ ReadContent \/ EndChunk
  \/ Complete \/ FeedmeMore \/ clear_feed \/ Halt
  \/ \E policy \in Policies : Peek(policy)
  \/ \E answer \in {"go", "connect", "fail"} : Poke(answer)
  \/ \E granted \in BOOLEAN : Resume(granted)
  \/ Done

Spec == Init /\ [][Next]_vars

-----------------------------------------------------------------------------
(* What is true between two calls.                                         *)

HeadsRead == {i \in DOMAIN scn.messages : scn.messages[i].head <= ptr}
FullyRead == {i \in DOMAIN scn.messages : scn.messages[i].end <= ptr}
IsHttp == scn.option # "peekonly" /\ ~ htrd.dummified

(* After any call of qse_htrd_feed() that succeeded the user has peeked    *)
(* exactly once at every message whose head has been fed, and been poked   *)
(* exactly once with every message that is complete, wherever the stream   *)
(* was cut: a message is neither delayed nor told twice.                   *)
ToldOnceInTime ==
  pc = "idle" /\ IsHttp =>
    /\ Latest = Cardinality(HeadsRead)
    /\ \A i \in 1..Latest : seen.messages[i].poked = IF i \in FullyRead THEN 1 ELSE 0

(* What a user has got of a message depends on what was sent, not on how   *)
(* it was cut into feeds: all of the content in order and one end, the     *)
(* trailers of this message only, and after a change of protocol all that  *)
(* follows as it is.  A reader of heads only hands over what came with the *)
(* head.                                                                   *)
ContentIsExact ==
  pc = "idle" =>
    /\ scn.option = "peekonly" =>
         \A i \in 1..Latest : seen.messages[i].policy = "stream" =>
           seen.messages[i].content = Octets(scn.messages[i].head, ptr)
    /\ scn.option # "peekonly" => \A i \in 1..Latest :
         LET m == seen.messages[i] sent == scn.messages[i]
         IN  IF m.poked = 1
             THEN /\ m.trailers = sent.trailers
                  /\ m.policy \in {"stream", "keep"} => m.content = sent.content
                  /\ m.ends = IF m.policy = "stream" THEN 1 ELSE 0
             ELSE /\ m.policy = "stream" => IsPrefix(m.content, sent.content)
                  /\ m.ends = 0
    /\ seen.raw = IF htrd.dummified /\ ~ htrd.suspended
                  THEN Octets(scn.messages[Latest].end, ptr) ELSE <<>>

(* The reader refuses what is malformed wherever it is cut, and nothing    *)
(* else: it fails only behind the well-formed messages of the stream, when *)
(* its user fails, or when it is fed while suspended.                      *)
RefusesTheMalformed ==
  /\ pc = "failed" =>
       \/ /\ scn.malformed
          /\ \A i \in DOMAIN scn.messages : scn.messages[i].end <= Len(scn.stream) =>
               i <= Latest /\ seen.messages[i].poked = 1
       \/ htrd.suspended
       \/ Latest > 0 /\ seen.messages[Latest].policy = "fail"
  /\ pc = "idle" /\ IsHttp /\ scn.malformed => ptr < Len(scn.stream)

-----------------------------------------------------------------------------
(* The same stream read in one go, a character at a time, without a buffer *)
(* or a position that must be saved between two feeds.  `any' stands for a *)
(* place behind which the division into feeds does matter to the code: the *)
(* rest of a feed behind a reply that has neither length nor end, a digit  *)
(* behind the spaces behind the length of a chunk, and an end of stream    *)
(* that is not the end of a reply.                                         *)

UncutStart == [mode |-> "head", from |-> 0, crlf |-> 0, len |-> 0, count |-> 0,
               need |-> 0, chunk |-> FALSE, heads |-> 0]

EndOfMessage(u, p) == [u EXCEPT !.mode = "head", !.from = p, !.crlf = 0]
StartOfChunk(u) == [u EXCEPT !.mode = "LEN", !.len = 0, !.count = 0]
Refuse(u) == [u EXCEPT !.mode = "refused"]
Undecided(u) == [u EXCEPT !.mode = "any"]

(* Behind the empty line of a head.                                        *)
HeadOf(s, u, p) ==
  LET h == parse_initial_line_and_headers(s.option, SubSeq(s.stream, u.from + 1, p))
      v == [u EXCEPT !.heads = @ + 1]
      framing == Framing(s.option, h)
  IN  CASE h.bad -> Refuse(u)
        [] ~ h.bad /\ framing = "chunked" -> StartOfChunk(v)
        [] ~ h.bad /\ framing = "length" ->
             IF h.length = 0 THEN EndOfMessage(v, p)
             ELSE [v EXCEPT !.mode = "data", !.need = h.length, !.chunk = FALSE]
        [] ~ h.bad /\ framing = "close" -> [v EXCEPT !.mode = "close"]
        [] ~ h.bad /\ framing = "none" -> [v EXCEPT !.mode = "none"]

UncutHead(s, u, p) ==
  LET crlf == NextCrlf(u.crlf, s.stream[p])
  IN  IF s.stream[p] = "NUL" THEN Refuse(u)
      ELSE IF crlf = 4 THEN HeadOf(s, u, p) ELSE [u EXCEPT !.crlf = crlf]

UncutTrailers(s, u, p) ==
  LET crlf == NextCrlf(u.crlf, s.stream[p])
  IN  IF s.stream[p] = "NUL" THEN Refuse(u)
      ELSE IF crlf < 4 THEN [u EXCEPT !.crlf = crlf]
      ELSE IF AllFields(SubSeq(s.stream, u.from + 1, p)) THEN EndOfMessage(u, p)
      ELSE Refuse(u)

UncutData(u, p) ==
  IF u.need > 1 THEN [u EXCEPT !.need = @ - 1]
  ELSE IF u.chunk THEN [u EXCEPT !.mode = "CRLF", !.need = 0]
  ELSE EndOfMessage(u, p)

EndOfChunkLen(u, p) ==
  IF u.count = 0 THEN EndOfMessage(u, p)
  ELSE IF u.len = 0 THEN [u EXCEPT !.mode = "TRAILERS", !.crlf = 2, !.from = p]
  ELSE [u EXCEPT !.mode = "data", !.need = u.len, !.chunk = TRUE]

UncutLen(u, c, p) ==
  CASE c \in xdigit -> IF u.mode = "LEN"
                       THEN [u EXCEPT !.count = @ + 1, !.len = AddDigit(@, c)] ELSE Undecided(u)
    [] c \in is_space_octet -> IF u.count = 0 THEN u ELSE [u EXCEPT !.mode = "LENSP"]
    [] c = "LF" -> EndOfChunkLen(u, p)
    [] OTHER -> Refuse(u)

UncutCrlf(u, c) ==
  CASE c \in is_space_octet -> u
    [] c = "LF" -> StartOfChunk(u)
    [] OTHER -> Refuse(u)

UncutStep(s, u, p) ==
  CASE u.mode \in {"any", "refused"} -> u
    [] u.mode = "none" -> Undecided(u)
    [] u.mode = "close" -> IF s.stream[p] = "EOF" THEN EndOfMessage(u, p) ELSE u
    [] u.mode \notin {"any", "refused", "none", "close"} /\ s.stream[p] = "EOF" -> Undecided(u)
    [] u.mode = "head" /\ s.stream[p] # "EOF" -> UncutHead(s, u, p)
    [] u.mode \in {"LEN", "LENSP"} /\ s.stream[p] # "EOF" -> UncutLen(u, s.stream[p], p)
    [] u.mode = "data" /\ s.stream[p] # "EOF" -> UncutData(u, p)
    [] u.mode = "CRLF" /\ s.stream[p] # "EOF" -> UncutCrlf(u, s.stream[p])
    [] u.mode = "TRAILERS" /\ s.stream[p] # "EOF" -> UncutTrailers(s, u, p)

Uncut(s) ==
  LET u[p \in 0..Len(s.stream)] ==
        IF p = 0 THEN UncutStart ELSE UncutStep(s, u[p - 1], p)
  IN  u

(* However the stream is divided into feeds, the reader does what it would *)
(* do if it were not divided: after any call that succeeded the user has   *)
(* peeked once at every message whose head has been read and been poked    *)
(* once with those that are over, and a call fails only if the stream, up  *)
(* to the end of what was fed, has a character at which it is refused, or  *)
(* if its user fails, or suspended it.                                     *)
ReadsAsIfUncut ==
  LET u == Uncut(scn)[ptr]
  IN  scn.option # "peekonly" =>
        /\ pc = "idle" /\ (htrd.dummified => htrd.suspended) /\ u.mode # "any" =>
             /\ u.mode # "refused"
             /\ Latest = u.heads
             /\ \A i \in 1..Latest : seen.messages[i].poked =
                  IF i < Latest \/ u.mode \in {"head", "none"} THEN 1 ELSE 0
        /\ pc = "failed" =>
             \/ Uncut(scn)[end].mode \in {"refused", "any"}
             \/ htrd.suspended
             \/ Latest > 0 /\ seen.messages[Latest].policy = "fail"

(* What message i has at its places of some modes, up to each position of  *)
(* the stream: its content, and its trailers with their line ends.         *)
Takes(u, i, modes, c) == u.heads = i /\ u.mode \in modes /\ c # "EOF"

UncutPart(s, i, modes) ==
  LET u == Uncut(s)
      part[p \in 0..Len(s.stream)] ==
        IF p = 0 THEN <<>>
        ELSE IF Takes(u[p - 1], i, modes, s.stream[p]) THEN part[p - 1] \o <<s.stream[p]>>
        ELSE part[p - 1]
  IN  part

UncutContent(s, i) == UncutPart(s, i, {"data", "close"})

TrailersOf(tra) == IF tra = <<>> THEN <<>> ELSE SelectSeq(Fields(tra), LAMBDA c : c = "field")

(* However the stream is divided into feeds, after any qse_htrd_feed()     *)
(* that succeeded a user that takes content as it comes has got all of it  *)
(* that has been fed, and its end if there is no more, a user that leaves  *)
(* it in the buffer has got all of it with the message that is complete:   *)
(* no octet of framing, none twice, and none of another message.  So it is *)
(* with the fields behind the last chunk.                                  *)
ContentAsIfUncut ==
  scn.option # "peekonly" /\ pc = "idle" /\ (htrd.dummified => htrd.suspended)
    /\ Uncut(scn)[ptr].mode # "any" =>
      \A i \in 1..Latest :
        LET m == seen.messages[i]
            isOver == m.poked = 1
        IN  /\ m.policy = "stream" \/ (m.policy = "keep" /\ isOver) =>
                 m.content = UncutContent(scn, i)[ptr]
            /\ isOver => m.trailers = TrailersOf(UncutPart(scn, i, {"TRAILERS"})[ptr])
            /\ m.ends = IF m.policy = "stream" /\ isOver THEN 1 ELSE 0

=============================================================================
