------------------------------- MODULE MCHtrd -------------------------------
(***************************************************************************)
(* Streams for Htrd: one or two messages of each kind of framing, and      *)
(* streams with something malformed in them.  Every division of a stream   *)
(* into feeds is explored.                                                 *)
(***************************************************************************)
EXTENDS Htrd

(* A message as it is sent: head and body, and what they mean.             *)
Message(head, body, content, trailers) ==
  [head |-> head \o <<"LF">>, body |-> body, content |-> content, trailers |-> trailers]

Get(fields) == <<"GET", "LF">> \o fields
Reply(fields) == <<"HTTP/1.1", "CR", "LF">> \o fields

Plain == Message(Get(<<"field", "LF">>), <<>>, <<>>, <<>>)
Sized == Message(Get(<<"length3", "LF">>), <<"a", "LF", "LF">>, <<"a", "LF", "LF">>, <<>>)
Chunked == Message(Get(<<"chunked", "LF">>),
                   <<"SP", "0", "2", "SP", "CR", "LF", "a", "LF", "LF",
                     "1", "LF", "b", "CR", "LF", "0", "LF", "field", "LF", "LF">>,
                   <<"a", "LF", "b">>, <<"field">>)
EmptyLineEnds == Message(Get(<<"chunked", "LF">>), <<"1", "0", "LF">> \o [i \in 1..16 |-> "a"]
                                                   \o <<"LF", "LF">>,
                         [i \in 1..16 |-> "a"], <<>>)
NoChunks == Message(Reply(<<"chunked", "CR", "LF", "CR">>), <<"0", "CR", "LF", "CR", "LF">>,
                    <<>>, <<>>)
SizedReply == Message(Reply(<<"length2", "CR", "LF", "CR">>), <<"a", "b">>, <<"a", "b">>, <<>>)
Unsized == Message(Reply(<<"field", "LF">>), <<>>, <<>>, <<>>)
UntilClose == Message(Reply(<<"close", "LF">>), <<"a", "LF", "LF", "EOF">>,
                      <<"a", "LF", "LF">>, <<>>)
OldKept == Message(<<"HTTP/1.0", "LF", "keep-alive", "LF">>, <<>>, <<>>, <<>>)
Old == Message(<<"HTTP/1.0", "LF">>, <<"EOF">>, <<>>, <<>>)
CgiOutput == Message(<<"field", "LF">>, <<"a", "LF", "LF", "b">>, <<"a", "LF", "LF", "b">>, <<>>)

(* Messages that go wrong in their body, and heads that are refused.       *)
BadLength == Message(Get(<<"chunked", "LF">>), <<"1", "x", "LF">>, <<>>, <<>>)
BadChunk == Message(Get(<<"chunked", "LF">>), <<"1", "LF", "a", "b", "LF">>, <<"a">>, <<>>)
BadTrailer == Message(Get(<<"chunked", "LF">>), <<"0", "LF", "x", "LF", "LF">>, <<>>, <<>>)
NullTrailer == Message(Get(<<"chunked", "LF">>), <<"0", "LF", "NUL">>, <<>>, <<>>)

Sent(m) == m.head \o m.body
SizeUpTo(msgs, i) == Len(FlattenSeq([j \in 1..i |-> Sent(msgs[j])]))

(* The stream of some messages, and of a tail that is refused.  A message  *)
(* that is bad has no end.                                                 *)
Scenario(option, msgs, tail, isBad) ==
  LET stream == FlattenSeq([i \in DOMAIN msgs |-> Sent(msgs[i])]) \o tail
  IN  [option |-> option, stream |-> stream, malformed |-> isBad \/ tail # <<>>,
       messages |-> [i \in DOMAIN msgs |->
         [head |-> SizeUpTo(msgs, i - 1) + Len(msgs[i].head),
          end |-> IF isBad /\ i = Len(msgs) THEN Len(stream) + 1 ELSE SizeUpTo(msgs, i),
          content |-> msgs[i].content, trailers |-> msgs[i].trailers]]]

MCScenarios ==
  {Scenario("request", msgs, <<>>, FALSE) :
     msgs \in {<<Sized, Plain>>, <<Plain, Sized>>, <<Chunked, Plain>>, <<Plain, Chunked>>,
               <<EmptyLineEnds, Plain>>, <<Chunked, Chunked>>}}
  \union
  {Scenario("response", msgs, <<>>, FALSE) :
     msgs \in {<<NoChunks, SizedReply>>, <<SizedReply, NoChunks>>, <<NoChunks, Unsized>>, <<SizedReply, OldKept>>,
               <<SizedReply, UntilClose>>, <<Old>>}}
  \union {Scenario("peekonly", <<CgiOutput>>, <<>>, FALSE)}
  \union
  {Scenario("request", <<Plain, m>>, <<>>, TRUE) :
     m \in {BadLength, BadChunk, BadTrailer, NullTrailer}}
  \union
  {Scenario("request", <<Sized>>, tail, FALSE) :
     tail \in {<<"x", "LF", "LF">>, <<"LF", "LF">>, <<"GET", "NUL">>,
               Get(<<"length2", "LF", "chunked", "LF", "LF">>),
               Get(<<"chunked", "LF", "length2", "LF", "LF">>)}}

MCPolicies == {"keep", "stream", "discard", "upgrade", "fail"}

=============================================================================
