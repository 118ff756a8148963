---------------------------- MODULE MCHttpdProxy ----------------------------
(* Requests for HttpdProxy: one by one, and two on one connection.         *)
EXTENDS HttpdProxy

Plain == [raw |-> FALSE, head |-> FALSE, v11 |-> TRUE, expect |-> FALSE, waits |-> TRUE,
          pieces |-> 0, chunked |-> FALSE, interim |-> <<>>, reply |-> "length",
          size |-> 1, early |-> FALSE]
Get(reply, size) == [Plain EXCEPT !.reply = reply, !.size = size]
Old(reply, size) == [Get(reply, size) EXCEPT !.v11 = FALSE]
HeadOf(reply) == [Get(reply, 0) EXCEPT !.head = TRUE]
Post(pieces, reply, size) == [Get(reply, size) EXCEPT !.pieces = pieces]
Expecting == [Post(1, "chunked", 2) EXCEPT !.expect = TRUE, !.interim = <<"100">>]
Early == [Post(2, "length", 2) EXCEPT !.early = TRUE]
Raw == [Plain EXCEPT !.raw = TRUE, !.pieces = 2, !.size = 2]

OneByOne ==
  {<<q>> : q \in {Get("chunked", 3), Get("close", 3), Old("close", 3), Old("length", 3),
                  Expecting, Early, Raw, [Post(2, "length", 2) EXCEPT !.chunked = TRUE]}}
TwoInARow ==
  {<<q, r>> : q \in {Get("length", 2), Get("chunked", 1), Get("close", 1), Get("none", 0),
                     HeadOf("chunked"), HeadOf("close"), Post(1, "length", 0), Early},
              r \in {Get("length", 1), Post(1, "chunked", 1)}}

(* A reply to HEAD that says how long the content would be, a client that  *)
(* does not wait for the "100 Continue" it asks for, and an interim reply  *)
(* that has not been asked for.                                            *)
SizedHead == [Plain EXCEPT !.head = TRUE]
Impatient == [Expecting EXCEPT !.waits = FALSE, !.reply = "length", !.size = 1]
Hints == [Plain EXCEPT !.interim = <<"103">>]
Awkward ==
  {<<q>> : q \in {SizedHead, Impatient, [Impatient EXCEPT !.reply = "none", !.size = 0]}}
  \union {<<Get("length", 1), Impatient>>, <<Hints, Plain>>, <<Hints, Get("chunked", 1)>>}

MCScenarios == OneByOne \union TwoInARow \union Awkward
=============================================================================
