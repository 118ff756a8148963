----------------------------- MODULE HtrdProofs -----------------------------
(***************************************************************************)
(* Proofs about Htrd: the reader does with a stream cut into feeds what it *)
(* does with the stream as a whole, and finds the same content in it.      *)
(***************************************************************************)
EXTENDS Htrd, SequenceTheorems, WellFoundedInduction, TLAPS

-----------------------------------------------------------------------------
(* Intervals and functions defined along them.                             *)

(* A non-empty set of natural numbers has a least member.                  *)
LEMMA LeastExists ==
  ASSUME NEW S \in SUBSET Nat, S # {}
  PROVE  Min(S) \in S /\ \A k \in S : Min(S) <= k
<1>1. PICK m \in S : \A y \in S : ~ (<<y, m>> \in OpToRel(<, Nat))
  BY NatLessThanWellFounded, WFMin
<1>2. \A y \in S : ~ (y < m)
  BY <1>1 DEF OpToRel
<1>3. m \in S /\ \A k \in S : m <= k
  BY <1>2
<1> QED
  BY <1>3 DEF Min

(* Induction along an interval of positions, for a set of positions.       *)
LEMMA Along ==
  ASSUME NEW lo \in Nat, NEW hi \in Nat, NEW T, lo \in T,
         \A p \in (lo + 1)..hi : p - 1 \in T => p \in T
  PROVE  \A p \in lo..hi : p \in T
<1> DEFINE S == {p \in lo..hi : p \notin T}
<1> SUFFICES ASSUME S # {} PROVE FALSE
  OBVIOUS
<1>1. S \in SUBSET Nat
  OBVIOUS
<1> DEFINE m == Min(S)
<1>2. m \in S /\ \A k \in S : m <= k
  BY <1>1, LeastExists
<1> HIDE DEF m
<1>3. m # lo
  BY <1>2
<1>4. m \in (lo + 1)..hi /\ m - 1 \in lo..hi /\ m - 1 < m
  BY <1>2, <1>3
<1>5. m - 1 \in T
  BY <1>2, <1>4
<1> QED
  BY <1>2, <1>4, <1>5

(* f is what starts with a and goes on by g from one position to the next. *)
Runs(f, lo, hi, S, a, g) ==
  /\ f \in [lo..hi -> S]
  /\ f[lo] = a
  /\ \A p \in (lo + 1)..hi : f[p] = g[<<p, f[p - 1]>>]

(* There is such a function.                                               *)
LEMMA RunExists ==
  ASSUME NEW lo \in Nat, NEW hi \in Nat, lo <= hi, NEW S, NEW a \in S,
         NEW g \in [(lo..hi) \X S -> S]
  PROVE  \E f : Runs(f, lo, hi, S, a, g)
<1> DEFINE T == {p \in lo..hi : \E f : Runs(f, lo, p, S, a, g)}
<1>1. lo \in T
  <2> DEFINE f == [p \in lo..lo |-> a]
  <2>1. Runs(f, lo, lo, S, a, g)
    BY DEF Runs
  <2> QED
    BY <2>1
<1>2. ASSUME NEW p \in (lo + 1)..hi, p - 1 \in T PROVE p \in T
  <2>1. PICK f : Runs(f, lo, p - 1, S, a, g)
    BY <1>2
  <2> DEFINE e == [q \in lo..p |-> IF q = p THEN g[<<p, f[p - 1]>>] ELSE f[q]]
  <2>2. p - 1 \in lo..(p - 1) /\ p \in lo..hi /\ lo \in lo..(p - 1)
    OBVIOUS
  <2>3. f[p - 1] \in S
    BY <2>1, <2>2 DEF Runs
  <2>4. g[<<p, f[p - 1]>>] \in S
    BY <2>2, <2>3
  <2>5. e \in [lo..p -> S]
    <3>1. \A q \in lo..p : q # p => q \in lo..(p - 1)
      OBVIOUS
    <3> QED
      BY <2>1, <2>4, <3>1 DEF Runs
  <2>6. e[lo] = a
    BY <2>1, <2>2 DEF Runs
  <2>7. ASSUME NEW q \in (lo + 1)..p PROVE e[q] = g[<<q, e[q - 1]>>]
    <3>1. q - 1 \in lo..p /\ q - 1 # p /\ q \in lo..p
      OBVIOUS
    <3>2. e[q - 1] = f[q - 1]
      BY <3>1
    <3>3. CASE q = p
      BY <3>1, <3>2, <3>3
    <3>4. CASE q # p
      <4>1. q \in (lo + 1)..(p - 1)
        BY <3>4
      <4>2. f[q] = g[<<q, f[q - 1]>>]
        BY <2>1, <4>1 DEF Runs
      <4> QED
        BY <3>1, <3>2, <3>4, <4>2
    <3> QED
      BY <3>3, <3>4
  <2> HIDE DEF e
  <2>8. Runs(e, lo, p, S, a, g)
    BY <2>5, <2>6, <2>7 DEF Runs
  <2> QED
    BY <2>2, <2>8
<1> HIDE DEF T
<1>3. hi \in T
  BY <1>1, <1>2, Along
<1> QED
  BY <1>3 DEF T

-----------------------------------------------------------------------------
(* Pieces of a stream.                                                     *)

(* Pieces that follow one another are one piece.                           *)
LEMMA Pieces ==
  ASSUME NEW s \in Seq(STRING), NEW i \in Nat, NEW j \in Nat, NEW k \in Nat,
         i <= j, j <= k, k <= Len(s)
  PROVE  /\ SubSeq(s, i + 1, j) \in Seq(STRING)
         /\ SubSeq(s, i + 1, j) \o SubSeq(s, j + 1, k) = SubSeq(s, i + 1, k)
         /\ SubSeq(s, i + 1, i) = <<>>
<1>1. \A n \in (i + 1)..j : s[n] \in STRING
  <2>1. DOMAIN s = 1..Len(s) /\ \A n \in 1..Len(s) : s[n] \in STRING
    OBVIOUS
  <2> QED
    BY <2>1
<1>2. SubSeq(s, i + 1, j) \in Seq(STRING)
  <2>1. i + 1 \in Int /\ j \in Int
    OBVIOUS
  <2> QED
    BY <1>1, <2>1, SubSeqProperties
<1>3. SubSeq(s, i + 1, j) \o SubSeq(s, j + 1, k) = SubSeq(s, i + 1, k)
  <2>1. i + 1 \in 1..(Len(s) + 1) /\ j \in ((i + 1) - 1)..Len(s) /\ k \in j..Len(s)
    OBVIOUS
  <2> QED
    BY <2>1, ConcatAdjacentSubSeq
<1>4. SubSeq(s, i + 1, i) = <<>>
  <2>1. i + 1 \in Int /\ i \in Int /\ i < i + 1
    OBVIOUS
  <2> QED
    BY <2>1, SubSeqEmpty
<1> QED
  BY <1>2, <1>3, <1>4

(* A piece has a character if it is at one of its positions.               *)
LEMMA PieceContains ==
  ASSUME NEW s \in Seq(STRING), NEW i \in Nat, NEW j \in Nat, i <= j, j <= Len(s), NEW c
  PROVE  Contains(SubSeq(s, i + 1, j), c) <=> \E p \in (i + 1)..j : s[p] = c
<1>1. \A n \in (i + 1)..j : s[n] \in STRING
  <2>1. DOMAIN s = 1..Len(s) /\ \A n \in 1..Len(s) : s[n] \in STRING
    OBVIOUS
  <2> QED
    BY <2>1
<1> DEFINE t == SubSeq(s, i + 1, j)
<1>2. /\ Len(t) = IF i + 1 <= j THEN j - (i + 1) + 1 ELSE 0
      /\ \A k \in 1..(j - (i + 1) + 1) : t[k] = s[i + 1 + k - 1]
  <2>1. i + 1 \in Int /\ j \in Int
    OBVIOUS
  <2> QED
    BY <1>1, <2>1, SubSeqProperties
<1>3. Len(t) = j - i
  BY <1>2
<1>4. \A k \in 1..(j - i) : t[k] = s[i + k]
  <2>1. ASSUME NEW k \in 1..(j - i) PROVE t[k] = s[i + k]
    <3>1. k \in 1..(j - (i + 1) + 1) /\ i + 1 + k - 1 = i + k
      OBVIOUS
    <3> QED
      BY <1>2, <3>1
  <2> QED
    BY <2>1
<1> HIDE DEF t
<1>5. ASSUME NEW k \in 1..Len(t), t[k] = c PROVE \E p \in (i + 1)..j : s[p] = c
  <2>1. i + k \in (i + 1)..j
    BY <1>3
  <2> QED
    BY <1>3, <1>4, <1>5, <2>1
<1>6. ASSUME NEW p \in (i + 1)..j, s[p] = c PROVE \E k \in 1..Len(t) : t[k] = c
  <2>1. p - i \in 1..(j - i) /\ i + (p - i) = p
    OBVIOUS
  <2>2. t[p - i] = s[p]
    BY <1>4, <2>1
  <2> QED
    BY <1>3, <1>6, <2>1, <2>2
<1> QED
  BY <1>5, <1>6 DEF Contains, t

-----------------------------------------------------------------------------
(* What the functions of the model are, position by position.              *)

HeadType == [flags : SUBSET {"KEEPALIVE", "CHUNKED", "LENGTH"}, length : Nat, bad : BOOLEAN]

(* A field leaves a well-formed description of the head.                   *)
LEMMA CaptureType ==
  ASSUME NEW h \in HeadType, NEW field
  PROVE  Capture(h, field) \in HeadType
<1>1. h = [flags |-> h.flags, length |-> h.length, bad |-> h.bad]
      /\ h.flags \in SUBSET {"KEEPALIVE", "CHUNKED", "LENGTH"} /\ h.length \in Nat
      /\ h.bad \in BOOLEAN
  BY DEF HeadType
<1>2. field \in DOMAIN ContentLength => ContentLength[field] \in Nat
  BY DEF ContentLength
<1>3. h.flags \ {"KEEPALIVE"} \in SUBSET {"KEEPALIVE", "CHUNKED", "LENGTH"}
      /\ h.flags \union {"KEEPALIVE"} \in SUBSET {"KEEPALIVE", "CHUNKED", "LENGTH"}
      /\ h.flags \union {"CHUNKED"} \in SUBSET {"KEEPALIVE", "CHUNKED", "LENGTH"}
      /\ h.flags \union {"LENGTH"} \in SUBSET {"KEEPALIVE", "CHUNKED", "LENGTH"}
  BY <1>1
<1>4. ASSUME NEW b \in BOOLEAN PROVE [h EXCEPT !.bad = b] \in HeadType
  BY DEF HeadType
<1>5. ASSUME NEW f \in SUBSET {"KEEPALIVE", "CHUNKED", "LENGTH"}
      PROVE [h EXCEPT !.flags = f] \in HeadType
  BY DEF HeadType
<1>6. ASSUME NEW f \in SUBSET {"KEEPALIVE", "CHUNKED", "LENGTH"}, NEW n \in Nat
      PROVE [h EXCEPT !.flags = f, !.length = n] \in HeadType
  BY DEF HeadType
<1>7. CASE field = "close"
  BY <1>3, <1>5, <1>7 DEF Capture, ContentLength
<1>8. CASE field = "keep-alive"
  BY <1>3, <1>5, <1>8 DEF Capture, ContentLength
<1>9. CASE field = "chunked"
  BY <1>3, <1>4, <1>5, <1>9 DEF Capture, ContentLength
<1>10. CASE field \in DOMAIN ContentLength
  <2>1. field \notin {"close", "keep-alive", "chunked"}
    BY <1>10 DEF ContentLength
  <2> QED
    BY <1>2, <1>3, <1>4, <1>6, <1>10, <2>1 DEF Capture
<1>11. CASE field = "field"
  BY <1>11 DEF Capture, ContentLength
<1>12. CASE field \notin {"close", "keep-alive", "chunked", "field"} /\ field \notin DOMAIN ContentLength
  BY <1>4, <1>12 DEF Capture
<1> QED
  BY <1>7, <1>8, <1>9, <1>10, <1>11, <1>12

(* The head that is parsed has a length that is a number.                  *)
LEMMA ParseType ==
  ASSUME NEW option, NEW raw \in Seq(STRING)
  PROVE  parse_initial_line_and_headers(option, raw) \in HeadType
<1> DEFINE start == Min({i \in DOMAIN raw : raw[i] \notin is_space_octet})
           first == CASE option = "request" -> {"GET"}
                      [] option = "response" -> {"HTTP/1.1", "HTTP/1.0"}
                      [] option = "peekonly" -> {}
           skips == option = "peekonly"
           keeps == Contains(raw, "HTTP/1.1") \/ Contains(raw, "GET")
           a == [flags |-> IF keeps THEN {"KEEPALIVE"} ELSE {}, length |-> 0,
                 bad |-> ~ skips /\ raw[start] \notin first]
           Passed(i) == raw[i] \in is_whspace_octet \/ (~ skips /\ i <= start)
           Eq(h) == h = [i \in 0..Len(raw) |->
                           IF i = 0 THEN a
                           ELSE IF Passed(i) THEN h[i - 1] ELSE Capture(h[i - 1], raw[i])]
           h == CHOOSE f : Eq(f)
<1>1. parse_initial_line_and_headers(option, raw) = h[Len(raw)]
  BY Zenon DEF parse_initial_line_and_headers
<1>2. a \in HeadType
  BY DEF HeadType
<1> DEFINE g == [q \in (0..Len(raw)) \X HeadType |->
                   IF Passed(q[1]) THEN q[2] ELSE Capture(q[2], raw[q[1]])]
<1> HIDE DEF start, first, skips, keeps, a, Passed
<1>3. g \in [(0..Len(raw)) \X HeadType -> HeadType]
  BY CaptureType
<1>4. Len(raw) \in Nat /\ 0 \in 0..Len(raw) /\ Len(raw) \in 0..Len(raw) /\ 0 <= Len(raw)
  OBVIOUS
<1>5. \E f : Eq(f)
  <2>1. PICK lo \in Nat : lo = 0
    OBVIOUS
  <2>2. PICK f : Runs(f, lo, Len(raw), HeadType, a, g)
    <3>1. lo <= Len(raw) /\ g \in [(lo..Len(raw)) \X HeadType -> HeadType]
      BY <1>3, <1>4, <2>1
    <3> HIDE DEF g
    <3> QED
      BY <1>2, <1>4, <3>1, RunExists
  <2>3. f = [p \in 0..Len(raw) |-> f[p]] /\ (\A p \in 0..Len(raw) : f[p] \in HeadType)
        /\ f[0] = a /\ \A p \in 1..Len(raw) : f[p] = g[<<p, f[p - 1]>>]
    <3>1. f \in [lo..Len(raw) -> HeadType] /\ f[lo] = a
          /\ \A p \in (lo + 1)..Len(raw) : f[p] = g[<<p, f[p - 1]>>]
      BY <2>2 DEF Runs
    <3>2. f = [p \in lo..Len(raw) |-> f[p]] /\ (\A p \in lo..Len(raw) : f[p] \in HeadType)
      BY <3>1
    <3> HIDE DEF g
    <3>3. lo + 1 = 1
      BY <2>1
    <3> QED
      BY <2>1, <3>1, <3>2, <3>3
  <2>4. ASSUME NEW i \in 0..Len(raw), i # 0
        PROVE f[i] = IF Passed(i) THEN f[i - 1] ELSE Capture(f[i - 1], raw[i])
    <3>1. i \in 1..Len(raw) /\ i - 1 \in 0..Len(raw)
      BY <2>4
    <3>2. f[i - 1] \in HeadType /\ f[i] = g[<<i, f[i - 1]>>]
      BY <2>3, <3>1
    <3> QED
      BY <3>2
  <2>5. Eq(f)
    BY <2>3, <2>4
  <2> QED
    BY <2>5
<1>6. Eq(h)
  BY <1>5
<1> HIDE DEF h
<1> DEFINE T == {i \in 0..Len(raw) : h[i] \in HeadType}
<1>7. 0 \in T
  BY <1>2, <1>4, <1>6
<1>8. ASSUME NEW i \in (0 + 1)..Len(raw), i - 1 \in T PROVE i \in T
  <2>1. i \in 0..Len(raw) /\ i # 0
    BY <1>4
  <2>2. h[i] = IF Passed(i) THEN h[i - 1] ELSE Capture(h[i - 1], raw[i])
    BY <1>6, <2>1
  <2>3. h[i - 1] \in HeadType
    BY <1>8
  <2> QED
    BY <2>1, <2>2, <2>3, CaptureType
<1>9. Len(raw) \in T
  <2> HIDE DEF T
  <2>1. \A p \in 0..Len(raw) : p \in T
    <3>1. PICK lo \in Nat : lo = 0
      OBVIOUS
    <3>2. lo \in T /\ \A p \in (lo + 1)..Len(raw) : p - 1 \in T => p \in T
      BY <1>7, <1>8, <3>1
    <3>3. \A p \in lo..Len(raw) : p \in T
      BY <1>4, <3>2, Along
    <3> QED
      BY <3>1, <3>3
  <2> QED
    BY <1>4, <2>1
<1> QED
  BY <1>1, <1>9

(* The count of line ends after one more character.                        *)
LEMMA NextCrlfType ==
  ASSUME NEW n \in 0..4, NEW c
  PROVE  NextCrlf(n, c) \in 0..4 /\ (n = 4 => NextCrlf(n, c) = 4)
BY DEF NextCrlf

(* Crlf counts the line ends of the feed, position by position.            *)
LEMMA CrlfDef ==
  ASSUME ptr \in Nat, end \in Nat, ptr <= end, htrd.crlf \in 0..4
  PROVE  /\ Crlf[ptr] = htrd.crlf
         /\ \A p \in ptr..end : Crlf[p] \in 0..4
         /\ \A p \in (ptr + 1)..end : Crlf[p] = NextCrlf(Crlf[p - 1], scn.stream[p])
<1> DEFINE Eq(f) == f = [p \in ptr..end |->
                           IF p = ptr THEN htrd.crlf ELSE NextCrlf(f[p - 1], scn.stream[p])]
<1>1. Crlf = CHOOSE f : Eq(f)
  BY Zenon DEF Crlf
<1> DEFINE S == 0..4
           g == [q \in (ptr..end) \X S |-> NextCrlf(q[2], scn.stream[q[1]])]
<1>2. g \in [(ptr..end) \X S -> S]
  BY NextCrlfType
<1>3. \E f : Eq(f)
  <2>1. PICK f : Runs(f, ptr, end, S, htrd.crlf, g)
    <3> HIDE DEF g, S
    <3>1. htrd.crlf \in S
      BY DEF S
    <3> QED
      BY <1>2, <3>1, RunExists
  <2>2. f \in [ptr..end -> S] /\ f[ptr] = htrd.crlf
        /\ \A p \in (ptr + 1)..end : f[p] = g[<<p, f[p - 1]>>]
    BY <2>1 DEF Runs
  <2>3. ASSUME NEW p \in ptr..end, p # ptr
        PROVE f[p] = NextCrlf(f[p - 1], scn.stream[p])
    <3>1. p \in (ptr + 1)..end /\ p - 1 \in ptr..end
      BY <2>3
    <3>2. f[p - 1] \in S /\ f[p] = g[<<p, f[p - 1]>>]
      BY <2>2, <3>1
    <3> QED
      BY <3>2
  <2>4. Eq(f)
    BY <2>2, <2>3
  <2> QED
    BY <2>4
<1>4. Eq(Crlf)
  BY <1>1, <1>3
<1> HIDE DEF Crlf
<1>5. Crlf[ptr] = htrd.crlf
  BY <1>4
<1>6. ASSUME NEW p \in (ptr + 1)..end PROVE Crlf[p] = NextCrlf(Crlf[p - 1], scn.stream[p])
  <2>1. p \in ptr..end /\ p # ptr
    OBVIOUS
  <2> QED
    BY <1>4, <2>1
<1> DEFINE T == {p \in ptr..end : Crlf[p] \in 0..4}
<1>7. ptr \in T
  BY <1>5
<1>8. ASSUME NEW p \in (ptr + 1)..end, p - 1 \in T PROVE p \in T
  <2>1. Crlf[p - 1] \in 0..4 /\ p \in ptr..end
    BY <1>8
  <2>2. NextCrlf(Crlf[p - 1], scn.stream[p]) \in 0..4
    BY <2>1, NextCrlfType
  <2> QED
    BY <1>6, <2>1, <2>2
<1>9. \A p \in ptr..end : p \in T
  <2> HIDE DEF T
  <2> QED
    BY <1>7, <1>8, Along
<1> QED
  BY <1>5, <1>6, <1>9

(* The length of a chunk is a number.                                      *)
LEMMA AddDigitType ==
  ASSUME NEW n \in Nat, NEW c \in xdigit
  PROVE  AddDigit(n, c) \in Nat
<1>1. xdigit_to_num(c) \in 0..3
  BY DEF xdigit, xdigit_to_num
<1>2. PICK m \in Nat : m = n * 16 + xdigit_to_num(c)
  BY <1>1
<1>3. m % SIZE_RANGE \in Nat
  BY HtrdAssumption
<1> QED
  BY <1>2, <1>3 DEF AddDigit

(* What ChunkLen is when all the characters are digits: the value of a     *)
(* function that takes one after the other.                                *)
LEMMA ChunkLenDef ==
  ASSUME NEW lo \in Nat, NEW hi \in Nat, lo <= hi, htrd.len \in Nat,
         \A p \in (lo + 1)..hi : scn.stream[p] \in xdigit
  PROVE  \E f : /\ f[lo] = htrd.len /\ ChunkLen(lo, hi) = f[hi]
                /\ \A p \in lo..hi : f[p] \in Nat
                /\ \A p \in (lo + 1)..hi : f[p] = AddDigit(f[p - 1], scn.stream[p])
<1> DEFINE Eq(f) == f = [p \in lo..hi |->
                           IF p = lo THEN htrd.len ELSE AddDigit(f[p - 1], scn.stream[p])]
           e == CHOOSE f : Eq(f)
<1>1. ChunkLen(lo, hi) = e[hi]
  BY Zenon DEF ChunkLen
<1> DEFINE g == [q \in (lo..hi) \X Nat |-> IF scn.stream[q[1]] \in xdigit
                                          THEN AddDigit(q[2], scn.stream[q[1]]) ELSE q[2]]
<1>2. g \in [(lo..hi) \X Nat -> Nat]
  BY AddDigitType
<1>3. \E f : Eq(f)
  <2>1. PICK f : Runs(f, lo, hi, Nat, htrd.len, g)
    <3> HIDE DEF g
    <3> QED
      BY <1>2, RunExists
  <2>2. f \in [lo..hi -> Nat] /\ f[lo] = htrd.len
        /\ \A p \in (lo + 1)..hi : f[p] = g[<<p, f[p - 1]>>]
    BY <2>1 DEF Runs
  <2>3. ASSUME NEW p \in lo..hi, p # lo
        PROVE f[p] = AddDigit(f[p - 1], scn.stream[p])
    <3>1. p \in (lo + 1)..hi /\ p - 1 \in lo..hi
      BY <2>3
    <3>2. f[p - 1] \in Nat /\ f[p] = g[<<p, f[p - 1]>>] /\ scn.stream[p] \in xdigit
      BY <2>2, <3>1
    <3> QED
      BY <3>2
  <2>4. Eq(f)
    BY <2>2, <2>3
  <2> QED
    BY <2>4
<1>4. Eq(e)
  BY <1>3
<1> HIDE DEF e
<1>5. e[lo] = htrd.len
  BY <1>4
<1>6. ASSUME NEW p \in (lo + 1)..hi PROVE e[p] = AddDigit(e[p - 1], scn.stream[p])
  <2>1. p \in lo..hi /\ p # lo
    OBVIOUS
  <2> QED
    BY <1>4, <2>1
<1> DEFINE T == {p \in lo..hi : e[p] \in Nat}
<1>7. lo \in T
  BY <1>5
<1>8. ASSUME NEW p \in (lo + 1)..hi, p - 1 \in T PROVE p \in T
  <2>1. e[p - 1] \in Nat /\ p \in lo..hi /\ scn.stream[p] \in xdigit
    BY <1>8
  <2>2. AddDigit(e[p - 1], scn.stream[p]) \in Nat
    BY <2>1, AddDigitType
  <2> QED
    BY <1>6, <2>1, <2>2
<1>9. \A p \in lo..hi : p \in T
  <2> HIDE DEF T
  <2> QED
    BY <1>7, <1>8, Along
<1> QED
  BY <1>1, <1>5, <1>6, <1>9

-----------------------------------------------------------------------------
(* The reading of the stream that is not cut.                              *)

Modes == {"head", "LEN", "LENSP", "data", "CRLF", "TRAILERS", "close", "none", "any", "refused"}
UncutType == [mode : Modes, from : Nat, crlf : 0..3, len : Nat, count : Nat, need : Nat,
              chunk : BOOLEAN, heads : Nat]

(* The fields of a state of the reading.                                   *)
LEMMA UncutFields ==
  ASSUME NEW u \in UncutType
  PROVE  /\ u.mode \in Modes /\ u.from \in Nat /\ u.crlf \in 0..3 /\ u.len \in Nat
         /\ u.count \in Nat /\ u.need \in Nat /\ u.chunk \in BOOLEAN /\ u.heads \in Nat
BY DEF UncutType

Updates(u) ==
  /\ \A m \in Modes : [u EXCEPT !.mode = m] \in UncutType
  /\ \A n \in Nat : [u EXCEPT !.need = n] \in UncutType
  /\ \A n \in 0..3 : [u EXCEPT !.crlf = n] \in UncutType
  /\ \A m \in Modes, n \in Nat, b \in BOOLEAN :
       [u EXCEPT !.mode = m, !.need = n, !.chunk = b] \in UncutType
  /\ \A m \in Modes, n \in Nat : [u EXCEPT !.mode = m, !.need = n] \in UncutType
  /\ \A m \in Modes, n \in 0..3, p \in Nat :
       [u EXCEPT !.mode = m, !.crlf = n, !.from = p] \in UncutType
  /\ \A c \in Nat, n \in Nat : [u EXCEPT !.count = c, !.len = n] \in UncutType
  /\ \A p \in Nat : EndOfMessage(u, p) \in UncutType
  /\ StartOfChunk(u) \in UncutType
  /\ Refuse(u) \in UncutType /\ Undecided(u) \in UncutType

(* The updates that the steps are made of keep the type.                   *)
LEMMA UncutUpdates ==
  ASSUME NEW u \in UncutType
  PROVE  Updates(u) /\ [u EXCEPT !.heads = @ + 1] \in UncutType
<1>1. u.heads + 1 \in Nat
  BY UncutFields
<1>2. {"head", "LEN", "refused", "any"} \subseteq Modes
  BY DEF Modes
<1>3. 0 \in 0..3 /\ 0 \in Nat
  OBVIOUS
<1> QED
  BY <1>1, <1>2, <1>3 DEF UncutType, EndOfMessage, StartOfChunk, Refuse, Undecided, Updates

(* Behind a head.                                                          *)
LEMMA HeadOfType ==
  ASSUME NEW s, s.stream \in Seq(STRING), NEW u \in UncutType, NEW p \in 0..Len(s.stream)
  PROVE  HeadOf(s, u, p) \in UncutType
<1>u. u.from \in Nat
  BY UncutFields
<1> DEFINE raw == SubSeq(s.stream, u.from + 1, p)
           h == parse_initial_line_and_headers(s.option, raw)
           v == [u EXCEPT !.heads = @ + 1]
           framing == Framing(s.option, h)
<1>1. raw \in Seq(STRING)
  <2>1. \A n \in (u.from + 1)..p : s.stream[n] \in STRING
    <3>1. \A n \in 1..Len(s.stream) : s.stream[n] \in STRING
      OBVIOUS
    <3> QED
      BY <3>1, <1>u
  <2>2. u.from + 1 \in Int /\ p \in Int
    BY <1>u
  <2> QED
    BY <2>1, <2>2, SubSeqProperties
<1> HIDE DEF raw
<1>2. h \in HeadType
  BY <1>1, ParseType
<1> HIDE DEF h
<1>3. h.length \in Nat /\ h.bad \in BOOLEAN
  BY <1>2 DEF HeadType
<1>4. framing \in {"chunked", "length", "close", "none"}
  BY DEF Framing
<1> HIDE DEF framing
<1>5. v \in UncutType
  BY UncutUpdates
<1> HIDE DEF v
<1>6. HeadOf(s, u, p) =
        CASE h.bad -> Refuse(u)
          [] ~ h.bad /\ framing = "chunked" -> StartOfChunk(v)
          [] ~ h.bad /\ framing = "length" ->
               IF h.length = 0 THEN EndOfMessage(v, p)
               ELSE [v EXCEPT !.mode = "data", !.need = h.length, !.chunk = FALSE]
          [] ~ h.bad /\ framing = "close" -> [v EXCEPT !.mode = "close"]
          [] ~ h.bad /\ framing = "none" -> [v EXCEPT !.mode = "none"]
  BY DEF HeadOf, raw, h, v, framing
<1>8. Updates(u) /\ Updates(v)
  BY <1>5, UncutUpdates
<1>7. {"data", "close", "none"} \subseteq Modes /\ FALSE \in BOOLEAN /\ p \in Nat
  BY DEF Modes
<1>9. Refuse(u) \in UncutType /\ StartOfChunk(v) \in UncutType
      /\ EndOfMessage(v, p) \in UncutType
  BY <1>7, <1>8 DEF Updates
<1>10. [v EXCEPT !.mode = "close"] \in UncutType /\ [v EXCEPT !.mode = "none"] \in UncutType
  BY <1>7, <1>8 DEF Updates
<1>11. [v EXCEPT !.mode = "data", !.need = h.length, !.chunk = FALSE] \in UncutType
  BY <1>3, <1>5, <1>7 DEF UncutType
<1> QED
  BY <1>3, <1>4, <1>6, <1>9, <1>10, <1>11

(* One step.                                                               *)
LEMMA UncutStepType ==
  ASSUME NEW s, s.stream \in Seq(STRING), NEW u \in UncutType, NEW p \in 0..Len(s.stream)
  PROVE  UncutStep(s, u, p) \in UncutType
<1>0. p \in Nat
  OBVIOUS
<1>1. u.mode \in Modes /\ u.crlf \in 0..3 /\ u.len \in Nat /\ u.count \in Nat /\ u.need \in Nat
  BY UncutFields
<1>u. Updates(u)
  BY UncutUpdates
<1>2. ASSUME NEW c PROVE NextCrlf(u.crlf, c) \in 0..4
  BY <1>1, NextCrlfType
<1>3. CASE s.stream[p] = "EOF" \/ u.mode \in {"any", "refused", "none", "close"}
  BY <1>0, <1>1, <1>3, <1>u DEF UncutStep, Modes, Updates
<1>4. CASE s.stream[p] # "EOF" /\ u.mode = "head"
  <2>1. UncutStep(s, u, p) = UncutHead(s, u, p)
    BY <1>4 DEF UncutStep
  <2>2. NextCrlf(u.crlf, s.stream[p]) \in 0..4
    BY <1>2
  <2>3. ASSUME NextCrlf(u.crlf, s.stream[p]) # 4
        PROVE  [u EXCEPT !.crlf = NextCrlf(u.crlf, s.stream[p])] \in UncutType
    <3>1. NextCrlf(u.crlf, s.stream[p]) \in 0..3
      BY <2>2, <2>3
    <3> QED
      BY <3>1 DEF UncutType
  <2>4. HeadOf(s, u, p) \in UncutType /\ Refuse(u) \in UncutType
    BY <1>u, HeadOfType DEF Updates
  <2> QED
    BY <2>1, <2>3, <2>4 DEF UncutHead
<1>5. CASE s.stream[p] # "EOF" /\ u.mode = "TRAILERS"
  <2>1. UncutStep(s, u, p) = UncutTrailers(s, u, p)
    BY <1>5 DEF UncutStep
  <2>2. NextCrlf(u.crlf, s.stream[p]) \in 0..4
    BY <1>2
  <2>3. ASSUME NextCrlf(u.crlf, s.stream[p]) < 4
        PROVE  [u EXCEPT !.crlf = NextCrlf(u.crlf, s.stream[p])] \in UncutType
    <3>1. NextCrlf(u.crlf, s.stream[p]) \in 0..3
      BY <2>2, <2>3
    <3> QED
      BY <3>1 DEF UncutType
  <2> QED
    BY <1>0, <2>1, <2>3, <1>u DEF UncutTrailers, Updates
<1>6. CASE s.stream[p] # "EOF" /\ u.mode \in {"LEN", "LENSP"}
  <2>1. UncutStep(s, u, p) = UncutLen(u, s.stream[p], p)
    BY <1>6 DEF UncutStep
  <2>2. {"LENSP", "TRAILERS", "data"} \subseteq Modes /\ 2 \in 0..3 /\ TRUE \in BOOLEAN
    BY DEF Modes
  <2>3. EndOfChunkLen(u, p) \in UncutType
    BY <1>0, <1>1, <2>2, <1>u DEF EndOfChunkLen, Updates
  <2>4. s.stream[p] \in xdigit =>
          [u EXCEPT !.count = @ + 1, !.len = AddDigit(@, s.stream[p])] \in UncutType
    <3>1. s.stream[p] \in xdigit => AddDigit(u.len, s.stream[p]) \in Nat
      BY <1>1, AddDigitType
    <3>2. u.count + 1 \in Nat
      BY <1>1
    <3> QED
      BY <3>1, <3>2, <1>u DEF Updates
  <2>5. [u EXCEPT !.mode = "LENSP"] \in UncutType
    BY <2>2, <1>u DEF Updates
  <2>6. CASE s.stream[p] \in xdigit
    <3>1. s.stream[p] \notin is_space_octet /\ s.stream[p] # "LF"
      BY <2>6 DEF xdigit, is_space_octet
    <3> QED
      BY <2>1, <2>4, <2>6, <3>1, <1>u DEF UncutLen, Updates
  <2>7. CASE s.stream[p] \in is_space_octet
    <3>1. s.stream[p] \notin xdigit /\ s.stream[p] # "LF"
      BY <2>7 DEF xdigit, is_space_octet
    <3> QED
      BY <2>1, <2>5, <2>7, <3>1 DEF UncutLen
  <2>8. CASE s.stream[p] = "LF"
    <3>1. s.stream[p] \notin xdigit /\ s.stream[p] \notin is_space_octet
      BY <2>8 DEF xdigit, is_space_octet
    <3> QED
      BY <2>1, <2>3, <2>8, <3>1 DEF UncutLen
  <2>9. CASE s.stream[p] \notin xdigit /\ s.stream[p] \notin is_space_octet /\ s.stream[p] # "LF"
    BY <2>1, <2>9, <1>u DEF UncutLen, Updates
  <2> QED
    BY <2>6, <2>7, <2>8, <2>9
<1>7. CASE s.stream[p] # "EOF" /\ u.mode = "data"
  <2>1. UncutStep(s, u, p) = UncutData(u, p)
    BY <1>7 DEF UncutStep
  <2>2. u.need > 1 => u.need - 1 \in Nat
    BY <1>1
  <2>3. "CRLF" \in Modes /\ 0 \in Nat
    BY DEF Modes
  <2> QED
    BY <1>0, <2>1, <2>2, <2>3, <1>u DEF UncutData, Updates
<1>8. CASE s.stream[p] # "EOF" /\ u.mode = "CRLF"
  <2>1. UncutStep(s, u, p) = UncutCrlf(u, s.stream[p])
    BY <1>8 DEF UncutStep
  <2> QED
    BY <2>1, <1>u DEF UncutCrlf, is_space_octet, Updates
<1> QED
  BY <1>1, <1>3, <1>4, <1>5, <1>6, <1>7, <1>8 DEF Modes

(* u is the reading of a stream from position to position.                 *)
IsUncut(s, u) ==
  /\ u[0] = UncutStart
  /\ \A p \in 0..Len(s.stream) : u[p] \in UncutType
  /\ \A p \in 1..Len(s.stream) : u[p] = UncutStep(s, u[p - 1], p)

(* Uncut is that reading.                                                  *)
LEMMA UncutDef ==
  ASSUME NEW s, s.stream \in Seq(STRING)
  PROVE  IsUncut(s, Uncut(s))
<1> DEFINE N == Len(s.stream)
           Eq(f) == f = [p \in 0..N |-> IF p = 0 THEN UncutStart ELSE UncutStep(s, f[p - 1], p)]
           e == CHOOSE f : Eq(f)
<1>1. Uncut(s) = e
  BY Zenon DEF Uncut
<1>2. N \in Nat /\ 0 \in 0..N
  OBVIOUS
<1>3. UncutStart \in UncutType
  BY DEF UncutStart, UncutType, Modes
<1> DEFINE g == [q \in (0..N) \X UncutType |-> UncutStep(s, q[2], q[1])]
<1>4. g \in [(0..N) \X UncutType -> UncutType]
  BY UncutStepType
<1>5. PICK lo \in Nat : lo = 0
  OBVIOUS
<1>6. \E f : Eq(f)
  <2>1. PICK f : Runs(f, lo, N, UncutType, UncutStart, g)
    <3>1. lo <= N /\ g \in [(lo..N) \X UncutType -> UncutType]
      BY <1>2, <1>4, <1>5
    <3> HIDE DEF g, N
    <3> QED
      BY <1>2, <1>3, <3>1, RunExists
  <2>2. f = [p \in 0..N |-> f[p]] /\ (\A p \in 0..N : f[p] \in UncutType)
        /\ f[0] = UncutStart /\ \A p \in 1..N : f[p] = g[<<p, f[p - 1]>>]
    <3> HIDE DEF g, N
    <3>1. f \in [lo..N -> UncutType] /\ f[lo] = UncutStart
          /\ \A p \in (lo + 1)..N : f[p] = g[<<p, f[p - 1]>>]
      BY <2>1 DEF Runs
    <3>2. f = [p \in lo..N |-> f[p]] /\ (\A p \in lo..N : f[p] \in UncutType)
      BY <3>1
    <3>3. lo + 1 = 1
      BY <1>5
    <3> QED
      BY <1>5, <3>1, <3>2, <3>3
  <2>3. ASSUME NEW p \in 0..N, p # 0 PROVE f[p] = UncutStep(s, f[p - 1], p)
    <3>1. p \in 1..N /\ p - 1 \in 0..N
      BY <1>2, <2>3
    <3>2. f[p - 1] \in UncutType /\ f[p] = g[<<p, f[p - 1]>>]
      BY <2>2, <3>1
    <3> QED
      BY <3>2
  <2>4. Eq(f)
    <3> HIDE DEF N
    <3> QED
      BY <2>2, <2>3
  <2> QED
    BY <2>4
<1>7. Eq(e)
  BY <1>6
<1> HIDE DEF e, N, g
<1>8. e[0] = UncutStart
  BY <1>2, <1>7
<1>9. ASSUME NEW p \in 1..N PROVE e[p] = UncutStep(s, e[p - 1], p)
  <2>1. p \in 0..N /\ p # 0
    BY <1>2
  <2> QED
    BY <1>7, <2>1
<1> DEFINE T == {p \in 0..N : e[p] \in UncutType}
<1>10. lo \in T
  BY <1>2, <1>3, <1>5, <1>8
<1>11. ASSUME NEW p \in (lo + 1)..N, p - 1 \in T PROVE p \in T
  <2>1. p \in 1..N /\ p \in 0..N
    BY <1>2, <1>5
  <2>2. e[p - 1] \in UncutType
    BY <1>11
  <2>3. UncutStep(s, e[p - 1], p) \in UncutType
    BY <2>1, <2>2, UncutStepType DEF N
  <2> QED
    BY <1>9, <2>1, <2>3
<1>12. \A p \in lo..N : p \in T
  <2> HIDE DEF T
  <2> QED
    BY <1>2, <1>10, <1>11, Along
<1>13. \A p \in 0..N : e[p] \in UncutType
  BY <1>5, <1>12
<1> QED
  BY <1>1, <1>8, <1>9, <1>13 DEF IsUncut, N

(* Whatever goes on by the same steps is the reading.                      *)
LEMMA Follows ==
  ASSUME NEW s, s.stream \in Seq(STRING), NEW u, IsUncut(s, u),
         NEW p \in Nat, NEW q \in Nat, p <= q, q <= Len(s.stream),
         NEW v, v[p] = u[p], \A k \in (p + 1)..q : v[k] = UncutStep(s, v[k - 1], k)
  PROVE  \A k \in p..q : u[k] = v[k]
<1> DEFINE T == {k \in p..q : u[k] = v[k]}
<1>1. p \in T
  OBVIOUS
<1>2. ASSUME NEW k \in (p + 1)..q, k - 1 \in T PROVE k \in T
  <2>1. k \in 1..Len(s.stream) /\ k \in p..q
    OBVIOUS
  <2>2. u[k] = UncutStep(s, u[k - 1], k)
    BY <2>1 DEF IsUncut
  <2>3. u[k - 1] = v[k - 1]
    BY <1>2
  <2> QED
    BY <2>1, <2>2, <2>3
<1> HIDE DEF T
<1>3. \A k \in p..q : k \in T
  BY <1>1, <1>2, Along
<1> QED
  BY <1>3 DEF T

(* A step that changes nothing, along an interval.                         *)
LEMMA Stays ==
  ASSUME NEW s, s.stream \in Seq(STRING), NEW u, IsUncut(s, u),
         NEW p \in Nat, NEW q \in Nat, p <= q, q <= Len(s.stream),
         \A k \in (p + 1)..q : UncutStep(s, u[p], k) = u[p]
  PROVE  \A k \in p..q : u[k] = u[p]
<1> DEFINE v == [k \in p..q |-> u[p]]
<1>1. v[p] = u[p]
  OBVIOUS
<1>2. ASSUME NEW k \in (p + 1)..q PROVE v[k] = UncutStep(s, v[k - 1], k)
  <2>1. k \in p..q /\ k - 1 \in p..q
    OBVIOUS
  <2> QED
    BY <2>1
<1>3. \A k \in p..q : v[k] = u[p]
  OBVIOUS
<1> HIDE DEF v
<1>4. \A k \in p..q : u[k] = v[k]
  BY <1>1, <1>2, Follows
<1> QED
  BY <1>3, <1>4

(* What is refused or undecided remains so.                                *)
LEMMA Absorbed ==
  ASSUME NEW s, s.stream \in Seq(STRING), NEW u, IsUncut(s, u),
         NEW p \in Nat, NEW q \in Nat, p <= q, q <= Len(s.stream),
         u[p].mode \in {"any", "refused"}
  PROVE  u[q] = u[p]
<1>1. \A k \in (p + 1)..q : UncutStep(s, u[p], k) = u[p]
  BY DEF UncutStep
<1> QED
  BY <1>1, Stays

(* The state at a position is one step from the state before it.           *)
LEMMA OneStep ==
  ASSUME NEW s, s.stream \in Seq(STRING), NEW u, IsUncut(s, u),
         NEW p \in Nat, p + 1 <= Len(s.stream)
  PROVE  u[p + 1] = UncutStep(s, u[p], p + 1)
<1>1. p + 1 \in 1..Len(s.stream) /\ (p + 1) - 1 = p
  OBVIOUS
<1>2. u[p + 1] = UncutStep(s, u[(p + 1) - 1], p + 1)
  BY <1>1 DEF IsUncut
<1> QED
  BY <1>1, <1>2

(* Nothing is claimed of what follows a reply without an end.              *)
LEMMA BehindNone ==
  ASSUME NEW s, s.stream \in Seq(STRING), NEW u, IsUncut(s, u),
         NEW p \in Nat, NEW q \in Nat, p < q, q <= Len(s.stream), u[p].mode = "none"
  PROVE  u[q].mode = "any"
<1>1. u[p + 1] = Undecided(u[p])
  <2>1. u[p + 1] = UncutStep(s, u[p], p + 1)
    BY OneStep
  <2> QED
    BY <2>1 DEF UncutStep
<1>2. u[p] \in UncutType
  <2>1. p \in 0..Len(s.stream)
    OBVIOUS
  <2> QED
    BY <2>1 DEF IsUncut
<1>3. u[p + 1].mode = "any"
  BY <1>1, <1>2 DEF Undecided, UncutType
<1>4. p + 1 \in Nat /\ p + 1 <= q
  OBVIOUS
<1> QED
  BY <1>3, <1>4, Absorbed

(* C counts line ends along an interval that has no empty line.            *)
Counts(s, C, p, q) ==
  /\ \A k \in p..q : C[k] \in 0..3
  /\ \A k \in (p + 1)..q : C[k] = NextCrlf(C[k - 1], s.stream[k])

(* The lines of a head or of trailers.                                     *)
LEMMA LinesRun ==
  ASSUME NEW s, s.stream \in Seq(STRING), NEW u, IsUncut(s, u),
         NEW p \in Nat, NEW q \in Nat, p <= q, q <= Len(s.stream),
         u[p].mode \in {"head", "TRAILERS"}, NEW C, C[p] = u[p].crlf, Counts(s, C, p, q),
         \A k \in (p + 1)..q : s.stream[k] \notin {"NUL", "EOF"}
  PROVE  u[q] = [u[p] EXCEPT !.crlf = C[q]]
<1> DEFINE v == [k \in p..q |-> [u[p] EXCEPT !.crlf = C[k]]]
<1>1. u[p] \in UncutType
  <2>1. p \in 0..Len(s.stream)
    OBVIOUS
  <2> QED
    BY <2>1 DEF IsUncut
<1>2. [u[p] EXCEPT !.crlf = u[p].crlf] = u[p]
  BY <1>1 DEF UncutType
<1>3. v[p] = u[p]
  BY <1>2
<1>4. ASSUME NEW k \in (p + 1)..q PROVE v[k] = UncutStep(s, v[k - 1], k)
  <2>1. k \in p..q /\ k - 1 \in p..q
    OBVIOUS
  <2>2. C[k] \in 0..3 /\ C[k - 1] \in 0..3 /\ C[k] = NextCrlf(C[k - 1], s.stream[k])
    BY <2>1 DEF Counts
  <2>3. s.stream[k] \notin {"NUL", "EOF"}
    OBVIOUS
  <2> DEFINE w == [u[p] EXCEPT !.crlf = C[k - 1]]
  <2>4. w.crlf = C[k - 1] /\ w.mode = u[p].mode /\ [w EXCEPT !.crlf = C[k]] = [u[p] EXCEPT !.crlf = C[k]]
    BY <1>1 DEF UncutType
  <2>5. v[k] = [u[p] EXCEPT !.crlf = C[k]] /\ v[k - 1] = w
    BY <2>1
  <2> HIDE DEF w, v
  <2>6. UncutStep(s, w, k) = [w EXCEPT !.crlf = C[k]]
    <3>1. CASE w.mode = "head"
      <4>1. UncutStep(s, w, k) = UncutHead(s, w, k)
        BY <2>3, <3>1 DEF UncutStep
      <4> QED
        BY <2>2, <2>3, <2>4, <4>1 DEF UncutHead
    <3>2. CASE w.mode = "TRAILERS"
      <4>1. UncutStep(s, w, k) = UncutTrailers(s, w, k)
        BY <2>3, <3>2 DEF UncutStep
      <4> QED
        BY <2>2, <2>3, <2>4, <4>1 DEF UncutTrailers
    <3> QED
      BY <2>4, <3>1, <3>2
  <2> QED
    BY <2>4, <2>5, <2>6
<1>5. q \in p..q /\ v[q] = [u[p] EXCEPT !.crlf = C[q]]
  OBVIOUS
<1> HIDE DEF v
<1>6. \A k \in p..q : u[k] = v[k]
  BY ONLY <1>3, <1>4, Follows, s.stream \in Seq(STRING), IsUncut(s, u), p \in Nat, q \in Nat,
          p <= q, q <= Len(s.stream)
<1> QED
  BY <1>5, <1>6

(* Spaces behind the data of a chunk, before its length, and behind it.    *)
LEMMA SpaceRun ==
  ASSUME NEW s, s.stream \in Seq(STRING), NEW u, IsUncut(s, u),
         NEW p \in Nat, NEW q \in Nat, p <= q, q <= Len(s.stream),
         \A k \in (p + 1)..q : s.stream[k] \in is_space_octet,
         \/ u[p].mode = "CRLF" \/ u[p].mode = "LENSP"
         \/ u[p].mode = "LEN" /\ u[p].count = 0
  PROVE  u[q] = u[p]
<1>1. u[p] \in UncutType
  <2>1. p \in 0..Len(s.stream)
    OBVIOUS
  <2> QED
    BY <2>1 DEF IsUncut
<1>2. u[p].mode = "LENSP" => [u[p] EXCEPT !.mode = "LENSP"] = u[p]
  BY <1>1 DEF UncutType
<1>3. ASSUME NEW k \in (p + 1)..q PROVE UncutStep(s, u[p], k) = u[p]
  <2>1. s.stream[k] \in is_space_octet
    OBVIOUS
  <2>2. s.stream[k] \notin xdigit /\ s.stream[k] \notin {"LF", "EOF"}
    BY <2>1 DEF is_space_octet, xdigit
  <2>3. CASE u[p].mode = "CRLF"
    <3>1. UncutStep(s, u[p], k) = UncutCrlf(u[p], s.stream[k])
      BY <2>2, <2>3 DEF UncutStep
    <3> QED
      BY <2>1, <2>2, <3>1 DEF UncutCrlf
  <2>4. CASE u[p].mode \in {"LEN", "LENSP"}
    <3>1. UncutStep(s, u[p], k) = UncutLen(u[p], s.stream[k], k)
      BY <2>2, <2>4 DEF UncutStep
    <3>2. UncutLen(u[p], s.stream[k], k) =
            IF u[p].count = 0 THEN u[p] ELSE [u[p] EXCEPT !.mode = "LENSP"]
      BY <2>1, <2>2 DEF UncutLen
    <3>3. u[p].count = 0 \/ u[p].mode = "LENSP"
      BY <2>4
    <3> QED
      BY ONLY <1>2, <3>1, <3>2, <3>3
  <2> QED
    BY <2>3, <2>4
<1>4. q \in p..q
  OBVIOUS
<1> QED
  BY <1>3, <1>4, Stays

LengthRead(u, p, q, n) ==
  /\ u[q].mode = "LEN" /\ u[q].count = u[p].count + (q - p) /\ u[q].len = n
  /\ u[q].heads = u[p].heads

(* The digits of the length of a chunk.                                    *)
LEMMA DigitRun ==
  ASSUME NEW s, s.stream \in Seq(STRING), NEW u, IsUncut(s, u),
         NEW p \in Nat, NEW q \in Nat, p <= q, q <= Len(s.stream), u[p].mode = "LEN",
         NEW f, f[p] = u[p].len,
         \A k \in (p + 1)..q : s.stream[k] \in xdigit /\ f[k] = AddDigit(f[k - 1], s.stream[k])
  PROVE  LengthRead(u, p, q, f[q])
<1> DEFINE v == [k \in p..q |-> [u[p] EXCEPT !.count = @ + (k - p), !.len = f[k]]]
<1>1. u[p] \in UncutType
  <2>1. p \in 0..Len(s.stream)
    OBVIOUS
  <2> QED
    BY <2>1 DEF IsUncut
<1>v. \A k \in p..q : v[k] = [u[p] EXCEPT !.count = @ + (k - p), !.len = f[k]]
  BY Zenon
<1> HIDE DEF v
<1>p. p \in p..q /\ q \in p..q
  OBVIOUS
<1>u. u[p].count \in Nat
  BY <1>1, UncutFields
<1>2. [u[p] EXCEPT !.count = u[p].count, !.len = u[p].len] = u[p]
  BY <1>1 DEF UncutType
<1>3. v[p] = u[p]
  <2>1. u[p].count + (p - p) = u[p].count
    BY <1>u
  <2> QED
    BY ONLY <1>2, <1>p, <1>v, <2>1, f[p] = u[p].len
<1>4. ASSUME NEW k \in (p + 1)..q PROVE v[k] = UncutStep(s, v[k - 1], k)
  <2>1. k \in p..q /\ k - 1 \in p..q
    OBVIOUS
  <2>2. s.stream[k] \in xdigit /\ f[k] = AddDigit(f[k - 1], s.stream[k])
    OBVIOUS
  <2>3. s.stream[k] \notin is_space_octet /\ s.stream[k] \notin {"LF", "EOF"}
    BY <2>2 DEF is_space_octet, xdigit
  <2> DEFINE w == [u[p] EXCEPT !.count = @ + ((k - 1) - p), !.len = f[k - 1]]
  <2>4. w.count = u[p].count + ((k - 1) - p) /\ w.len = f[k - 1] /\ w.mode = "LEN"
    BY <1>1 DEF UncutType
  <2>5. (u[p].count + ((k - 1) - p)) + 1 = u[p].count + (k - p)
    BY <1>u
  <2>6. [w EXCEPT !.count = u[p].count + (k - p), !.len = f[k]]
        = [u[p] EXCEPT !.count = u[p].count + (k - p), !.len = f[k]]
    BY <1>1 DEF UncutType
  <2>7. v[k] = [u[p] EXCEPT !.count = u[p].count + (k - p), !.len = f[k]] /\ v[k - 1] = w
    BY ONLY <1>v, <2>1
  <2> HIDE DEF w
  <2>8. UncutStep(s, w, k) = UncutLen(w, s.stream[k], k)
    BY <2>3, <2>4 DEF UncutStep
  <2>9. UncutLen(w, s.stream[k], k) = [w EXCEPT !.count = w.count + 1, !.len = AddDigit(w.len, s.stream[k])]
    BY <2>2, <2>3, <2>4 DEF UncutLen
  <2>10. w.count + 1 = u[p].count + (k - p) /\ AddDigit(w.len, s.stream[k]) = f[k]
    BY <2>2, <2>4, <2>5
  <2> QED
    BY <2>6, <2>7, <2>8, <2>9, <2>10
<1>5. q \in p..q /\ v[q] = [u[p] EXCEPT !.count = @ + (q - p), !.len = f[q]]
  BY ONLY <1>p, <1>v
<1>6. \A k \in p..q : u[k] = v[k]
  BY ONLY <1>3, <1>4, Follows, s.stream \in Seq(STRING), IsUncut(s, u), p \in Nat, q \in Nat,
          p <= q, q <= Len(s.stream)
<1>7. u[q] = [u[p] EXCEPT !.count = @ + (q - p), !.len = f[q]]
  BY <1>5, <1>6
<1> QED
  BY ONLY <1>1, <1>7, u[p].mode = "LEN" DEF UncutType, LengthRead

DataLeft(u, p, q) ==
  /\ u[q].mode = "data" /\ u[q].need = u[p].need - (q - p)
  /\ u[q].chunk = u[p].chunk /\ u[q].heads = u[p].heads

(* Data, short of all that is needed.                                      *)
LEMMA DataRun ==
  ASSUME NEW s, s.stream \in Seq(STRING), NEW u, IsUncut(s, u),
         NEW p \in Nat, NEW q \in Nat, p <= q, q <= Len(s.stream),
         u[p].mode = "data", q - p < u[p].need,
         \A k \in (p + 1)..q : s.stream[k] # "EOF"
  PROVE  DataLeft(u, p, q)
<1> DEFINE v == [k \in p..q |-> [u[p] EXCEPT !.need = @ - (k - p)]]
<1>1. u[p] \in UncutType
  <2>1. p \in 0..Len(s.stream)
    OBVIOUS
  <2> QED
    BY <2>1 DEF IsUncut
<1>u. u[p].need \in Nat
  BY <1>1, UncutFields
<1>2. [u[p] EXCEPT !.need = u[p].need] = u[p]
  BY <1>1 DEF UncutType
<1>3. v[p] = u[p]
  <2>1. u[p].need - (p - p) = u[p].need
    BY <1>u
  <2> QED
    BY <1>2, <2>1
<1>4. ASSUME NEW k \in (p + 1)..q PROVE v[k] = UncutStep(s, v[k - 1], k)
  <2>1. k \in p..q /\ k - 1 \in p..q
    OBVIOUS
  <2>2. s.stream[k] # "EOF"
    OBVIOUS
  <2> DEFINE w == [u[p] EXCEPT !.need = @ - ((k - 1) - p)]
  <2>4. w.need = u[p].need - ((k - 1) - p) /\ w.mode = "data"
    BY <1>1 DEF UncutType
  <2>5. (u[p].need - ((k - 1) - p)) - 1 = u[p].need - (k - p) /\ u[p].need - ((k - 1) - p) > 1
    BY <1>u
  <2>6. [w EXCEPT !.need = u[p].need - (k - p)] = [u[p] EXCEPT !.need = u[p].need - (k - p)]
    BY <1>1 DEF UncutType
  <2>7. v[k] = [u[p] EXCEPT !.need = u[p].need - (k - p)] /\ v[k - 1] = w
    BY <2>1
  <2> HIDE DEF w, v
  <2>8. UncutStep(s, w, k) = UncutData(w, k)
    BY <2>2, <2>4 DEF UncutStep
  <2>9. UncutData(w, k) = [w EXCEPT !.need = w.need - 1]
    BY <2>4, <2>5 DEF UncutData
  <2>10. w.need - 1 = u[p].need - (k - p)
    BY <2>4, <2>5
  <2> QED
    BY <2>6, <2>7, <2>8, <2>9, <2>10
<1>5. q \in p..q /\ v[q] = [u[p] EXCEPT !.need = @ - (q - p)]
  OBVIOUS
<1> HIDE DEF v
<1>6. \A k \in p..q : u[k] = v[k]
  BY ONLY <1>3, <1>4, Follows, s.stream \in Seq(STRING), IsUncut(s, u), p \in Nat, q \in Nat,
          p <= q, q <= Len(s.stream)
<1>7. u[q] = [u[p] EXCEPT !.need = @ - (q - p)]
  BY <1>5, <1>6
<1> QED
  BY ONLY <1>1, <1>7, u[p].mode = "data" DEF UncutType, DataLeft

(* Content up to the end of the stream.                                    *)
LEMMA CloseRun ==
  ASSUME NEW s, s.stream \in Seq(STRING), NEW u, IsUncut(s, u),
         NEW p \in Nat, NEW q \in Nat, p <= q, q <= Len(s.stream),
         u[p].mode = "close", \A k \in (p + 1)..q : s.stream[k] # "EOF"
  PROVE  u[q] = u[p]
<1>1. ASSUME NEW k \in (p + 1)..q PROVE UncutStep(s, u[p], k) = u[p]
  <2>1. s.stream[k] # "EOF"
    OBVIOUS
  <2> QED
    BY <2>1 DEF UncutStep
<1>2. q \in p..q
  OBVIOUS
<1> QED
  BY <1>1, <1>2, Stays

-----------------------------------------------------------------------------
(* Types.                                                                  *)

HtrdType ==
  [crlf : 0..3, raw : Seq(STRING), tra : Seq(STRING),
   phase : {"DONE", "LEN", "DATA", "CRLF", "TRAILERS"}, len : Nat, count : Nat, need : Nat,
   until_close : BOOLEAN, clean : BOOLEAN, suspended : BOOLEAN, dummified : BOOLEAN]

Positions ==
  /\ req \in Nat /\ ptr \in Nat /\ end \in Nat
  /\ req <= ptr /\ ptr <= end /\ end <= Len(scn.stream)
  /\ end - ptr < SIZE_RANGE - 1
  /\ \A p \in (ptr + 1)..end : scn.stream[p] # "EOF"

MessagesOk(ms) ==
  /\ \E S : ms \in Seq(S)
  /\ \A i \in 1..Len(ms) : DOMAIN ms[i] = {"content", "ends", "poked", "trailers", "policy"}

TypeInv ==
  /\ scn \in Scenarios
  /\ Positions
  /\ peeking \in BOOLEAN
  /\ htrd \in HtrdType
  /\ DOMAIN re = {"flags", "length", "content", "trailers", "state", "concb"}
  /\ re.concb \in {"none", "content", "raw"}
  /\ DOMAIN seen = {"messages", "raw"}
  /\ MessagesOk(seen.messages)

(* The stream is a sequence.                                               *)
LEMMA StreamType ==
  ASSUME scn \in Scenarios
  PROVE  scn.stream \in Seq(STRING) /\ Len(scn.stream) \in Nat
BY HtrdAssumption

Updated(ms, mt, n, e) ==
  /\ MessagesOk(mt)
  /\ Len(mt) = Len(ms)
  /\ \A i \in 1..Len(ms) : mt[i] = IF i = n THEN e ELSE ms[i]

(* A message of those seen is replaced by another.                         *)
LEMMA MessageUpdate ==
  ASSUME NEW ms, MessagesOk(ms), NEW n, NEW e, NEW mt, mt = [ms EXCEPT ![n] = e],
         DOMAIN e = {"content", "ends", "poked", "trailers", "policy"}
  PROVE  Updated(ms, mt, n, e)
<1>1. PICK S : ms \in Seq(S)
  BY DEF MessagesOk
<1> DEFINE T == S \union {e}
<1>2. ms \in Seq(T) /\ Len(ms) \in Nat /\ DOMAIN ms = 1..Len(ms)
  BY <1>1
<1>3. \A i \in 1..Len(ms) : mt[i] = IF i = n THEN e ELSE ms[i]
  BY <1>2
<1>4. mt \in [1..Len(ms) -> T]
  <2>1. \A i \in 1..Len(ms) : ms[i] \in T
    BY <1>2
  <2>2. DOMAIN mt = 1..Len(ms) /\ mt = [i \in 1..Len(ms) |-> mt[i]]
    BY <1>2
  <2>3. \A i \in 1..Len(ms) : mt[i] \in T
    BY <1>3, <2>1
  <2> QED
    BY <2>2, <2>3
<1> HIDE DEF T
<1>5. mt \in Seq(T) /\ Len(mt) = Len(ms)
  BY <1>2, <1>4
<1> QED
  BY <1>3, <1>5 DEF MessagesOk, Updated

(* A message is added.                                                     *)
LEMMA MessageAppend ==
  ASSUME NEW ms, MessagesOk(ms), NEW e,
         DOMAIN e = {"content", "ends", "poked", "trailers", "policy"}
  PROVE  /\ MessagesOk(Append(ms, e))
         /\ Len(ms) \in Nat /\ Len(Append(ms, e)) = Len(ms) + 1
         /\ \A i \in 1..Len(ms) : Append(ms, e)[i] = ms[i]
         /\ Append(ms, e)[Len(ms) + 1] = e
<1>1. PICK S : ms \in Seq(S)
  BY DEF MessagesOk
<1> DEFINE T == S \union {e}
           mt == Append(ms, e)
<1>2. ms \in Seq(T) /\ e \in T /\ Len(ms) \in Nat
  BY <1>1
<1> HIDE DEF T, mt
<1>3. /\ mt \in Seq(T)
      /\ Len(mt) = Len(ms) + 1
      /\ \A i \in 1..Len(ms) : mt[i] = ms[i]
      /\ mt[Len(ms) + 1] = e
  BY <1>2, AppendProperties DEF mt
<1>4. ASSUME NEW i \in 1..Len(mt)
      PROVE  DOMAIN mt[i] = {"content", "ends", "poked", "trailers", "policy"}
  <2>1. i = Len(ms) + 1 \/ i \in 1..Len(ms)
    BY <1>2, <1>3
  <2> QED
    BY <1>3, <2>1 DEF MessagesOk
<1> QED
  BY <1>2, <1>3, <1>4 DEF MessagesOk, mt

SamePokes(ms, mt) ==
  /\ Len(mt) = Len(ms)
  /\ \A i \in 1..Len(ms) : mt[i].poked = ms[i].poked

(* Content is added to what the user has, and nothing else changes.        *)
LEMMA AddContentType ==
  ASSUME TypeInv, NEW octets, AddContent(octets)
  PROVE  /\ DOMAIN re' = {"flags", "length", "content", "trailers", "state", "concb"}
         /\ re'.concb \in {"none", "content", "raw"}
         /\ DOMAIN seen' = {"messages", "raw"} /\ MessagesOk(seen.messages')
         /\ SamePokes(seen.messages, seen.messages')
<1>1. /\ DOMAIN re = {"flags", "length", "content", "trailers", "state", "concb"}
      /\ re.concb \in {"none", "content", "raw"}
      /\ DOMAIN seen = {"messages", "raw"} /\ MessagesOk(seen.messages)
  BY DEF TypeInv
<1>2. SamePokes(seen.messages, seen.messages)
  BY DEF SamePokes
<1>3. CASE re.state # "open" \/ octets = <<>>
  BY <1>1, <1>2, <1>3 DEF AddContent
<1>4. CASE ~ (re.state # "open" \/ octets = <<>>) /\ re.concb = "none"
  <2>1. seen' = seen /\ re' = [re EXCEPT !.content = @ \o octets]
    BY <1>4 DEF AddContent
  <2> QED
    BY <1>1, <1>2, <2>1
<1>5. CASE ~ (re.state # "open" \/ octets = <<>>) /\ re.concb = "raw"
  <2>1. re' = re /\ seen' = [seen EXCEPT !.raw = @ \o octets]
    BY <1>5 DEF AddContent
  <2>2. DOMAIN seen' = {"messages", "raw"} /\ seen'.messages = seen.messages
    BY <1>1, <2>1
  <2> QED
    BY <1>1, <1>2, <2>1, <2>2
<1>6. CASE ~ (re.state # "open" \/ octets = <<>>) /\ re.concb = "content"
  <2> DEFINE e == [seen.messages[Latest] EXCEPT !.content = @ \o octets]
             ms == [seen.messages EXCEPT ![Latest] = e]
  <2>1. re' = re /\ seen' = [seen EXCEPT !.messages[Latest].content = @ \o octets]
    BY <1>6 DEF AddContent
  <2>2. seen' = [seen EXCEPT !.messages = ms]
    BY <2>1
  <2>3. DOMAIN seen' = {"messages", "raw"} /\ seen'.messages = ms
    BY <1>1, <2>2
  <2>4. CASE Latest \in 1..Len(seen.messages)
    <3>1. DOMAIN seen.messages[Latest] = {"content", "ends", "poked", "trailers", "policy"}
      BY <1>1, <2>4 DEF MessagesOk
    <3>2. DOMAIN e = {"content", "ends", "poked", "trailers", "policy"} /\ e.poked = seen.messages[Latest].poked
      BY <3>1
    <3> HIDE DEF e
    <3>3. Updated(seen.messages, ms, Latest, e)
      BY ONLY <1>1, <3>2, MessageUpdate, Zenon
    <3>4. SamePokes(seen.messages, ms)
      <4> HIDE DEF ms
      <4> QED
        BY <3>2, <3>3 DEF SamePokes, Updated
    <3> QED
      BY <1>1, <2>1, <2>3, <3>3, <3>4 DEF Updated
  <2>5. CASE Latest \notin 1..Len(seen.messages)
    <3>1. ms = seen.messages
      <4>1. PICK S : seen.messages \in Seq(S)
        BY <1>1 DEF MessagesOk
      <4> QED
        BY <2>5, <4>1
    <3> QED
      BY <1>1, <1>2, <2>1, <2>3, <3>1
  <2> QED
    BY <2>4, <2>5
<1> QED
  BY <1>1, <1>3, <1>4, <1>5, <1>6

(* So it is when the content is complete.                                  *)
LEMMA CompleteContentType ==
  ASSUME TypeInv, CompleteContent
  PROVE  /\ DOMAIN re' = {"flags", "length", "content", "trailers", "state", "concb"}
         /\ re'.concb \in {"none", "content", "raw"}
         /\ DOMAIN seen' = {"messages", "raw"} /\ MessagesOk(seen.messages')
         /\ SamePokes(seen.messages, seen.messages')
<1>1. /\ DOMAIN re = {"flags", "length", "content", "trailers", "state", "concb"}
      /\ re.concb \in {"none", "content", "raw"}
      /\ DOMAIN seen = {"messages", "raw"} /\ MessagesOk(seen.messages)
  BY DEF TypeInv
<1>2. SamePokes(seen.messages, seen.messages)
  BY DEF SamePokes
<1>3. CASE re.state # "open"
  BY <1>1, <1>2, <1>3 DEF CompleteContent
<1>4. CASE re.state = "open"
  <2>1. re' = [re EXCEPT !.state = "COMPLETED", !.concb = IF @ = "content" THEN "none" ELSE @]
    BY <1>4 DEF CompleteContent
  <2>2. DOMAIN re' = {"flags", "length", "content", "trailers", "state", "concb"}
        /\ re'.concb \in {"none", "content", "raw"}
    BY <1>1, <2>1
  <2>3. CASE re.concb # "content"
    BY <1>1, <1>2, <1>4, <2>2, <2>3 DEF CompleteContent
  <2>4. CASE re.concb = "content"
    <3> DEFINE e == [seen.messages[Latest] EXCEPT !.ends = @ + 1]
               ms == [seen.messages EXCEPT ![Latest] = e]
    <3>1. seen' = [seen EXCEPT !.messages[Latest].ends = @ + 1]
      BY <1>4, <2>4 DEF CompleteContent
    <3>2. seen' = [seen EXCEPT !.messages = ms]
      BY <3>1
    <3>3. DOMAIN seen' = {"messages", "raw"} /\ seen'.messages = ms
      BY <1>1, <3>2
    <3>4. CASE Latest \in 1..Len(seen.messages)
      <4>1. DOMAIN seen.messages[Latest] = {"content", "ends", "poked", "trailers", "policy"}
        BY <1>1, <3>4 DEF MessagesOk
      <4>2. DOMAIN e = {"content", "ends", "poked", "trailers", "policy"} /\ e.poked = seen.messages[Latest].poked
        BY <4>1
      <4> HIDE DEF e
      <4>3. Updated(seen.messages, ms, Latest, e)
        BY ONLY <1>1, <4>2, MessageUpdate, Zenon
      <4>4. SamePokes(seen.messages, ms)
        <5> HIDE DEF ms
        <5> QED
          BY <4>2, <4>3 DEF SamePokes, Updated
      <4> QED
        BY <2>2, <3>3, <4>3, <4>4 DEF Updated
    <3>5. CASE Latest \notin 1..Len(seen.messages)
      <4>1. ms = seen.messages
        <5>1. PICK S : seen.messages \in Seq(S)
          BY <1>1 DEF MessagesOk
        <5> QED
          BY <3>5, <5>1
      <4> QED
        BY <1>1, <1>2, <2>2, <3>3, <4>1
    <3> QED
      BY <3>4, <3>5
  <2> QED
    BY <2>3, <2>4
<1> QED
  BY <1>3, <1>4

(* Where the loop over the characters of a head stops.                     *)
LEMMA EmptyLineDef ==
  ASSUME TypeInv
  PROVE  /\ EmptyLine \in ptr..end /\ EmptyLine \in Nat
         /\ \A k \in ptr..end : k < EmptyLine => Crlf[k] \in 0..3
         /\ Crlf[end] < 4 => EmptyLine = end
         /\ Crlf[end] = 4 => Crlf[EmptyLine] = 4 /\ ptr < EmptyLine
         /\ Crlf[end] \in 0..4
<1>1. ptr \in Nat /\ end \in Nat /\ ptr <= end /\ htrd.crlf \in 0..3
  BY DEF TypeInv, Positions, HtrdType
<1>2. /\ Crlf[ptr] = htrd.crlf
      /\ \A p \in ptr..end : Crlf[p] \in 0..4
      /\ \A p \in (ptr + 1)..end : Crlf[p] = NextCrlf(Crlf[p - 1], scn.stream[p])
  <2>1. htrd.crlf \in 0..4
    BY <1>1
  <2> QED
    BY <1>1, <2>1, CrlfDef
<1> DEFINE S == {p \in ptr..end : p = end \/ Crlf[p] = 4}
<1>3. S \in SUBSET Nat /\ end \in S
  BY <1>1
<1>4. EmptyLine \in S /\ \A k \in S : EmptyLine <= k
  BY <1>3, LeastExists DEF EmptyLine
<1>5. EmptyLine \in ptr..end /\ EmptyLine \in Nat
  BY <1>1, <1>4
<1>6. ASSUME NEW k \in ptr..end, k < EmptyLine PROVE Crlf[k] \in 0..3
  <2>1. k \notin S
    BY <1>1, <1>4, <1>5, <1>6
  <2> QED
    BY <1>2, <2>1
<1>7. Crlf[EmptyLine] = 4 => Crlf[end] = 4
  <2> SUFFICES ASSUME Crlf[EmptyLine] = 4 PROVE Crlf[end] = 4
    OBVIOUS
  <2> DEFINE T == {p \in ptr..end : Crlf[p] = 4}
  <2>1. EmptyLine \in T
    BY <1>5
  <2>2. ASSUME NEW p \in (EmptyLine + 1)..end, p - 1 \in T PROVE p \in T
    <3>1. p \in (ptr + 1)..end /\ p \in ptr..end /\ Crlf[p - 1] = 4
      BY <1>1, <1>5, <2>2
    <3>2. Crlf[p] = NextCrlf(Crlf[p - 1], scn.stream[p])
      BY <1>2, <3>1
    <3> QED
      BY <3>1, <3>2 DEF NextCrlf
  <2>3. end \in EmptyLine..end
    BY <1>1, <1>5
  <2> HIDE DEF T
  <2>4. end \in T
    BY <1>1, <1>5, <2>1, <2>2, <2>3, Along
  <2> QED
    BY <2>4 DEF T
<1>8. Crlf[end] < 4 => EmptyLine = end
  BY <1>4, <1>7
<1>9. Crlf[end] = 4 => Crlf[EmptyLine] = 4 /\ ptr < EmptyLine
  <2>1. Crlf[end] = 4 => Crlf[EmptyLine] = 4
    BY <1>4
  <2>2. Crlf[ptr] # 4
    BY <1>1, <1>2
  <2> QED
    BY <1>1, <1>5, <2>1, <2>2
<1>10. Crlf[end] \in 0..4
  BY <1>1, <1>2
<1> QED
  BY <1>5, <1>6, <1>8, <1>9, <1>10

(* Where a run of characters of a set stops.                               *)
LEMMA SkipDef ==
  ASSUME end \in Nat, NEW set, NEW from \in Nat, from <= end
  PROVE  /\ Skip(set, from) \in from..end /\ Skip(set, from) \in Nat
         /\ \A k \in (from + 1)..Skip(set, from) : scn.stream[k] \in set
         /\ Skip(set, from) < end => scn.stream[Skip(set, from) + 1] \notin set
<1> DEFINE S == {p \in from..end : p = end \/ scn.stream[p + 1] \notin set}
           m == Skip(set, from)
<1>1. S \in SUBSET Nat /\ end \in S
  OBVIOUS
<1>2. m \in S /\ \A k \in S : m <= k
  BY <1>1, LeastExists DEF Skip
<1> HIDE DEF m
<1>3. m \in from..end /\ m \in Nat
  BY <1>2
<1>4. ASSUME NEW k \in (from + 1)..m PROVE scn.stream[k] \in set
  <2>1. k - 1 \in from..end /\ k - 1 < m /\ (k - 1) + 1 = k
    BY <1>3
  <2>2. k - 1 \notin S
    BY <1>2, <1>3, <2>1
  <2> QED
    BY <2>1, <2>2
<1>5. m < end => scn.stream[m + 1] \notin set
  BY <1>2, <1>3
<1> QED
  BY <1>3, <1>4, <1>5 DEF m

ReKeeps ==
  /\ DOMAIN re' = {"flags", "length", "content", "trailers", "state", "concb"}
  /\ re'.concb \in {"none", "content", "raw"}
SeenKeeps == DOMAIN seen' = {"messages", "raw"} /\ MessagesOk(seen.messages')

(* A step along the stream keeps the positions in order.                   *)
LEMMA PositionsKept ==
  ASSUME TypeInv, NEW q \in ptr..end, ptr' = q, scn' = scn, req' = req, end' = end
  PROVE  Positions'
<1>1. Positions /\ Len(scn.stream) \in Nat /\ SIZE_RANGE \in Nat
  BY StreamType, HtrdAssumption DEF TypeInv
<1>2. q \in Nat /\ req <= q /\ q <= end /\ end - q < SIZE_RANGE - 1
  BY <1>1 DEF Positions
<1>3. \A p \in (q + 1)..end : p \in (ptr + 1)..end
  BY <1>1 DEF Positions
<1> QED
  BY <1>1, <1>2, <1>3 DEF Positions

(* The parts that a step may leave alone.                                  *)
LEMMA TypeParts ==
  ASSUME TypeInv
  PROVE  /\ re' = re => ReKeeps
         /\ seen' = seen => SeenKeeps
         /\ peeking \in BOOLEAN /\ htrd \in HtrdType /\ scn \in Scenarios
         /\ Positions
BY DEF TypeInv, ReKeeps, SeenKeeps

(* Feeding keeps the types.                                                *)
LEMMA FeedType ==
  ASSUME TypeInv, NEW n \in 1..(Len(scn.stream) - ptr), Feed(n)
  PROVE  TypeInv'
<1>1. Positions /\ Len(scn.stream) \in Nat /\ SIZE_RANGE \in Nat /\ scn.stream \in Seq(STRING)
  BY StreamType, HtrdAssumption DEF TypeInv
<1>2. /\ end' = ptr + n /\ req' = ptr /\ peeking' = FALSE /\ scn' = scn
      /\ ptr + n <= Len(scn.stream) /\ n < SIZE_RANGE - 1
      /\ \A p \in (ptr + 1)..(ptr + n) : scn.stream[p] # "EOF"
      /\ ptr' = ptr \/ ptr' = ptr + n
      /\ htrd' = htrd \/ htrd' = [htrd EXCEPT !.clean = FALSE]
      /\ (re' = re /\ seen' = seen) \/ AddContent(Octets(ptr, ptr + n))
  BY Zenon DEF Feed
<1>3. Positions'
  <2>1. ptr \in Nat /\ n \in Nat /\ ptr + n \in Nat /\ n >= 1
    BY <1>1 DEF Positions
  <2>2. ptr' \in ptr..(ptr + n) /\ (ptr + n) - ptr' < SIZE_RANGE - 1
    BY <1>1, <1>2, <2>1
  <2>3. \A p \in (ptr' + 1)..(ptr + n) : p \in (ptr + 1)..(ptr + n)
    <3>1. PICK q : q = ptr'
      OBVIOUS
    <3>2. q \in ptr..(ptr + n)
      BY <2>2, <3>1
    <3>3. \A p \in (q + 1)..(ptr + n) : p \in (ptr + 1)..(ptr + n)
      BY ONLY <2>1, <3>2
    <3> QED
      BY ONLY <3>1, <3>3
  <2> QED
    BY <1>1, <1>2, <2>1, <2>2, <2>3 DEF Positions
<1>4. ReKeeps /\ SeenKeeps
  BY <1>2, AddContentType DEF ReKeeps, SeenKeeps, TypeInv
<1>5. htrd' \in HtrdType
  BY <1>2 DEF TypeInv, HtrdType
<1>6. scn' \in Scenarios /\ peeking' \in BOOLEAN
  BY <1>2 DEF TypeInv
<1> QED
  BY <1>3, <1>4, <1>5, <1>6 DEF TypeInv, ReKeeps, SeenKeeps

(* The reader at the start.                                                *)
LEMMA FreshType == Fresh \in HtrdType
<1>1. <<>> \in Seq(STRING)
  BY EmptySeq
<1>2. ASSUME NEW e \in Seq(STRING), NEW c \in 0..3, NEW n \in Nat, NEW d \in BOOLEAN,
             NEW l \in {"DONE", "LEN", "DATA", "CRLF", "TRAILERS"}, NEW f \in BOOLEAN
      PROVE  [crlf |-> c, raw |-> e, tra |-> e, phase |-> l, len |-> n, count |-> n,
              need |-> n, until_close |-> d, clean |-> f, suspended |-> d, dummified |-> d]
             \in HtrdType
  BY ONLY e \in Seq(STRING), c \in 0..3, n \in Nat, d \in BOOLEAN, f \in BOOLEAN,
          l \in {"DONE", "LEN", "DATA", "CRLF", "TRAILERS"}, Zenon DEF HtrdType
<1>3. 0 \in 0..3 /\ "DONE" \in {"DONE", "LEN", "DATA", "CRLF", "TRAILERS"} /\ 0 \in Nat
      /\ FALSE \in BOOLEAN /\ TRUE \in BOOLEAN
  OBVIOUS
<1> QED
  BY ONLY <1>1, <1>2, <1>3, Zenon DEF Fresh

(* The fields of the reader keep their types.                              *)
LEMMA HtrdUpdates ==
  ASSUME NEW x \in HtrdType
  PROVE  /\ x.crlf \in 0..3 /\ x.raw \in Seq(STRING) /\ x.tra \in Seq(STRING)
         /\ x.len \in Nat /\ x.count \in Nat /\ x.need \in Nat
         /\ x.until_close \in BOOLEAN /\ x.suspended \in BOOLEAN /\ x.dummified \in BOOLEAN
         /\ \A c \in 0..3, r \in Seq(STRING) : [x EXCEPT !.crlf = c, !.raw = r] \in HtrdType
         /\ \A c \in 0..3, r \in Seq(STRING) : [x EXCEPT !.crlf = c, !.tra = r] \in HtrdType
         /\ NewChunk(x) \in HtrdType
         /\ Cleared(x) \in HtrdType
<1>1. /\ x.crlf \in 0..3 /\ x.raw \in Seq(STRING) /\ x.tra \in Seq(STRING)
      /\ x.len \in Nat /\ x.count \in Nat /\ x.need \in Nat
      /\ x.until_close \in BOOLEAN /\ x.suspended \in BOOLEAN /\ x.dummified \in BOOLEAN
  BY DEF HtrdType
<1>2. \A c \in 0..3, r \in Seq(STRING) : [x EXCEPT !.crlf = c, !.raw = r] \in HtrdType
  BY DEF HtrdType
<1>3. \A c \in 0..3, r \in Seq(STRING) : [x EXCEPT !.crlf = c, !.tra = r] \in HtrdType
  BY DEF HtrdType
<1>4. NewChunk(x) \in HtrdType
  BY DEF HtrdType, NewChunk
<1>5. Cleared(x) \in HtrdType
  <2>4. Fresh \in HtrdType
    BY FreshType
  <2>5. ASSUME NEW y \in HtrdType, NEW a \in BOOLEAN, NEW b \in BOOLEAN
        PROVE  [y EXCEPT !.suspended = a, !.dummified = b] \in HtrdType
    BY ONLY y \in HtrdType, a \in BOOLEAN, b \in BOOLEAN DEF HtrdType
  <2> QED
    BY ONLY <1>1, <2>4, <2>5, Zenon DEF Cleared
<1> QED
  BY <1>1, <1>2, <1>3, <1>4, <1>5

(* Trailers have been read.                                                *)
LEMMA TrailersReadType ==
  ASSUME NEW x \in HtrdType, NEW t \in Seq(STRING)
  PROVE  [x EXCEPT !.crlf = 0, !.phase = "DONE", !.tra = t] \in HtrdType
<1>1. ASSUME NEW c \in 0..3, NEW l \in {"DONE", "LEN", "DATA", "CRLF", "TRAILERS"}
      PROVE  [x EXCEPT !.crlf = c, !.phase = l, !.tra = t] \in HtrdType
  BY DEF HtrdType
<1>2. 0 \in 0..3 /\ "DONE" \in {"DONE", "LEN", "DATA", "CRLF", "TRAILERS"}
  OBVIOUS
<1> QED
  BY ONLY <1>1, <1>2, Zenon

(* What has been read of a head is a sequence.                             *)
LEMMA RawType ==
  ASSUME TypeInv, NEW q \in ptr..end
  PROVE  /\ htrd.raw \o Octets(req, q) \in Seq(STRING)
         /\ htrd.tra \o Octets(ptr, q) \in Seq(STRING)
<1>1. Positions /\ Len(scn.stream) \in Nat /\ scn.stream \in Seq(STRING)
      /\ htrd.raw \in Seq(STRING) /\ htrd.tra \in Seq(STRING)
  BY StreamType, HtrdUpdates DEF TypeInv
<1>2. req \in Nat /\ ptr \in Nat /\ q \in Nat /\ req <= q /\ ptr <= q /\ q <= Len(scn.stream)
  BY <1>1 DEF Positions
<1>3. Octets(req, q) \in Seq(STRING) /\ Octets(ptr, q) \in Seq(STRING)
  <2>1. q <= q
    BY <1>2
  <2>2. SubSeq(scn.stream, req + 1, q) \in Seq(STRING)
    BY ONLY <1>1, <1>2, <2>1, Pieces
  <2>3. SubSeq(scn.stream, ptr + 1, q) \in Seq(STRING)
    BY ONLY <1>1, <1>2, <2>1, Pieces
  <2> QED
    BY <2>2, <2>3 DEF Octets
<1> QED
  BY <1>1, <1>3, ConcatProperties

(* Reading a head keeps the types.                                         *)
LEMMA ReadHeadType ==
  ASSUME TypeInv, RejectNull \/ ReadPartOfHead \/ ReadHead
  PROVE  TypeInv'
<1>1. EmptyLine \in ptr..end /\ Crlf[end] \in 0..4 /\ end \in ptr..end
  <2>1. ptr \in Nat /\ end \in Nat /\ ptr <= end
    BY DEF TypeInv, Positions
  <2> QED
    BY <2>1, EmptyLineDef
<1>p. peeking \in BOOLEAN /\ htrd \in HtrdType /\ scn \in Scenarios
  BY TypeParts
<1>2. CASE RejectNull
  <2>1. ptr' = EmptyLine /\ scn' = scn /\ req' = req /\ end' = end /\ peeking' = peeking
        /\ htrd' = htrd /\ re' = re /\ seen' = seen
    BY <1>2 DEF RejectNull, Goto
  <2>2. Positions'
    BY <1>1, <2>1, PositionsKept
  <2> QED
    BY <2>1, <2>2, TypeParts DEF TypeInv, ReKeeps, SeenKeeps
<1>3. CASE ReadPartOfHead
  <2>1. ptr' = end /\ scn' = scn /\ req' = req /\ end' = end /\ peeking' = peeking
        /\ re' = re /\ seen' = seen /\ Crlf[end] < 4
        /\ htrd' = [htrd EXCEPT !.crlf = Crlf[end], !.raw = htrd.raw \o Octets(req, end)]
    BY <1>3 DEF ReadPartOfHead, Goto
  <2>2. Positions'
    BY <1>1, <2>1, PositionsKept
  <2>3. Crlf[end] \in 0..3 /\ htrd.raw \o Octets(req, end) \in Seq(STRING)
    BY <1>1, <2>1, RawType
  <2>4. htrd' \in HtrdType
    BY <1>p, <2>1, <2>3, HtrdUpdates
  <2> QED
    BY <2>1, <2>2, <2>4, TypeParts DEF TypeInv, ReKeeps, SeenKeeps
<1>4. CASE ReadHead
  <2>1. PICK h \in {parse_initial_line_and_headers(scn.option, Raw)} :
       \/ /\ HeadRead
          /\ ptr' = EmptyLine
          /\ Goto("failed")
          /\ UNCHANGED <<peeking, re, seen>>
       \/ /\ HeadRead
          /\ re' = [re EXCEPT !.flags = h.flags, !.length = h.length, !.state = "COMPLETED",
                              !.content = @ \o Octets(EmptyLine, end)]
          /\ ptr' = end
          /\ peeking' = TRUE
          /\ Goto("feedme_more")
          /\ UNCHANGED seen
       \/ /\ HasHead(h)
          /\ ptr' = IF Framing(scn.option, h) = "none" THEN end ELSE EmptyLine
          /\ peeking' = TRUE
          /\ LET x == [htrd EXCEPT !.crlf = 0, !.raw = Raw]
             IN  htrd' = CASE Framing(scn.option, h) = "chunked" -> NewChunk(x)
                           [] Framing(scn.option, h) = "length" -> [x EXCEPT !.need = h.length]
                           [] Framing(scn.option, h) = "close" ->
                                [x EXCEPT !.need = SIZE_RANGE - 1, !.until_close = TRUE]
                           [] Framing(scn.option, h) = "none" -> x
          /\ scn' = scn /\ req' = req /\ end' = end
          /\ UNCHANGED seen
    BY <1>4, Zenon DEF ReadHead, Goto
  <2> DEFINE x == [htrd EXCEPT !.crlf = 0, !.raw = Raw]
  <2>2. Raw \in Seq(STRING)
    BY <1>1, RawType DEF Raw
  <2>3. x \in HtrdType
    <3>1. 0 \in 0..3
      OBVIOUS
    <3> QED
      BY <1>p, <2>2, <3>1, HtrdUpdates
  <2>4. h.length \in Nat
    <3>1. h \in HeadType
      BY <2>1, <2>2, ParseType
    <3> QED
      BY <3>1 DEF HeadType
  <2>5. htrd' \in HtrdType
    <3>1. CASE HeadRead
      BY <2>3, <3>1 DEF HeadRead
    <3>2. CASE htrd' = CASE Framing(scn.option, h) = "chunked" -> NewChunk(x)
                           [] Framing(scn.option, h) = "length" -> [x EXCEPT !.need = h.length]
                           [] Framing(scn.option, h) = "close" ->
                                [x EXCEPT !.need = SIZE_RANGE - 1, !.until_close = TRUE]
                           [] Framing(scn.option, h) = "none" -> x
      <4> HIDE DEF x
      <4>1. Framing(scn.option, h) \in {"chunked", "length", "close", "none"}
        BY DEF Framing
      <4>2. NewChunk(x) \in HtrdType
        BY <2>3, HtrdUpdates
      <4>3. [x EXCEPT !.need = h.length] \in HtrdType
        BY <2>3, <2>4 DEF HtrdType
      <4>4. [x EXCEPT !.need = SIZE_RANGE - 1, !.until_close = TRUE] \in HtrdType
        <5>1. SIZE_RANGE - 1 \in Nat
          BY HtrdAssumption
        <5> QED
          BY <2>3, <5>1 DEF HtrdType
      <4> QED
        BY ONLY <2>3, <3>2, <4>1, <4>2, <4>3, <4>4
    <3> QED
      BY ONLY <2>1, <3>1, <3>2
  <2>6. ReKeeps
    BY <2>1, TypeParts DEF HasHead, ReKeeps, TypeInv
  <2>7. ptr' \in ptr..end /\ scn' = scn /\ req' = req /\ end' = end /\ peeking' \in BOOLEAN
        /\ seen' = seen
    BY <1>1, <1>p, <2>1 DEF Goto
  <2>8. Positions'
    BY <2>7, PositionsKept
  <2> QED
    BY <2>5, <2>6, <2>7, <2>8, TypeParts DEF TypeInv, ReKeeps, SeenKeeps
<1> QED
  BY <1>2, <1>3, <1>4

(* Reading content keeps the types.                                        *)
LEMMA ContentType ==
  ASSUME TypeInv, GetChunkLen \/ GetTrailers \/ ReadContent \/ EndChunk
  PROVE  TypeInv'
<1>0. ptr \in Nat /\ end \in Nat /\ ptr <= end
  BY DEF TypeInv, Positions
<1>1. EmptyLine \in ptr..end /\ Crlf[end] \in 0..4 /\ end \in ptr..end
  BY <1>0, EmptyLineDef
<1>p. peeking \in BOOLEAN /\ htrd \in HtrdType /\ scn \in Scenarios
  BY TypeParts
<1>f. htrd.len \in Nat /\ htrd.count \in Nat /\ htrd.need \in Nat
  BY <1>p, HtrdUpdates
<1>2. CASE GetChunkLen
  <2> DEFINE first == IF htrd.count = 0 THEN Skip(is_space_octet, ptr) ELSE ptr
             last == Skip(xdigit, first)
             stop == Skip(is_space_octet, last)
             x == [htrd EXCEPT !.len = ChunkLen(first, last), !.count = @ + (last - first)]
             phase == CASE x.count = 0 -> "DONE"
                        [] x.count > 0 /\ x.len = 0 -> "TRAILERS"
                        [] x.count > 0 /\ x.len > 0 -> "DATA"
  <2>1. first \in ptr..end /\ first \in Nat
    BY <1>0, SkipDef
  <2> HIDE DEF first
  <2>2. last \in first..end /\ last \in Nat /\ \A k \in (first + 1)..last : scn.stream[k] \in xdigit
    BY <1>0, <2>1, SkipDef
  <2> HIDE DEF last
  <2>3. stop \in last..end /\ stop \in Nat
    BY <1>0, <2>2, SkipDef
  <2> HIDE DEF stop
  <2>4. ChunkLen(first, last) \in Nat
    <3>1. first <= last /\ last \in first..last
      BY <2>1, <2>2
    <3>2. PICK f : /\ f[first] = htrd.len /\ ChunkLen(first, last) = f[last]
                   /\ \A p \in first..last : f[p] \in Nat
                   /\ \A p \in (first + 1)..last : f[p] = AddDigit(f[p - 1], scn.stream[p])
      BY ONLY <1>f, <2>1, <2>2, <3>1, ChunkLenDef
    <3> QED
      BY <3>1, <3>2
  <2>5. x \in HtrdType
    <3>1. htrd.count + (last - first) \in Nat
      BY <1>f, <2>1, <2>2
    <3> QED
      BY <1>p, <2>4, <3>1 DEF HtrdType
  <2> HIDE DEF x
  <2>6. x.count \in Nat /\ x.len \in Nat /\ x.crlf \in 0..3
    BY <2>5, HtrdUpdates
  <2>7. phase \in {"DONE", "TRAILERS", "DATA"}
    BY <2>6
  <2> HIDE DEF phase
  <2>8. /\ scn' = scn /\ req' = req /\ end' = end /\ peeking' = peeking /\ re' = re /\ seen' = seen
        /\ \/ ptr' = stop /\ htrd' = x
           \/ /\ stop < end /\ ptr' = stop + 1
              /\ htrd' = [x EXCEPT !.phase = phase, !.need = x.len,
                                   !.crlf = IF phase = "TRAILERS" THEN 2 ELSE @]
    BY <1>2, Zenon DEF GetChunkLen, Goto, first, last, stop, x, phase
  <2>9. ptr' \in ptr..end
    BY <1>0, <2>1, <2>2, <2>3, <2>8
  <2>10. htrd' \in HtrdType
    <3>1. ASSUME NEW l \in {"DONE", "TRAILERS", "DATA"}, NEW c \in 0..3
          PROVE  [x EXCEPT !.phase = l, !.need = x.len, !.crlf = c] \in HtrdType
      BY ONLY <2>5, <2>6, l \in {"DONE", "TRAILERS", "DATA"}, c \in 0..3 DEF HtrdType
    <3>2. PICK c \in 0..3 : c = IF phase = "TRAILERS" THEN 2 ELSE x.crlf
      BY <2>6
    <3>3. [x EXCEPT !.phase = phase, !.need = x.len, !.crlf = c] \in HtrdType
      BY <2>7, <3>1
    <3> QED
      BY <2>5, <2>8, <3>2, <3>3
  <2>11. Positions'
    BY <2>8, <2>9, PositionsKept
  <2> QED
    BY <1>p, <2>8, <2>10, <2>11, TypeParts DEF TypeInv, ReKeeps, SeenKeeps
<1>3. CASE GetTrailers
  <2>1. /\ ptr' = EmptyLine /\ scn' = scn /\ req' = req /\ end' = end
        /\ peeking' = peeking /\ seen' = seen
        /\ \/ /\ htrd' = [htrd EXCEPT !.crlf = 0, !.phase = "DONE",
                                      !.tra = @ \o Octets(ptr, EmptyLine)]
              /\ re' = [re EXCEPT !.trailers = SelectSeq(Fields(htrd'.tra), LAMBDA c : c = "field")]
           \/ /\ Crlf[end] < 4
              /\ htrd' = [htrd EXCEPT !.crlf = Crlf[end], !.tra = @ \o Octets(ptr, end)]
              /\ re' = re
    BY <1>3, Zenon DEF GetTrailers, Goto
  <2>2. Positions'
    BY <1>1, <2>1, PositionsKept
  <2>3. htrd.tra \o Octets(ptr, EmptyLine) \in Seq(STRING) /\ htrd.tra \o Octets(ptr, end) \in Seq(STRING)
    BY <1>1, RawType
  <2>4. htrd' \in HtrdType
    <3>1. ASSUME NEW t \in Seq(STRING)
          PROVE  [htrd EXCEPT !.crlf = 0, !.phase = "DONE", !.tra = t] \in HtrdType
      BY <1>p, TrailersReadType
    <3>2. ASSUME Crlf[end] < 4
          PROVE  [htrd EXCEPT !.crlf = Crlf[end], !.tra = htrd.tra \o Octets(ptr, end)] \in HtrdType
      <4>1. Crlf[end] \in 0..3
        BY <1>1, <3>2
      <4> QED
        BY <1>p, <2>3, <4>1, HtrdUpdates
    <3> QED
      BY <2>1, <2>3, <3>1, <3>2
  <2>5. ReKeeps
    <3>1. re' = re \/ \E t : re' = [re EXCEPT !.trailers = t]
      BY <2>1
    <3> QED
      BY <3>1, TypeParts DEF TypeInv, ReKeeps
  <2> QED
    BY <1>p, <2>1, <2>2, <2>4, <2>5, TypeParts DEF TypeInv, ReKeeps, SeenKeeps
<1>4. CASE ReadContent
  <2> DEFINE n == Min({htrd.need, end - ptr})
             left == IF htrd.until_close THEN htrd.need ELSE htrd.need - n
  <2>1. n \in Nat /\ n <= htrd.need /\ n <= end - ptr
    <3>1. {htrd.need, end - ptr} \in SUBSET Nat
      BY <1>0, <1>f
    <3>2. n \in {htrd.need, end - ptr} /\ \A k \in {htrd.need, end - ptr} : n <= k
      BY <3>1, LeastExists
    <3> HIDE DEF n
    <3> QED
      BY <3>1, <3>2
  <2> HIDE DEF n
  <2>2. left \in Nat
    BY <1>f, <2>1
  <2> HIDE DEF left
  <2>3. /\ AddContent(Octets(ptr, ptr + n))
        /\ ptr' = ptr + n /\ scn' = scn /\ req' = req /\ end' = end /\ peeking' = peeking
        /\ htrd' = [htrd EXCEPT !.need = left, !.phase = IF left = 0 /\ @ = "DATA" THEN "CRLF" ELSE @]
    BY <1>4, Zenon DEF ReadContent, Goto, n, left
  <2>4. ptr' \in ptr..end
    BY <1>0, <2>1, <2>3
  <2>5. Positions'
    BY <2>3, <2>4, PositionsKept
  <2>6. htrd' \in HtrdType
    BY <1>p, <2>2, <2>3 DEF HtrdType
  <2>7. ReKeeps /\ SeenKeeps
    BY <2>3, AddContentType DEF ReKeeps, SeenKeeps
  <2> QED
    BY <1>p, <2>3, <2>5, <2>6, <2>7 DEF TypeInv, ReKeeps, SeenKeeps
<1>5. CASE EndChunk
  <2> DEFINE stop == Skip(is_space_octet, ptr)
  <2>1. stop \in ptr..end /\ stop \in Nat
    BY <1>0, SkipDef
  <2> HIDE DEF stop
  <2>2. /\ scn' = scn /\ req' = req /\ end' = end /\ peeking' = peeking /\ re' = re /\ seen' = seen
        /\ ptr' = stop \/ (stop < end /\ ptr' = stop + 1)
        /\ htrd' = htrd \/ htrd' = NewChunk(htrd)
    BY <1>5, Zenon DEF EndChunk, Goto, stop
  <2>3. ptr' \in ptr..end
    BY <1>0, <2>1, <2>2
  <2>4. Positions'
    BY <2>2, <2>3, PositionsKept
  <2>5. htrd' \in HtrdType
    BY <1>p, <2>2, HtrdUpdates
  <2> QED
    BY <1>p, <2>2, <2>4, <2>5, TypeParts DEF TypeInv, ReKeeps, SeenKeeps
<1> QED
  BY <1>2, <1>3, <1>4, <1>5

(* Telling the user keeps the types.                                       *)
LEMMA TellType ==
  ASSUME TypeInv, NEW policy, NEW answer,
         Complete \/ FeedmeMore \/ clear_feed \/ Peek(policy) \/ Poke(answer)
  PROVE  TypeInv'
<1>p. peeking \in BOOLEAN /\ htrd \in HtrdType /\ scn \in Scenarios /\ ptr \in ptr..end
      /\ end \in ptr..end
  <2>1. ptr \in ptr..end /\ end \in ptr..end
    BY DEF TypeInv, Positions
  <2> QED
    BY <2>1, TypeParts
<1>r. /\ DOMAIN re = {"flags", "length", "content", "trailers", "state", "concb"}
      /\ re.concb \in {"none", "content", "raw"}
      /\ DOMAIN seen = {"messages", "raw"} /\ MessagesOk(seen.messages)
  BY DEF TypeInv
<1>1. CASE Complete
  <2>1. CompleteContent /\ ptr' = ptr /\ scn' = scn /\ req' = req /\ end' = end
        /\ peeking' = peeking /\ htrd' = htrd
    BY <1>1 DEF Complete, Goto
  <2>2. Positions'
    BY <1>p, <2>1, PositionsKept
  <2>3. ReKeeps /\ SeenKeeps
    BY <2>1, CompleteContentType DEF ReKeeps, SeenKeeps
  <2> QED
    BY <1>p, <2>1, <2>2, <2>3 DEF TypeInv, ReKeeps, SeenKeeps
<1>2. CASE FeedmeMore
  <2>1. ptr' = ptr /\ scn' = scn /\ req' = req /\ end' = end
        /\ peeking' = peeking /\ htrd' = htrd /\ re' = re /\ seen' = seen
    BY <1>2 DEF FeedmeMore, Goto
  <2>2. Positions'
    BY <1>p, <2>1, PositionsKept
  <2> QED
    BY <1>p, <2>1, <2>2, TypeParts DEF TypeInv, ReKeeps, SeenKeeps
<1>3. CASE clear_feed
  <2>1. /\ ClearMessage /\ scn' = scn /\ end' = end /\ peeking' = peeking
        /\ ptr' \in {ptr, end} /\ req' \in {req, ptr}
        /\ htrd' = Cleared(htrd) \/ htrd' = [Cleared(htrd) EXCEPT !.clean = FALSE]
        /\ seen' = seen \/ seen' = [seen EXCEPT !.raw = @ \o Octets(ptr, end)]
    BY <1>3 DEF clear_feed
  <2>2. Positions'
    <3>1. Positions /\ SIZE_RANGE \in Nat /\ SIZE_RANGE > 1 /\ Len(scn.stream) \in Nat
      BY StreamType, HtrdAssumption DEF TypeInv
    <3>2. PICK p : p = ptr'
      OBVIOUS
    <3>3. p \in Nat /\ p \in ptr..end /\ req' \in Nat /\ req' <= p /\ end - p < SIZE_RANGE - 1
      BY <2>1, <3>1, <3>2 DEF Positions
    <3>4. \A k \in (p + 1)..end : k \in (ptr + 1)..end
      BY ONLY <3>1, <3>3 DEF Positions
    <3> QED
      BY <2>1, <3>1, <3>2, <3>3, <3>4 DEF Positions
  <2>3. htrd' \in HtrdType
    <3>1. Cleared(htrd) \in HtrdType
      BY <1>p, HtrdUpdates
    <3>2. ASSUME NEW x \in HtrdType PROVE [x EXCEPT !.clean = FALSE] \in HtrdType
      BY ONLY x \in HtrdType DEF HtrdType
    <3> QED
      BY <2>1, <3>1, <3>2
  <2>4. ReKeeps
    <3>1. PICK c : re' = [NoMessage EXCEPT !.concb = c] /\ c \in {"none", re.concb}
      BY <2>1 DEF ClearMessage
    <3> QED
      BY <1>r, <3>1 DEF NoMessage, ReKeeps
  <2>5. SeenKeeps
    <3>1. DOMAIN seen' = {"messages", "raw"} /\ seen'.messages = seen.messages
      BY <1>r, <2>1
    <3> QED
      BY <1>r, <3>1 DEF SeenKeeps
  <2> QED
    BY <1>p, <2>1, <2>2, <2>3, <2>4, <2>5 DEF TypeInv, ReKeeps, SeenKeeps
<1>4. CASE Peek(policy)
  <2> DEFINE e == [NewlySeen EXCEPT
                 !.policy = policy,
                 !.content = IF policy = "stream" THEN re.content ELSE <<>>,
                 !.ends = IF policy = "stream" /\ re.state = "COMPLETED" THEN 1 ELSE 0]
  <2>1. /\ ptr' = ptr /\ scn' = scn /\ req' = req /\ end' = end /\ peeking' = FALSE
        /\ htrd' = htrd \/ htrd' = [htrd EXCEPT !.suspended = TRUE, !.dummified = TRUE]
        /\ seen' = [seen EXCEPT !.messages = Append(seen.messages, e)]
    BY <1>4, Zenon DEF Peek, Goto, PeekDone
  <2>2. Positions'
    BY <1>p, <2>1, PositionsKept
  <2>3. htrd' \in HtrdType
    BY <1>p, <2>1 DEF HtrdType
  <2>4. ReKeeps
    <3>1. re' = CASE policy = "stream" /\ re.state = "open" -> [re EXCEPT !.concb = "content"]
             [] policy = "discard" /\ re.state = "open" ->
                  [re EXCEPT !.state = "DISCARDED", !.content = <<>>]
             [] policy = "upgrade" -> [re EXCEPT !.concb = "raw"]
             [] OTHER -> re
      BY <1>4, Zenon DEF Peek
    <3>2. re' = [re EXCEPT !.concb = "content"] \/ re' = [re EXCEPT !.concb = "raw"] \/ re' = re
          \/ re' = [re EXCEPT !.state = "DISCARDED", !.content = <<>>]
      BY <3>1
    <3> QED
      BY <1>r, <3>2 DEF ReKeeps
  <2>5. DOMAIN e = {"content", "ends", "poked", "trailers", "policy"}
    BY DEF NewlySeen
  <2> HIDE DEF e
  <2>6. MessagesOk(Append(seen.messages, e))
    BY <1>r, <2>5, MessageAppend
  <2>7. SeenKeeps
    BY <1>r, <2>1, <2>6 DEF SeenKeeps
  <2>8. peeking' \in BOOLEAN
    BY <2>1
  <2> QED
    BY <1>p, <2>1, <2>2, <2>3, <2>4, <2>7, <2>8 DEF TypeInv, ReKeeps, SeenKeeps
<1>5. CASE Poke(answer)
  <2> DEFINE m == seen.messages[Latest]
             e == [m EXCEPT
                    !.poked = m.poked + 1,
                    !.policy = IF answer = "fail" THEN "fail" ELSE m.policy,
                    !.trailers = re.trailers,
                    !.content = IF m.policy = "keep" THEN re.content ELSE m.content]
             ms == [seen.messages EXCEPT ![Latest] = e]
  <2>1. /\ ptr' = ptr /\ scn' = scn /\ req' = req /\ end' = end /\ peeking' = peeking
        /\ htrd' = htrd \/ htrd' = [htrd EXCEPT !.dummified = TRUE]
        /\ re' = re \/ re' = [re EXCEPT !.concb = "raw"]
        /\ seen' = [seen EXCEPT !.messages = ms]
    BY <1>5, Zenon DEF Poke, Goto
  <2>2. Positions'
    BY <1>p, <2>1, PositionsKept
  <2>3. htrd' \in HtrdType
    BY <1>p, <2>1 DEF HtrdType
  <2>4. ReKeeps
    BY <1>r, <2>1 DEF ReKeeps
  <2>5. MessagesOk(ms)
    <3>1. CASE Latest \in 1..Len(seen.messages)
      <4>1. DOMAIN m = {"content", "ends", "poked", "trailers", "policy"}
        BY <1>r, <3>1 DEF MessagesOk
      <4>2. DOMAIN e = {"content", "ends", "poked", "trailers", "policy"}
        BY <4>1
      <4> HIDE DEF e
      <4>3. Updated(seen.messages, ms, Latest, e)
        BY ONLY <1>r, <4>2, MessageUpdate, Zenon
      <4> QED
        BY <4>3 DEF Updated
    <3>2. CASE Latest \notin 1..Len(seen.messages)
      <4> HIDE DEF e
      <4>1. PICK S : seen.messages \in Seq(S)
        BY <1>r DEF MessagesOk
      <4>2. ms = seen.messages
        BY <3>2, <4>1
      <4> QED
        BY <1>r, <4>2
    <3> QED
      BY <3>1, <3>2
  <2> HIDE DEF ms
  <2>6. SeenKeeps
    BY <1>r, <2>1, <2>5 DEF SeenKeeps
  <2> QED
    BY <1>p, <2>1, <2>2, <2>3, <2>4, <2>6 DEF TypeInv, ReKeeps, SeenKeeps
<1> QED
  BY <1>1, <1>2, <1>3, <1>4, <1>5

(* So do the other calls.                                                  *)
LEMMA CallType ==
  ASSUME TypeInv, NEW granted \in BOOLEAN, Halt \/ Resume(granted) \/ UNCHANGED vars
  PROVE  TypeInv'
<1>p. peeking \in BOOLEAN /\ htrd \in HtrdType /\ scn \in Scenarios /\ ptr \in ptr..end
  <2>1. ptr \in ptr..end
    BY DEF TypeInv, Positions
  <2> QED
    BY <2>1, TypeParts
<1>r. /\ DOMAIN re = {"flags", "length", "content", "trailers", "state", "concb"}
      /\ re.concb \in {"none", "content", "raw"}
  BY DEF TypeInv
<1>1. CASE Halt
  <2>1. CompleteContent /\ ptr' = ptr + 1 /\ scn' = scn /\ req' = req /\ end' = ptr + 1
        /\ peeking' = FALSE /\ htrd' = htrd /\ ptr < Len(scn.stream)
    BY <1>1 DEF Halt
  <2>2. Positions'
    <3>1. Positions /\ SIZE_RANGE \in Nat /\ SIZE_RANGE > 1 /\ Len(scn.stream) \in Nat
      BY StreamType, HtrdAssumption DEF TypeInv
    <3>2. PICK p : p = ptr + 1
      OBVIOUS
    <3>3. p \in Nat /\ req <= p /\ p <= Len(scn.stream) /\ p - p < SIZE_RANGE - 1
          /\ \A k \in (p + 1)..p : FALSE
      BY <2>1, <3>1, <3>2 DEF Positions
    <3> QED
      BY <2>1, <3>1, <3>2, <3>3 DEF Positions
  <2>3. ReKeeps /\ SeenKeeps
    BY <2>1, CompleteContentType DEF ReKeeps, SeenKeeps
  <2>4. peeking' \in BOOLEAN
    BY <2>1
  <2> QED
    BY <1>p, <2>1, <2>2, <2>3, <2>4 DEF TypeInv, ReKeeps, SeenKeeps
<1>2. CASE Resume(granted)
  <2>1. /\ ptr' = ptr /\ scn' = scn /\ req' = req /\ end' = end /\ peeking' = peeking
        /\ seen' = seen
        /\ htrd' = [htrd EXCEPT !.suspended = FALSE, !.dummified = granted]
        /\ re' = re \/ re' = [re EXCEPT !.concb = "none"]
    BY <1>2 DEF Resume, locals
  <2>2. Positions'
    BY <1>p, <2>1, PositionsKept
  <2>3. htrd' \in HtrdType
    BY <1>p, <2>1 DEF HtrdType
  <2>4. ReKeeps
    BY <1>r, <2>1 DEF ReKeeps
  <2> QED
    BY <1>p, <2>1, <2>2, <2>3, <2>4, TypeParts DEF TypeInv, ReKeeps, SeenKeeps
<1>3. CASE UNCHANGED vars
  <2>1. ptr' = ptr /\ scn' = scn /\ req' = req /\ end' = end /\ peeking' = peeking
        /\ htrd' = htrd /\ re' = re /\ seen' = seen
    BY <1>3 DEF vars, locals
  <2>2. Positions'
    BY <1>p, <2>1, PositionsKept
  <2> QED
    BY <1>p, <2>1, <2>2, TypeParts DEF TypeInv, ReKeeps, SeenKeeps
<1> QED
  BY <1>1, <1>2, <1>3

(* The types hold at the start.                                            *)
LEMMA InitType == Init => TypeInv
<1> SUFFICES ASSUME Init PROVE TypeInv
  OBVIOUS
<1>1. scn \in Scenarios /\ ptr = 0 /\ req = 0 /\ end = 0 /\ peeking = FALSE /\ htrd = Fresh
      /\ re = NoMessage /\ seen = [messages |-> <<>>, raw |-> <<>>]
  BY DEF Init
<1>2. Positions
  <2>1. Len(scn.stream) \in Nat /\ SIZE_RANGE \in Nat /\ SIZE_RANGE > 1
    BY <1>1, StreamType, HtrdAssumption
  <2> QED
    BY <1>1, <2>1 DEF Positions
<1>3. htrd \in HtrdType /\ peeking \in BOOLEAN
  BY <1>1, FreshType
<1>4. DOMAIN re = {"flags", "length", "content", "trailers", "state", "concb"}
      /\ re.concb \in {"none", "content", "raw"}
  BY <1>1 DEF NoMessage
<1>5. DOMAIN seen = {"messages", "raw"} /\ seen.messages = <<>>
  BY <1>1
<1>6. MessagesOk(<<>>)
  <2>1. <<>> \in Seq(STRING) /\ Len(<<>>) = 0
    BY EmptySeq
  <2>2. \A i \in 1..Len(<<>>) : FALSE
    BY <2>1
  <2> QED
    BY <2>1, <2>2, Zenon DEF MessagesOk
<1> QED
  BY <1>1, <1>2, <1>3, <1>4, <1>5, <1>6 DEF TypeInv

(* Every step keeps them.                                                  *)
LEMMA StepType == TypeInv /\ [Next]_vars => TypeInv'
<1> SUFFICES ASSUME TypeInv, [Next]_vars PROVE TypeInv'
  OBVIOUS
<1>1. CASE \E n \in 1..(Len(scn.stream) - ptr) : Feed(n)
  BY <1>1, FeedType
<1>2. CASE RejectNull \/ ReadPartOfHead \/ ReadHead
  BY <1>2, ReadHeadType
<1>3. CASE GetChunkLen \/ GetTrailers \/ ReadContent \/ EndChunk
  BY <1>3, ContentType
<1>4. CASE Complete \/ FeedmeMore \/ clear_feed \/ (\E policy \in Policies : Peek(policy))
           \/ (\E answer \in {"go", "connect", "fail"} : Poke(answer))
  BY <1>4, TellType
<1>5. CASE Halt \/ (\E granted \in BOOLEAN : Resume(granted)) \/ UNCHANGED vars
  <2>1. \E granted \in BOOLEAN : Halt \/ Resume(granted) \/ UNCHANGED vars
    BY <1>5
  <2> QED
    BY <2>1, CallType
<1>6. CASE Done
  <2>1. UNCHANGED vars
    BY <1>6 DEF Done
  <2> QED
    BY <1>5, <2>1
<1> QED
  BY <1>1, <1>2, <1>3, <1>4, <1>5, <1>6 DEF Next

-----------------------------------------------------------------------------
(* The inductive invariant: the fields of the reader say where the reading *)
(* of the stream as a whole is, and the user has been told as much.        *)

InHead == {"head", "none"}

AtHead(u, x, st, p) ==
  /\ x.need = 0 /\ x.phase = "DONE" /\ ~ x.until_close /\ x.tra = <<>>
  /\ u.mode = "none" => x.raw = <<>> /\ x.crlf = 0
  /\ u.mode = "head" => /\ u.from <= p
                        /\ x.raw = SubSeq(st, u.from + 1, p)
                        /\ x.crlf = u.crlf

AtLen(u, x) ==
  /\ x.need = 0 /\ x.phase = "LEN" /\ ~ x.until_close /\ x.tra = <<>>
  /\ x.len = u.len /\ x.count = u.count

AtData(u, x) ==
  /\ x.need = u.need /\ x.need > 0 /\ ~ x.until_close /\ x.tra = <<>>
  /\ x.phase = IF u.chunk THEN "DATA" ELSE "DONE"

AtClose(x) == x.need = SIZE_RANGE - 1 /\ x.until_close /\ x.phase = "DONE"

AtCrlf(x) == x.need = 0 /\ x.phase = "CRLF" /\ ~ x.until_close /\ x.tra = <<>>

AtTrailers(u, x, st, p) ==
  /\ x.need = 0 /\ x.phase = "TRAILERS" /\ ~ x.until_close
  /\ u.from <= p /\ x.crlf = u.crlf /\ x.tra = SubSeq(st, u.from + 1, p)

InStep(u, x, st, p) ==
  \/ u.mode \in InHead /\ AtHead(u, x, st, p)
  \/ u.mode \in {"LEN", "LENSP"} /\ AtLen(u, x)
  \/ u.mode = "data" /\ AtData(u, x)
  \/ u.mode = "close" /\ AtClose(x)
  \/ u.mode = "CRLF" /\ AtCrlf(x)
  \/ u.mode = "TRAILERS" /\ AtTrailers(u, x, st, p)

IsOver(u, p) == u.heads > 0 /\ (u.mode = "none" \/ (u.mode = "head" /\ u.from = p /\ u.crlf = 0))

(* The place in the stream, by the label of qse_htrd_feed().               *)
Place(u, l, x, st, p, r, e) ==
  /\ l \in {"idle", "feedme_more"} => InStep(u, x, st, p)
  /\ l = "header" => InStep(u, x, st, p) /\ u.mode \in InHead /\ r = p /\ p < e
  /\ l = "content_resume" => InStep(u, x, st, p) /\ u.mode \in {"data", "close"}
  /\ l = "dechunk_resume" => InStep(u, x, st, p) /\ u.mode \in {"LEN", "LENSP"}
  /\ l = "dechunk_crlf" => InStep(u, x, st, p) /\ u.mode = "CRLF"
  /\ l = "dechunk_get_trailers" => InStep(u, x, st, p) /\ u.mode = "TRAILERS"
  /\ l \in {"complete", "peek", "poke", "clear"} => IsOver(u, p)

(* What the user has been told, peeking and poking still to be done.       *)
Told(u, l, pk, ms) ==
  /\ Len(ms) + (IF pk THEN 1 ELSE 0) = u.heads
  /\ u.mode \notin InHead => u.heads > 0
  /\ pk /\ l \notin {"complete", "peek"} => u.mode \notin InHead
  /\ l \in {"idle", "header", "poke", "clear"} => ~ pk
  /\ l = "peek" => pk
  /\ \A i \in 1..Len(ms) : ms[i].poked =
       IF i < u.heads \/ (u.mode \in InHead /\ l \notin {"complete", "peek", "poke"})
       THEN 1 ELSE 0

Exempt(x) == x.dummified /\ ~ x.suspended

Good(u, l, x, st, p, r, e, pk, ms) ==
  /\ ~ Exempt(x)
  /\ x.suspended => Len(ms) > 0
  /\ Place(u, l, x, st, p, r, e)
  /\ Told(u, l, pk, ms)

Here == Uncut(scn)[ptr]

FailedWell ==
  \/ Uncut(scn)[end].mode \in {"refused", "any"}
  \/ htrd.suspended
  \/ Latest > 0 /\ seen.messages[Latest].policy = "fail"

ReadInv ==
  scn.option # "peekonly" =>
    /\ pc = "failed" => FailedWell
    /\ pc # "failed" =>
         \/ Here.mode = "any"
         \/ Exempt(htrd) /\ pc \in {"idle", "clear", "poke"} /\ Latest > 0
         \/ Good(Here, pc, htrd, scn.stream, ptr, req, end, peeking, seen.messages)

(* The reading of the stream at hand.                                      *)
LEMMA UncutHere ==
  ASSUME TypeInv
  PROVE  /\ scn.stream \in Seq(STRING) /\ IsUncut(scn, Uncut(scn))
         /\ Len(scn.stream) \in Nat /\ ptr \in Nat /\ end \in Nat
         /\ ptr <= end /\ end <= Len(scn.stream)
         /\ \A p \in ptr..end : Uncut(scn)[p] \in UncutType
<1>1. scn.stream \in Seq(STRING) /\ Len(scn.stream) \in Nat
  BY StreamType DEF TypeInv
<1>2. IsUncut(scn, Uncut(scn))
  BY <1>1, UncutDef
<1>3. ptr \in Nat /\ end \in Nat /\ ptr <= end /\ end <= Len(scn.stream)
  BY DEF TypeInv, Positions
<1>4. \A p \in ptr..end : p \in 0..Len(scn.stream)
  BY <1>1, <1>3
<1> QED
  BY <1>1, <1>2, <1>3, <1>4 DEF IsUncut

(* Behind a place of which nothing is claimed nothing is claimed.          *)
LEMMA AnyLater ==
  ASSUME TypeInv, TypeInv', scn' = scn, NEW q \in Nat, q <= ptr', Uncut(scn)[q].mode = "any"
  PROVE  ReadInv'
<1>1. /\ scn.stream \in Seq(STRING) /\ IsUncut(scn, Uncut(scn)) /\ Len(scn.stream) \in Nat
  BY UncutHere
<1>2. ptr' \in Nat /\ end' \in Nat /\ ptr' <= end' /\ end' <= Len(scn.stream)
  BY DEF TypeInv, Positions
<1>3. Uncut(scn)[ptr'] = Uncut(scn)[q]
  <2>1. PICK k : k = ptr'
    OBVIOUS
  <2>2. k \in Nat /\ q <= k /\ k <= Len(scn.stream)
    BY <1>1, <1>2, <2>1
  <2>3. Uncut(scn)[k] = Uncut(scn)[q]
    BY ONLY <1>1, <2>2, Absorbed, q \in Nat, Uncut(scn)[q].mode = "any"
  <2> QED
    BY <2>1, <2>3
<1>4. Uncut(scn)[end'] = Uncut(scn)[q]
  <2>1. PICK k : k = end'
    OBVIOUS
  <2>2. k \in Nat /\ q <= k /\ k <= Len(scn.stream)
    BY <1>1, <1>2, <2>1
  <2>3. Uncut(scn)[k] = Uncut(scn)[q]
    BY ONLY <1>1, <2>2, Absorbed, q \in Nat, Uncut(scn)[q].mode = "any"
  <2> QED
    BY <2>1, <2>3
<1> QED
  BY <1>3, <1>4 DEF ReadInv, Here, FailedWell

(* A failure behind a place that is refused is one of the stream.          *)
LEMMA RefusedFails ==
  ASSUME TypeInv, TypeInv', scn' = scn, pc' = "failed",
         NEW q \in Nat, q <= end', Uncut(scn)[q].mode = "refused"
  PROVE  ReadInv'
<1>1. /\ scn.stream \in Seq(STRING) /\ IsUncut(scn, Uncut(scn)) /\ Len(scn.stream) \in Nat
  BY UncutHere
<1>2. end' \in Nat /\ end' <= Len(scn.stream)
  BY DEF TypeInv, Positions
<1>3. Uncut(scn)[end'] = Uncut(scn)[q]
  <2>1. PICK k : k = end'
    OBVIOUS
  <2>2. k \in Nat /\ q <= k /\ k <= Len(scn.stream)
    BY <1>1, <1>2, <2>1
  <2>3. Uncut(scn)[k] = Uncut(scn)[q]
    BY ONLY <1>1, <2>2, Absorbed, q \in Nat, Uncut(scn)[q].mode = "refused"
  <2> QED
    BY <2>1, <2>3
<1> QED
  BY <1>3 DEF ReadInv, FailedWell

(* So is one behind a place of which nothing is claimed.                   *)
LEMMA AnyFails ==
  ASSUME TypeInv, TypeInv', scn' = scn, pc' = "failed",
         NEW q \in Nat, q <= end', Uncut(scn)[q].mode = "any"
  PROVE  ReadInv'
<1>1. /\ scn.stream \in Seq(STRING) /\ IsUncut(scn, Uncut(scn)) /\ Len(scn.stream) \in Nat
  BY UncutHere
<1>2. end' \in Nat /\ end' <= Len(scn.stream)
  BY DEF TypeInv, Positions
<1>3. Uncut(scn)[end'] = Uncut(scn)[q]
  <2>1. PICK k : k = end'
    OBVIOUS
  <2>2. k \in Nat /\ q <= k /\ k <= Len(scn.stream)
    BY <1>1, <1>2, <2>1
  <2>3. Uncut(scn)[k] = Uncut(scn)[q]
    BY ONLY <1>1, <2>2, Absorbed, q \in Nat, Uncut(scn)[q].mode = "any"
  <2> QED
    BY <2>1, <2>3
<1> QED
  BY <1>3 DEF ReadInv, FailedWell

(* What the invariant says of a state in which the reader reads.           *)
LEMMA Reading ==
  ASSUME TypeInv, TypeInv', ReadInv, scn' = scn, ptr' >= ptr, scn.option # "peekonly",
         pc \notin {"idle", "clear", "poke", "failed"},
         Good(Here, pc, htrd, scn.stream, ptr, req, end, peeking, seen.messages) => ReadInv'
  PROVE  ReadInv'
<1>1. CASE Here.mode = "any"
  <2>1. ptr \in Nat /\ ptr <= ptr'
    BY DEF TypeInv, Positions
  <2> QED
    BY <1>1, <2>1, AnyLater DEF Here
<1>2. CASE Here.mode # "any"
  BY <1>2 DEF ReadInv
<1> QED
  BY <1>1, <1>2

(* Where a step ends well.                                                 *)
LEMMA EndsWell ==
  ASSUME Good(Uncut(scn)[ptr'], pc', htrd', scn.stream, ptr', req', end', peeking', seen.messages'),
         scn' = scn, pc' # "failed"
  PROVE  ReadInv'
BY DEF ReadInv, Here

(* Reading on in a message tells the user nothing.                         *)
LEMMA ToldOn ==
  ASSUME NEW u, NEW l, NEW pk, NEW ms, Told(u, l, pk, ms), u.mode \notin InHead,
         NEW v, v.heads = u.heads, NEW k, NEW mt, SamePokes(ms, mt),
         \/ v.mode \notin InHead /\ k \notin {"idle", "header", "poke", "clear", "peek"}
         \/ k = "complete"
  PROVE  Told(v, k, pk, mt)
BY DEF Told, SamePokes

(* The user is about to be told that the message is complete.              *)
LEMMA ToldComplete ==
  ASSUME NEW u, NEW p, IsOver(u, p), NEW pk \in BOOLEAN, NEW ms, Told(u, "complete", pk, ms),
         NEW mt, SamePokes(ms, mt), NEW l, l = IF pk THEN "peek" ELSE "poke"
  PROVE  Told(u, l, pk, mt)
<1>1. \A i \in 1..Len(ms) : ms[i].poked = IF i < u.heads THEN 1 ELSE 0
  BY DEF Told
<1>2. Len(mt) = Len(ms) /\ \A i \in 1..Len(ms) : mt[i].poked = ms[i].poked
  BY DEF SamePokes
<1>3. Len(ms) + (IF pk THEN 1 ELSE 0) = u.heads /\ u.heads > 0 /\ u.mode \in InHead
  BY DEF Told, IsOver, InHead
<1>4. l \in {"peek", "poke"} /\ (pk <=> l = "peek")
  OBVIOUS
<1>5. \A i \in 1..Len(mt) : mt[i].poked = IF i < u.heads THEN 1 ELSE 0
  BY ONLY <1>1, <1>2
<1> QED
  BY ONLY <1>2, <1>3, <1>4, <1>5 DEF Told

(* The message is complete.                                                *)
LEMMA CompleteReads ==
  ASSUME TypeInv, TypeInv', ReadInv, scn.option # "peekonly", Complete
  PROVE  ReadInv'
<1>1. /\ pc = "complete" /\ CompleteContent /\ ptr' = ptr /\ scn' = scn /\ req' = req /\ end' = end
      /\ peeking' = peeking /\ htrd' = htrd /\ pc' = IF peeking THEN "peek" ELSE "poke"
  BY DEF Complete, Goto
<1>2. SamePokes(seen.messages, seen.messages')
  BY <1>1, CompleteContentType
<1>3. ASSUME Good(Here, pc, htrd, scn.stream, ptr, req, end, peeking, seen.messages)
      PROVE  ReadInv'
  <2>0. Told(Here, "complete", peeking, seen.messages) /\ IsOver(Here, ptr) /\ peeking \in BOOLEAN
    BY <1>1, <1>3 DEF Good, Place, TypeInv
  <2>1. Told(Here, pc', peeking, seen.messages')
    BY ONLY <1>1, <1>2, <2>0, ToldComplete
  <2>2. Place(Here, pc', htrd, scn.stream, ptr, req, end)
    BY <1>1, <1>3 DEF Good, Place
  <2>3. Good(Here, pc', htrd', scn.stream, ptr', req', end', peeking', seen.messages')
    BY <1>1, <1>2, <1>3, <2>1, <2>2 DEF Good, SamePokes
  <2> QED
    BY <1>1, <2>3, EndsWell DEF Here
<1>4. ptr' >= ptr
  BY <1>1, UncutHere
<1> QED
  BY <1>1, <1>3, <1>4, Reading

(* The call returns.                                                       *)
LEMMA FeedmeMoreReads ==
  ASSUME TypeInv, TypeInv', ReadInv, scn.option # "peekonly", FeedmeMore
  PROVE  ReadInv'
<1>1. /\ pc = "feedme_more" /\ ~ peeking /\ ptr' = ptr /\ scn' = scn /\ req' = req /\ end' = end
      /\ peeking' = peeking /\ htrd' = htrd /\ pc' = "idle" /\ seen' = seen
  BY DEF FeedmeMore, Goto
<1>2. ASSUME Good(Here, pc, htrd, scn.stream, ptr, req, end, peeking, seen.messages)
      PROVE  ReadInv'
  <2>1. Told(Here, "idle", peeking, seen.messages)
    BY <1>1, <1>2 DEF Good, Told
  <2>2. Place(Here, "idle", htrd, scn.stream, ptr, req, end)
    BY <1>1, <1>2 DEF Good, Place
  <2>3. Good(Here, pc', htrd', scn.stream, ptr', req', end', peeking', seen.messages')
    BY <1>1, <1>2, <2>1, <2>2 DEF Good
  <2> QED
    BY <1>1, <2>3, EndsWell DEF Here
<1>3. ptr' >= ptr
  BY <1>1, UncutHere
<1> QED
  BY <1>1, <1>2, <1>3, Reading

(* Setting the flags of a change of protocol leaves the place alone.       *)
LEMMA FlagsOnly ==
  ASSUME NEW x \in HtrdType, NEW a \in BOOLEAN, NEW b \in BOOLEAN, NEW y,
         y = [x EXCEPT !.suspended = a, !.dummified = b],
         NEW u, NEW st, NEW p, InStep(u, x, st, p)
  PROVE  InStep(u, y, st, p)
<1>1. /\ y.need = x.need /\ y.phase = x.phase /\ y.until_close = x.until_close /\ y.tra = x.tra
      /\ y.raw = x.raw /\ y.crlf = x.crlf /\ y.len = x.len /\ y.count = x.count
  BY DEF HtrdType
<1> QED
  BY ONLY <1>1, InStep(u, x, st, p)
     DEF InStep, AtHead, AtLen, AtData, AtClose, AtCrlf, AtTrailers

(* The user peeks.                                                         *)
LEMMA PeekReads ==
  ASSUME TypeInv, TypeInv', ReadInv, scn.option # "peekonly", NEW policy, Peek(policy)
  PROVE  ReadInv'
<1> DEFINE e == [NewlySeen EXCEPT
                 !.policy = policy,
                 !.content = IF policy = "stream" THEN re.content ELSE <<>>,
                 !.ends = IF policy = "stream" /\ re.state = "COMPLETED" THEN 1 ELSE 0]
<1>1. /\ pc \in {"peek", "feedme_more"} /\ peeking
      /\ ptr' = ptr /\ scn' = scn /\ req' = req /\ end' = end /\ peeking' = FALSE
      /\ seen' = [seen EXCEPT !.messages = Append(seen.messages, e)]
      /\ htrd' = IF policy = "upgrade"
                 THEN [htrd EXCEPT !.suspended = TRUE, !.dummified = TRUE] ELSE htrd
      /\ pc' = CASE policy = "fail" -> "failed"
                 [] policy # "fail" /\ pc = "peek" -> "poke"
                 [] OTHER -> "idle"
  BY Zenon DEF Peek, Goto, PeekDone
<1>2. /\ DOMAIN e = {"content", "ends", "poked", "trailers", "policy"}
      /\ e.poked = 0 /\ e.policy = policy
  BY DEF NewlySeen
<1> HIDE DEF e
<1> DEFINE ms == seen.messages
           mt == Append(ms, e)
<1>3. DOMAIN seen = {"messages", "raw"} /\ MessagesOk(ms) /\ htrd \in HtrdType
  BY DEF TypeInv
<1>4. seen'.messages = mt
  BY <1>1, <1>3
<1>5. /\ Len(ms) \in Nat /\ Len(mt) = Len(ms) + 1
      /\ \A i \in 1..Len(ms) : mt[i] = ms[i]
      /\ mt[Len(ms) + 1] = e
  BY <1>2, <1>3, MessageAppend
<1> HIDE DEF mt
<1>6. ASSUME Good(Here, pc, htrd, scn.stream, ptr, req, end, peeking, seen.messages)
      PROVE  ReadInv'
  <2>1. CASE policy = "fail"
    <3>1. pc' = "failed"
      BY <1>1, <2>1
    <3>2. Len(seen'.messages) > 0 /\ seen'.messages[Len(seen'.messages)].policy = "fail"
      BY <1>2, <1>4, <1>5, <2>1
    <3> QED
      BY <3>1, <3>2 DEF ReadInv, FailedWell, Latest
  <2>2. CASE policy # "fail"
    <3>1. pc' = (IF pc = "peek" THEN "poke" ELSE "idle") /\ pc' # "failed"
      BY <1>1, <2>2
    <3>u. Here \in UncutType
      BY UncutHere DEF Here
    <3>h. Here.heads \in Nat /\ Len(ms) + 1 = Here.heads
      BY <1>1, <1>6, <3>u, UncutFields DEF Good, Told
    <3>m. pc = "feedme_more" => Here.mode \notin InHead
      BY <1>1, <1>6 DEF Good, Told
    <3>2. Told(Here, pc', FALSE, mt)
      <4>1. Len(mt) + 0 = Here.heads
        BY <1>5, <3>h
      <4>2. Here.mode \notin InHead => Here.heads > 0
        BY <1>6 DEF Good, Told
      <4>3. ASSUME NEW i \in 1..Len(mt)
            PROVE  mt[i].poked =
                     IF i < Here.heads \/ (Here.mode \in InHead /\ pc' \notin {"complete", "peek", "poke"})
                     THEN 1 ELSE 0
        <5>1. CASE i \in 1..Len(ms)
          <6>1. i < Here.heads
            BY <1>5, <3>h, <5>1
          <6>2. ms[i].poked = 1
            BY <1>6, <5>1, <6>1 DEF Good, Told
          <6> QED
            BY <1>5, <5>1, <6>1, <6>2
        <5>2. CASE i = Len(ms) + 1
          <6>1. mt[i].poked = 0 /\ ~ (i < Here.heads)
            BY <1>2, <1>5, <3>h, <5>2
          <6>2. ~ (Here.mode \in InHead /\ pc' \notin {"complete", "peek", "poke"})
            BY <1>1, <3>1, <3>m
          <6> QED
            BY <6>1, <6>2
        <5> QED
          BY <1>5, <5>1, <5>2
      <4> QED
        BY <3>1, <4>1, <4>2, <4>3 DEF Told
    <3>3. Place(Here, pc', htrd', scn.stream, ptr, req, end)
      <4>1. CASE pc = "peek"
        BY <1>6, <3>1, <4>1 DEF Good, Place
      <4>2. CASE pc = "feedme_more"
        <5>1. InStep(Here, htrd, scn.stream, ptr)
          BY <1>6, <4>2 DEF Good, Place
        <5>2. InStep(Here, htrd', scn.stream, ptr)
          <6>1. CASE policy = "upgrade"
            <7>1. PICK t \in BOOLEAN : t = TRUE
              OBVIOUS
            <7>2. htrd' = [htrd EXCEPT !.suspended = t, !.dummified = t]
              BY <1>1, <6>1, <7>1
            <7> QED
              BY ONLY <1>3, <5>1, <7>1, <7>2, FlagsOnly
          <6>2. CASE policy # "upgrade"
            BY <1>1, <5>1, <6>2
          <6> QED
            BY <6>1, <6>2
        <5>3. pc' = "idle"
          BY <3>1, <4>2
        <5> QED
          BY <5>2, <5>3 DEF Place
      <4> QED
        BY <1>1, <4>1, <4>2
    <3>4. ~ Exempt(htrd') /\ Len(mt) > 0
      <4>1. policy = "upgrade" => htrd'.suspended
        BY <1>1, <1>3 DEF HtrdType
      <4>2. policy # "upgrade" => htrd' = htrd
        BY <1>1
      <4> QED
        BY <1>5, <1>6, <4>1, <4>2 DEF Exempt, Good
    <3>5. Good(Here, pc', htrd', scn.stream, ptr', req', end', peeking', seen.messages')
      BY <1>1, <1>4, <3>2, <3>3, <3>4 DEF Good
    <3> QED
      BY <1>1, <3>1, <3>5, EndsWell DEF Here
  <2> QED
    BY <2>1, <2>2
<1>7. ptr' >= ptr
  BY <1>1, UncutHere
<1> QED
  BY <1>1, <1>6, <1>7, Reading

(* What a poke does to the messages seen.                                  *)
LEMMA PokedOnce ==
  ASSUME TypeInv, Latest > 0, NEW answer, Poke(answer)
  PROVE  /\ Len(seen'.messages) = Latest
         /\ answer = "fail" => seen'.messages[Latest].policy = "fail"
         /\ \A i \in 1..Latest : i # Latest => seen'.messages[i] = seen.messages[i]
         /\ seen'.messages[Latest].poked = seen.messages[Latest].poked + 1
<1> DEFINE m == seen.messages[Latest]
           e == [m EXCEPT !.poked = m.poked + 1,
                          !.policy = IF answer = "fail" THEN "fail" ELSE m.policy,
                          !.trailers = re.trailers,
                          !.content = IF m.policy = "keep" THEN re.content ELSE m.content]
           mt == [seen.messages EXCEPT ![Latest] = e]
<1>1. DOMAIN seen = {"messages", "raw"} /\ MessagesOk(seen.messages)
  BY DEF TypeInv
<1>2. seen' = [seen EXCEPT !.messages[Latest] = e]
  BY DEF Poke
<1>3. seen' = [seen EXCEPT !.messages = mt]
  BY <1>2
<1>4. seen'.messages = mt
  BY <1>1, <1>3
<1>5. Latest \in Nat /\ Latest \in 1..Len(seen.messages)
  <2>1. PICK S : seen.messages \in Seq(S)
    BY <1>1 DEF MessagesOk
  <2> QED
    BY <2>1 DEF Latest
<1>6. DOMAIN m = {"content", "ends", "poked", "trailers", "policy"}
  BY <1>1, <1>5 DEF MessagesOk
<1>7. /\ DOMAIN e = {"content", "ends", "poked", "trailers", "policy"}
      /\ e.poked = m.poked + 1 /\ (answer = "fail" => e.policy = "fail")
  BY <1>6
<1> HIDE DEF e
<1>8. Updated(seen.messages, mt, Latest, e)
  BY ONLY <1>1, <1>7, MessageUpdate, Zenon
<1> HIDE DEF mt
<1> QED
  BY <1>4, <1>5, <1>7, <1>8 DEF Updated, Latest

(* The last message has been poked at.                                     *)
LEMMA ToldPoked ==
  ASSUME NEW u, NEW p, IsOver(u, p), NEW pk \in BOOLEAN, NEW ms, Len(ms) \in Nat, u.heads \in Nat,
         Told(u, "poke", pk, ms),
         NEW mt, Len(mt) = Len(ms), \A i \in 1..Len(ms) : i # Len(ms) => mt[i] = ms[i],
         mt[Len(ms)].poked = ms[Len(ms)].poked + 1
  PROVE  Told(u, "clear", pk, mt)
<1>1. ~ pk /\ Len(ms) + 0 = u.heads /\ u.heads > 0 /\ u.mode \in InHead
  BY DEF Told, IsOver, InHead
<1>2. Len(ms) = u.heads
  BY <1>1
<1>3. \A i \in 1..Len(ms) : ms[i].poked = IF i < u.heads THEN 1 ELSE 0
  BY DEF Told
<1>4. ASSUME NEW i \in 1..Len(mt) PROVE mt[i].poked = 1
  <2>1. CASE i = Len(ms)
    <3>1. i \in 1..Len(ms) /\ ~ (i < u.heads)
      BY <1>2, <2>1
    <3>2. ms[i].poked = 0
      BY ONLY <1>3, <3>1
    <3> QED
      BY <2>1, <3>2
  <2>2. CASE i # Len(ms)
    <3>1. i \in 1..Len(ms) /\ i < u.heads
      BY <1>2, <2>2
    <3>2. ms[i].poked = 1
      BY ONLY <1>3, <3>1
    <3> QED
      BY <2>2, <3>1, <3>2
  <2> QED
    BY <2>1, <2>2
<1> QED
  BY <1>1, <1>4 DEF Told

(* What the invariant says of a state between two reading steps.           *)
LEMMA Otherwise ==
  ASSUME TypeInv, TypeInv', ReadInv, scn' = scn, ptr' >= ptr, scn.option # "peekonly",
         pc # "failed", Exempt(htrd) /\ Latest > 0 => ReadInv',
         Good(Here, pc, htrd, scn.stream, ptr, req, end, peeking, seen.messages) => ReadInv'
  PROVE  ReadInv'
<1>1. CASE Here.mode = "any"
  <2>1. ptr \in Nat /\ ptr <= ptr'
    BY DEF TypeInv, Positions
  <2> QED
    BY <1>1, <2>1, AnyLater DEF Here
<1>2. CASE Here.mode # "any"
  BY <1>2 DEF ReadInv
<1> QED
  BY <1>1, <1>2

(* Facts about the place at which the reader is.                           *)
LEMMA HereType ==
  ASSUME TypeInv
  PROVE  /\ Here \in UncutType /\ Here.heads \in Nat /\ Latest \in Nat /\ ptr >= ptr
         /\ htrd \in HtrdType /\ peeking \in BOOLEAN
<1>1. Here \in UncutType
  BY UncutHere DEF Here
<1>2. PICK S : seen.messages \in Seq(S)
  BY DEF TypeInv, MessagesOk
<1>3. Latest \in Nat
  BY <1>2 DEF Latest
<1>4. ptr \in Nat
  BY UncutHere
<1> QED
  BY <1>1, <1>3, <1>4, UncutFields DEF TypeInv

(* The user is poked.                                                      *)
LEMMA PokeReads ==
  ASSUME TypeInv, TypeInv', ReadInv, scn.option # "peekonly", NEW answer, Poke(answer)
  PROVE  ReadInv'
<1>1. /\ pc = "poke" /\ ptr' = ptr /\ scn' = scn /\ req' = req /\ end' = end /\ peeking' = peeking
      /\ htrd' = IF answer = "connect" THEN [htrd EXCEPT !.dummified = TRUE] ELSE htrd
      /\ pc' = IF answer = "fail" THEN "failed" ELSE "clear"
      /\ answer = "connect" => ~ htrd.suspended
  BY Zenon DEF Poke, Goto
<1>t. Here \in UncutType /\ Here.heads \in Nat /\ Latest \in Nat /\ ptr >= ptr
      /\ htrd \in HtrdType /\ peeking \in BOOLEAN
  BY HereType
<1>2. /\ answer # "connect" => htrd' = htrd
      /\ answer = "connect" => Exempt(htrd')
      /\ Exempt(htrd) => Exempt(htrd')
  BY <1>1, <1>t DEF Exempt, HtrdType
<1>3. ASSUME Latest > 0, answer = "fail" PROVE ReadInv'
  <2>1. Len(seen'.messages) = Latest /\ seen'.messages[Latest].policy = "fail"
    BY <1>3, PokedOnce
  <2>2. pc' = "failed"
    BY <1>1, <1>3
  <2> QED
    BY <1>3, <2>1, <2>2 DEF ReadInv, FailedWell, Latest
<1>4. ASSUME Latest > 0, answer # "fail", Exempt(htrd') PROVE ReadInv'
  <2>1. Len(seen'.messages) = Latest
    BY <1>4, PokedOnce
  <2>2. pc' = "clear"
    BY <1>1, <1>4
  <2> QED
    BY <1>4, <2>1, <2>2 DEF ReadInv, Latest
<1>5. ASSUME Good(Here, pc, htrd, scn.stream, ptr, req, end, peeking, seen.messages)
      PROVE  ReadInv'
  <2>1. IsOver(Here, ptr) /\ Told(Here, "poke", peeking, seen.messages)
    BY <1>1, <1>5 DEF Good, Place
  <2>2. Latest > 0
    <3>1. Here.heads > 0 /\ ~ peeking /\ Latest + (IF peeking THEN 1 ELSE 0) = Here.heads
      BY <2>1 DEF IsOver, Told, Latest
    <3> QED
      BY <1>t, <3>1
  <2>3. CASE answer \in {"fail", "connect"}
    BY <1>2, <1>3, <1>4, <2>2, <2>3
  <2>4. CASE answer \notin {"fail", "connect"}
    <3>1. Told(Here, "clear", peeking, seen'.messages)
      <4>1. /\ Len(seen'.messages) = Len(seen.messages)
            /\ \A i \in 1..Len(seen.messages) :
                 i # Len(seen.messages) => seen'.messages[i] = seen.messages[i]
            /\ seen'.messages[Len(seen.messages)].poked = seen.messages[Len(seen.messages)].poked + 1
        BY <2>2, PokedOnce DEF Latest
      <4>2. Len(seen.messages) \in Nat
        BY <1>t DEF Latest
      <4> QED
        BY ONLY <1>t, <2>1, <4>1, <4>2, ToldPoked
    <3>2. Place(Here, "clear", htrd, scn.stream, ptr, req, end)
      BY <2>1 DEF Place
    <3>3. htrd' = htrd /\ pc' = "clear" /\ Len(seen'.messages) > 0
      BY <1>1, <1>2, <2>2, <2>4, PokedOnce
    <3>4. Good(Here, pc', htrd', scn.stream, ptr', req', end', peeking', seen.messages')
      BY <1>1, <1>5, <3>1, <3>2, <3>3 DEF Good
    <3> QED
      BY <1>1, <3>3, <3>4, EndsWell DEF Here
  <2> QED
    BY <2>3, <2>4
<1>6. Exempt(htrd) /\ Latest > 0 => ReadInv'
  BY <1>2, <1>3, <1>4
<1>7. ptr' >= ptr
  BY <1>1, <1>t
<1> QED
  BY <1>1, <1>5, <1>6, <1>7, Otherwise

(* The fields of a reader that has been cleared.                           *)
LEMMA ClearedFields ==
  ASSUME NEW x
  PROVE  /\ Cleared(x).need = 0 /\ Cleared(x).phase = "DONE" /\ ~ Cleared(x).until_close
         /\ Cleared(x).tra = <<>> /\ Cleared(x).raw = <<>> /\ Cleared(x).crlf = 0
         /\ Cleared(x).suspended = x.suspended /\ Cleared(x).dummified = x.dummified
BY DEF Cleared, Fresh

(* So is one of which only another field differs.                          *)
LEMMA UncleanFields ==
  ASSUME NEW x, NEW y, y = [x EXCEPT !.clean = FALSE], x \in HtrdType
  PROVE  /\ y.need = x.need /\ y.phase = x.phase /\ y.until_close = x.until_close
         /\ y.tra = x.tra /\ y.raw = x.raw /\ y.crlf = x.crlf /\ y.len = x.len /\ y.count = x.count
         /\ y.suspended = x.suspended /\ y.dummified = x.dummified
BY DEF HtrdType

(* A reader that has been cleared is at the start of a head.               *)
LEMMA ClearedInStep ==
  ASSUME NEW u, NEW st \in Seq(STRING), NEW p \in Nat, p <= Len(st), IsOver(u, p), NEW x,
         x.need = 0, x.phase = "DONE", ~ x.until_close, x.tra = <<>>, x.raw = <<>>, x.crlf = 0
  PROVE  InStep(u, x, st, p)
<1>1. SubSeq(st, p + 1, p) = <<>>
  <2>1. p <= p
    OBVIOUS
  <2> QED
    BY <2>1, Pieces
<1>2. u.mode \in InHead
  BY DEF IsOver, InHead
<1>3. AtHead(u, x, st, p)
  BY <1>1 DEF IsOver, AtHead
<1> QED
  BY <1>2, <1>3 DEF InStep

(* The message has been dealt with.                                        *)
LEMMA ClearReads ==
  ASSUME TypeInv, TypeInv', ReadInv, scn.option # "peekonly", clear_feed
  PROVE  ReadInv'
<1>1. /\ pc = "clear" /\ scn' = scn /\ end' = end /\ peeking' = peeking
      /\ \/ ptr >= end /\ htrd' = Cleared(htrd) /\ pc' = "idle"
            /\ ptr' = ptr /\ req' = req /\ seen' = seen
         \/ ptr < end /\ htrd.suspended /\ htrd' = Cleared(htrd) /\ pc' = "failed" /\ ptr' = ptr
         \/ /\ ~ htrd.suspended /\ htrd.dummified /\ htrd' = Cleared(htrd) /\ ptr' = end
            /\ seen' = [seen EXCEPT !.raw = @ \o Octets(ptr, end)] /\ pc' = "idle"
         \/ /\ ptr < end /\ ~ htrd.suspended /\ ~ htrd.dummified
            /\ htrd' = [Cleared(htrd) EXCEPT !.clean = FALSE] /\ req' = ptr /\ pc' = "header"
            /\ ptr' = ptr /\ seen' = seen
  BY Zenon DEF clear_feed
<1>t. Here \in UncutType /\ Here.heads \in Nat /\ Latest \in Nat /\ ptr >= ptr
      /\ htrd \in HtrdType /\ peeking \in BOOLEAN
  BY HereType
<1>f. /\ Cleared(htrd).need = 0 /\ Cleared(htrd).phase = "DONE" /\ ~ Cleared(htrd).until_close
      /\ Cleared(htrd).tra = <<>> /\ Cleared(htrd).raw = <<>> /\ Cleared(htrd).crlf = 0
      /\ Cleared(htrd).suspended = htrd.suspended /\ Cleared(htrd).dummified = htrd.dummified
  BY ClearedFields
<1>2. ASSUME Exempt(htrd), Latest > 0 PROVE ReadInv'
  <2>1. htrd' = Cleared(htrd) /\ pc' = "idle" /\ seen'.messages = seen.messages
    BY <1>1, <1>2 DEF Exempt, TypeInv
  <2>2. Exempt(htrd')
    BY <1>2, <1>f, <2>1 DEF Exempt
  <2> QED
    BY <1>2, <2>1, <2>2 DEF ReadInv, Latest
<1>3. ASSUME Good(Here, pc, htrd, scn.stream, ptr, req, end, peeking, seen.messages)
      PROVE  ReadInv'
  <2>1. IsOver(Here, ptr) /\ Told(Here, "clear", peeking, seen.messages)
    BY <1>1, <1>3 DEF Good, Place
  <2>2. ~ Exempt(htrd) /\ (htrd.suspended => Len(seen.messages) > 0)
    BY <1>3 DEF Good
  <2>3. scn.stream \in Seq(STRING) /\ ptr \in Nat /\ ptr <= Len(scn.stream) /\ Len(scn.stream) \in Nat
    BY UncutHere
  <2>4. Told(Here, "idle", peeking, seen.messages) /\ Told(Here, "header", peeking, seen.messages)
    BY <2>1 DEF Told
  <2>5. CASE htrd.suspended /\ pc' = "failed"
    <3>1. htrd'.suspended
      BY <1>1, <1>f, <2>5
    <3> QED
      BY <2>5, <3>1 DEF ReadInv, FailedWell
  <2>6. CASE htrd' = Cleared(htrd) /\ pc' = "idle" /\ ptr' = ptr /\ req' = req /\ seen' = seen
    <3>1. InStep(Here, htrd', scn.stream, ptr)
      BY ONLY <1>f, <2>1, <2>3, <2>6, ClearedInStep
    <3>2. Place(Here, "idle", htrd', scn.stream, ptr, req, end)
      BY <3>1 DEF Place
    <3>3. Good(Here, pc', htrd', scn.stream, ptr', req', end', peeking', seen.messages')
      BY <1>1, <1>f, <2>2, <2>4, <2>6, <3>2 DEF Good, Exempt
    <3> QED
      BY <1>1, <2>6, <3>3, EndsWell DEF Here
  <2>7. CASE /\ ptr < end /\ ~ htrd.suspended /\ ~ htrd.dummified
             /\ htrd' = [Cleared(htrd) EXCEPT !.clean = FALSE] /\ req' = ptr /\ pc' = "header"
             /\ ptr' = ptr /\ seen' = seen
    <3>0. Cleared(htrd) \in HtrdType
      BY <1>t, HtrdUpdates
    <3>f. /\ htrd'.need = 0 /\ htrd'.phase = "DONE" /\ ~ htrd'.until_close
          /\ htrd'.tra = <<>> /\ htrd'.raw = <<>> /\ htrd'.crlf = 0
          /\ htrd'.suspended = htrd.suspended /\ htrd'.dummified = htrd.dummified
      BY ONLY <1>f, <2>7, <3>0, UncleanFields
    <3>1. InStep(Here, htrd', scn.stream, ptr)
      BY ONLY <2>1, <2>3, <3>f, ClearedInStep
    <3>2. Place(Here, "header", htrd', scn.stream, ptr, req', end)
      BY <2>1, <2>7, <3>1 DEF Place, IsOver, InHead
    <3>3. Good(Here, pc', htrd', scn.stream, ptr', req', end', peeking', seen.messages')
      BY <1>1, <2>2, <2>4, <2>7, <3>f, <3>2 DEF Good, Exempt
    <3> QED
      BY <1>1, <2>7, <3>3, EndsWell DEF Here
  <2> QED
    BY <1>1, <2>2, <2>5, <2>6, <2>7 DEF Exempt
<1>4. ptr' >= ptr
  <2>1. ptr \in Nat /\ ptr <= end
    BY UncutHere
  <2> QED
    BY <1>1, <2>1
<1> QED
  BY <1>1, <1>2, <1>3, <1>4, Otherwise

(* The content that extends to the end of the stream is complete.          *)
LEMMA ToldHalted ==
  ASSUME NEW u, NEW pk, NEW ms, Told(u, "idle", pk, ms), u.mode \notin InHead,
         NEW v, v.heads = u.heads, v.mode = "head", NEW mt, SamePokes(ms, mt)
  PROVE  Told(v, "poke", FALSE, mt)
<1>1. ~ pk /\ Len(ms) + 0 = u.heads
  BY DEF Told
<1>2. \A i \in 1..Len(ms) : ms[i].poked = IF i < u.heads THEN 1 ELSE 0
  BY DEF Told
<1>3. Len(mt) = Len(ms) /\ \A i \in 1..Len(ms) : mt[i].poked = ms[i].poked
  BY DEF SamePokes
<1>4. \A i \in 1..Len(mt) : mt[i].poked = IF i < v.heads THEN 1 ELSE 0
  BY ONLY <1>2, <1>3, v.heads = u.heads
<1>5. v.mode \in InHead
  BY DEF InHead
<1> QED
  BY ONLY <1>1, <1>3, <1>4, <1>5, v.heads = u.heads DEF Told

(* The stream ends.                                                        *)
LEMMA HaltReads ==
  ASSUME TypeInv, TypeInv', ReadInv, scn.option # "peekonly", Halt
  PROVE  ReadInv'
<1>1. /\ pc = "idle" /\ ptr < Len(scn.stream) /\ scn.stream[ptr + 1] = "EOF" /\ CompleteContent
      /\ ptr' = ptr + 1 /\ end' = ptr + 1 /\ peeking' = FALSE /\ pc' = "poke"
      /\ scn' = scn /\ req' = req /\ htrd' = htrd
  BY DEF Halt
<1>t. Here \in UncutType /\ Here.heads \in Nat /\ Latest \in Nat
  BY HereType
<1>2. SamePokes(seen.messages, seen.messages')
  BY <1>1, CompleteContentType
<1>3. ASSUME Exempt(htrd), Latest > 0 PROVE ReadInv'
  BY <1>1, <1>2, <1>3 DEF ReadInv, SamePokes, Latest
<1>u. scn.stream \in Seq(STRING) /\ IsUncut(scn, Uncut(scn)) /\ ptr \in Nat /\ Len(scn.stream) \in Nat
  BY UncutHere
<1>4. ASSUME Good(Here, pc, htrd, scn.stream, ptr, req, end, peeking, seen.messages)
      PROVE  ReadInv'
  <2>1. InStep(Here, htrd, scn.stream, ptr) /\ Told(Here, "idle", peeking, seen.messages)
    BY <1>1, <1>4 DEF Good, Place
  <2> DEFINE v == Uncut(scn)[ptr + 1]
  <2>2. v = UncutStep(scn, Here, ptr + 1)
    <3>1. ptr + 1 <= Len(scn.stream)
      BY <1>1, <1>u
    <3> QED
      BY ONLY <1>u, <3>1, OneStep DEF Here
  <2> HIDE DEF v
  <2>3. Here.mode \notin {"any", "refused"}
    BY <2>1 DEF InStep, InHead
  <2>4. CASE Here.mode = "close"
    <3>1. v = EndOfMessage(Here, ptr + 1)
      BY <1>1, <2>2, <2>4 DEF UncutStep
    <3>2. v.mode = "head" /\ v.from = ptr + 1 /\ v.crlf = 0 /\ v.heads = Here.heads
      BY <1>t, <3>1 DEF EndOfMessage, UncutType
    <3>3. Here.mode \notin InHead /\ Here.heads > 0
      BY <2>1, <2>4 DEF InHead, Told
    <3>4. Told(v, "poke", FALSE, seen.messages')
      BY ONLY <1>2, <2>1, <3>2, <3>3, ToldHalted
    <3>5. Place(v, "poke", htrd, scn.stream, ptr + 1, req, ptr + 1)
      BY <3>2, <3>3 DEF Place, IsOver
    <3>6. ~ Exempt(htrd) /\ (htrd.suspended => Len(seen.messages') > 0)
      BY <1>2, <1>4 DEF Good, SamePokes
    <3>7. Good(Uncut(scn)[ptr'], pc', htrd', scn.stream, ptr', req', end', peeking', seen.messages')
      BY <1>1, <3>4, <3>5, <3>6 DEF Good, v
    <3> QED
      BY <1>1, <3>7, EndsWell
  <2>5. CASE Here.mode # "close"
    <3>1. v = Undecided(Here)
      BY <1>1, <1>t, <2>2, <2>3, <2>5, UncutFields DEF UncutStep, Modes
    <3>2. v.mode = "any"
      BY <1>t, <3>1 DEF Undecided, UncutType
    <3>3. ptr + 1 \in Nat /\ ptr + 1 <= ptr'
      BY <1>1, <1>u
    <3> QED
      BY <1>1, <3>2, <3>3, AnyLater DEF v
  <2> QED
    BY <2>4, <2>5
<1>5. ptr' >= ptr
  BY <1>1, <1>u
<1> QED
  BY <1>1, <1>3, <1>4, <1>5, Otherwise

(* The peer answers to the request for another protocol.                   *)
LEMMA ResumeReads ==
  ASSUME TypeInv, TypeInv', ReadInv, scn.option # "peekonly", NEW granted \in BOOLEAN, Resume(granted)
  PROVE  ReadInv'
<1>1. /\ pc = "idle" /\ htrd.suspended /\ seen' = seen
      /\ scn' = scn /\ pc' = pc /\ ptr' = ptr /\ req' = req /\ end' = end /\ peeking' = peeking
      /\ htrd' = [htrd EXCEPT !.suspended = FALSE, !.dummified = granted]
  BY DEF Resume, locals
<1>t. Here \in UncutType /\ Here.heads \in Nat /\ Latest \in Nat /\ ptr >= ptr
      /\ htrd \in HtrdType /\ peeking \in BOOLEAN
  BY HereType
<1>2. ~ htrd'.suspended /\ htrd'.dummified = granted
  BY <1>1, <1>t DEF HtrdType
<1>3. ASSUME Good(Here, pc, htrd, scn.stream, ptr, req, end, peeking, seen.messages)
      PROVE  ReadInv'
  <2>1. InStep(Here, htrd, scn.stream, ptr) /\ Told(Here, "idle", peeking, seen.messages)
        /\ Latest > 0
    BY <1>1, <1>3 DEF Good, Place, Latest
  <2>2. CASE granted
    BY <1>1, <1>2, <2>1, <2>2 DEF ReadInv, Exempt, Latest
  <2>3. CASE ~ granted
    <3>1. InStep(Here, htrd', scn.stream, ptr)
      <4>1. PICK f \in BOOLEAN : f = FALSE
        OBVIOUS
      <4>2. htrd' = [htrd EXCEPT !.suspended = f, !.dummified = granted]
        BY <1>1, <4>1
      <4> QED
        BY ONLY <1>t, <2>1, <4>1, <4>2, granted \in BOOLEAN, FlagsOnly
    <3>2. Place(Here, "idle", htrd', scn.stream, ptr, req, end)
      BY <3>1 DEF Place
    <3>3. Good(Here, pc', htrd', scn.stream, ptr', req', end', peeking', seen.messages')
      BY <1>1, <1>2, <2>1, <2>3, <3>2 DEF Good, Exempt
    <3> QED
      BY <1>1, <3>3, EndsWell DEF Here
  <2> QED
    BY <2>2, <2>3
<1>4. Exempt(htrd) /\ Latest > 0 => ReadInv'
  BY <1>1 DEF Exempt
<1>5. ptr' >= ptr
  BY <1>1, <1>t
<1> QED
  BY <1>1, <1>3, <1>4, <1>5, Otherwise

(* The label at which a feed goes on, by the place in the stream.          *)
LEMMA FeedPlace ==
  ASSUME NEW u, NEW x \in HtrdType, NEW st, NEW p \in Nat, InStep(u, x, st, p), NEW e \in Nat, p < e,
         NEW l, l = CASE x.need > 0 -> "content_resume"
                      [] x.need = 0 /\ x.phase = "LEN" -> "dechunk_resume"
                      [] x.need = 0 /\ x.phase = "CRLF" -> "dechunk_crlf"
                      [] x.need = 0 /\ x.phase = "TRAILERS" -> "dechunk_get_trailers"
                      [] OTHER -> "header",
         NEW y, y = IF l = "header" THEN [x EXCEPT !.clean = FALSE] ELSE x
  PROVE  /\ Place(u, l, y, st, p, p, e)
         /\ y.suspended = x.suspended /\ y.dummified = x.dummified
<1>0. SIZE_RANGE - 1 > 0
  BY HtrdAssumption
<1>1. /\ y.need = x.need /\ y.phase = x.phase /\ y.until_close = x.until_close
      /\ y.tra = x.tra /\ y.raw = x.raw /\ y.crlf = x.crlf /\ y.len = x.len /\ y.count = x.count
      /\ y.suspended = x.suspended /\ y.dummified = x.dummified
  BY UncleanFields
<1>2. InStep(u, y, st, p)
  BY ONLY <1>1, InStep(u, x, st, p)
     DEF InStep, AtHead, AtLen, AtData, AtClose, AtCrlf, AtTrailers
<1>3. x.need \in Nat
  BY HtrdUpdates
<1>4. CASE u.mode \in InHead
  <2>1. x.need = 0 /\ x.phase = "DONE"
    BY <1>4 DEF InStep, AtHead, InHead
  <2>2. l = "header"
    BY <2>1
  <2> QED
    BY <1>1, <1>2, <1>4, <2>2 DEF Place
<1>5. CASE u.mode \in {"LEN", "LENSP"}
  <2>1. x.need = 0 /\ x.phase = "LEN"
    BY <1>5 DEF InStep, AtLen, InHead
  <2>2. l = "dechunk_resume"
    BY <2>1
  <2> QED
    BY <1>1, <1>2, <1>5, <2>2 DEF Place
<1>6. CASE u.mode \in {"data", "close"}
  <2>1. x.need > 0
    BY <1>0, <1>6 DEF InStep, AtData, AtClose, InHead
  <2>2. l = "content_resume"
    BY <2>1
  <2> QED
    BY <1>1, <1>2, <1>6, <2>2 DEF Place
<1>7. CASE u.mode = "CRLF"
  <2>1. x.need = 0 /\ x.phase = "CRLF"
    BY <1>7 DEF InStep, AtCrlf, InHead
  <2>2. l = "dechunk_crlf"
    BY <2>1
  <2> QED
    BY <1>1, <1>2, <1>7, <2>2 DEF Place
<1>8. CASE u.mode = "TRAILERS"
  <2>1. x.need = 0 /\ x.phase = "TRAILERS"
    BY <1>8 DEF InStep, AtTrailers, InHead
  <2>2. l = "dechunk_get_trailers"
    BY <2>1
  <2> QED
    BY <1>1, <1>2, <1>8, <2>2 DEF Place
<1> QED
  BY <1>4, <1>5, <1>6, <1>7, <1>8 DEF InStep

(* Nothing is told when a feed begins.                                     *)
LEMMA ToldFed ==
  ASSUME NEW u, NEW pk, NEW ms, Told(u, "idle", pk, ms), NEW l,
         l \notin {"complete", "peek", "poke"}
  PROVE  Told(u, l, FALSE, ms)
BY DEF Told

(* A feed begins.                                                          *)
LEMMA FeedReads ==
  ASSUME TypeInv, TypeInv', ReadInv, scn.option # "peekonly",
         NEW n \in 1..(Len(scn.stream) - ptr), Feed(n)
  PROVE  ReadInv'
<1> DEFINE lab == CASE htrd.need > 0 -> "content_resume"
                    [] htrd.need = 0 /\ htrd.phase = "LEN" -> "dechunk_resume"
                    [] htrd.need = 0 /\ htrd.phase = "CRLF" -> "dechunk_crlf"
                    [] htrd.need = 0 /\ htrd.phase = "TRAILERS" -> "dechunk_get_trailers"
                    [] OTHER -> "header"
<1>1. /\ pc = "idle" /\ scn' = scn /\ req' = ptr /\ end' = ptr + n /\ peeking' = FALSE
      /\ \/ htrd.suspended /\ pc' = "failed" /\ ptr' = ptr /\ htrd' = htrd
         \/ ~ htrd.suspended /\ htrd.dummified /\ AddContent(Octets(ptr, ptr + n))
            /\ ptr' = ptr + n /\ pc' = "idle" /\ htrd' = htrd
         \/ ~ htrd.suspended /\ ~ htrd.dummified /\ pc' = lab
            /\ htrd' = (IF pc' = "header" THEN [htrd EXCEPT !.clean = FALSE] ELSE htrd)
            /\ ptr' = ptr /\ seen' = seen
  BY Zenon DEF Feed
<1>t. Here \in UncutType /\ Here.heads \in Nat /\ Latest \in Nat /\ ptr >= ptr
      /\ htrd \in HtrdType /\ peeking \in BOOLEAN
  BY HereType
<1>n. n \in Nat /\ n > 0 /\ ptr \in Nat /\ ptr + n \in Nat /\ ptr < ptr + n
  BY UncutHere
<1>2. ASSUME htrd.suspended PROVE ReadInv'
  <2>1. pc' = "failed" /\ htrd'.suspended
    BY <1>1, <1>2
  <2> QED
    BY <2>1 DEF ReadInv, FailedWell
<1>3. ASSUME Exempt(htrd), Latest > 0 PROVE ReadInv'
  <2>1. AddContent(Octets(ptr, ptr + n)) /\ pc' = "idle" /\ htrd' = htrd
    BY <1>1, <1>3 DEF Exempt
  <2>2. SamePokes(seen.messages, seen.messages')
    BY <2>1, AddContentType
  <2> QED
    BY <1>3, <2>1, <2>2 DEF ReadInv, SamePokes, Latest
<1>4. ASSUME Good(Here, pc, htrd, scn.stream, ptr, req, end, peeking, seen.messages)
      PROVE  ReadInv'
  <2>1. InStep(Here, htrd, scn.stream, ptr) /\ Told(Here, "idle", peeking, seen.messages)
        /\ ~ Exempt(htrd)
    BY <1>1, <1>4 DEF Good, Place
  <2>2. CASE ~ htrd.suspended
    <3>1. ~ htrd.dummified /\ pc' = lab /\ ptr' = ptr /\ seen' = seen
          /\ htrd' = (IF pc' = "header" THEN [htrd EXCEPT !.clean = FALSE] ELSE htrd)
      BY <1>1, <2>1, <2>2 DEF Exempt
    <3>2. lab \notin {"complete", "peek", "poke", "failed"}
      OBVIOUS
    <3>3. /\ Place(Here, pc', htrd', scn.stream, ptr, ptr, ptr + n)
          /\ htrd'.suspended = htrd.suspended /\ htrd'.dummified = htrd.dummified
      BY ONLY <1>t, <1>n, <2>1, <3>1, FeedPlace
    <3>4. Told(Here, pc', FALSE, seen.messages)
      BY ONLY <2>1, <3>1, <3>2, ToldFed
    <3>5. Good(Here, pc', htrd', scn.stream, ptr', req', end', peeking', seen.messages')
      BY <1>1, <2>1, <2>2, <3>1, <3>3, <3>4 DEF Good, Exempt
    <3> QED
      BY <1>1, <3>1, <3>2, <3>5, EndsWell DEF Here
  <2> QED
    BY <1>2, <2>2
<1>5. ptr' >= ptr
  BY <1>1, <1>t, <1>n
<1> QED
  BY <1>1, <1>3, <1>4, <1>5, Otherwise

(* A step that reads on in a message.                                      *)
LEMMA GoesOn ==
  ASSUME Good(Here, pc, htrd, scn.stream, ptr, req, end, peeking, seen.messages),
         Here.mode \notin InHead, scn' = scn, req' = req, end' = end, peeking' = peeking,
         htrd'.suspended = htrd.suspended, htrd'.dummified = htrd.dummified,
         SamePokes(seen.messages, seen'.messages),
         NEW v, v = Uncut(scn)[ptr'], v.heads = Here.heads,
         Place(v, pc', htrd', scn.stream, ptr', req, end),
         \/ v.mode \notin InHead /\ pc' \notin {"idle", "header", "poke", "clear", "peek", "failed"}
         \/ pc' = "complete"
  PROVE  ReadInv'
<1>1. Told(Here, pc, peeking, seen.messages) /\ ~ Exempt(htrd)
      /\ (htrd.suspended => Len(seen.messages) > 0)
  BY DEF Good
<1>2. Told(v, pc', peeking, seen'.messages)
  <2>1. PICK l : l = pc'
    OBVIOUS
  <2>2. PICK mt : mt = seen'.messages
    OBVIOUS
  <2>3. \/ v.mode \notin InHead /\ l \notin {"idle", "header", "poke", "clear", "peek"}
        \/ l = "complete"
    BY <2>1
  <2>4. SamePokes(seen.messages, mt)
    BY <2>2
  <2>5. Told(v, l, peeking, mt)
    BY ONLY <1>1, <2>3, <2>4, Here.mode \notin InHead, v.heads = Here.heads, ToldOn
  <2> QED
    BY <2>1, <2>2, <2>5
<1>3. htrd'.suspended => Len(seen'.messages) > 0
  BY <1>1 DEF SamePokes
<1>4. Good(v, pc', htrd', scn.stream, ptr', req', end', peeking', seen.messages')
  BY <1>1, <1>2, <1>3 DEF Good, Exempt
<1> QED
  BY <1>4, EndsWell

(* Where the reader is in the message, and what may be fed to it.          *)
LEMMA InMessage ==
  ASSUME TypeInv, Good(Here, pc, htrd, scn.stream, ptr, req, end, peeking, seen.messages)
  PROVE  /\ pc \in {"header", "content_resume", "dechunk_resume", "dechunk_crlf",
                    "dechunk_get_trailers"} => InStep(Here, htrd, scn.stream, ptr)
         /\ pc = "header" => Here.mode \in InHead /\ req = ptr /\ ptr < end
         /\ pc = "content_resume" => Here.mode \in {"data", "close"}
         /\ pc = "dechunk_resume" => Here.mode \in {"LEN", "LENSP"}
         /\ pc = "dechunk_crlf" => Here.mode = "CRLF"
         /\ pc = "dechunk_get_trailers" => Here.mode = "TRAILERS"
         /\ \A k \in (ptr + 1)..end : scn.stream[k] # "EOF"
BY DEF Good, Place, TypeInv, Positions

(* All of the data that is needed have been fed.                           *)
LEMMA DataEnds ==
  ASSUME NEW s, s.stream \in Seq(STRING), NEW u, IsUncut(s, u),
         NEW p \in Nat, NEW n \in Nat, n > 0, p + n <= Len(s.stream),
         u[p].mode = "data", n = u[p].need,
         \A k \in (p + 1)..(p + n) : s.stream[k] # "EOF"
  PROVE  /\ u[p + n].heads = u[p].heads
         /\ u[p].chunk => u[p + n].mode = "CRLF"
         /\ ~ u[p].chunk => u[p + n].mode = "head" /\ u[p + n].from = p + n /\ u[p + n].crlf = 0
<1>1. u[p] \in UncutType
  <2>1. p \in 0..Len(s.stream)
    OBVIOUS
  <2> QED
    BY <2>1 DEF IsUncut
<1>l. Len(s.stream) \in Nat
  OBVIOUS
<1>2. PICK q \in Nat : q + 1 = p + n
  <2>1. p + (n - 1) \in Nat /\ (p + (n - 1)) + 1 = p + n
    BY ONLY p \in Nat, n \in Nat, n > 0
  <2> QED
    BY <2>1
<1>3. /\ p <= q /\ q <= Len(s.stream) /\ q - p < n /\ q + 1 <= Len(s.stream)
      /\ n - (q - p) = 1 /\ q + 1 \in (p + 1)..(p + n)
  BY ONLY <1>l, <1>2, p \in Nat, n \in Nat, n > 0, p + n <= Len(s.stream)
<1>4. \A k \in (p + 1)..q : s.stream[k] # "EOF"
  <2>1. \A k \in (p + 1)..q : k \in (p + 1)..(p + n)
    BY ONLY <1>2, p \in Nat, n \in Nat
  <2> QED
    BY <2>1
<1>5. DataLeft(u, p, q)
  <2>1. q - p < u[p].need
    BY <1>3
  <2> QED
    BY ONLY <1>2, <1>3, <1>4, <2>1, DataRun, s.stream \in Seq(STRING), IsUncut(s, u), p \in Nat,
            u[p].mode = "data"
<1>6. u[q].mode = "data" /\ u[q].need = 1 /\ u[q].chunk = u[p].chunk /\ u[q].heads = u[p].heads
      /\ u[q] \in UncutType
  <2>1. n - (q - p) = 1
    BY <1>3
  <2>2. u[q].mode = "data" /\ u[q].need = n - (q - p) /\ u[q].chunk = u[p].chunk
        /\ u[q].heads = u[p].heads
    BY <1>5 DEF DataLeft
  <2>3. q \in 0..Len(s.stream)
    BY <1>3
  <2> QED
    BY <2>1, <2>2, <2>3 DEF IsUncut
<1>7. u[q + 1] = UncutStep(s, u[q], q + 1)
  BY <1>3, OneStep
<1>8. s.stream[q + 1] # "EOF"
  <2>1. q + 1 \in (p + 1)..(p + n)
    BY <1>3
  <2> QED
    BY <2>1
<1>9. u[q + 1] = UncutData(u[q], q + 1)
  BY <1>6, <1>7, <1>8 DEF UncutStep
<1>10. u[q + 1] = IF u[q].chunk THEN [u[q] EXCEPT !.mode = "CRLF", !.need = 0]
                  ELSE EndOfMessage(u[q], q + 1)
  BY <1>6, <1>9 DEF UncutData
<1>11. CASE u[p].chunk
  <2>1. u[q + 1] = [u[q] EXCEPT !.mode = "CRLF", !.need = 0]
    BY <1>6, <1>10, <1>11
  <2>2. u[q + 1].mode = "CRLF" /\ u[q + 1].heads = u[q].heads
    BY ONLY <1>6, <2>1 DEF UncutType
  <2> QED
    BY ONLY <1>2, <1>6, <1>11, <2>2
<1>12. CASE ~ u[p].chunk
  <2>1. u[q + 1] = EndOfMessage(u[q], q + 1)
    BY <1>6, <1>10, <1>12
  <2>2. u[q + 1].mode = "head" /\ u[q + 1].from = q + 1 /\ u[q + 1].crlf = 0
        /\ u[q + 1].heads = u[q].heads
    BY ONLY <1>6, <2>1 DEF UncutType, EndOfMessage
  <2> QED
    BY ONLY <1>2, <1>6, <1>12, <2>2
<1> QED
  BY <1>11, <1>12

(* Content is read.                                                        *)
LEMMA ReadContentReads ==
  ASSUME TypeInv, TypeInv', ReadInv, scn.option # "peekonly", ReadContent
  PROVE  ReadInv'
<1> DEFINE n == Min({htrd.need, end - ptr})
           left == IF htrd.until_close THEN htrd.need ELSE htrd.need - n
<1>0. scn.stream \in Seq(STRING) /\ IsUncut(scn, Uncut(scn)) /\ Len(scn.stream) \in Nat
      /\ ptr \in Nat /\ end \in Nat /\ ptr <= end /\ end <= Len(scn.stream)
  BY UncutHere
<1>t. Here \in UncutType /\ htrd \in HtrdType
  BY HereType
<1>f. htrd.need \in Nat
  BY <1>t, HtrdUpdates
<1>1. n \in {htrd.need, end - ptr} /\ n \in Nat /\ n <= htrd.need /\ n <= end - ptr
  <2>1. {htrd.need, end - ptr} \in SUBSET Nat
    BY <1>0, <1>f
  <2>2. n \in {htrd.need, end - ptr} /\ \A k \in {htrd.need, end - ptr} : n <= k
    BY <2>1, LeastExists
  <2> HIDE DEF n
  <2> QED
    BY <2>1, <2>2
<1> HIDE DEF n
<1>2. /\ pc = "content_resume" /\ AddContent(Octets(ptr, ptr + n))
      /\ ptr' = ptr + n /\ scn' = scn /\ req' = req /\ end' = end /\ peeking' = peeking
      /\ htrd' = [htrd EXCEPT !.need = left, !.phase = IF left = 0 /\ @ = "DATA" THEN "CRLF" ELSE @]
      /\ pc' = CASE end - ptr < htrd.need -> "feedme_more"
                 [] end - ptr >= htrd.need /\ htrd.phase = "DATA" -> "dechunk_crlf"
                 [] OTHER -> "complete"
  BY Zenon DEF ReadContent, Goto, n
<1>3. SamePokes(seen.messages, seen'.messages)
  BY <1>2, AddContentType
<1>4. /\ htrd'.need = left /\ htrd'.phase = (IF left = 0 /\ htrd.phase = "DATA" THEN "CRLF" ELSE htrd.phase)
      /\ htrd'.until_close = htrd.until_close /\ htrd'.tra = htrd.tra
      /\ htrd'.suspended = htrd.suspended /\ htrd'.dummified = htrd.dummified
  BY <1>2, <1>t DEF HtrdType
<1>5. ASSUME Good(Here, pc, htrd, scn.stream, ptr, req, end, peeking, seen.messages)
      PROVE  ReadInv'
  <2>1. InStep(Here, htrd, scn.stream, ptr) /\ Here.mode \in {"data", "close"}
        /\ \A k \in (ptr + 1)..end : scn.stream[k] # "EOF"
    BY <1>2, <1>5, InMessage
  <2>2. Here.mode \notin InHead
    BY <2>1 DEF InHead
  <2> DEFINE v == Uncut(scn)[ptr + n]
  <2>3. ASSUME v.heads = Here.heads, Place(v, pc', htrd', scn.stream, ptr + n, req, end),
               \/ v.mode \notin InHead /\ pc' \in {"feedme_more", "dechunk_crlf"}
               \/ pc' = "complete"
        PROVE  ReadInv'
    <3>1. v = Uncut(scn)[ptr'] /\ Place(v, pc', htrd', scn.stream, ptr', req, end)
      BY <1>2, <2>3
    <3> HIDE DEF v
    <3> QED
      BY <1>2, <1>3, <1>4, <1>5, <2>2, <2>3, <3>1, GoesOn
  <2>4. CASE Here.mode = "close"
    <3>1. htrd.need = SIZE_RANGE - 1 /\ htrd.until_close /\ htrd.phase = "DONE"
      BY <2>1, <2>4 DEF InStep, InHead, AtClose
    <3>2. end - ptr < SIZE_RANGE - 1 /\ SIZE_RANGE \in Nat
      BY HtrdAssumption DEF TypeInv, Positions
    <3>3. n = end - ptr /\ end - ptr < htrd.need
      BY <1>0, <1>1, <3>1, <3>2
    <3>4. v = Here
      <4>1. PICK q : q = ptr + n
        OBVIOUS
      <4>2. q \in Nat /\ ptr <= q /\ q <= Len(scn.stream)
            /\ \A k \in (ptr + 1)..q : scn.stream[k] # "EOF"
        BY <1>0, <2>1, <3>3, <4>1
      <4>3. Uncut(scn)[q] = Uncut(scn)[ptr]
        BY ONLY <1>0, <2>4, <4>2, CloseRun DEF Here
      <4> QED
        BY <4>1, <4>3 DEF Here
    <3>5. htrd'.need = SIZE_RANGE - 1 /\ htrd'.until_close /\ htrd'.phase = "DONE"
      BY <1>4, <3>1
    <3>6. pc' = "feedme_more"
      BY ONLY <1>0, <1>2, <1>f, <3>3
    <3>7. InStep(v, htrd', scn.stream, ptr + n)
      BY <2>4, <3>4, <3>5 DEF InStep, AtClose
    <3> HIDE DEF v
    <3> QED
      BY <2>2, <2>3, <3>4, <3>6, <3>7 DEF Place
  <2>5. CASE Here.mode = "data"
    <3>1. htrd.need = Here.need /\ htrd.need > 0 /\ ~ htrd.until_close /\ htrd.tra = <<>>
          /\ htrd.phase = IF Here.chunk THEN "DATA" ELSE "DONE"
      BY <2>1, <2>5 DEF InStep, InHead, AtData
    <3>2. left = htrd.need - n
      BY <3>1
    <3>3. CASE end - ptr < htrd.need
      <4>1. n = end - ptr /\ ptr + n = end
        BY <1>0, <1>1, <1>f, <3>3
      <4>2. end - ptr < Uncut(scn)[ptr].need /\ Uncut(scn)[ptr].mode = "data"
        BY <2>5, <3>1, <3>3 DEF Here
      <4>3. v.mode = "data" /\ v.need = Here.need - (end - ptr) /\ v.chunk = Here.chunk
            /\ v.heads = Here.heads
        <5>1. PICK u : u = Uncut(scn)
          OBVIOUS
        <5>2. DataLeft(u, ptr, end)
          BY ONLY <1>0, <2>1, <4>2, <5>1, DataRun
        <5> QED
          BY <4>1, <5>1, <5>2 DEF Here, DataLeft
      <4>4. left > 0 /\ left = v.need
        BY <1>0, <1>f, <3>1, <3>2, <3>3, <4>1, <4>3
      <4>5. htrd'.need = v.need /\ htrd'.need > 0 /\ ~ htrd'.until_close /\ htrd'.tra = <<>>
            /\ htrd'.phase = IF v.chunk THEN "DATA" ELSE "DONE"
        BY <1>4, <3>1, <4>3, <4>4
      <4>6. pc' = "feedme_more"
        BY ONLY <1>0, <1>2, <1>f, <3>3
      <4> HIDE DEF v
      <4>7. InStep(v, htrd', scn.stream, ptr + n)
        BY <4>3, <4>5 DEF InStep, AtData
      <4>8. v.mode \notin InHead
        BY <4>3 DEF InHead
      <4> QED
        BY <2>3, <4>3, <4>6, <4>7, <4>8 DEF Place
    <3>4. CASE end - ptr >= htrd.need
      <4>1. n = htrd.need /\ left = 0
        <5>1. n = htrd.need
          BY <1>0, <1>1, <1>f, <3>4
        <5> QED
          BY <1>f, <3>2, <5>1
      <4>2. /\ v.heads = Here.heads
            /\ Here.chunk => v.mode = "CRLF"
            /\ ~ Here.chunk => v.mode = "head" /\ v.from = ptr + n /\ v.crlf = 0
        <5>1. n > 0 /\ ptr + n <= Len(scn.stream) /\ n = Here.need
          BY <1>0, <1>f, <3>1, <3>4, <4>1
        <5>2. \A k \in (ptr + 1)..(ptr + n) : scn.stream[k] # "EOF"
          BY <1>0, <1>1, <2>1
        <5> QED
          BY ONLY <1>0, <1>1, <2>5, <5>1, <5>2, DataEnds DEF Here
      <4> HIDE DEF v
      <4>c. Here.chunk \in BOOLEAN
        BY <1>t, UncutFields
      <4>3. CASE Here.chunk
        <5>1. htrd.phase = "DATA" /\ pc' = "dechunk_crlf"
          BY <1>0, <1>2, <1>f, <3>1, <3>4, <4>3
        <5>2. htrd'.need = 0 /\ htrd'.phase = "CRLF" /\ ~ htrd'.until_close /\ htrd'.tra = <<>>
          BY <1>4, <3>1, <4>1, <5>1
        <5>3. v.mode = "CRLF"
          BY <4>2, <4>3
        <5>4. InStep(v, htrd', scn.stream, ptr + n) /\ v.mode \notin InHead
          BY <5>2, <5>3 DEF InStep, AtCrlf, InHead
        <5> QED
          BY <2>3, <4>2, <5>1, <5>3, <5>4 DEF Place
      <4>4. CASE ~ Here.chunk
        <5>1. htrd.phase = "DONE" /\ pc' = "complete"
          BY <1>0, <1>2, <1>f, <3>1, <3>4, <4>4
        <5>2. Here.heads > 0
          BY <1>5, <2>2 DEF Good, Told
        <5>3. IsOver(v, ptr + n)
          BY <4>2, <4>4, <5>2 DEF IsOver
        <5> QED
          BY <2>3, <4>2, <5>1, <5>3 DEF Place
      <4> QED
        BY <4>3, <4>4
    <3> QED
      BY <1>0, <1>f, <3>3, <3>4
  <2> QED
    BY <2>1, <2>4, <2>5
<1>6. ptr' >= ptr
  BY <1>0, <1>1, <1>2
<1> QED
  BY <1>2, <1>5, <1>6, Reading

(* The end of a chunk is read.                                             *)
LEMMA EndChunkReads ==
  ASSUME TypeInv, TypeInv', ReadInv, scn.option # "peekonly", EndChunk
  PROVE  ReadInv'
<1>0. scn.stream \in Seq(STRING) /\ IsUncut(scn, Uncut(scn)) /\ Len(scn.stream) \in Nat
      /\ ptr \in Nat /\ end \in Nat /\ ptr <= end /\ end <= Len(scn.stream)
  BY UncutHere
<1>t. Here \in UncutType /\ htrd \in HtrdType
  BY HereType
<1> DEFINE stop == Skip(is_space_octet, ptr)
<1>1. /\ stop \in ptr..end /\ stop \in Nat
      /\ \A k \in (ptr + 1)..stop : scn.stream[k] \in is_space_octet
      /\ stop < end => scn.stream[stop + 1] \notin is_space_octet
  BY <1>0, SkipDef
<1> HIDE DEF stop
<1>2. /\ pc = "dechunk_crlf" /\ scn' = scn /\ req' = req /\ end' = end /\ peeking' = peeking
      /\ seen' = seen
      /\ \/ stop = end /\ ptr' = stop /\ pc' = "feedme_more" /\ htrd' = htrd
         \/ /\ stop < end /\ scn.stream[stop + 1] = "LF" /\ ptr' = stop + 1 /\ htrd' = NewChunk(htrd)
            /\ pc' = IF stop + 1 < end THEN "dechunk_resume" ELSE "feedme_more"
         \/ stop < end /\ scn.stream[stop + 1] # "LF" /\ ptr' = stop /\ pc' = "failed"
  BY Zenon DEF EndChunk, Goto, EndsChunk, stop
<1>3. SamePokes(seen.messages, seen'.messages)
  BY <1>2 DEF SamePokes
<1>4. ASSUME Good(Here, pc, htrd, scn.stream, ptr, req, end, peeking, seen.messages)
      PROVE  ReadInv'
  <2>1. InStep(Here, htrd, scn.stream, ptr) /\ Here.mode = "CRLF"
        /\ \A k \in (ptr + 1)..end : scn.stream[k] # "EOF"
    BY <1>2, <1>4, InMessage
  <2>2. Here.mode \notin InHead
    BY <2>1 DEF InHead
  <2>3. AtCrlf(htrd)
    BY <2>1 DEF InStep, InHead
  <2>4. Uncut(scn)[stop] = Here
    <3>1. ptr <= stop /\ stop <= Len(scn.stream)
      BY <1>0, <1>1
    <3> QED
      BY ONLY <1>0, <1>1, <2>1, <3>1, SpaceRun DEF Here
  <2>5. CASE stop = end /\ ptr' = stop /\ pc' = "feedme_more" /\ htrd' = htrd
    <3>1. InStep(Here, htrd', scn.stream, ptr')
      BY <2>1, <2>3, <2>5 DEF InStep
    <3>2. Place(Here, pc', htrd', scn.stream, ptr', req, end)
      BY <2>5, <3>1 DEF Place
    <3>3. Here = Uncut(scn)[ptr']
      BY <2>4, <2>5
    <3> QED
      BY <1>2, <1>3, <1>4, <2>2, <2>5, <3>2, <3>3, GoesOn
  <2>6. CASE stop < end
    <3> DEFINE v == Uncut(scn)[stop + 1]
    <3>0. stop + 1 \in Nat /\ stop + 1 <= end /\ stop + 1 <= Len(scn.stream)
      BY <1>0, <1>1, <2>6
    <3>1. v = UncutCrlf(Here, scn.stream[stop + 1])
      <4>1. v = UncutStep(scn, Here, stop + 1)
        BY ONLY <1>0, <1>1, <2>4, <3>0, OneStep
      <4>2. scn.stream[stop + 1] # "EOF"
        <5>1. stop + 1 \in (ptr + 1)..end
          BY <1>0, <1>1, <3>0
        <5> QED
          BY <2>1, <5>1
      <4> HIDE DEF v
      <4> QED
        BY <2>1, <4>1, <4>2 DEF UncutStep
    <3> HIDE DEF v
    <3>2. CASE scn.stream[stop + 1] = "LF"
      <4>0. /\ ptr' = stop + 1 /\ htrd' = NewChunk(htrd)
            /\ pc' = IF stop + 1 < end THEN "dechunk_resume" ELSE "feedme_more"
        BY <1>1, <1>2, <2>6, <3>2
      <4>1. v = StartOfChunk(Here)
        BY <1>1, <2>6, <3>1, <3>2 DEF UncutCrlf
      <4>2. v.mode = "LEN" /\ v.len = 0 /\ v.count = 0 /\ v.heads = Here.heads
        BY <1>t, <4>1 DEF StartOfChunk, UncutType
      <4>3. /\ htrd'.phase = "LEN" /\ htrd'.len = 0 /\ htrd'.count = 0
            /\ htrd'.need = htrd.need /\ htrd'.until_close = htrd.until_close /\ htrd'.tra = htrd.tra
            /\ htrd'.suspended = htrd.suspended /\ htrd'.dummified = htrd.dummified
        BY <1>t, <4>0 DEF NewChunk, HtrdType
      <4>4. InStep(v, htrd', scn.stream, ptr')
        BY <2>3, <4>2, <4>3 DEF InStep, AtLen, AtCrlf
      <4>5. Place(v, pc', htrd', scn.stream, ptr', req, end)
        BY <4>0, <4>2, <4>4 DEF Place
      <4>6. v = Uncut(scn)[ptr']
        BY <4>0 DEF v
      <4>7. v.mode \notin InHead /\ pc' \in {"dechunk_resume", "feedme_more"}
        BY <4>0, <4>2 DEF InHead
      <4> QED
        BY <1>2, <1>3, <1>4, <2>2, <4>2, <4>3, <4>5, <4>6, <4>7, GoesOn
    <3>3. CASE scn.stream[stop + 1] # "LF"
      <4>1. pc' = "failed"
        BY <1>1, <1>2, <2>6, <3>3
      <4>2. v = Refuse(Here)
        BY <1>1, <2>6, <3>1, <3>3 DEF UncutCrlf
      <4>3. v.mode = "refused"
        BY <1>t, <4>2 DEF Refuse, UncutType
      <4> QED
        BY <1>2, <3>0, <4>1, <4>3, RefusedFails DEF v
    <3> QED
      BY <3>2, <3>3
  <2> QED
    BY <1>1, <1>2, <2>5, <2>6
<1>5. ptr' >= ptr
  BY <1>0, <1>1, <1>2
<1> QED
  BY <1>2, <1>4, <1>5, Reading

(* Lines read in this feed, in a head or in trailers.                      *)
LEMMA LinesHere ==
  ASSUME TypeInv, Here.mode \in {"head", "TRAILERS"}, htrd.crlf = Here.crlf,
         NEW q \in ptr..end, q \in Nat, \A k \in ptr..q : Crlf[k] \in 0..3,
         \A k \in (ptr + 1)..q : scn.stream[k] # "NUL"
  PROVE  /\ Uncut(scn)[q] = [Here EXCEPT !.crlf = Crlf[q]]
         /\ Uncut(scn)[q].mode = Here.mode /\ Uncut(scn)[q].from = Here.from
         /\ Uncut(scn)[q].crlf = Crlf[q] /\ Uncut(scn)[q].heads = Here.heads
<1>0. scn.stream \in Seq(STRING) /\ IsUncut(scn, Uncut(scn)) /\ Len(scn.stream) \in Nat
      /\ ptr \in Nat /\ end \in Nat /\ ptr <= end /\ end <= Len(scn.stream)
  BY UncutHere
<1>1. ptr <= q /\ q <= end /\ q <= Len(scn.stream)
  BY <1>0
<1>2. /\ Crlf[ptr] = htrd.crlf
      /\ \A p \in (ptr + 1)..end : Crlf[p] = NextCrlf(Crlf[p - 1], scn.stream[p])
  <2>1. htrd.crlf \in 0..4
    BY DEF TypeInv, HtrdType
  <2> QED
    BY <1>0, <2>1, CrlfDef
<1>3. Counts(scn, Crlf, ptr, q)
  <2>1. \A k \in (ptr + 1)..q : k \in (ptr + 1)..end
    BY ONLY <1>0, <1>1, q \in Nat
  <2> QED
    BY ONLY <1>2, <2>1, \A k \in ptr..q : Crlf[k] \in 0..3 DEF Counts
<1>4. \A k \in (ptr + 1)..q : scn.stream[k] \notin {"NUL", "EOF"}
  <2>1. \A k \in (ptr + 1)..q : k \in (ptr + 1)..end
    BY ONLY <1>0, <1>1, q \in Nat
  <2>2. \A k \in (ptr + 1)..end : scn.stream[k] # "EOF"
    BY DEF TypeInv, Positions
  <2> QED
    BY ONLY <2>1, <2>2, \A k \in (ptr + 1)..q : scn.stream[k] # "NUL"
<1>5. Uncut(scn)[q] = [Uncut(scn)[ptr] EXCEPT !.crlf = Crlf[q]]
  <2>1. PICK u : u = Uncut(scn)
    OBVIOUS
  <2>2. PICK C : C = Crlf
    OBVIOUS
  <2>3. u[ptr].mode \in {"head", "TRAILERS"} /\ C[ptr] = u[ptr].crlf
    BY <1>2, <2>1, <2>2 DEF Here
  <2>4. u[q] = [u[ptr] EXCEPT !.crlf = C[q]]
    BY ONLY <1>0, <1>1, <1>3, <1>4, <2>1, <2>2, <2>3, q \in Nat, LinesRun
  <2> QED
    BY <2>1, <2>2, <2>4
<1>6. Here \in UncutType
  BY HereType
<1>7. Uncut(scn)[q] = [Here EXCEPT !.crlf = Crlf[q]]
  BY <1>5 DEF Here
<1> QED
  BY ONLY <1>6, <1>7 DEF UncutType

(* Characters up to the empty line have no null character unless there is  *)
(* one at a position among them.                                           *)
LEMMA HasNullDef ==
  ASSUME TypeInv
  PROVE  HasNull <=> \E p \in (ptr + 1)..EmptyLine : scn.stream[p] = "NUL"
<1>0. scn.stream \in Seq(STRING) /\ Len(scn.stream) \in Nat
      /\ ptr \in Nat /\ end \in Nat /\ ptr <= end /\ end <= Len(scn.stream)
  BY UncutHere
<1>1. EmptyLine \in ptr..end /\ EmptyLine \in Nat
  BY EmptyLineDef
<1>2. ptr <= EmptyLine /\ EmptyLine <= Len(scn.stream)
  BY ONLY <1>0, <1>1
<1>3. PICK c : c = "NUL"
  OBVIOUS
<1>4. Contains(SubSeq(scn.stream, ptr + 1, EmptyLine), c)
        <=> \E p \in (ptr + 1)..EmptyLine : scn.stream[p] = c
  BY ONLY <1>0, <1>1, <1>2, PieceContains
<1> QED
  BY <1>3, <1>4 DEF HasNull, Octets

(* The place before a position up to the empty line, in a head or in       *)
(* trailers, and the step from there.                                      *)
LEMMA LineStep ==
  ASSUME TypeInv, Here.mode \in {"head", "TRAILERS"}, htrd.crlf = Here.crlf,
         NEW k \in (ptr + 1)..EmptyLine,
         \A j \in (ptr + 1)..EmptyLine : j < k => scn.stream[j] # "NUL"
  PROVE  \E w : /\ w = [Here EXCEPT !.crlf = Crlf[k - 1]]
                /\ w \in UncutType /\ w.mode = Here.mode /\ w.from = Here.from
                /\ w.heads = Here.heads /\ w.crlf = Crlf[k - 1]
                /\ Crlf[k] = NextCrlf(w.crlf, scn.stream[k])
                /\ scn.stream[k] # "EOF"
                /\ Uncut(scn)[k] = UncutStep(scn, w, k)
<1>0. scn.stream \in Seq(STRING) /\ IsUncut(scn, Uncut(scn)) /\ Len(scn.stream) \in Nat
      /\ ptr \in Nat /\ end \in Nat /\ ptr <= end /\ end <= Len(scn.stream)
  BY UncutHere
<1>1. EmptyLine \in ptr..end /\ EmptyLine \in Nat
      /\ \A j \in ptr..end : j < EmptyLine => Crlf[j] \in 0..3
  BY EmptyLineDef
<1>2. PICK q : q = k - 1
  OBVIOUS
<1>3. /\ q \in ptr..end /\ q \in Nat /\ q + 1 = k /\ q + 1 <= Len(scn.stream) /\ q <= end
      /\ k \in (ptr + 1)..end
      /\ \A j \in ptr..q : j \in ptr..end /\ j < EmptyLine
      /\ \A j \in (ptr + 1)..q : j \in (ptr + 1)..EmptyLine /\ j < k
  BY ONLY <1>0, <1>1, <1>2, k \in (ptr + 1)..EmptyLine
<1>4. /\ Uncut(scn)[q] = [Here EXCEPT !.crlf = Crlf[q]]
      /\ Uncut(scn)[q].mode = Here.mode /\ Uncut(scn)[q].from = Here.from
      /\ Uncut(scn)[q].crlf = Crlf[q] /\ Uncut(scn)[q].heads = Here.heads
  <2>1. \A j \in ptr..q : Crlf[j] \in 0..3
    BY ONLY <1>1, <1>3
  <2>2. \A j \in (ptr + 1)..q : scn.stream[j] # "NUL"
    BY ONLY <1>3, \A j \in (ptr + 1)..EmptyLine : j < k => scn.stream[j] # "NUL"
  <2> QED
    BY <1>3, <2>1, <2>2, LinesHere
<1>5. Uncut(scn)[q] \in UncutType
  <2>1. q \in 0..Len(scn.stream)
    BY ONLY <1>0, <1>3
  <2> QED
    BY <1>0, <2>1 DEF IsUncut
<1>6. Uncut(scn)[q + 1] = UncutStep(scn, Uncut(scn)[q], q + 1)
  BY ONLY <1>0, <1>3, OneStep
<1>7. Crlf[k] = NextCrlf(Crlf[k - 1], scn.stream[k])
  <2>1. htrd.crlf \in 0..4
    BY DEF TypeInv, HtrdType
  <2>2. \A p \in (ptr + 1)..end : Crlf[p] = NextCrlf(Crlf[p - 1], scn.stream[p])
    BY <1>0, <2>1, CrlfDef
  <2> QED
    BY <1>3, <2>2
<1>8. scn.stream[k] # "EOF"
  BY <1>3 DEF TypeInv, Positions
<1> QED
  BY ONLY <1>2, <1>3, <1>4, <1>5, <1>6, <1>7, <1>8

(* A null character is refused.                                            *)
LEMMA RejectNullReads ==
  ASSUME TypeInv, TypeInv', ReadInv, scn.option # "peekonly", RejectNull
  PROVE  ReadInv'
<1>0. scn.stream \in Seq(STRING) /\ IsUncut(scn, Uncut(scn)) /\ Len(scn.stream) \in Nat
      /\ ptr \in Nat /\ end \in Nat /\ ptr <= end /\ end <= Len(scn.stream)
  BY UncutHere
<1>t. Here \in UncutType /\ htrd \in HtrdType
  BY HereType
<1>e. EmptyLine \in ptr..end /\ EmptyLine \in Nat
  BY EmptyLineDef
<1>1. /\ pc \in {"header", "dechunk_get_trailers"} /\ HasNull
      /\ ptr' = EmptyLine /\ scn' = scn /\ end' = end /\ pc' = "failed"
  BY DEF RejectNull, Goto
<1>2. ptr' >= ptr
  BY ONLY <1>0, <1>1, <1>e
<1>3. ASSUME Good(Here, pc, htrd, scn.stream, ptr, req, end, peeking, seen.messages)
      PROVE  ReadInv'
  <2>1. InStep(Here, htrd, scn.stream, ptr) /\ Here.mode \in {"head", "none", "TRAILERS"}
    BY <1>1, <1>3, InMessage DEF InHead
  <2> DEFINE S == {p \in (ptr + 1)..EmptyLine : scn.stream[p] = "NUL"}
             k == Min(S)
  <2>2. S \in SUBSET Nat /\ S # {}
    <3>1. \E p \in (ptr + 1)..EmptyLine : scn.stream[p] = "NUL"
      BY <1>1, HasNullDef
    <3>2. S # {}
      BY <3>1
    <3>3. \A p \in (ptr + 1)..EmptyLine : p \in Nat
      BY ONLY <1>0, <1>e
    <3> QED
      BY <3>2, <3>3
  <2>3. k \in S /\ \A j \in S : k <= j
    BY ONLY <2>2, LeastExists
  <2> HIDE DEF k
  <2>4. k \in (ptr + 1)..EmptyLine /\ scn.stream[k] = "NUL" /\ k \in Nat
        /\ \A j \in (ptr + 1)..EmptyLine : j < k => scn.stream[j] # "NUL"
    <3>1. k \in (ptr + 1)..EmptyLine /\ scn.stream[k] = "NUL" /\ k \in Nat
      BY <2>2, <2>3
    <3>2. ASSUME NEW j \in (ptr + 1)..EmptyLine, j < k PROVE scn.stream[j] # "NUL"
      <4>1. j \notin S
        <5>1. ~ (k <= j)
          BY ONLY <1>0, <1>e, <3>1, <3>2
        <5> QED
          BY ONLY <2>3, <5>1
      <4> QED
        BY <4>1
    <3> QED
      BY <3>1, <3>2
  <2>5. k <= end' /\ ptr < k /\ k <= Len(scn.stream)
    BY ONLY <1>0, <1>1, <1>e, <2>4
  <2>6. CASE Here.mode = "none"
    <3>1. Uncut(scn)[k].mode = "any"
      BY ONLY <1>0, <2>4, <2>5, <2>6, BehindNone DEF Here
    <3> QED
      BY <1>1, <2>4, <2>5, <3>1, AnyFails
  <2>7. CASE Here.mode \in {"head", "TRAILERS"}
    <3>1. htrd.crlf = Here.crlf
      BY <2>1, <2>7 DEF InStep, InHead, AtHead, AtTrailers
    <3>2. PICK w : /\ w \in UncutType /\ w.mode = Here.mode
                   /\ scn.stream[k] # "EOF" /\ Uncut(scn)[k] = UncutStep(scn, w, k)
      BY <2>4, <2>7, <3>1, LineStep
    <3>3. UncutStep(scn, w, k) = Refuse(w)
      BY <2>4, <2>7, <3>2 DEF UncutStep, UncutHead, UncutTrailers
    <3>4. Uncut(scn)[k].mode = "refused"
      BY ONLY <3>2, <3>3 DEF Refuse, UncutType
    <3> QED
      BY <1>1, <2>4, <2>5, <3>4, RefusedFails
  <2> QED
    BY <2>1, <2>6, <2>7
<1> QED
  BY <1>1, <1>2, <1>3, Reading

(* A part of a head is read.                                               *)
LEMMA ReadPartOfHeadReads ==
  ASSUME TypeInv, TypeInv', ReadInv, scn.option # "peekonly", ReadPartOfHead
  PROVE  ReadInv'
<1>0. scn.stream \in Seq(STRING) /\ IsUncut(scn, Uncut(scn)) /\ Len(scn.stream) \in Nat
      /\ ptr \in Nat /\ end \in Nat /\ ptr <= end /\ end <= Len(scn.stream)
  BY UncutHere
<1>t. Here \in UncutType /\ htrd \in HtrdType /\ peeking \in BOOLEAN
  BY HereType
<1>1. /\ pc = "header" /\ ~ HasNull /\ Crlf[end] < 4
      /\ htrd' = [htrd EXCEPT !.crlf = Crlf[end], !.raw = htrd.raw \o Octets(req, end)]
      /\ ptr' = end /\ scn' = scn /\ req' = req /\ end' = end /\ pc' = "feedme_more"
      /\ peeking' = peeking /\ seen' = seen
  BY DEF ReadPartOfHead, Goto
<1>2. ptr' >= ptr
  BY ONLY <1>0, <1>1
<1>e. EmptyLine = end /\ Crlf[end] \in 0..4 /\ \A j \in ptr..end : j < EmptyLine => Crlf[j] \in 0..3
  BY <1>1, EmptyLineDef
<1>3. ASSUME Good(Here, pc, htrd, scn.stream, ptr, req, end, peeking, seen.messages)
      PROVE  ReadInv'
  <2>1. InStep(Here, htrd, scn.stream, ptr) /\ Here.mode \in {"head", "none"} /\ req = ptr /\ ptr < end
    BY <1>1, <1>3, InMessage DEF InHead
  <2>2. CASE Here.mode = "none"
    <3>1. Uncut(scn)[end].mode = "any"
      BY ONLY <1>0, <2>1, <2>2, BehindNone DEF Here
    <3>2. end <= ptr'
      BY ONLY <1>0, <1>1
    <3> QED
      BY <1>0, <1>1, <3>1, <3>2, AnyLater
  <2>3. CASE Here.mode = "head"
    <3>1. /\ htrd.need = 0 /\ htrd.phase = "DONE" /\ ~ htrd.until_close /\ htrd.tra = <<>>
          /\ Here.from <= ptr /\ htrd.raw = SubSeq(scn.stream, Here.from + 1, ptr)
          /\ htrd.crlf = Here.crlf
      BY <2>1, <2>3 DEF InStep, InHead, AtHead
    <3> DEFINE v == Uncut(scn)[end]
    <3>2. /\ v.mode = "head" /\ v.from = Here.from /\ v.crlf = Crlf[end] /\ v.heads = Here.heads
      <4>1. \A k \in ptr..end : Crlf[k] \in 0..3
        <5>1. Crlf[end] \in 0..3
          BY ONLY <1>1, <1>e
        <5>2. \A k \in ptr..end : k = end \/ k < EmptyLine
          BY ONLY <1>0, <1>e
        <5> QED
          BY ONLY <1>e, <5>1, <5>2
      <4>2. \A k \in (ptr + 1)..end : scn.stream[k] # "NUL"
        BY <1>1, <1>e, HasNullDef
      <4>3. end \in ptr..end
        BY ONLY <1>0
      <4> QED
        BY <1>0, <2>3, <3>1, <4>1, <4>2, <4>3, LinesHere
    <3> HIDE DEF v
    <3>3. htrd.raw \o Octets(req, end) = SubSeq(scn.stream, Here.from + 1, end)
      <4>1. Here.from \in Nat
        BY <1>t, UncutFields
      <4>2. SubSeq(scn.stream, Here.from + 1, ptr) \o SubSeq(scn.stream, ptr + 1, end)
            = SubSeq(scn.stream, Here.from + 1, end)
        BY ONLY <1>0, <3>1, <4>1, Pieces
      <4> QED
        BY ONLY <2>1, <3>1, <4>2 DEF Octets
    <3>4. /\ htrd'.need = htrd.need /\ htrd'.phase = htrd.phase /\ htrd'.until_close = htrd.until_close
          /\ htrd'.tra = htrd.tra /\ htrd'.raw = htrd.raw \o Octets(req, end) /\ htrd'.crlf = Crlf[end]
          /\ htrd'.suspended = htrd.suspended /\ htrd'.dummified = htrd.dummified
      BY ONLY <1>1, <1>t DEF HtrdType
    <3>5. v.from <= end
      <4>1. Here.from \in Nat
        BY <1>t, UncutFields
      <4> QED
        BY ONLY <1>0, <3>1, <3>2, <4>1
    <3>6. InStep(v, htrd', scn.stream, end)
      BY ONLY <3>1, <3>2, <3>3, <3>4, <3>5 DEF InStep, InHead, AtHead
    <3>7. Place(v, "feedme_more", htrd', scn.stream, end, req, end)
      BY ONLY <3>6 DEF Place
    <3>8. Told(Here, "header", peeking, seen.messages) /\ ~ Exempt(htrd)
          /\ (htrd.suspended => Len(seen.messages) > 0)
      BY <1>1, <1>3 DEF Good
    <3>9. Told(v, "feedme_more", peeking, seen.messages)
      BY ONLY <2>3, <3>2, <3>8 DEF Told, InHead
    <3>10. Good(Uncut(scn)[ptr'], pc', htrd', scn.stream, ptr', req', end', peeking', seen.messages')
      BY ONLY <1>1, <3>4, <3>7, <3>8, <3>9 DEF Good, Exempt, v
    <3> QED
      BY <1>1, <3>10, EndsWell
  <2> QED
    BY <2>1, <2>2, <2>3
<1> QED
  BY <1>1, <1>2, <1>3, Reading

(* A head has been read, and is to be peeked at.                           *)
LEMMA ToldHead ==
  ASSUME NEW u, NEW pk, NEW ms, Told(u, "header", pk, ms), u.mode = "head", u.heads \in Nat,
         Len(ms) \in Nat, NEW v, v.heads = u.heads + 1, NEW l, NEW t, t = TRUE,
         \/ v.mode \notin InHead /\ l \notin {"idle", "header", "poke", "clear", "peek"}
         \/ l = "complete"
  PROVE  Told(v, l, t, ms)
<1>1. ~ pk /\ Len(ms) + 0 = u.heads
  BY DEF Told
<1>2. \A i \in 1..Len(ms) : ms[i].poked = 1
  BY DEF Told, InHead
<1>3. v.heads > 0 /\ Len(ms) + 1 = v.heads /\ \A i \in 1..Len(ms) : i < v.heads
  BY ONLY <1>1, u.heads \in Nat, Len(ms) \in Nat, v.heads = u.heads + 1
<1> QED
  BY <1>2, <1>3 DEF Told

HeadPlace(s, w, p, h, v) ==
  /\ h.bad => v.mode = "refused"
  /\ ~ h.bad => v.heads = w.heads + 1
  /\ ~ h.bad /\ Framing(s.option, h) = "chunked" => v.mode = "LEN" /\ v.len = 0 /\ v.count = 0
  /\ ~ h.bad /\ Framing(s.option, h) = "length" /\ h.length = 0 =>
       v.mode = "head" /\ v.from = p /\ v.crlf = 0
  /\ ~ h.bad /\ Framing(s.option, h) = "length" /\ h.length # 0 =>
       v.mode = "data" /\ v.need = h.length /\ ~ v.chunk
  /\ ~ h.bad /\ Framing(s.option, h) = "close" => v.mode = "close"
  /\ ~ h.bad /\ Framing(s.option, h) = "none" => v.mode = "none"

(* The place behind a head, by its framing.                                *)
LEMMA HeadOfFields ==
  ASSUME NEW s, NEW w \in UncutType, NEW p, NEW h, h \in HeadType,
         h = parse_initial_line_and_headers(s.option, SubSeq(s.stream, w.from + 1, p)),
         NEW v, v = HeadOf(s, w, p)
  PROVE  HeadPlace(s, w, p, h, v)
<1> DEFINE x == [w EXCEPT !.heads = @ + 1]
<1>1. Framing(s.option, h) \in {"chunked", "length", "close", "none"} /\ h.bad \in BOOLEAN
  BY DEF Framing, HeadType
<1>2. HeadOf(s, w, p) =
        CASE h.bad -> Refuse(w)
          [] ~ h.bad /\ Framing(s.option, h) = "chunked" -> StartOfChunk(x)
          [] ~ h.bad /\ Framing(s.option, h) = "length" ->
               IF h.length = 0 THEN EndOfMessage(x, p)
               ELSE [x EXCEPT !.mode = "data", !.need = h.length, !.chunk = FALSE]
          [] ~ h.bad /\ Framing(s.option, h) = "close" -> [x EXCEPT !.mode = "close"]
          [] ~ h.bad /\ Framing(s.option, h) = "none" -> [x EXCEPT !.mode = "none"]
  BY Zenon DEF HeadOf
<1>3. x \in UncutType /\ x.heads = w.heads + 1
  <2>1. x \in UncutType
    BY UncutUpdates
  <2>2. x.heads = w.heads + 1
    BY DEF UncutType
  <2> QED
    BY <2>1, <2>2
<1> HIDE DEF x
<1>4. CASE h.bad
  <2>1. v = Refuse(w)
    BY <1>2, <1>4
  <2>2. v.mode = "refused"
    BY ONLY <2>1, w \in UncutType DEF Refuse, UncutType
  <2> QED
    BY ONLY <1>4, <2>2 DEF HeadPlace
<1>5. CASE ~ h.bad /\ Framing(s.option, h) = "chunked"
  <2>1. v = StartOfChunk(x)
    BY ONLY <1>2, <1>5, v = HeadOf(s, w, p)
  <2>2. v.mode = "LEN" /\ v.len = 0 /\ v.count = 0 /\ v.heads = x.heads
    BY ONLY <1>3, <2>1 DEF StartOfChunk, UncutType
  <2> QED
    BY ONLY <1>3, <1>5, <2>2 DEF HeadPlace
<1>6. CASE ~ h.bad /\ Framing(s.option, h) = "length"
  <2>1. v = IF h.length = 0 THEN EndOfMessage(x, p)
            ELSE [x EXCEPT !.mode = "data", !.need = h.length, !.chunk = FALSE]
    BY ONLY <1>2, <1>6, v = HeadOf(s, w, p)
  <2>2. h.length = 0 => v.mode = "head" /\ v.from = p /\ v.crlf = 0 /\ v.heads = x.heads
    BY ONLY <1>3, <2>1 DEF EndOfMessage, UncutType
  <2>3. h.length # 0 => v.mode = "data" /\ v.need = h.length /\ ~ v.chunk /\ v.heads = x.heads
    BY ONLY <1>3, <2>1 DEF UncutType
  <2> QED
    BY ONLY <1>3, <1>6, <2>2, <2>3 DEF HeadPlace
<1>7. CASE ~ h.bad /\ Framing(s.option, h) = "close"
  <2>1. v = [x EXCEPT !.mode = "close"]
    BY ONLY <1>2, <1>7, v = HeadOf(s, w, p)
  <2>2. v.mode = "close" /\ v.heads = x.heads
    BY ONLY <1>3, <2>1 DEF UncutType
  <2> QED
    BY ONLY <1>3, <1>7, <2>2 DEF HeadPlace
<1>8. CASE ~ h.bad /\ Framing(s.option, h) = "none"
  <2>1. v = [x EXCEPT !.mode = "none"]
    BY ONLY <1>2, <1>8, v = HeadOf(s, w, p)
  <2>2. v.mode = "none" /\ v.heads = x.heads
    BY ONLY <1>3, <2>1 DEF UncutType
  <2> QED
    BY ONLY <1>3, <1>8, <2>2 DEF HeadPlace
<1> QED
  BY ONLY <1>1, <1>4, <1>5, <1>6, <1>7, <1>8

(* A head is read.                                                         *)
LEMMA ReadHeadReads ==
  ASSUME TypeInv, TypeInv', ReadInv, scn.option # "peekonly", ReadHead
  PROVE  ReadInv'
<1>0. scn.stream \in Seq(STRING) /\ IsUncut(scn, Uncut(scn)) /\ Len(scn.stream) \in Nat
      /\ ptr \in Nat /\ end \in Nat /\ ptr <= end /\ end <= Len(scn.stream)
  BY UncutHere
<1>t. Here \in UncutType /\ Here.heads \in Nat /\ Latest \in Nat /\ htrd \in HtrdType
      /\ peeking \in BOOLEAN
  BY HereType
<1> DEFINE x == [htrd EXCEPT !.crlf = 0, !.raw = Raw]
           h == parse_initial_line_and_headers(scn.option, Raw)
           fr == Framing(scn.option, h)
<1>1. /\ pc = "header" /\ ~ HasNull /\ Crlf[end] = 4
      /\ scn' = scn /\ req' = req /\ end' = end /\ seen' = seen
      /\ \/ h.bad /\ ptr' = EmptyLine /\ pc' = "failed"
         \/ /\ ~ h.bad
            /\ ptr' = (IF fr = "none" THEN end ELSE EmptyLine)
            /\ peeking' = TRUE
            /\ htrd' = CASE fr = "chunked" -> NewChunk(x)
                         [] fr = "length" -> [x EXCEPT !.need = h.length]
                         [] fr = "close" -> [x EXCEPT !.need = SIZE_RANGE - 1, !.until_close = TRUE]
                         [] fr = "none" -> x
            /\ pc' = CASE fr = "chunked" -> "dechunk_resume"
                       [] fr # "chunked" /\ htrd'.need > 0 -> "content_resume"
                       [] OTHER -> "complete"
  BY Zenon DEF ReadHead, Goto
<1>e. /\ EmptyLine \in ptr..end /\ EmptyLine \in Nat /\ Crlf[EmptyLine] = 4 /\ ptr < EmptyLine
  BY <1>1, EmptyLineDef
<1>i. EmptyLine \in (ptr + 1)..EmptyLine /\ EmptyLine <= end /\ ptr <= EmptyLine
      /\ EmptyLine <= Len(scn.stream)
  BY ONLY <1>0, <1>e
<1>2. ptr' >= ptr /\ EmptyLine <= ptr'
  BY ONLY <1>0, <1>1, <1>i, <1>e
<1>3. fr \in {"chunked", "length", "close", "none"}
  BY DEF Framing
<1>4. Raw \in Seq(STRING)
  BY <1>e, RawType DEF Raw
<1>5. h \in HeadType
  BY <1>4, ParseType
<1> HIDE DEF h, fr
<1>6. h.length \in Nat /\ h.bad \in BOOLEAN
  BY <1>5 DEF HeadType
<1>7. ASSUME Good(Here, pc, htrd, scn.stream, ptr, req, end, peeking, seen.messages)
      PROVE  ReadInv'
  <2>1. InStep(Here, htrd, scn.stream, ptr) /\ Here.mode \in {"head", "none"} /\ req = ptr /\ ptr < end
    BY <1>1, <1>7, InMessage DEF InHead
  <2> DEFINE v == Uncut(scn)[EmptyLine]
  <2>2. CASE Here.mode = "none"
    <3>1. v.mode = "any"
      BY ONLY <1>0, <1>e, <1>i, <2>2, BehindNone DEF Here
    <3> QED
      BY <1>1, <1>2, <1>e, <3>1, AnyLater
  <2>3. CASE Here.mode = "head"
    <3>1. /\ htrd.need = 0 /\ htrd.phase = "DONE" /\ ~ htrd.until_close /\ htrd.tra = <<>>
          /\ Here.from <= ptr /\ htrd.raw = SubSeq(scn.stream, Here.from + 1, ptr)
          /\ htrd.crlf = Here.crlf
      BY <2>1, <2>3 DEF InStep, InHead, AtHead
    <3>2. \A j \in (ptr + 1)..EmptyLine : scn.stream[j] # "NUL"
      BY <1>1, HasNullDef
    <3>3. PICK w : /\ w \in UncutType /\ w.mode = "head" /\ w.from = Here.from
                   /\ w.heads = Here.heads
                   /\ Crlf[EmptyLine] = NextCrlf(w.crlf, scn.stream[EmptyLine])
                   /\ scn.stream[EmptyLine] # "EOF"
                   /\ v = UncutStep(scn, w, EmptyLine)
      BY <1>i, <2>3, <3>1, <3>2, LineStep
    <3> HIDE DEF v
    <3>4. v = HeadOf(scn, w, EmptyLine)
      <4>1. v = UncutHead(scn, w, EmptyLine)
        BY ONLY <3>3 DEF UncutStep
      <4>2. scn.stream[EmptyLine] # "NUL"
        BY ONLY <1>i, <3>2
      <4> QED
        BY ONLY <1>e, <3>3, <4>1, <4>2 DEF UncutHead
    <3>5. Raw = SubSeq(scn.stream, w.from + 1, EmptyLine)
      <4>1. Here.from \in Nat
        BY <1>t, UncutFields
      <4>2. SubSeq(scn.stream, Here.from + 1, ptr) \o SubSeq(scn.stream, ptr + 1, EmptyLine)
            = SubSeq(scn.stream, Here.from + 1, EmptyLine)
        <5>1. PICK b \in Nat : b = Here.from
          BY <4>1
        <5>2. PICK e \in Nat : e = EmptyLine
          BY <1>e
        <5>3. b <= ptr /\ ptr <= e /\ e <= Len(scn.stream)
          BY <1>i, <3>1, <5>1, <5>2
        <5>4. SubSeq(scn.stream, b + 1, ptr) \o SubSeq(scn.stream, ptr + 1, e)
              = SubSeq(scn.stream, b + 1, e)
          BY ONLY <1>0, <5>3, b \in Nat, e \in Nat, Pieces
        <5> QED
          BY ONLY <5>1, <5>2, <5>4
      <4> QED
        BY ONLY <2>1, <3>1, <3>3, <4>2 DEF Octets, Raw
    <3>6. HeadPlace(scn, w, EmptyLine, h, v)
      <4>1. h = parse_initial_line_and_headers(scn.option, SubSeq(scn.stream, w.from + 1, EmptyLine))
        BY ONLY <3>5 DEF h
      <4> QED
        BY ONLY <1>5, <3>3, <3>4, <4>1, HeadOfFields
    <3>7. CASE h.bad
      <4>1. v.mode = "refused"
        BY ONLY <3>6, <3>7 DEF HeadPlace
      <4>2. EmptyLine <= end' /\ pc' = "failed"
        BY <1>1, <1>i, <3>7
      <4> QED
        BY <1>1, <1>e, <4>1, <4>2, RefusedFails DEF v
    <3>8. CASE ~ h.bad
      <4>1. /\ ptr' = (IF fr = "none" THEN end ELSE EmptyLine) /\ peeking' = TRUE
            /\ htrd' = CASE fr = "chunked" -> NewChunk(x)
                         [] fr = "length" -> [x EXCEPT !.need = h.length]
                         [] fr = "close" -> [x EXCEPT !.need = SIZE_RANGE - 1, !.until_close = TRUE]
                         [] fr = "none" -> x
            /\ pc' = CASE fr = "chunked" -> "dechunk_resume"
                       [] fr # "chunked" /\ htrd'.need > 0 -> "content_resume"
                       [] OTHER -> "complete"
        BY <1>1, <3>8
      <4>x. /\ x \in HtrdType /\ x.need = 0 /\ x.phase = "DONE" /\ ~ x.until_close /\ x.tra = <<>>
            /\ x.suspended = htrd.suspended /\ x.dummified = htrd.dummified
        <5>1. 0 \in 0..3
          OBVIOUS
        <5>2. x \in HtrdType
          BY ONLY <1>4, <1>t, <5>1, HtrdUpdates
        <5> QED
          BY ONLY <1>t, <3>1, <5>2 DEF HtrdType
      <4> HIDE DEF x
      <4>2. v.heads = Here.heads + 1
        BY ONLY <3>3, <3>6, <3>8 DEF HeadPlace
      <4>3. Told(Here, "header", peeking, seen.messages) /\ ~ Exempt(htrd)
            /\ (htrd.suspended => Len(seen.messages) > 0)
        BY <1>1, <1>7 DEF Good
      <4>4. Len(seen.messages) \in Nat
        BY <1>t DEF Latest
      <4>5. ASSUME htrd'.suspended = htrd.suspended, htrd'.dummified = htrd.dummified,
                   ptr' = EmptyLine, Place(v, pc', htrd', scn.stream, EmptyLine, req, end),
                   \/ v.mode \notin InHead /\ pc' \in {"dechunk_resume", "content_resume"}
                   \/ pc' = "complete"
            PROVE  ReadInv'
        <5>1. PICK l : l = pc'
          OBVIOUS
        <5>2. PICK t : t = TRUE
          OBVIOUS
        <5>3. Told(v, l, t, seen.messages)
          <6>1. \/ v.mode \notin InHead /\ l \notin {"idle", "header", "poke", "clear", "peek"}
                \/ l = "complete"
            BY ONLY <4>5, <5>1
          <6> QED
            BY ONLY <1>t, <2>3, <4>2, <4>3, <4>4, <5>2, <6>1, ToldHead
        <5>4. Told(v, pc', peeking', seen'.messages)
          BY ONLY <1>1, <4>1, <5>1, <5>2, <5>3
        <5>5. Good(Uncut(scn)[ptr'], pc', htrd', scn.stream, ptr', req', end', peeking', seen.messages')
          BY ONLY <1>1, <4>3, <4>5, <5>4 DEF Good, Exempt, v
        <5> QED
          BY <1>1, <4>5, <5>5, EndsWell
      <4>6. CASE fr = "chunked"
        <5>1. htrd' = NewChunk(x) /\ pc' = "dechunk_resume" /\ ptr' = EmptyLine
          BY ONLY <4>1, <4>6
        <5>2. /\ htrd'.phase = "LEN" /\ htrd'.len = 0 /\ htrd'.count = 0 /\ htrd'.need = 0
              /\ ~ htrd'.until_close /\ htrd'.tra = <<>>
              /\ htrd'.suspended = htrd.suspended /\ htrd'.dummified = htrd.dummified
          BY ONLY <4>x, <5>1 DEF HtrdType, NewChunk
        <5>3. v.mode = "LEN" /\ v.len = 0 /\ v.count = 0
          BY ONLY <3>6, <3>8, <4>6 DEF HeadPlace, fr
        <5>4. InStep(v, htrd', scn.stream, EmptyLine)
          BY ONLY <5>2, <5>3 DEF InStep, AtLen
        <5>5. Place(v, pc', htrd', scn.stream, EmptyLine, req, end) /\ v.mode \notin InHead
          BY ONLY <5>1, <5>3, <5>4 DEF Place, InHead
        <5> QED
          BY ONLY <4>5, <5>1, <5>2, <5>5
      <4>7. CASE fr = "length"
        <5>1. htrd' = [x EXCEPT !.need = h.length] /\ ptr' = EmptyLine
          BY ONLY <4>1, <4>7
        <5>2. /\ htrd'.phase = "DONE" /\ htrd'.need = h.length
              /\ ~ htrd'.until_close /\ htrd'.tra = <<>>
              /\ htrd'.suspended = htrd.suspended /\ htrd'.dummified = htrd.dummified
          BY ONLY <4>x, <5>1 DEF HtrdType
        <5>3. CASE h.length = 0
          <6>1. pc' = "complete"
            BY ONLY <4>1, <4>7, <5>2, <5>3
          <6>2. v.mode = "head" /\ v.from = EmptyLine /\ v.crlf = 0
            BY ONLY <3>6, <3>8, <4>7, <5>3 DEF HeadPlace, fr
          <6>3. v.heads > 0
            BY ONLY <1>t, <4>2
          <6>4. Place(v, pc', htrd', scn.stream, EmptyLine, req, end)
            BY ONLY <6>1, <6>2, <6>3 DEF Place, IsOver
          <6> QED
            BY ONLY <4>5, <5>1, <5>2, <6>1, <6>4
        <5>4. CASE h.length # 0
          <6>0. htrd'.need > 0
            BY ONLY <1>6, <5>2, <5>4
          <6>1. pc' = "content_resume"
            BY ONLY <4>1, <4>7, <6>0
          <6>2. v.mode = "data" /\ v.need = h.length /\ ~ v.chunk
            BY ONLY <3>6, <3>8, <4>7, <5>4 DEF HeadPlace, fr
          <6>3. InStep(v, htrd', scn.stream, EmptyLine)
            BY ONLY <5>2, <6>0, <6>2 DEF InStep, AtData
          <6>4. Place(v, pc', htrd', scn.stream, EmptyLine, req, end) /\ v.mode \notin InHead
            BY ONLY <6>1, <6>2, <6>3 DEF Place, InHead
          <6> QED
            BY ONLY <4>5, <5>1, <5>2, <6>1, <6>4
        <5> QED
          BY <5>3, <5>4
      <4>8. CASE fr = "close"
        <5>1. htrd' = [x EXCEPT !.need = SIZE_RANGE - 1, !.until_close = TRUE] /\ ptr' = EmptyLine
          BY ONLY <4>1, <4>8
        <5>2. /\ htrd'.phase = "DONE" /\ htrd'.need = SIZE_RANGE - 1 /\ htrd'.until_close
              /\ htrd'.suspended = htrd.suspended /\ htrd'.dummified = htrd.dummified
          BY ONLY <4>x, <5>1 DEF HtrdType
        <5>3. htrd'.need > 0
          BY ONLY <5>2, HtrdAssumption
        <5>4. pc' = "content_resume"
          BY ONLY <4>1, <4>8, <5>3
        <5>5. v.mode = "close"
          BY ONLY <3>6, <3>8, <4>8 DEF HeadPlace, fr
        <5>6. InStep(v, htrd', scn.stream, EmptyLine)
          BY ONLY <5>2, <5>5 DEF InStep, AtClose
        <5>7. Place(v, pc', htrd', scn.stream, EmptyLine, req, end) /\ v.mode \notin InHead
          BY ONLY <5>4, <5>5, <5>6 DEF Place, InHead
        <5> QED
          BY ONLY <4>5, <5>1, <5>2, <5>4, <5>7
      <4>9. CASE fr = "none"
        <5>1. htrd' = x /\ ptr' = end
          BY ONLY <4>1, <4>9
        <5>2. v.mode = "none"
          BY ONLY <3>6, <3>8, <4>9 DEF HeadPlace, fr
        <5>3. CASE EmptyLine < end
          <6>1. Uncut(scn)[end].mode = "any"
            BY ONLY <1>0, <1>e, <5>2, <5>3, BehindNone DEF v
          <6>2. end <= ptr'
            BY ONLY <1>0, <5>1
          <6> QED
            BY <1>0, <1>1, <6>1, <6>2, AnyLater
        <5>4. CASE EmptyLine = end
          <6>1. /\ htrd'.need = 0
                /\ htrd'.suspended = htrd.suspended /\ htrd'.dummified = htrd.dummified
            BY ONLY <4>x, <5>1 DEF HtrdType
          <6>2. pc' = "complete"
            BY ONLY <4>1, <4>9, <6>1
          <6>3. v.heads > 0
            BY ONLY <1>t, <4>2
          <6>4. Place(v, pc', htrd', scn.stream, EmptyLine, req, end)
            BY ONLY <5>2, <6>2, <6>3 DEF Place, IsOver
          <6> QED
            BY ONLY <4>5, <5>1, <5>4, <6>1, <6>2, <6>4
        <5> QED
          BY ONLY <1>0, <1>e, <1>i, <5>3, <5>4
      <4> QED
        BY ONLY <1>3, <4>6, <4>7, <4>8, <4>9
    <3> QED
      BY ONLY <1>6, <3>7, <3>8
  <2> QED
    BY ONLY <2>1, <2>2, <2>3
<1> QED
  BY <1>1, <1>2, <1>7, Reading

(* Trailers are read.                                                      *)
LEMMA GetTrailersReads ==
  ASSUME TypeInv, TypeInv', ReadInv, scn.option # "peekonly", GetTrailers
  PROVE  ReadInv'
<1>0. scn.stream \in Seq(STRING) /\ IsUncut(scn, Uncut(scn)) /\ Len(scn.stream) \in Nat
      /\ ptr \in Nat /\ end \in Nat /\ ptr <= end /\ end <= Len(scn.stream)
  BY UncutHere
<1>t. Here \in UncutType /\ htrd \in HtrdType /\ peeking \in BOOLEAN
  BY HereType
<1> DEFINE tra == htrd.tra \o Octets(ptr, EmptyLine)
<1>1. /\ pc = "dechunk_get_trailers" /\ ~ HasNull
      /\ ptr' = EmptyLine /\ scn' = scn /\ req' = req /\ end' = end
      /\ peeking' = peeking /\ seen' = seen
      /\ \/ /\ Crlf[end] = 4
            /\ htrd' = [htrd EXCEPT !.crlf = 0, !.phase = "DONE", !.tra = tra]
            /\ pc' = IF AllFields(htrd'.tra) THEN "complete" ELSE "failed"
         \/ /\ Crlf[end] < 4
            /\ htrd' = [htrd EXCEPT !.crlf = Crlf[end], !.tra = htrd.tra \o Octets(ptr, end)]
            /\ pc' = "feedme_more"
  BY Zenon DEF GetTrailers, Goto
<1>e. /\ EmptyLine \in ptr..end /\ EmptyLine \in Nat
      /\ Crlf[end] < 4 => EmptyLine = end
      /\ Crlf[end] = 4 => Crlf[EmptyLine] = 4 /\ ptr < EmptyLine
      /\ Crlf[end] \in 0..4 /\ \A j \in ptr..end : j < EmptyLine => Crlf[j] \in 0..3
  BY EmptyLineDef
<1>i. EmptyLine <= end /\ ptr <= EmptyLine /\ EmptyLine <= Len(scn.stream)
      /\ (ptr < EmptyLine => EmptyLine \in (ptr + 1)..EmptyLine)
  BY ONLY <1>0, <1>e
<1>2. ptr' >= ptr
  BY ONLY <1>0, <1>1, <1>e, <1>i
<1>3. SamePokes(seen.messages, seen'.messages)
  BY <1>1 DEF SamePokes
<1>4. ASSUME Good(Here, pc, htrd, scn.stream, ptr, req, end, peeking, seen.messages)
      PROVE  ReadInv'
  <2>1. InStep(Here, htrd, scn.stream, ptr) /\ Here.mode = "TRAILERS"
    BY <1>1, <1>4, InMessage
  <2>2. Here.mode \notin InHead
    BY <2>1 DEF InHead
  <2>3. /\ htrd.need = 0 /\ htrd.phase = "TRAILERS" /\ ~ htrd.until_close
        /\ Here.from <= ptr /\ htrd.crlf = Here.crlf
        /\ htrd.tra = SubSeq(scn.stream, Here.from + 1, ptr)
    BY <2>1 DEF InStep, InHead, AtTrailers
  <2>f. Here.from \in Nat
    BY <1>t, UncutFields
  <2>4. \A j \in (ptr + 1)..EmptyLine : scn.stream[j] # "NUL"
    BY <1>1, HasNullDef
  <2>5. tra = SubSeq(scn.stream, Here.from + 1, EmptyLine)
    <3>1. PICK b \in Nat : b = Here.from
      BY <2>f
    <3>2. PICK e \in Nat : e = EmptyLine
      BY <1>e
    <3>3. b <= ptr /\ ptr <= e /\ e <= Len(scn.stream)
      BY <1>i, <2>3, <3>1, <3>2
    <3>4. SubSeq(scn.stream, b + 1, ptr) \o SubSeq(scn.stream, ptr + 1, e)
          = SubSeq(scn.stream, b + 1, e)
      BY ONLY <1>0, <3>3, b \in Nat, e \in Nat, Pieces
    <3> QED
      BY ONLY <2>3, <3>1, <3>2, <3>4 DEF Octets
  <2> DEFINE v == Uncut(scn)[EmptyLine]
  <2>6. CASE Crlf[end] < 4
    <3>0. EmptyLine = end /\ pc' = "feedme_more"
          /\ htrd' = [htrd EXCEPT !.crlf = Crlf[end], !.tra = tra]
      <4>1. EmptyLine = end /\ Crlf[end] # 4
        BY ONLY <1>e, <2>6
      <4>2. pc' = "feedme_more"
            /\ htrd' = [htrd EXCEPT !.crlf = Crlf[end], !.tra = htrd.tra \o Octets(ptr, end)]
        BY ONLY <1>1, <4>1
      <4>3. htrd.tra \o Octets(ptr, end) = tra
        BY ONLY <4>1
      <4> HIDE DEF tra
      <4> QED
        BY ONLY <4>1, <4>2, <4>3
    <3>1. v.mode = "TRAILERS" /\ v.from = Here.from /\ v.crlf = Crlf[end] /\ v.heads = Here.heads
      <4>1. \A k \in ptr..end : Crlf[k] \in 0..3
        <5>1. Crlf[end] \in 0..3
          BY ONLY <1>e, <2>6
        <5>2. \A k \in ptr..end : k = end \/ k < EmptyLine
          BY ONLY <1>0, <3>0
        <5> QED
          BY ONLY <1>e, <5>1, <5>2
      <4>2. \A k \in (ptr + 1)..end : scn.stream[k] # "NUL"
        BY <2>4, <3>0
      <4>3. end \in ptr..end
        BY ONLY <1>0
      <4> QED
        BY <1>0, <2>1, <2>3, <3>0, <4>1, <4>2, <4>3, LinesHere
    <3> HIDE DEF v, tra
    <3>2. /\ htrd'.need = htrd.need /\ htrd'.phase = htrd.phase /\ htrd'.until_close = htrd.until_close
          /\ htrd'.tra = tra /\ htrd'.crlf = Crlf[end]
          /\ htrd'.suspended = htrd.suspended /\ htrd'.dummified = htrd.dummified
      BY ONLY <1>t, <3>0 DEF HtrdType
    <3>3. v.from <= EmptyLine
      BY ONLY <1>0, <1>e, <1>i, <2>3, <2>f, <3>1
    <3>4. InStep(v, htrd', scn.stream, EmptyLine)
      BY ONLY <2>3, <2>5, <3>1, <3>2, <3>3 DEF InStep, AtTrailers
    <3>5. Place(v, pc', htrd', scn.stream, ptr', req, end)
      BY ONLY <1>1, <3>0, <3>4 DEF Place
    <3>6. v = Uncut(scn)[ptr'] /\ v.mode \notin InHead
      BY <1>1, <3>1 DEF v, InHead
    <3> QED
      BY <1>1, <1>3, <1>4, <2>2, <3>0, <3>1, <3>2, <3>5, <3>6, GoesOn
  <2>7. CASE Crlf[end] = 4
    <3>0. Crlf[EmptyLine] = 4 /\ EmptyLine \in (ptr + 1)..EmptyLine
          /\ htrd' = [htrd EXCEPT !.crlf = 0, !.phase = "DONE", !.tra = tra]
          /\ pc' = IF AllFields(htrd'.tra) THEN "complete" ELSE "failed"
      BY <1>1, <1>e, <1>i, <2>7
    <3>1. PICK w : /\ w \in UncutType /\ w.mode = "TRAILERS" /\ w.from = Here.from
                   /\ w.heads = Here.heads
                   /\ Crlf[EmptyLine] = NextCrlf(w.crlf, scn.stream[EmptyLine])
                   /\ scn.stream[EmptyLine] # "EOF"
                   /\ v = UncutStep(scn, w, EmptyLine)
      BY <2>1, <2>3, <2>4, <3>0, LineStep
    <3> HIDE DEF v, tra
    <3>2. v = UncutTrailers(scn, w, EmptyLine)
      BY ONLY <3>1 DEF UncutStep
    <3>3. scn.stream[EmptyLine] # "NUL"
      BY ONLY <2>4, <3>0
    <3>4. v = IF AllFields(tra) THEN EndOfMessage(w, EmptyLine) ELSE Refuse(w)
      BY ONLY <2>5, <3>0, <3>1, <3>2, <3>3 DEF UncutTrailers
    <3>5. /\ htrd'.tra = tra
          /\ htrd'.suspended = htrd.suspended /\ htrd'.dummified = htrd.dummified
      BY ONLY <1>t, <3>0 DEF HtrdType
    <3>6. CASE AllFields(tra)
      <4>1. pc' = "complete" /\ v = EndOfMessage(w, EmptyLine)
        BY ONLY <3>0, <3>4, <3>5, <3>6
      <4>2. v.mode = "head" /\ v.from = EmptyLine /\ v.crlf = 0 /\ v.heads = Here.heads
        BY ONLY <3>1, <4>1 DEF EndOfMessage, UncutType
      <4>3. Here.heads > 0
        BY <1>4, <2>2 DEF Good, Told
      <4>4. Place(v, pc', htrd', scn.stream, ptr', req, end)
        BY ONLY <1>1, <4>1, <4>2, <4>3 DEF Place, IsOver
      <4>5. v = Uncut(scn)[ptr']
        BY <1>1 DEF v
      <4> QED
        BY <1>1, <1>3, <1>4, <2>2, <3>5, <4>1, <4>2, <4>4, <4>5, GoesOn
    <3>7. CASE ~ AllFields(tra)
      <4>1. pc' = "failed" /\ v = Refuse(w)
        BY ONLY <3>0, <3>4, <3>5, <3>7
      <4>2. v.mode = "refused"
        BY ONLY <3>1, <4>1 DEF Refuse, UncutType
      <4>3. EmptyLine <= end'
        BY <1>1, <1>i
      <4> QED
        BY <1>1, <1>e, <4>1, <4>2, <4>3, RefusedFails DEF v
    <3> QED
      BY ONLY <3>6, <3>7
  <2> QED
    BY ONLY <1>e, <2>6, <2>7
<1> QED
  BY <1>1, <1>2, <1>4, Reading

(* Spaces behind the digits of a length.                                   *)
LEMMA SpaceBehind ==
  ASSUME NEW s, s.stream \in Seq(STRING), NEW u, IsUncut(s, u),
         NEW p \in Nat, NEW q \in Nat, p <= q, q <= Len(s.stream),
         \A k \in (p + 1)..q : s.stream[k] \in is_space_octet,
         u[p].mode = "LEN", u[p].count # 0
  PROVE  /\ u[q].mode = IF p = q THEN "LEN" ELSE "LENSP"
         /\ u[q].len = u[p].len /\ u[q].count = u[p].count /\ u[q].heads = u[p].heads
<1>l. Len(s.stream) \in Nat
  OBVIOUS
<1>1. CASE p = q
  BY <1>1
<1>2. CASE p # q
  <2>0. p + 1 <= q /\ p + 1 \in Nat /\ p + 1 <= Len(s.stream) /\ p + 1 \in (p + 1)..q
        /\ p \in 0..Len(s.stream)
    BY ONLY <1>2, <1>l, p \in Nat, q \in Nat, p <= q, q <= Len(s.stream)
  <2>1. u[p] \in UncutType
    BY <2>0 DEF IsUncut
  <2>2. u[p + 1] = UncutStep(s, u[p], p + 1)
    BY ONLY <2>0, OneStep, s.stream \in Seq(STRING), IsUncut(s, u), p \in Nat
  <2>3. s.stream[p + 1] \in is_space_octet
    BY <2>0
  <2>4. s.stream[p + 1] \notin xdigit /\ s.stream[p + 1] \notin {"LF", "EOF"}
    BY ONLY <2>3 DEF is_space_octet, xdigit
  <2>5. u[p + 1] = UncutLen(u[p], s.stream[p + 1], p + 1)
    BY ONLY <2>2, <2>4, u[p].mode = "LEN" DEF UncutStep
  <2>6. u[p + 1] = [u[p] EXCEPT !.mode = "LENSP"]
    BY ONLY <2>3, <2>4, <2>5, u[p].count # 0 DEF UncutLen
  <2>7. u[p + 1].mode = "LENSP" /\ u[p + 1].len = u[p].len /\ u[p + 1].count = u[p].count
        /\ u[p + 1].heads = u[p].heads
    BY ONLY <2>1, <2>6 DEF UncutType
  <2>8. PICK r \in Nat : r = p + 1
    BY <2>0
  <2>9. u[q] = u[r]
    <3>1. r <= q /\ \A k \in (r + 1)..q : k \in (p + 1)..q
      BY ONLY <2>0, <2>8, p \in Nat, q \in Nat
    <3>2. \A k \in (r + 1)..q : s.stream[k] \in is_space_octet
      BY <3>1
    <3>3. u[r].mode = "LENSP"
      BY <2>7, <2>8
    <3> QED
      BY ONLY <3>1, <3>2, <3>3, SpaceRun, s.stream \in Seq(STRING), IsUncut(s, u), r \in Nat,
              q \in Nat, q <= Len(s.stream)
  <2> QED
    BY ONLY <1>2, <2>7, <2>8, <2>9
<1> QED
  BY <1>1, <1>2

AtLengthEnd(z, u, x, lst, stop) ==
  /\ z.mode \in {"LEN", "LENSP"} /\ z.len = x.len /\ z.count = x.count /\ z.heads = u.heads
  /\ z.mode = "LEN" => stop = lst

(* The place behind the characters that getchunklen() takes.               *)
LEMMA LengthPlace ==
  ASSUME TypeInv, Here.mode \in {"LEN", "LENSP"}, AtLen(Here, htrd),
         NEW first, first = IF htrd.count = 0 THEN Skip(is_space_octet, ptr) ELSE ptr,
         NEW lst, lst = Skip(xdigit, first),
         NEW stop, stop = Skip(is_space_octet, lst),
         NEW x, x = [htrd EXCEPT !.len = ChunkLen(first, lst), !.count = @ + (lst - first)],
         \A k \in (ptr + 1)..end : scn.stream[k] # "EOF"
  PROVE  \/ first + 1 <= stop /\ Uncut(scn)[first + 1].mode = "any"
         \/ AtLengthEnd(Uncut(scn)[stop], Here, x, lst, stop)
<1>0. scn.stream \in Seq(STRING) /\ IsUncut(scn, Uncut(scn)) /\ Len(scn.stream) \in Nat
      /\ ptr \in Nat /\ end \in Nat /\ ptr <= end /\ end <= Len(scn.stream)
  BY UncutHere
<1>t. Here \in UncutType /\ htrd \in HtrdType
  BY HereType
<1>h. htrd.len \in Nat /\ htrd.count \in Nat /\ htrd.len = Here.len /\ htrd.count = Here.count
  BY <1>t, HtrdUpdates DEF AtLen
<1>1. /\ first \in ptr..end /\ first \in Nat
      /\ htrd.count = 0 => /\ \A k \in (ptr + 1)..first : scn.stream[k] \in is_space_octet
                           /\ first < end => scn.stream[first + 1] \notin is_space_octet
      /\ htrd.count # 0 => first = ptr
  <2>1. CASE htrd.count = 0
    <3>1. first = Skip(is_space_octet, ptr)
      BY <2>1
    <3> QED
      BY <1>0, <2>1, <3>1, SkipDef
  <2>2. CASE htrd.count # 0
    <3>1. first = ptr
      BY <2>2
    <3> QED
      BY ONLY <1>0, <2>2, <3>1
  <2> QED
    BY <2>1, <2>2
<1>2. /\ lst \in first..end /\ lst \in Nat
      /\ \A k \in (first + 1)..lst : scn.stream[k] \in xdigit
  <2>1. first <= end
    BY ONLY <1>0, <1>1
  <2> QED
    BY <1>0, <1>1, <2>1, SkipDef
<1>3. /\ stop \in lst..end /\ stop \in Nat
      /\ \A k \in (lst + 1)..stop : scn.stream[k] \in is_space_octet
  <2>1. lst <= end
    BY ONLY <1>0, <1>2
  <2> QED
    BY <1>0, <1>2, <2>1, SkipDef
<1>o. ptr <= first /\ first <= lst /\ lst <= stop /\ stop <= end /\ first <= Len(scn.stream)
      /\ lst <= Len(scn.stream) /\ stop <= Len(scn.stream)
  BY ONLY <1>0, <1>1, <1>2, <1>3
<1>4. PICK u : u = Uncut(scn)
  OBVIOUS
<1>5. u[first] = Here
  <2>1. CASE htrd.count = 0
    <3>1. \/ u[ptr].mode = "CRLF" \/ u[ptr].mode = "LENSP" \/ (u[ptr].mode = "LEN" /\ u[ptr].count = 0)
      BY <1>4, <1>h, <2>1 DEF Here
    <3>2. u[first] = u[ptr]
      BY ONLY <1>0, <1>1, <1>4, <1>o, <2>1, <3>1, SpaceRun
    <3> QED
      BY <1>4, <3>2 DEF Here
  <2>2. CASE htrd.count # 0
    BY <1>1, <1>4, <2>2 DEF Here
  <2> QED
    BY <2>1, <2>2
<1>6. PICK f : /\ f[first] = htrd.len /\ ChunkLen(first, lst) = f[lst]
               /\ \A p \in first..lst : f[p] \in Nat
               /\ \A p \in (first + 1)..lst : f[p] = AddDigit(f[p - 1], scn.stream[p])
  BY ONLY <1>1, <1>2, <1>h, <1>o, ChunkLenDef
<1>7. x.len = f[lst] /\ x.count = htrd.count + (lst - first)
  BY <1>6, <1>t DEF HtrdType
<1>8. CASE Here.mode = "LENSP" /\ first < lst
  <2>0. first + 1 \in (first + 1)..lst /\ first + 1 \in (ptr + 1)..end /\ first + 1 <= Len(scn.stream)
        /\ first + 1 <= stop
    BY ONLY <1>0, <1>1, <1>2, <1>3, <1>8, <1>o
  <2>1. u[first + 1] = UncutStep(scn, u[first], first + 1)
    BY ONLY <1>0, <1>1, <1>4, <2>0, OneStep
  <2>2. scn.stream[first + 1] \in xdigit /\ scn.stream[first + 1] # "EOF"
    BY <1>2, <2>0
  <2>3. u[first + 1] = Undecided(Here)
    <3>1. u[first + 1] = UncutLen(Here, scn.stream[first + 1], first + 1)
      BY ONLY <1>5, <1>8, <2>1, <2>2 DEF UncutStep
    <3>2. scn.stream[first + 1] \notin is_space_octet /\ scn.stream[first + 1] # "LF"
      BY ONLY <2>2 DEF xdigit, is_space_octet
    <3> QED
      BY ONLY <1>8, <2>2, <3>1, <3>2 DEF UncutLen
  <2>4. u[first + 1].mode = "any"
    BY ONLY <1>t, <2>3 DEF Undecided, UncutType
  <2> QED
    BY <1>4, <2>0, <2>4
<1>9. CASE Here.mode = "LENSP" /\ first = lst
  <2>1. u[stop] = u[lst]
    <3>1. u[lst].mode = "LENSP"
      BY <1>5, <1>9
    <3> QED
      BY ONLY <1>0, <1>2, <1>3, <1>4, <1>o, <3>1, SpaceRun
  <2>2. x.len = htrd.len /\ x.count = htrd.count
    <3>1. htrd.count + (lst - first) = htrd.count
      BY ONLY <1>1, <1>2, <1>9, <1>h
    <3> QED
      BY <1>6, <1>7, <1>9, <3>1
  <2>3. AtLengthEnd(u[stop], Here, x, lst, stop)
    BY ONLY <1>5, <1>9, <1>h, <2>1, <2>2 DEF AtLengthEnd
  <2> QED
    BY <1>4, <2>3
<1>10. CASE Here.mode = "LEN"
  <2>1. LengthRead(u, first, lst, f[lst])
    <3>1. u[first].mode = "LEN" /\ f[first] = u[first].len
      BY <1>5, <1>6, <1>10, <1>h
    <3> QED
      BY ONLY <1>0, <1>1, <1>2, <1>4, <1>6, <1>o, <3>1, DigitRun
  <2>2. u[lst].mode = "LEN" /\ u[lst].count = x.count /\ u[lst].len = x.len /\ u[lst].heads = Here.heads
    BY ONLY <1>5, <1>7, <1>h, <2>1 DEF LengthRead
  <2>3. CASE x.count = 0
    <3>1. first = lst /\ htrd.count = 0
      BY ONLY <1>1, <1>2, <1>7, <1>h, <1>o, <2>3
    <3>2. stop = lst
      <4> SUFFICES ASSUME stop # lst PROVE FALSE
        OBVIOUS
      <4>1. lst + 1 \in (lst + 1)..stop /\ first < end
        BY ONLY <1>0, <1>2, <1>3, <1>o, <3>1, stop # lst
      <4>2. scn.stream[lst + 1] \in is_space_octet
        BY ONLY <1>3, <4>1
      <4>3. scn.stream[first + 1] \notin is_space_octet
        BY ONLY <1>1, <3>1, <4>1
      <4> QED
        BY ONLY <3>1, <4>2, <4>3
    <3>3. AtLengthEnd(u[stop], Here, x, lst, stop)
      BY ONLY <2>2, <3>2 DEF AtLengthEnd
    <3> QED
      BY <1>4, <3>3
  <2>4. CASE x.count # 0
    <3>1. /\ u[stop].mode = IF lst = stop THEN "LEN" ELSE "LENSP"
          /\ u[stop].len = u[lst].len /\ u[stop].count = u[lst].count /\ u[stop].heads = u[lst].heads
      <4>1. u[lst].mode = "LEN" /\ u[lst].count # 0
        BY <2>2, <2>4
      <4> QED
        BY ONLY <1>0, <1>2, <1>3, <1>4, <1>o, <4>1, SpaceBehind
    <3>2. AtLengthEnd(u[stop], Here, x, lst, stop)
      BY ONLY <2>2, <3>1 DEF AtLengthEnd
    <3> QED
      BY <1>4, <3>2
  <2> QED
    BY <2>3, <2>4
<1> QED
  BY ONLY <1>1, <1>2, <1>8, <1>9, <1>10, <1>o, Here.mode \in {"LEN", "LENSP"}

(* The length of a chunk is read.                                          *)
LEMMA GetChunkLenReads ==
  ASSUME TypeInv, TypeInv', ReadInv, scn.option # "peekonly", GetChunkLen
  PROVE  ReadInv'
<1>0. scn.stream \in Seq(STRING) /\ IsUncut(scn, Uncut(scn)) /\ Len(scn.stream) \in Nat
      /\ ptr \in Nat /\ end \in Nat /\ ptr <= end /\ end <= Len(scn.stream)
  BY UncutHere
<1>t. Here \in UncutType /\ htrd \in HtrdType
  BY HereType
<1>f. htrd.len \in Nat /\ htrd.count \in Nat /\ htrd.need \in Nat
  BY <1>t, HtrdUpdates
<1> DEFINE first == IF htrd.count = 0 THEN Skip(is_space_octet, ptr) ELSE ptr
           lst == Skip(xdigit, first)
           stop == Skip(is_space_octet, lst)
           x == [htrd EXCEPT !.len = ChunkLen(first, lst), !.count = @ + (lst - first)]
           phase == CASE x.count = 0 -> "DONE"
                      [] x.count > 0 /\ x.len = 0 -> "TRAILERS"
                      [] x.count > 0 /\ x.len > 0 -> "DATA"
<1>1. first \in ptr..end /\ first \in Nat
  BY <1>0, SkipDef
<1>d. first = IF htrd.count = 0 THEN Skip(is_space_octet, ptr) ELSE ptr
  OBVIOUS
<1> HIDE DEF first
<1>2. lst \in first..end /\ lst \in Nat /\ (lst < end => scn.stream[lst + 1] \notin xdigit)
      /\ \A k \in (first + 1)..lst : scn.stream[k] \in xdigit
  <2>1. first <= end
    BY ONLY <1>0, <1>1
  <2> QED
    BY <1>0, <1>1, <2>1, SkipDef
<1>e. lst = Skip(xdigit, first)
  OBVIOUS
<1> HIDE DEF lst
<1>3. stop \in lst..end /\ stop \in Nat /\ (stop < end => scn.stream[stop + 1] \notin is_space_octet)
  <2>1. lst <= end
    BY ONLY <1>0, <1>2
  <2> QED
    BY <1>0, <1>2, <2>1, SkipDef
<1>g. stop = Skip(is_space_octet, lst)
  OBVIOUS
<1> HIDE DEF stop
<1>o. ptr <= stop /\ stop <= end
  BY ONLY <1>0, <1>1, <1>2, <1>3
<1>x. x = [htrd EXCEPT !.len = ChunkLen(first, lst), !.count = @ + (lst - first)]
  OBVIOUS
<1>4. /\ x.need = htrd.need /\ x.phase = htrd.phase /\ x.until_close = htrd.until_close
      /\ x.tra = htrd.tra /\ x.suspended = htrd.suspended /\ x.dummified = htrd.dummified
      /\ x \in HtrdType
  <2>1. ChunkLen(first, lst) \in Nat
    <3>1. first <= lst /\ lst \in first..lst
      BY ONLY <1>1, <1>2
    <3>2. PICK f : /\ f[first] = htrd.len /\ ChunkLen(first, lst) = f[lst]
                   /\ \A p \in first..lst : f[p] \in Nat
                   /\ \A p \in (first + 1)..lst : f[p] = AddDigit(f[p - 1], scn.stream[p])
      BY ONLY <1>f, <1>1, <1>2, <3>1, ChunkLenDef
    <3> QED
      BY ONLY <3>1, <3>2
  <2>2. htrd.count + (lst - first) \in Nat
    BY ONLY <1>1, <1>2, <1>f
  <2> QED
    BY ONLY <1>t, <2>1, <2>2 DEF HtrdType
<1> HIDE DEF x
<1>5. x.len \in Nat /\ x.count \in Nat
  BY ONLY <1>4, HtrdUpdates
<1>6. /\ pc = "dechunk_resume" /\ scn' = scn /\ req' = req /\ end' = end /\ peeking' = peeking
      /\ seen' = seen
      /\ \/ stop = end /\ htrd' = x /\ ptr' = stop /\ pc' = "feedme_more"
         \/ /\ stop < end /\ scn.stream[stop + 1] = "LF" /\ ptr' = stop + 1
            /\ htrd' = [x EXCEPT !.phase = phase, !.need = x.len,
                                 !.crlf = IF phase = "TRAILERS" THEN 2 ELSE @]
            /\ pc' = CASE phase = "DONE" -> "complete"
                       [] phase = "TRAILERS" -> "dechunk_get_trailers"
                       [] phase = "DATA" -> "content_resume"
         \/ stop < end /\ scn.stream[stop + 1] # "LF" /\ ptr' = stop /\ pc' = "failed"
  BY Zenon DEF GetChunkLen, Goto, first, lst, stop, x
<1>7. SamePokes(seen.messages, seen'.messages)
  BY <1>6 DEF SamePokes
<1>8. ptr' >= ptr /\ stop <= ptr'
  BY ONLY <1>0, <1>3, <1>6, <1>o
<1>9. ASSUME Good(Here, pc, htrd, scn.stream, ptr, req, end, peeking, seen.messages)
      PROVE  ReadInv'
  <2>1. InStep(Here, htrd, scn.stream, ptr) /\ Here.mode \in {"LEN", "LENSP"}
        /\ \A k \in (ptr + 1)..end : scn.stream[k] # "EOF"
    BY <1>6, <1>9, InMessage
  <2>2. Here.mode \notin InHead /\ AtLen(Here, htrd)
    BY <2>1 DEF InStep, InHead
  <2> DEFINE z == Uncut(scn)[stop]
  <2>3. \/ first + 1 <= stop /\ Uncut(scn)[first + 1].mode = "any"
        \/ AtLengthEnd(z, Here, x, lst, stop)
    BY <1>d, <1>e, <1>g, <1>x, <2>1, <2>2, LengthPlace
  <2>z. z \in UncutType
    <3>1. stop \in ptr..end
      BY ONLY <1>0, <1>3, <1>o
    <3> QED
      BY <3>1, UncutHere
  <2>4. CASE first + 1 <= stop /\ Uncut(scn)[first + 1].mode = "any"
    <3>1. first + 1 \in Nat /\ first + 1 <= ptr'
      <4>1. PICK k : k = ptr'
        OBVIOUS
      <4>2. k = stop \/ k = stop + 1
        BY ONLY <1>6, <4>1
      <4>3. first + 1 \in Nat /\ first + 1 <= k
        BY ONLY <1>1, <1>3, <2>4, <4>2
      <4> QED
        BY <4>1, <4>3
    <3> QED
      BY <1>6, <2>4, <3>1, AnyLater
  <2>5. CASE AtLengthEnd(z, Here, x, lst, stop)
    <3> HIDE DEF z
    <3>1. /\ z.mode \in {"LEN", "LENSP"} /\ z.len = x.len /\ z.count = x.count /\ z.heads = Here.heads
          /\ z.mode = "LEN" => stop = lst
      BY <2>5 DEF AtLengthEnd
    <3>2. CASE stop = end
      <4>1. htrd' = x /\ ptr' = stop /\ pc' = "feedme_more"
        BY ONLY <1>0, <1>6, <3>2
      <4>2. InStep(z, htrd', scn.stream, ptr')
        BY ONLY <1>4, <2>2, <3>1, <4>1 DEF InStep, AtLen
      <4>3. Place(z, pc', htrd', scn.stream, ptr', req, end)
        BY ONLY <4>1, <4>2 DEF Place
      <4>4. z = Uncut(scn)[ptr'] /\ z.mode \notin InHead
        BY <3>1, <4>1 DEF z, InHead
      <4>5. htrd'.suspended = htrd.suspended /\ htrd'.dummified = htrd.dummified
        BY <1>4, <4>1
      <4> QED
        BY <1>6, <1>7, <1>9, <2>2, <3>1, <4>1, <4>3, <4>4, <4>5, GoesOn
    <3>3. CASE stop < end
      <4> DEFINE v == Uncut(scn)[stop + 1]
      <4>0. stop + 1 \in Nat /\ stop + 1 <= end /\ stop + 1 <= Len(scn.stream)
            /\ stop + 1 \in (ptr + 1)..end
        BY ONLY <1>0, <1>3, <1>o, <3>3
      <4>1. v = UncutStep(scn, z, stop + 1)
        BY ONLY <1>0, <1>3, <4>0, OneStep DEF z
      <4>2. scn.stream[stop + 1] # "EOF"
        BY ONLY <2>1, <4>0
      <4> HIDE DEF v
      <4>3. v = UncutLen(z, scn.stream[stop + 1], stop + 1)
        BY ONLY <3>1, <4>1, <4>2 DEF UncutStep
      <4>s. scn.stream[stop + 1] \notin is_space_octet
        BY ONLY <1>3, <3>3
      <4>4. CASE scn.stream[stop + 1] = "LF"
        <5>1. /\ ptr' = stop + 1
              /\ htrd' = [x EXCEPT !.phase = phase, !.need = x.len,
                                   !.crlf = IF phase = "TRAILERS" THEN 2 ELSE @]
              /\ pc' = CASE phase = "DONE" -> "complete"
                         [] phase = "TRAILERS" -> "dechunk_get_trailers"
                         [] phase = "DATA" -> "content_resume"
          <6>1. stop # end
            BY ONLY <1>0, <1>3, <3>3
          <6> QED
            BY ONLY <1>6, <4>4, <6>1, Zenon
        <5>2. v = EndOfChunkLen(z, stop + 1)
          <6>1. scn.stream[stop + 1] \notin xdigit
            BY ONLY <4>4 DEF xdigit
          <6> QED
            BY ONLY <4>3, <4>4, <4>s, <6>1 DEF UncutLen
        <5>3. v = Uncut(scn)[ptr']
          BY <5>1 DEF v
        <5>4. Here.heads > 0
          BY <1>9, <2>2 DEF Good, Told
        <5>p. phase \in {"DONE", "TRAILERS", "DATA"}
              /\ (phase = "DONE" <=> x.count = 0)
              /\ (phase = "TRAILERS" <=> x.count # 0 /\ x.len = 0)
          BY ONLY <1>5
        <5> HIDE DEF phase
        <5>5. /\ htrd'.phase = phase /\ htrd'.need = x.len
              /\ htrd'.crlf = (IF phase = "TRAILERS" THEN 2 ELSE x.crlf)
              /\ htrd'.tra = htrd.tra /\ htrd'.until_close = htrd.until_close
              /\ htrd'.suspended = htrd.suspended /\ htrd'.dummified = htrd.dummified
          BY ONLY <1>4, <5>1 DEF HtrdType
        <5>6. CASE x.count = 0
          <6>1. pc' = "complete"
            BY ONLY <5>1, <5>p, <5>6
          <6>2. v = EndOfMessage(z, stop + 1)
            BY ONLY <3>1, <5>2, <5>6 DEF EndOfChunkLen
          <6>3. v.mode = "head" /\ v.from = stop + 1 /\ v.crlf = 0 /\ v.heads = Here.heads
            BY ONLY <2>z, <3>1, <6>2 DEF EndOfMessage, UncutType
          <6>4. Place(v, pc', htrd', scn.stream, ptr', req, end)
            BY ONLY <5>1, <5>4, <6>1, <6>3 DEF Place, IsOver
          <6> QED
            BY <1>6, <1>7, <1>9, <2>2, <5>3, <5>5, <6>1, <6>3, <6>4, GoesOn
        <5>7. CASE x.count # 0 /\ x.len = 0
          <6>0. phase = "TRAILERS"
            BY <5>p, <5>7
          <6>1. pc' = "dechunk_get_trailers"
            BY ONLY <5>1, <6>0
          <6>2. v = [z EXCEPT !.mode = "TRAILERS", !.crlf = 2, !.from = stop + 1]
            BY ONLY <3>1, <5>2, <5>7 DEF EndOfChunkLen
          <6>3. v.mode = "TRAILERS" /\ v.from = stop + 1 /\ v.crlf = 2 /\ v.heads = Here.heads
            BY ONLY <2>z, <3>1, <6>2 DEF UncutType
          <6>4. SubSeq(scn.stream, (stop + 1) + 1, stop + 1) = <<>>
            <7>1. PICK k \in Nat : k = stop + 1
              BY <4>0
            <7>2. k <= k /\ k <= Len(scn.stream)
              BY ONLY <4>0, <7>1
            <7>3. SubSeq(scn.stream, k + 1, k) = <<>>
              BY ONLY <1>0, <7>2, k \in Nat, Pieces
            <7> QED
              BY ONLY <7>1, <7>3
          <6>5. v.from <= stop + 1
            BY ONLY <4>0, <6>3
          <6>6. InStep(v, htrd', scn.stream, stop + 1)
            BY ONLY <2>2, <5>5, <5>7, <6>0, <6>3, <6>4, <6>5 DEF InStep, AtTrailers, AtLen
          <6>7. Place(v, pc', htrd', scn.stream, ptr', req, end) /\ v.mode \notin InHead
            BY ONLY <5>1, <6>1, <6>3, <6>6 DEF Place, InHead
          <6> QED
            BY <1>6, <1>7, <1>9, <2>2, <5>3, <5>5, <6>1, <6>3, <6>7, GoesOn
        <5>8. CASE x.count # 0 /\ x.len # 0
          <6>0. phase = "DATA" /\ x.len > 0
            BY ONLY <1>5, <5>p, <5>8
          <6>1. pc' = "content_resume"
            BY ONLY <5>1, <6>0
          <6>2. v = [z EXCEPT !.mode = "data", !.need = z.len, !.chunk = TRUE]
            BY ONLY <3>1, <5>2, <5>8 DEF EndOfChunkLen
          <6>3. v.mode = "data" /\ v.need = x.len /\ v.chunk /\ v.heads = Here.heads
            BY ONLY <2>z, <3>1, <6>2 DEF UncutType
          <6>6. InStep(v, htrd', scn.stream, stop + 1)
            BY ONLY <2>2, <5>5, <6>0, <6>3 DEF InStep, AtData, AtLen
          <6>7. Place(v, pc', htrd', scn.stream, ptr', req, end) /\ v.mode \notin InHead
            BY ONLY <5>1, <6>1, <6>3, <6>6 DEF Place, InHead
          <6> QED
            BY <1>6, <1>7, <1>9, <2>2, <5>3, <5>5, <6>1, <6>3, <6>7, GoesOn
        <5> QED
          BY <5>6, <5>7, <5>8
      <4>5. CASE scn.stream[stop + 1] # "LF"
        <5>1. pc' = "failed" /\ stop + 1 <= end'
          BY ONLY <1>0, <1>3, <1>6, <3>3, <4>0, <4>5
        <5>2. CASE scn.stream[stop + 1] \in xdigit
          <6>1. z.mode = "LENSP"
            BY ONLY <1>2, <3>1, <3>3, <5>2
          <6>2. v = Undecided(z)
            BY ONLY <4>3, <4>5, <4>s, <5>2, <6>1 DEF UncutLen
          <6>3. v.mode = "any"
            BY ONLY <2>z, <6>2 DEF Undecided, UncutType
          <6> QED
            BY <1>6, <4>0, <5>1, <6>3, AnyFails DEF v
        <5>3. CASE scn.stream[stop + 1] \notin xdigit
          <6>2. v = Refuse(z)
            BY ONLY <4>3, <4>5, <4>s, <5>3 DEF UncutLen
          <6>3. v.mode = "refused"
            BY ONLY <2>z, <6>2 DEF Refuse, UncutType
          <6> QED
            BY <1>6, <4>0, <5>1, <6>3, RefusedFails DEF v
        <5> QED
          BY <5>2, <5>3
      <4> QED
        BY <4>4, <4>5
    <3> QED
      BY ONLY <1>0, <1>3, <1>o, <3>2, <3>3
  <2> QED
    BY <2>3, <2>4, <2>5
<1> QED
  BY <1>6, <1>8, <1>9, Reading

-----------------------------------------------------------------------------
(* The invariant, and what it implies.                                     *)

(* The reader begins where the stream does.                                *)
LEMMA InitReads ==
  ASSUME Init, TypeInv
  PROVE  ReadInv
<1>0. scn.stream \in Seq(STRING) /\ IsUncut(scn, Uncut(scn)) /\ Len(scn.stream) \in Nat
  BY UncutHere
<1>1. pc = "idle" /\ ptr = 0 /\ req = 0 /\ end = 0 /\ peeking = FALSE /\ htrd = Fresh
      /\ seen = [messages |-> <<>>, raw |-> <<>>]
  BY DEF Init
<1>2. Here = UncutStart
  BY <1>0, <1>1 DEF IsUncut, Here
<1>3. Here.mode = "head" /\ Here.from = 0 /\ Here.crlf = 0 /\ Here.heads = 0
  BY <1>2 DEF UncutStart
<1>4. htrd.need = 0 /\ htrd.phase = "DONE" /\ ~ htrd.until_close /\ htrd.tra = <<>>
      /\ htrd.raw = <<>> /\ htrd.crlf = 0 /\ ~ htrd.suspended /\ ~ htrd.dummified
  BY <1>1 DEF Fresh
<1>5. SubSeq(scn.stream, 0 + 1, 0) = <<>>
  <2>1. PICK k \in Nat : k = 0
    OBVIOUS
  <2>2. k <= k /\ k <= Len(scn.stream)
    BY ONLY <1>0, <2>1
  <2>3. SubSeq(scn.stream, k + 1, k) = <<>>
    BY ONLY <1>0, <2>2, k \in Nat, Pieces
  <2> QED
    BY ONLY <2>1, <2>3
<1>6. InStep(Here, htrd, scn.stream, ptr)
  <2>1. Here.from <= ptr
    BY <1>1, <1>3
  <2> QED
    BY ONLY <1>1, <1>3, <1>4, <1>5, <2>1 DEF InStep, InHead, AtHead
<1>7. Place(Here, pc, htrd, scn.stream, ptr, req, end)
  BY ONLY <1>1, <1>6 DEF Place
<1>8. Told(Here, pc, peeking, seen.messages)
  <2>1. Len(seen.messages) = 0
    BY ONLY <1>1
  <2>2. \A i \in 1..Len(seen.messages) : FALSE
    BY ONLY <2>1
  <2> QED
    BY ONLY <1>1, <1>3, <2>1, <2>2 DEF Told, InHead
<1> QED
  BY <1>1, <1>4, <1>7, <1>8 DEF ReadInv, Good, Exempt

(* Every step of the reader keeps it in step with the stream as a whole.   *)
LEMMA StepReads ==
  ASSUME TypeInv, TypeInv', ReadInv, [Next]_vars
  PROVE  ReadInv'
<1>1. CASE UNCHANGED vars
  BY <1>1 DEF vars, locals, ReadInv, Here, FailedWell, Latest
<1>2. CASE scn.option = "peekonly"
  <2>1. scn' = scn
    BY <1>1 DEF vars, Next, Feed, RejectNull, ReadPartOfHead, ReadHead, GetChunkLen, GetTrailers,
                ReadContent, EndChunk, Complete, FeedmeMore, clear_feed, Halt, Peek, Poke, Resume,
                Done, Goto
  <2> QED
    BY <1>2, <2>1 DEF ReadInv
<1>3. CASE Next /\ scn.option # "peekonly"
  <2>1. CASE \E n \in 1..(Len(scn.stream) - ptr) : Feed(n)
    BY <1>3, <2>1, FeedReads
  <2>2. CASE RejectNull \/ ReadPartOfHead \/ ReadHead
    BY <1>3, <2>2, RejectNullReads, ReadPartOfHeadReads, ReadHeadReads
  <2>3. CASE GetChunkLen \/ GetTrailers \/ ReadContent \/ EndChunk
    BY <1>3, <2>3, GetChunkLenReads, GetTrailersReads, ReadContentReads, EndChunkReads
  <2>4. CASE Complete \/ FeedmeMore \/ clear_feed \/ Halt
    BY <1>3, <2>4, CompleteReads, FeedmeMoreReads, ClearReads, HaltReads
  <2>5. CASE \E policy \in Policies : Peek(policy)
    BY <1>3, <2>5, PeekReads
  <2>6. CASE \E answer \in {"go", "connect", "fail"} : Poke(answer)
    BY <1>3, <2>6, PokeReads
  <2>7. CASE \E granted \in BOOLEAN : Resume(granted)
    BY <1>3, <2>7, ResumeReads
  <2>8. CASE Done
    BY <1>1, <2>8 DEF Done
  <2> QED
    BY <1>3, <2>1, <2>2, <2>3, <2>4, <2>5, <2>6, <2>7, <2>8 DEF Next
<1> QED
  BY <1>1, <1>2, <1>3

(* A reader that is in step reads as if the stream were not cut.           *)
LEMMA ReadImplies ==
  ASSUME TypeInv, ReadInv
  PROVE  ReadsAsIfUncut
<1> SUFFICES ASSUME scn.option # "peekonly"
             PROVE  /\ pc = "idle" /\ (htrd.dummified => htrd.suspended) /\ Here.mode # "any" =>
                         /\ Here.mode # "refused"
                         /\ Latest = Here.heads
                         /\ \A i \in 1..Latest : seen.messages[i].poked =
                              IF i < Latest \/ Here.mode \in {"head", "none"} THEN 1 ELSE 0
                    /\ pc = "failed" => FailedWell
  BY DEF ReadsAsIfUncut, Here, FailedWell
<1>1. pc = "failed" => FailedWell
  BY DEF ReadInv
<1>2. ASSUME pc = "idle", htrd.dummified => htrd.suspended, Here.mode # "any"
      PROVE  /\ Here.mode # "refused"
             /\ Latest = Here.heads
             /\ \A i \in 1..Latest : seen.messages[i].poked =
                  IF i < Latest \/ Here.mode \in {"head", "none"} THEN 1 ELSE 0
  <2>1. Good(Here, "idle", htrd, scn.stream, ptr, req, end, peeking, seen.messages)
    BY <1>2 DEF ReadInv, Exempt
  <2>2. InStep(Here, htrd, scn.stream, ptr) /\ Told(Here, "idle", peeking, seen.messages)
    BY <2>1 DEF Good, Place
  <2>3. Here.mode # "refused"
    BY <2>2 DEF InStep, InHead
  <2>4. Latest \in Nat /\ Here.heads \in Nat
    BY HereType
  <2>5. Latest = Here.heads
    <3>1. ~ peeking /\ Latest + (IF peeking THEN 1 ELSE 0) = Here.heads
      BY <2>2 DEF Told, Latest
    <3> QED
      BY ONLY <2>4, <3>1
  <2>6. \A i \in 1..Latest : seen.messages[i].poked =
          IF i < Here.heads \/ Here.mode \in InHead THEN 1 ELSE 0
    BY <2>2 DEF Told, Latest
  <2> QED
    BY ONLY <2>3, <2>5, <2>6 DEF InHead
<1> QED
  BY <1>1, <1>2

(* The fields of qse_htrd_t, the message and what has been seen of each    *)
(* keep their types, and the positions of qse_htrd_feed() their order: it  *)
(* never goes beyond the end of what it was fed.                           *)
THEOREM ReaderTypes == Spec => []TypeInv
<1>1. Init => TypeInv
  BY InitType
<1>2. TypeInv /\ [Next]_vars => TypeInv'
  BY StepType
<1> QED
  BY <1>1, <1>2, PTL DEF Spec

(* For every stream, whatever its characters, its length and the number of *)
(* its messages, and every way to divide it into feeds, qse_htrd_feed()    *)
(* tells its user of the messages, and fails, as if it were not divided.   *)
THEOREM DivisionDoesNotMatter == Spec => []ReadsAsIfUncut
<1>1. Init => TypeInv /\ ReadInv
  BY InitType, InitReads
<1>2. TypeInv /\ ReadInv /\ [Next]_vars => TypeInv' /\ ReadInv'
  BY StepType, StepReads
<1>3. TypeInv /\ ReadInv => ReadsAsIfUncut
  BY ReadImplies
<1> QED
  BY <1>1, <1>2, <1>3, PTL DEF Spec
-----------------------------------------------------------------------------
(* The parts of messages in the stream that is not cut.                    *)

(* c is what message i has at its places of some modes.                    *)
IsPart(s, i, modes, c) ==
  /\ c[0] = <<>>
  /\ \A p \in 0..Len(s.stream) : c[p] \in Seq(STRING)
  /\ \A p \in 1..Len(s.stream) :
       c[p] = IF Takes(Uncut(s)[p - 1], i, modes, s.stream[p])
              THEN c[p - 1] \o <<s.stream[p]>> ELSE c[p - 1]

(* UncutPart is that.                                                      *)
LEMMA PartDef ==
  ASSUME NEW s, s.stream \in Seq(STRING), NEW i, NEW modes
  PROVE  IsPart(s, i, modes, UncutPart(s, i, modes))
<1> DEFINE N == Len(s.stream)
           More(p, c) == IF Takes(Uncut(s)[p - 1], i, modes, s.stream[p])
                         THEN c \o <<s.stream[p]>> ELSE c
           Eq(f) == f = [p \in 0..N |->
             IF p = 0 THEN <<>>
             ELSE IF Takes(Uncut(s)[p - 1], i, modes, s.stream[p]) THEN f[p - 1] \o <<s.stream[p]>>
             ELSE f[p - 1]]
           e == CHOOSE f : Eq(f)
<1>1. UncutPart(s, i, modes) = e
  BY Zenon DEF UncutPart
<1>2. N \in Nat /\ 0 \in 0..N
  OBVIOUS
<1>3. <<>> \in Seq(STRING)
  OBVIOUS
<1>4. ASSUME NEW p \in 1..N, NEW c \in Seq(STRING) PROVE More(p, c) \in Seq(STRING)
  <2>1. s.stream[p] \in STRING
    OBVIOUS
  <2>2. c \o <<s.stream[p]>> \in Seq(STRING)
    BY <2>1
  <2> QED
    BY <2>2
<1>5. PICK lo \in Nat : lo = 0
  OBVIOUS
<1> DEFINE g == [q \in (0..N) \X Seq(STRING) |-> IF q[1] = 0 THEN <<>> ELSE More(q[1], q[2])]
<1>g. \A p \in 1..N, c \in Seq(STRING) : g[<<p, c>>] = More(p, c)
  <2> HIDE DEF More, N
  <2> SUFFICES ASSUME NEW p \in 1..N, NEW c \in Seq(STRING) PROVE g[<<p, c>>] = More(p, c)
    OBVIOUS
  <2>1. <<p, c>> \in (0..N) \X Seq(STRING) /\ <<p, c>>[1] = p /\ <<p, c>>[2] = c /\ p # 0
    BY <1>2
  <2> QED
    BY <2>1
<1>h. g \in [(0..N) \X Seq(STRING) -> Seq(STRING)]
  <2> HIDE DEF More, N
  <2> SUFFICES ASSUME NEW q \in (0..N) \X Seq(STRING)
               PROVE  (IF q[1] = 0 THEN <<>> ELSE More(q[1], q[2])) \in Seq(STRING)
    OBVIOUS
  <2>1. q[1] \in 0..N /\ q[2] \in Seq(STRING)
    OBVIOUS
  <2>2. q[1] # 0 => q[1] \in 1..N
    BY <1>2, <2>1
  <2> QED
    BY <1>3, <1>4, <2>1, <2>2
<1> HIDE DEF g
<1>m. \A p, c : More(p, c) = IF Takes(Uncut(s)[p - 1], i, modes, s.stream[p])
                             THEN c \o <<s.stream[p]>> ELSE c
  OBVIOUS
<1>6. \E f : Eq(f)
  <2>z. PICK z \in Seq(STRING) : z = <<>>
    BY <1>3
  <2>1. PICK f : Runs(f, lo, N, Seq(STRING), z, g)
    <3>1. lo <= N /\ g \in [(lo..N) \X Seq(STRING) -> Seq(STRING)]
      BY <1>2, <1>5, <1>h
    <3> HIDE DEF N
    <3> QED
      BY ONLY <1>2, <3>1, lo \in Nat, z \in Seq(STRING), RunExists
  <2>2. /\ f \in [0..N -> Seq(STRING)] /\ f[0] = <<>>
        /\ \A p \in 1..N : f[p] = g[<<p, f[p - 1]>>]
    <3>1. lo + 1 = 1 /\ lo = 0
      BY <1>5
    <3> QED
      BY <2>1, <2>z, <3>1 DEF Runs
  <2>3. ASSUME NEW p \in 0..N, p # 0 PROVE f[p] = More(p, f[p - 1])
    <3>1. p \in 1..N /\ p - 1 \in 0..N
      BY <1>2, <2>3
    <3>2. f[p - 1] \in Seq(STRING) /\ f[p] = g[<<p, f[p - 1]>>]
      BY <2>2, <3>1
    <3> QED
      BY <1>g, <3>1, <3>2
  <2>4. Eq(f)
    <3> HIDE DEF N, More
    <3>1. f = [p \in 0..N |-> f[p]]
      BY <2>2
    <3>2. \A p \in 0..N : f[p] = IF p = 0 THEN <<>> ELSE More(p, f[p - 1])
      BY <2>2, <2>3
    <3>3. f = [p \in 0..N |-> IF p = 0 THEN <<>> ELSE More(p, f[p - 1])]
      BY <3>1, <3>2
    <3> QED
      BY <3>3, Zenon DEF More
  <2> QED
    BY <2>4
<1>7. Eq(e)
  BY <1>6
<1> HIDE DEF e, More
<1>8. /\ e[0] = <<>>
      /\ \A p \in 1..N : e[p] = More(p, e[p - 1])
  <2> HIDE DEF N
  <2>1. \A p \in 0..N : e[p] = IF p = 0 THEN <<>> ELSE More(p, e[p - 1])
    BY <1>7, Zenon DEF More
  <2>2. \A p \in 1..N : p \in 0..N /\ p # 0
    BY <1>2
  <2> QED
    BY <1>2, <2>1, <2>2
<1> DEFINE T == {p \in 0..N : e[p] \in Seq(STRING)}
<1>9. lo \in T
  BY <1>2, <1>3, <1>5, <1>8
<1>10. ASSUME NEW p \in (lo + 1)..N, p - 1 \in T PROVE p \in T
  <2>1. p \in 1..N /\ p \in 0..N
    BY <1>2, <1>5
  <2>2. e[p - 1] \in Seq(STRING)
    BY <1>10
  <2> QED
    BY <1>4, <1>8, <2>1, <2>2
<1>11. \A p \in lo..N : p \in T
  <2> HIDE DEF T, N
  <2> QED
    BY <1>2, <1>9, <1>10, Along
<1>12. \A p \in 0..N : e[p] \in Seq(STRING)
  BY <1>5, <1>11
<1> QED
  BY <1>1, <1>8, <1>12, <1>m DEF IsPart, N

PartsAt(modes, p) == [i \in Nat |-> UncutPart(scn, i, modes)[p]]

(* Nothing is added from one position to the next.                         *)
LEMMA QuietRun ==
  ASSUME NEW c, NEW p \in Nat, NEW q \in Nat, p <= q, \A k \in (p + 1)..q : c[k] = c[k - 1]
  PROVE  c[q] = c[p]
<1> DEFINE T == {k \in p..q : c[k] = c[p]}
<1>1. p \in T
  OBVIOUS
<1>2. ASSUME NEW k \in (p + 1)..q, k - 1 \in T PROVE k \in T
  BY <1>2
<1> HIDE DEF T
<1>3. \A k \in p..q : k \in T
  BY <1>1, <1>2, Along
<1>4. q \in p..q
  OBVIOUS
<1> QED
  BY <1>3, <1>4 DEF T

Longer(b, x, y, c) == b \o y = (b \o x) \o <<c>>

(* A piece and the next character.                                         *)
LEMMA PieceGrows ==
  ASSUME NEW st \in Seq(STRING), NEW b \in Seq(STRING), NEW p \in Nat, NEW j \in Nat, NEW k \in Nat,
         p <= j, j = k - 1, k <= Len(st),
         NEW x, x = SubSeq(st, p + 1, j), NEW y, y = SubSeq(st, p + 1, k)
  PROVE  Longer(b, x, y, st[k])
<1>0. Len(st) \in Nat /\ j <= k /\ k \in 1..Len(st) /\ p + 1 \in 1..Len(st) /\ k \in (p + 1)..Len(st)
      /\ j <= Len(st)
  OBVIOUS
<1>1. x \in Seq(STRING)
  BY ONLY <1>0, Pieces, st \in Seq(STRING), p \in Nat, j \in Nat, p <= j, x = SubSeq(st, p + 1, j)
<1>2. y = x \o <<st[k]>>
  BY <1>0, SubSeqRecursiveSecond
<1>4. <<st[k]>> \in Seq(STRING)
  BY ONLY <1>0, st \in Seq(STRING)
<1>5. (b \o x) \o <<st[k]>> = b \o (x \o <<st[k]>>)
  <2>1. PICK z \in Seq(STRING) : z = <<st[k]>>
    BY <1>4
  <2>2. (b \o x) \o z = b \o (x \o z)
    BY ONLY <1>1, ConcatAssociative, b \in Seq(STRING), z \in Seq(STRING)
  <2> QED
    BY ONLY <2>1, <2>2
<1> QED
  BY ONLY <1>2, <1>5 DEF Longer

(* All characters are added from one position to the next.                 *)
LEMMA BusyRun ==
  ASSUME NEW st \in Seq(STRING), NEW c, NEW p \in Nat, NEW q \in Nat, p <= q, q <= Len(st),
         c[p] \in Seq(STRING), \A k \in (p + 1)..q : c[k] = c[k - 1] \o <<st[k]>>
  PROVE  c[q] = c[p] \o SubSeq(st, p + 1, q)
<1> DEFINE T == {k \in p..q : c[k] = c[p] \o SubSeq(st, p + 1, k)}
<1>1. p \in T
  <2>0. Len(st) \in Nat /\ p <= p /\ p <= Len(st) /\ p \in p..q
    OBVIOUS
  <2>1. SubSeq(st, p + 1, p) = <<>>
    BY ONLY <2>0, Pieces, st \in Seq(STRING), p \in Nat
  <2>2. c[p] \o <<>> = c[p]
    BY ONLY c[p] \in Seq(STRING)
  <2> QED
    BY ONLY <2>0, <2>1, <2>2
<1>2. ASSUME NEW k \in (p + 1)..q, k - 1 \in T PROVE k \in T
  <2>1. PICK j \in Nat : j = k - 1
    OBVIOUS
  <2>2. p <= j /\ j = k - 1 /\ k <= Len(st) /\ k \in Nat /\ k \in p..q
    BY <2>1
  <2>3. c[k] = c[j] \o <<st[k]>> /\ c[j] = c[p] \o SubSeq(st, p + 1, j)
    BY <1>2, <2>1
  <2>4. PICK b \in Seq(STRING) : b = c[p]
    OBVIOUS
  <2>x. PICK x : x = SubSeq(st, p + 1, j)
    OBVIOUS
  <2>y. PICK y : y = SubSeq(st, p + 1, k)
    OBVIOUS
  <2>5. Longer(b, x, y, st[k])
    BY ONLY <2>2, <2>x, <2>y, PieceGrows, st \in Seq(STRING), b \in Seq(STRING), p \in Nat, j \in Nat
  <2>6. c[k] = c[p] \o SubSeq(st, p + 1, k)
    BY ONLY <2>3, <2>4, <2>5, <2>x, <2>y DEF Longer
  <2> QED
    BY ONLY <2>2, <2>6
<1> HIDE DEF T
<1>3. \A k \in p..q : k \in T
  BY <1>1, <1>2, Along
<1>4. q \in p..q
  OBVIOUS
<1> QED
  BY <1>3, <1>4 DEF T

(* The parts of all messages, where none of their characters is read.      *)
LEMMA QuietParts ==
  ASSUME TypeInv, NEW modes, NEW p \in Nat, NEW q \in Nat, p <= q, q <= Len(scn.stream),
         \A k \in (p + 1)..q : Uncut(scn)[k - 1].mode \notin modes \/ scn.stream[k] = "EOF"
  PROVE  PartsAt(modes, q) = PartsAt(modes, p)
<1>1. scn.stream \in Seq(STRING)
  BY UncutHere
<1>2. ASSUME NEW i \in Nat PROVE UncutPart(scn, i, modes)[q] = UncutPart(scn, i, modes)[p]
  <2>1. \A k \in (p + 1)..q : ~ Takes(Uncut(scn)[k - 1], i, modes, scn.stream[k])
    BY DEF Takes
  <2>2. PICK c : c = UncutPart(scn, i, modes)
    OBVIOUS
  <2>3. IsPart(scn, i, modes, c)
    BY <1>1, <2>2, PartDef
  <2>4. \A k \in (p + 1)..q : k \in 1..Len(scn.stream)
    BY <1>1
  <2>5. \A k \in (p + 1)..q : c[k] = c[k - 1]
    BY ONLY <2>1, <2>3, <2>4 DEF IsPart
  <2>6. c[q] = c[p]
    BY ONLY <2>5, QuietRun, p \in Nat, q \in Nat, p <= q
  <2> QED
    BY <2>2, <2>6
<1> QED
  BY <1>2 DEF PartsAt

Grow(c, d, h, octets) ==
  /\ c[h] \in Seq(STRING)
  /\ d[h] = c[h] \o octets
  /\ \A i \in Nat : i # h => d[i] = c[i]

(* The parts of all messages, where all characters read are of one.        *)
LEMMA BusyParts ==
  ASSUME TypeInv, NEW modes, NEW p \in Nat, NEW q \in Nat, p <= q, q <= Len(scn.stream),
         NEW h \in Nat,
         \A k \in (p + 1)..q : Takes(Uncut(scn)[k - 1], h, modes, scn.stream[k])
  PROVE  Grow(PartsAt(modes, p), PartsAt(modes, q), h, SubSeq(scn.stream, p + 1, q))
<1>1. scn.stream \in Seq(STRING)
  BY UncutHere
<1>4. \A k \in (p + 1)..q : k \in 1..Len(scn.stream)
  BY <1>1
<1>2. ASSUME NEW i \in Nat, i # h
      PROVE  UncutPart(scn, i, modes)[q] = UncutPart(scn, i, modes)[p]
  <2>1. \A k \in (p + 1)..q : ~ Takes(Uncut(scn)[k - 1], i, modes, scn.stream[k])
    BY <1>2 DEF Takes
  <2>2. PICK c : c = UncutPart(scn, i, modes)
    OBVIOUS
  <2>3. IsPart(scn, i, modes, c)
    BY <1>1, <2>2, PartDef
  <2>5. \A k \in (p + 1)..q : c[k] = c[k - 1]
    BY ONLY <2>1, <2>3, <1>4 DEF IsPart
  <2>6. c[q] = c[p]
    BY ONLY <2>5, QuietRun, p \in Nat, q \in Nat, p <= q
  <2> QED
    BY <2>2, <2>6
<1>3. UncutPart(scn, h, modes)[q] = UncutPart(scn, h, modes)[p] \o SubSeq(scn.stream, p + 1, q)
      /\ UncutPart(scn, h, modes)[p] \in Seq(STRING)
  <2>2. PICK c : c = UncutPart(scn, h, modes)
    OBVIOUS
  <2>3. IsPart(scn, h, modes, c)
    BY <1>1, <2>2, PartDef
  <2>4. \A k \in (p + 1)..q : c[k] = c[k - 1] \o <<scn.stream[k]>>
    BY ONLY <1>4, <2>3, \A k \in (p + 1)..q : Takes(Uncut(scn)[k - 1], h, modes, scn.stream[k])
       DEF IsPart
  <2>5. c[p] \in Seq(STRING)
    <3>1. p \in 0..Len(scn.stream)
      BY <1>1
    <3> QED
      BY <2>3, <3>1 DEF IsPart
  <2>6. PICK st \in Seq(STRING) : st = scn.stream
    BY <1>1
  <2>7. q <= Len(st) /\ \A k \in (p + 1)..q : c[k] = c[k - 1] \o <<st[k]>>
    BY <2>4, <2>6
  <2>8. c[q] = c[p] \o SubSeq(st, p + 1, q)
    BY ONLY <2>5, <2>7, BusyRun, st \in Seq(STRING), p \in Nat, q \in Nat, p <= q
  <2> QED
    BY <2>2, <2>5, <2>6, <2>8
<1> QED
  BY <1>2, <1>3, Zenon DEF PartsAt, Grow

-----------------------------------------------------------------------------
(* The content: what the message and the user have of it is what the       *)
(* stream has, up to where the reader is.                                  *)

ContentAt(p) == PartsAt({"data", "close"}, p)
TrailersAt(p) == PartsAt({"TRAILERS"}, p)

(* No message is in progress: a head is awaited or read.                   *)
Between(u, l) == u.mode \in InHead /\ l \notin {"complete", "peek", "poke"}

(* A message that is over.                                                 *)
Final(m, c, t) ==
  /\ m.policy \in {"stream", "keep"} => m.content = c
  /\ m.ends = IF m.policy = "stream" THEN 1 ELSE 0
  /\ m.trailers = TrailersOf(t)

Rest(r, l) ==
  /\ r.concb # "content"
  /\ l # "clear" => r.state = "open" /\ r.content = <<>> /\ r.trailers = <<>>

(* A message in progress, before and after the user has peeked at it.      *)
Unseen(r, c) == r.state # "DISCARDED" /\ r.concb = "none" /\ r.content = c

Current(r, m, c) ==
  /\ m.policy = "stream" =>
       /\ m.content = c /\ r.state # "DISCARDED"
       /\ r.state = "open" => r.concb = "content" /\ m.ends = 0
       /\ r.state = "COMPLETED" => r.concb = "none" /\ m.ends = 1
  /\ m.policy = "keep" => r.content = c /\ r.state # "DISCARDED" /\ r.concb = "none"
  /\ m.policy # "stream" => m.ends = 0 /\ r.concb # "content"

States(l) == IF l \in {"peek", "poke"} THEN {"COMPLETED", "DISCARDED"} ELSE {"open", "DISCARDED"}

Body(l, r, pk, ms, c) ==
  /\ r.state \in States(l)
  /\ pk => Unseen(r, c)
  /\ ~ pk => Current(r, ms[Len(ms)], c)

(* Its trailers.                                                           *)
Ends(u, r, tra, t) ==
  /\ u.mode \in InHead => r.trailers = TrailersOf(t)
  /\ u.mode \notin InHead => r.trailers = <<>> /\ t = IF u.mode = "TRAILERS" THEN tra ELSE <<>>

Exact(u, l, x, r, pk, ms, C, T) ==
  /\ r.concb = "raw" => x.suspended
  /\ x.suspended => l \in {"idle", "poke", "clear"} /\ u.mode \in InHead
  /\ \A i \in Nat : i > u.heads => C[i] = <<>> /\ T[i] = <<>>
  /\ \A i \in 1..Len(ms) : i < u.heads \/ Between(u, l) => Final(ms[i], C[i], T[i])
  /\ Between(u, l) => Rest(r, l)
  /\ ~ Between(u, l) => Body(l, r, pk, ms, C[u.heads]) /\ Ends(u, r, x.tra, T[u.heads])

ExactHere == Exact(Here, pc, htrd, re, peeking, seen.messages, ContentAt(ptr), TrailersAt(ptr))

ContentInv ==
  scn.option # "peekonly" /\ pc # "failed" /\ Here.mode # "any" /\ ~ Exempt(htrd) => ExactHere

(* Both ends of a step that does not fail and of which something is said.  *)
GoodHere == Good(Here, pc, htrd, scn.stream, ptr, req, end, peeking, seen.messages)
GoodThen == Good(Uncut(scn)[ptr'], pc', htrd', scn.stream, ptr', req', end', peeking', seen'.messages)
ExactThen == Exact(Uncut(scn)[ptr'], pc', htrd', re', peeking', seen'.messages,
                   ContentAt(ptr'), TrailersAt(ptr'))

Known ==
  /\ TypeInv /\ TypeInv' /\ scn' = scn /\ pc' # "failed"
  /\ GoodHere /\ GoodThen /\ ExactHere

(* What is known of the numbers of messages.                               *)
LEMMA KnownTypes ==
  ASSUME Known
  PROVE  /\ peeking \in BOOLEAN /\ peeking' \in BOOLEAN
         /\ Here.heads \in Nat /\ Len(seen.messages) \in Nat
         /\ Uncut(scn)[ptr'].heads \in Nat /\ Len(seen'.messages) \in Nat
         /\ ~ Exempt(htrd) /\ ~ Exempt(htrd')
         /\ Told(Here, pc, peeking, seen.messages)
         /\ Told(Uncut(scn)[ptr'], pc', peeking', seen'.messages)
<1>1. peeking \in BOOLEAN /\ peeking' \in BOOLEAN
  BY DEF Known, TypeInv
<1>2. Here.heads \in Nat /\ Len(seen.messages) \in Nat
  <2>1. Latest \in Nat /\ Here.heads \in Nat
    BY HereType DEF Known
  <2> QED
    BY <2>1 DEF Latest
<1>3. Uncut(scn)[ptr'].heads \in Nat
  <2>1. scn.stream \in Seq(STRING) /\ IsUncut(scn, Uncut(scn)) /\ Len(scn.stream) \in Nat
    BY UncutHere DEF Known
  <2>2. PICK q : q = ptr'
    OBVIOUS
  <2>3. q \in 0..Len(scn.stream)
    BY <2>1, <2>2 DEF Known, TypeInv, Positions
  <2>4. Uncut(scn)[q] \in UncutType
    BY <2>1, <2>3 DEF IsUncut
  <2> QED
    BY <2>2, <2>4, UncutFields
<1>4. Len(seen'.messages) \in Nat
  <2>1. MessagesOk(seen'.messages)
    BY DEF Known, TypeInv
  <2>2. PICK ms, S : ms = seen'.messages /\ ms \in Seq(S)
    BY <2>1 DEF MessagesOk
  <2> QED
    BY <2>2
<1> QED
  BY <1>1, <1>2, <1>3, <1>4 DEF Known, GoodHere, GoodThen, Good

(* The call returns.                                                       *)
LEMMA FeedmeMoreExact ==
  ASSUME Known, FeedmeMore
  PROVE  ExactThen
<1>1. /\ pc = "feedme_more" /\ ~ peeking /\ ptr' = ptr /\ peeking' = peeking /\ htrd' = htrd
      /\ pc' = "idle" /\ seen' = seen /\ re' = re
  BY DEF FeedmeMore, Goto
<1>2. Exact(Here, "feedme_more", htrd, re, peeking, seen.messages, ContentAt(ptr), TrailersAt(ptr))
  BY <1>1 DEF Known, ExactHere
<1>3. Exact(Here, "idle", htrd, re, peeking, seen.messages, ContentAt(ptr), TrailersAt(ptr))
  BY ONLY <1>2 DEF Exact, Between, Rest, Body, States
<1> QED
  BY <1>1, <1>3 DEF ExactThen, Here

(* The message is cleared.                                                 *)
LEMMA ClearExact ==
  ASSUME Known, clear_feed
  PROVE  ExactThen
<1>0. ~ Exempt(htrd)
  BY KnownTypes
<1>1. /\ pc = "clear" /\ peeking' = peeking /\ ptr' = ptr /\ seen' = seen
      /\ htrd'.suspended = htrd.suspended /\ pc' \in {"idle", "header"}
      /\ htrd.suspended => pc' = "idle"
  BY <1>0 DEF clear_feed, Known, Exempt, Cleared, Fresh
<1>2. /\ re'.state = "open" /\ re'.content = <<>> /\ re'.trailers = <<>>
      /\ re'.concb = IF re.state = "open" THEN "none" ELSE re.concb
  BY DEF clear_feed, ClearMessage, NoMessage
<1>3. Exact(Here, "clear", htrd, re, peeking, seen.messages, ContentAt(ptr), TrailersAt(ptr))
  BY <1>1 DEF Known, ExactHere
<1>4. Here.mode \in InHead
  BY <1>1 DEF Known, GoodHere, Good, Place, IsOver, InHead
<1>5. PICK l, r, x : l = pc' /\ r = re' /\ x = htrd'
  OBVIOUS
<1>6. Exact(Here, l, x, r, peeking, seen.messages, ContentAt(ptr), TrailersAt(ptr))
  <2>1. /\ r.state = "open" /\ r.content = <<>> /\ r.trailers = <<>>
        /\ r.concb \in {"none", re.concb} /\ x.suspended = htrd.suspended /\ l \in {"idle", "header"}
        /\ htrd.suspended => l = "idle"
    BY <1>1, <1>2, <1>5
  <2>2. Between(Here, "clear") /\ Between(Here, l)
    BY ONLY <1>4, <2>1 DEF Between
  <2> QED
    BY ONLY <1>3, <2>1, <2>2 DEF Exact, Rest
<1> QED
  BY <1>1, <1>5, <1>6 DEF ExactThen, Here

(* The peer has answered to the request to upgrade.                        *)
LEMMA ResumeExact ==
  ASSUME Known, NEW granted \in BOOLEAN, Resume(granted)
  PROVE  ExactThen
<1>0. ~ Exempt(htrd')
  BY KnownTypes
<1>1. /\ pc = "idle" /\ pc' = "idle" /\ peeking' = peeking /\ ptr' = ptr /\ seen' = seen
      /\ htrd.suspended /\ htrd' = [htrd EXCEPT !.suspended = FALSE, !.dummified = granted]
      /\ re' = IF granted THEN re ELSE [re EXCEPT !.concb = "none"]
  BY DEF Resume, locals
<1>t. htrd \in HtrdType /\ DOMAIN re = {"flags", "length", "content", "trailers", "state", "concb"}
  BY DEF Known, TypeInv
<1>2. ~ htrd'.suspended /\ htrd'.dummified = granted
  BY <1>1, <1>t DEF HtrdType
<1>3. ~ granted
  BY <1>0, <1>2 DEF Exempt
<1>4. re'.concb = "none" /\ re'.state = re.state /\ re'.content = re.content
      /\ re'.trailers = re.trailers
  BY <1>1, <1>3, <1>t
<1>5. Exact(Here, "idle", htrd, re, peeking, seen.messages, ContentAt(ptr), TrailersAt(ptr))
  BY <1>1 DEF Known, ExactHere
<1>6. PICK r, x : r = re' /\ x = htrd'
  OBVIOUS
<1>7. Exact(Here, "idle", x, r, peeking, seen.messages, ContentAt(ptr), TrailersAt(ptr))
  <2>1. /\ r.concb = "none" /\ r.state = re.state /\ r.content = re.content
        /\ r.trailers = re.trailers /\ ~ x.suspended
    BY <1>2, <1>4, <1>6
  <2>2. Between(Here, "idle")
    BY ONLY <1>1, <1>5 DEF Exact, Between
  <2> QED
    BY ONLY <1>5, <2>1, <2>2 DEF Exact, Rest
<1> QED
  BY <1>1, <1>6, <1>7 DEF ExactThen, Here

(* Characters are fed.                                                     *)
LEMMA FeedExact ==
  ASSUME Known, NEW n, Feed(n)
  PROVE  ExactThen
<1>0. ~ Exempt(htrd) /\ peeking \in BOOLEAN /\ Told(Here, pc, peeking, seen.messages)
  BY KnownTypes
<1>1. /\ pc = "idle" /\ peeking' = FALSE /\ ptr' = ptr /\ seen' = seen /\ re' = re
      /\ ~ htrd.suspended /\ (htrd' = htrd \/ htrd' = [htrd EXCEPT !.clean = FALSE])
      /\ pc' \in {"content_resume", "dechunk_resume", "dechunk_crlf", "dechunk_get_trailers", "header"}
  BY <1>0 DEF Feed, Known, Exempt
<1>t. htrd \in HtrdType
  BY DEF Known, TypeInv
<1>2. htrd'.suspended = htrd.suspended /\ htrd'.tra = htrd.tra
  BY <1>1, <1>t DEF HtrdType
<1>3. peeking = FALSE
  BY <1>0, <1>1 DEF Told
<1>4. Exact(Here, "idle", htrd, re, FALSE, seen.messages, ContentAt(ptr), TrailersAt(ptr))
  BY <1>1, <1>3 DEF Known, ExactHere
<1>5. PICK l, x : l = pc' /\ x = htrd'
  OBVIOUS
<1>6. Exact(Here, l, x, re, FALSE, seen.messages, ContentAt(ptr), TrailersAt(ptr))
  <2>1. /\ x.suspended = htrd.suspended /\ x.tra = htrd.tra /\ ~ htrd.suspended
        /\ l \in {"content_resume", "dechunk_resume", "dechunk_crlf", "dechunk_get_trailers", "header"}
    BY <1>1, <1>2, <1>5
  <2>2. Between(Here, l) <=> Between(Here, "idle")
    BY ONLY <2>1 DEF Between
  <2>3. States(l) = States("idle") /\ l # "clear"
    BY ONLY <2>1 DEF States
  <2> QED
    BY ONLY <1>4, <2>1, <2>2, <2>3 DEF Exact, Rest, Body
<1> QED
  BY <1>1, <1>5, <1>6 DEF ExactThen, Here

Completed(r, s, ms, mt) ==
  /\ s.content = r.content /\ s.trailers = r.trailers
  /\ s.state = IF r.state = "open" THEN "COMPLETED" ELSE r.state
  /\ s.concb = IF r.state = "open" /\ r.concb = "content" THEN "none" ELSE r.concb
  /\ Len(mt) = Len(ms)
  /\ \A i \in 1..Len(ms) : i # Len(ms) \/ r.state # "open" \/ r.concb # "content" => mt[i] = ms[i]
  /\ Len(ms) > 0 /\ r.state = "open" /\ r.concb = "content" =>
       LET m == mt[Len(ms)]
           e == ms[Len(ms)]
       IN  /\ m.content = e.content /\ m.policy = e.policy
           /\ m.trailers = e.trailers /\ m.ends = e.ends + 1

(* What it does to complete the content.                                   *)
LEMMA CompleteContentDoes ==
  ASSUME TypeInv, CompleteContent
  PROVE  Completed(re, re', seen.messages, seen'.messages)
<1>1. /\ DOMAIN re = {"flags", "length", "content", "trailers", "state", "concb"}
      /\ DOMAIN seen = {"messages", "raw"} /\ MessagesOk(seen.messages)
  BY DEF TypeInv
<1>2. CASE re.state # "open"
  <2>1. re' = re /\ seen' = seen
    BY <1>2 DEF CompleteContent
  <2> QED
    BY ONLY <1>2, <2>1 DEF Completed
<1>3. CASE re.state = "open"
  <2>1. re' = [re EXCEPT !.state = "COMPLETED", !.concb = IF @ = "content" THEN "none" ELSE @]
    BY <1>3 DEF CompleteContent
  <2>2. /\ re'.content = re.content /\ re'.trailers = re.trailers /\ re'.state = "COMPLETED"
        /\ re'.concb = IF re.concb = "content" THEN "none" ELSE re.concb
    BY <1>1, <2>1
  <2>3. CASE re.concb # "content"
    <3>1. seen' = seen
      BY <1>3, <2>3 DEF CompleteContent
    <3> QED
      BY ONLY <1>3, <2>2, <2>3, <3>1 DEF Completed
  <2>4. CASE re.concb = "content"
    <3> DEFINE e == [seen.messages[Latest] EXCEPT !.ends = @ + 1]
               ms == [seen.messages EXCEPT ![Latest] = e]
    <3>1. seen' = [seen EXCEPT !.messages[Latest].ends = @ + 1]
      BY <1>3, <2>4 DEF CompleteContent
    <3>2. seen' = [seen EXCEPT !.messages = ms]
      BY <3>1
    <3>3. seen'.messages = ms
      BY <1>1, <3>2
    <3>4. CASE Latest \in 1..Len(seen.messages)
      <4>1. DOMAIN seen.messages[Latest] = {"content", "ends", "poked", "trailers", "policy"}
        BY <1>1, <3>4 DEF MessagesOk
      <4>2. /\ DOMAIN e = {"content", "ends", "poked", "trailers", "policy"}
            /\ e.content = seen.messages[Latest].content /\ e.policy = seen.messages[Latest].policy
            /\ e.trailers = seen.messages[Latest].trailers /\ e.ends = seen.messages[Latest].ends + 1
        BY <4>1
      <4> HIDE DEF e
      <4>3. Updated(seen.messages, ms, Latest, e)
        BY ONLY <1>1, <4>2, MessageUpdate, Zenon
      <4> HIDE DEF ms
      <4>4. PICK mt : mt = seen'.messages
        OBVIOUS
      <4> QED
        BY ONLY <1>3, <2>2, <2>4, <3>3, <3>4, <4>2, <4>3 DEF Completed, Updated, Latest
    <3>5. CASE Latest \notin 1..Len(seen.messages)
      <4>1. PICK S : seen.messages \in Seq(S)
        BY <1>1 DEF MessagesOk
      <4>2. ms = seen.messages /\ Len(seen.messages) = 0
        BY <3>5, <4>1 DEF Latest
      <4> QED
        BY ONLY <1>3, <2>2, <2>4, <3>3, <4>2 DEF Completed
    <3> QED
      BY <3>4, <3>5
  <2> QED
    BY <2>3, <2>4
<1> QED
  BY <1>2, <1>3

(* The content of a message at hand is complete.                           *)
LEMMA CompletedExact ==
  ASSUME NEW u, u.mode \in InHead, u.heads > 0, u.heads \in Nat, NEW x,
         NEW r, NEW s, NEW ms, NEW mt, Len(ms) \in Nat, Completed(r, s, ms, mt), NEW pk \in BOOLEAN,
         Len(ms) + (IF pk THEN 1 ELSE 0) = u.heads,
         NEW C, NEW T, Exact(u, "complete", x, r, pk, ms, C, T),
         NEW l, l = IF pk THEN "peek" ELSE "poke"
  PROVE  Exact(u, l, x, s, pk, mt, C, T)
<1>1. ~ Between(u, "complete") /\ ~ Between(u, l) /\ ~ x.suspended
  BY DEF Between, Exact
<1>2. /\ r.state \in {"open", "DISCARDED"}
      /\ pk => Unseen(r, C[u.heads])
      /\ ~ pk => Current(r, ms[Len(ms)], C[u.heads])
      /\ r.concb # "raw"
      /\ Ends(u, r, x.tra, T[u.heads])
  BY ONLY <1>1, Exact(u, "complete", x, r, pk, ms, C, T) DEF Exact, Body, States
<1>3. s.concb # "raw" /\ Ends(u, s, x.tra, T[u.heads])
  BY <1>2 DEF Completed, Ends
<1>4. s.state \in States(l)
  <2>1. s.state = IF r.state = "open" THEN "COMPLETED" ELSE r.state
    BY ONLY Completed(r, s, ms, mt) DEF Completed
  <2> QED
    BY ONLY <1>2, <2>1, l = IF pk THEN "peek" ELSE "poke" DEF States
<1>5. pk => Unseen(s, C[u.heads])
  BY ONLY <1>2, Completed(r, s, ms, mt) DEF Completed, Unseen
<1>6. ~ pk => Current(s, mt[Len(mt)], C[u.heads])
  <2> SUFFICES ASSUME ~ pk PROVE Current(s, mt[Len(mt)], C[u.heads])
    OBVIOUS
  <2>1. Len(ms) > 0 /\ Len(mt) = Len(ms) /\ Len(ms) \in 1..Len(ms)
    BY DEF Completed
  <2>2. PICK m, e : m = mt[Len(ms)] /\ e = ms[Len(ms)]
    OBVIOUS
  <2>3. Current(r, e, C[u.heads]) /\ r.state \in {"open", "DISCARDED"}
    BY <1>1, <1>2, <2>2 DEF Exact, Body, States
  <2>4. CASE r.state = "open" /\ r.concb = "content"
    <3>1. /\ m.content = e.content /\ m.policy = e.policy /\ m.ends = e.ends + 1
          /\ s.state = "COMPLETED" /\ s.concb = "none" /\ s.content = r.content
      BY <2>1, <2>2, <2>4 DEF Completed
    <3>2. Current(s, m, C[u.heads])
      BY ONLY <2>3, <2>4, <3>1 DEF Current
    <3> QED
      BY <2>1, <2>2, <3>2
  <2>5. CASE ~ (r.state = "open" /\ r.concb = "content")
    <3>1. m = e /\ s.concb = r.concb /\ s.content = r.content
          /\ s.state = IF r.state = "open" THEN "COMPLETED" ELSE r.state
      BY <2>1, <2>2, <2>5 DEF Completed
    <3>2. Current(s, m, C[u.heads])
      BY ONLY <2>3, <2>5, <3>1 DEF Current
    <3> QED
      BY <2>1, <2>2, <3>2
  <2> QED
    BY <2>4, <2>5
<1>7. \A i \in 1..Len(mt) : i < u.heads => Final(mt[i], C[i], T[i])
  <2> SUFFICES ASSUME NEW i \in 1..Len(mt), i < u.heads PROVE Final(mt[i], C[i], T[i])
    OBVIOUS
  <2>1. Len(mt) = Len(ms) /\ i \in 1..Len(ms) /\ Final(ms[i], C[i], T[i])
    BY DEF Completed, Exact
  <2>2. i # Len(ms) \/ r.concb # "content"
    <3>1. pk => r.concb = "none"
      BY ONLY <1>2 DEF Unseen
    <3>2. ~ pk => Len(ms) = u.heads
      OBVIOUS
    <3> QED
      BY <3>1, <3>2
  <2>3. mt[i] = ms[i]
    BY <2>1, <2>2 DEF Completed
  <2> QED
    BY <2>1, <2>3
<1> QED
  BY <1>1, <1>3, <1>4, <1>5, <1>6, <1>7 DEF Exact, Body

(* The message is complete.                                                *)
LEMMA CompleteExact ==
  ASSUME Known, Complete
  PROVE  ExactThen
<1>1. /\ pc = "complete" /\ CompleteContent /\ peeking' = peeking /\ ptr' = ptr /\ htrd' = htrd
      /\ pc' = IF peeking THEN "peek" ELSE "poke"
  BY DEF Complete, Goto
<1>2. Completed(re, re', seen.messages, seen'.messages)
  BY <1>1, CompleteContentDoes DEF Known
<1>3. /\ peeking \in BOOLEAN /\ Here.heads \in Nat /\ Latest \in Nat
      /\ Told(Here, pc, peeking, seen.messages)
  BY KnownTypes DEF Latest
<1>4. IsOver(Here, ptr)
  BY <1>1 DEF Known, GoodHere, Good, Place
<1>5. PICK u, l, r, s, ms, mt, C, T :
        /\ u = Here /\ l = pc' /\ r = re /\ s = re' /\ ms = seen.messages /\ mt = seen'.messages
        /\ C = ContentAt(ptr) /\ T = TrailersAt(ptr)
  OBVIOUS
<1>6. Exact(u, "complete", htrd, r, peeking, ms, C, T)
  BY <1>1, <1>5 DEF Known, ExactHere
<1>7. /\ Completed(r, s, ms, mt) /\ l = IF peeking THEN "peek" ELSE "poke"
      /\ u.mode \in InHead /\ u.heads > 0 /\ u.heads \in Nat /\ Len(ms) \in Nat
      /\ Len(ms) + (IF peeking THEN 1 ELSE 0) = u.heads
  BY <1>1, <1>2, <1>3, <1>4, <1>5 DEF IsOver, InHead, Told, Latest
<1>8. Exact(u, l, htrd, s, peeking, mt, C, T)
  BY ONLY <1>3, <1>6, <1>7, CompletedExact
<1> QED
  BY <1>1, <1>5, <1>8 DEF ExactThen, Here

(* The stream ends.                                                        *)
LEMMA HaltExact ==
  ASSUME Known, Halt
  PROVE  ExactThen
<1>1. /\ pc = "idle" /\ ptr < Len(scn.stream) /\ scn.stream[ptr + 1] = "EOF" /\ CompleteContent
      /\ ptr' = ptr + 1 /\ peeking' = FALSE /\ pc' = "poke" /\ htrd' = htrd
  BY DEF Halt
<1>t. Here \in UncutType /\ Here.heads \in Nat /\ Latest \in Nat
  BY HereType DEF Known
<1>u. scn.stream \in Seq(STRING) /\ IsUncut(scn, Uncut(scn)) /\ ptr \in Nat /\ Len(scn.stream) \in Nat
  BY UncutHere DEF Known
<1>2. Completed(re, re', seen.messages, seen'.messages)
  BY <1>1, CompleteContentDoes DEF Known
<1>3. InStep(Here, htrd, scn.stream, ptr) /\ Told(Here, "idle", peeking, seen.messages)
  BY <1>1 DEF Known, GoodHere, Good, Place
<1>4. ~ peeking /\ peeking \in BOOLEAN
  BY <1>3, KnownTypes DEF Told
<1>5. PICK v : v = Uncut(scn)[ptr + 1]
  OBVIOUS
<1>6. v = UncutStep(scn, Here, ptr + 1)
  <2>1. ptr + 1 <= Len(scn.stream)
    BY <1>1, <1>u
  <2> QED
    BY ONLY <1>5, <1>u, <2>1, OneStep DEF Here
<1>7. Here.mode = "close"
  <2>1. Here.mode \notin {"any", "refused"}
    BY <1>3 DEF InStep, InHead
  <2>2. SUFFICES ASSUME Here.mode # "close" PROVE FALSE
    OBVIOUS
  <2>3. v = Undecided(Here)
    BY <1>1, <1>t, <1>6, <2>1, <2>2, UncutFields DEF UncutStep, Modes
  <2>4. v.mode = "any"
    BY <1>t, <2>3 DEF Undecided, UncutType
  <2>5. IsOver(v, ptr')
    BY <1>1, <1>5 DEF Known, GoodThen, Good, Place
  <2> QED
    BY <2>4, <2>5 DEF IsOver
<1>8. v.mode = "head" /\ v.heads = Here.heads
  <2>1. v = EndOfMessage(Here, ptr + 1)
    BY <1>1, <1>6, <1>7 DEF UncutStep
  <2> QED
    BY <1>t, <2>1 DEF EndOfMessage, UncutType
<1>9. PartsAt({"data", "close"}, ptr') = PartsAt({"data", "close"}, ptr)
      /\ PartsAt({"TRAILERS"}, ptr') = PartsAt({"TRAILERS"}, ptr)
  <2>1. PICK q \in Nat : q = ptr + 1
    BY <1>u
  <2>2. ptr <= q /\ q <= Len(scn.stream) /\ \A k \in (ptr + 1)..q : scn.stream[k] = "EOF"
    BY <1>1, <1>u, <2>1
  <2>3. TypeInv /\ q = ptr'
    BY <1>1, <2>1 DEF Known
  <2>4. ASSUME NEW modes PROVE PartsAt(modes, q) = PartsAt(modes, ptr)
    BY ONLY <1>u, <2>2, <2>3, QuietParts, q \in Nat
  <2> QED
    BY <2>3, <2>4
<1>10. PICK u, r, s, ms, mt, C, T :
        /\ u = Here /\ r = re /\ s = re' /\ ms = seen.messages /\ mt = seen'.messages
        /\ C = ContentAt(ptr) /\ T = TrailersAt(ptr)
  OBVIOUS
<1>11. PICK pk \in BOOLEAN : pk = FALSE
  OBVIOUS
<1>12. PICK l, x : l = "poke" /\ x = htrd
  OBVIOUS
<1>13. Exact(u, "idle", x, r, pk, ms, C, T)
  BY <1>1, <1>4, <1>10, <1>11, <1>12 DEF Known, ExactHere
<1>14. u.mode = "close" /\ v.heads = u.heads /\ u.heads \in Nat /\ u.heads > 0
       /\ Len(ms) = u.heads /\ Len(ms) \in Nat
  BY <1>3, <1>4, <1>7, <1>8, <1>10, <1>t DEF Told, InHead, Latest
<1>15. Exact(v, "complete", x, r, pk, ms, C, T)
  <2>1. ~ Between(u, "idle") /\ ~ Between(v, "complete") /\ "close" \notin InHead /\ "head" \in InHead
    BY <1>14 DEF Between, InHead
  <2>2. TrailersOf(<<>>) = <<>>
    BY DEF TrailersOf
  <2>3. States("complete") = States("idle")
    BY DEF States
  <2>4. Ends(u, r, x.tra, T[u.heads]) => Ends(v, r, x.tra, T[u.heads])
    BY ONLY <1>8, <1>14, <2>1, <2>2 DEF Ends
  <2> QED
    BY ONLY <1>8, <1>13, <1>14, <2>1, <2>3, <2>4 DEF Exact, Body
<1>16. Exact(v, l, x, s, pk, mt, C, T)
  <2>1. v.mode \in InHead /\ v.heads > 0 /\ v.heads \in Nat /\ l = (IF pk THEN "peek" ELSE "poke")
        /\ Len(ms) + (IF pk THEN 1 ELSE 0) = v.heads
    BY <1>8, <1>11, <1>12, <1>14 DEF InHead
  <2>2. Completed(r, s, ms, mt)
    BY <1>2, <1>10
  <2> QED
    BY ONLY <1>14, <1>15, <2>1, <2>2, CompletedExact, pk \in BOOLEAN
<1>17. C = ContentAt(ptr') /\ T = TrailersAt(ptr')
  BY <1>9, <1>10 DEF ContentAt, TrailersAt
<1> QED
  BY <1>1, <1>5, <1>10, <1>11, <1>12, <1>16, <1>17 DEF ExactThen

Follow(ms, mt, e) ==
  /\ Len(mt) = Len(ms) + 1
  /\ \A i \in 1..Len(ms) : mt[i] = ms[i]
  /\ mt[Len(ms) + 1] = e

(* The message to be seen by a user that peeks.                            *)
Seeing(policy, r, e) ==
  /\ e.policy = policy
  /\ e.content = IF policy = "stream" THEN r.content ELSE <<>>
  /\ e.ends = IF policy = "stream" /\ r.state = "COMPLETED" THEN 1 ELSE 0

(* What such a user does to the message.                                   *)
Taking(policy, r, s) ==
  /\ s.trailers = r.trailers
  /\ policy # "discard" => s.content = r.content
  /\ s.state = IF policy = "discard" /\ r.state = "open" THEN "DISCARDED" ELSE r.state
  /\ s.concb = IF policy = "stream" /\ r.state = "open" THEN "content"
               ELSE IF policy = "upgrade" THEN "raw" ELSE r.concb

(* The user peeks at a message at hand.                                    *)
LEMMA PeekedExact ==
  ASSUME NEW u, NEW x, NEW y, NEW r, NEW s, NEW ms, NEW mt, NEW e, NEW policy, Len(ms) \in Nat,
         u.heads = Len(ms) + 1, NEW C, NEW T, NEW k, Exact(u, k, x, r, TRUE, ms, C, T),
         ~ Between(u, k), Follow(ms, mt, e), Seeing(policy, r, e), Taking(policy, r, s),
         y.tra = x.tra, y.suspended = (policy = "upgrade" \/ x.suspended),
         policy = "upgrade" => k = "peek" /\ u.mode \in InHead,
         NEW l, l = IF k = "peek" THEN "poke" ELSE "idle",
         k = "peek" \/ (k = "feedme_more" /\ u.mode \notin InHead)
  PROVE  Exact(u, l, y, s, FALSE, mt, C, T)
<1>1. ~ Between(u, l) /\ ~ x.suspended /\ r.concb # "raw"
  BY DEF Between, Exact
<1>2. Unseen(r, C[u.heads]) /\ Ends(u, r, x.tra, T[u.heads]) /\ r.state \in States(k)
  BY ONLY Exact(u, k, x, r, TRUE, ms, C, T), ~ Between(u, k) DEF Exact, Body
<1>3. y.suspended => l = "poke" /\ u.mode \in InHead
  BY <1>1
<1>4. s.concb = "raw" => y.suspended
  BY <1>1 DEF Taking
<1>5. \A i \in 1..Len(mt) : i < u.heads => Final(mt[i], C[i], T[i])
  <2> SUFFICES ASSUME NEW i \in 1..Len(mt), i < u.heads PROVE Final(mt[i], C[i], T[i])
    OBVIOUS
  <2>1. i \in 1..Len(ms)
    BY DEF Follow
  <2>2. Final(ms[i], C[i], T[i])
    BY <2>1 DEF Exact
  <2> QED
    BY <2>1, <2>2 DEF Follow
<1>6. s.state \in States(l)
  BY ONLY <1>2, Taking(policy, r, s), k \in {"peek", "feedme_more"},
          l = IF k = "peek" THEN "poke" ELSE "idle" DEF Taking, States
<1>7. Current(s, e, C[u.heads])
  BY ONLY <1>2, Taking(policy, r, s), Seeing(policy, r, e), k \in {"peek", "feedme_more"},
          policy = "upgrade" => k = "peek"
     DEF Taking, Seeing, States, Unseen, Current
<1>8. mt[Len(mt)] = e
  BY DEF Follow
<1>9. Ends(u, s, y.tra, T[u.heads])
  BY ONLY <1>2, Taking(policy, r, s), y.tra = x.tra DEF Taking, Ends
<1> QED
  BY ONLY <1>1, <1>3, <1>4, <1>5, <1>6, <1>7, <1>8, <1>9, Exact(u, k, x, r, TRUE, ms, C, T),
          l \in {"poke", "idle"} DEF Exact, Body

(* The user peeks.                                                         *)
LEMMA PeekExact ==
  ASSUME Known, NEW policy, Peek(policy)
  PROVE  ExactThen
<1>1. /\ pc \in {"peek", "feedme_more"} /\ peeking = TRUE /\ ptr' = ptr /\ peeking' = FALSE
      /\ policy = "upgrade" => re.state = "COMPLETED"
      /\ pc' = IF pc = "peek" THEN "poke" ELSE "idle"
  BY DEF Peek, PeekDone, Goto, Known, TypeInv
<1> DEFINE e == [NewlySeen EXCEPT
                 !.policy = policy,
                 !.content = IF policy = "stream" THEN re.content ELSE <<>>,
                 !.ends = IF policy = "stream" /\ re.state = "COMPLETED" THEN 1 ELSE 0]
<1>2. seen' = [seen EXCEPT !.messages = Append(@, e)]
  BY DEF Peek
<1>3. seen'.messages = Append(seen.messages, e)
  BY <1>2 DEF Known, TypeInv
<1>4. Seeing(policy, re, e) /\ DOMAIN e = {"content", "ends", "poked", "trailers", "policy"}
  BY DEF Seeing, NewlySeen
<1> HIDE DEF e
<1>5. Follow(seen.messages, seen'.messages, e)
  <2>1. MessagesOk(seen.messages)
    BY DEF Known, TypeInv
  <2> QED
    BY <1>3, <1>4, <2>1, MessageAppend DEF Follow
<1>6. Taking(policy, re, re')
  <2>1. re' = CASE policy = "stream" /\ re.state = "open" -> [re EXCEPT !.concb = "content"]
             [] policy = "discard" /\ re.state = "open" ->
                  [re EXCEPT !.state = "DISCARDED", !.content = <<>>]
             [] policy = "upgrade" -> [re EXCEPT !.concb = "raw"]
             [] OTHER -> re
    BY DEF Peek
  <2>2. DOMAIN re = {"flags", "length", "content", "trailers", "state", "concb"}
    BY DEF Known, TypeInv
  <2>3. CASE policy = "stream" /\ re.state = "open"
    BY <2>1, <2>2, <2>3 DEF Taking
  <2>4. CASE policy = "discard" /\ re.state = "open"
    BY <2>1, <2>2, <2>4 DEF Taking
  <2>5. CASE policy = "upgrade"
    BY <2>1, <2>2, <2>5 DEF Taking
  <2>6. CASE /\ ~ (policy = "stream" /\ re.state = "open")
             /\ ~ (policy = "discard" /\ re.state = "open") /\ policy # "upgrade"
    <3>1. re' = re
      BY <2>1, <2>6
    <3> QED
      BY <2>6, <3>1 DEF Taking
  <2> QED
    BY <2>3, <2>4, <2>5, <2>6
<1>7. htrd \in HtrdType
  BY DEF Known, TypeInv
<1>8. htrd'.tra = htrd.tra /\ htrd'.suspended = (policy = "upgrade" \/ htrd.suspended)
  BY <1>7 DEF Peek, HtrdType
<1>9. Told(Here, pc, TRUE, seen.messages) /\ Here.heads \in Nat /\ Latest \in Nat
  BY <1>1, KnownTypes DEF Latest
<1>10. Here.heads = Latest + 1 /\ (pc = "feedme_more" => Here.mode \notin InHead)
  BY <1>1, <1>9 DEF Told, Latest
<1>11. pc = "peek" => Here.mode \in InHead
  BY DEF Known, GoodHere, Good, Place, IsOver, InHead
<1>12. PICK u, r, s, ms, mt, C, T, l, k, x, y :
        /\ u = Here /\ r = re /\ s = re' /\ ms = seen.messages /\ mt = seen'.messages
        /\ C = ContentAt(ptr) /\ T = TrailersAt(ptr) /\ l = pc' /\ k = pc /\ x = htrd /\ y = htrd'
  OBVIOUS
<1>13. Exact(u, k, x, r, TRUE, ms, C, T)
  BY <1>1, <1>12 DEF Known, ExactHere
<1>14. ~ Between(u, k)
  BY <1>1, <1>10, <1>12 DEF Between
<1>15. policy = "upgrade" => k = "peek" /\ u.mode \in InHead
  <2>1. re.state \in States(pc)
    BY <1>12, <1>13, <1>14 DEF Exact, Body
  <2> QED
    BY <1>1, <1>11, <1>12, <2>1 DEF States
<1>16. /\ Len(ms) \in Nat /\ u.heads = Len(ms) + 1
       /\ Follow(ms, mt, e) /\ Seeing(policy, r, e) /\ Taking(policy, r, s)
       /\ y.tra = x.tra /\ y.suspended = (policy = "upgrade" \/ x.suspended)
       /\ l = IF k = "peek" THEN "poke" ELSE "idle"
  BY <1>1, <1>4, <1>5, <1>6, <1>8, <1>9, <1>10, <1>12 DEF Latest
<1>18. k = "peek" \/ (k = "feedme_more" /\ u.mode \notin InHead)
  BY <1>1, <1>10, <1>12
<1>17. Exact(u, l, y, s, FALSE, mt, C, T)
  BY ONLY <1>13, <1>14, <1>15, <1>16, <1>18, PeekedExact, Zenon
<1> QED
  BY <1>1, <1>12, <1>17 DEF ExactThen, Here

(* What is left of a message the user is poked with.                       *)
Poking(r, m, e) ==
  /\ e.policy = m.policy /\ e.ends = m.ends /\ e.trailers = r.trailers
  /\ e.content = IF m.policy = "keep" THEN r.content ELSE m.content

(* The user is poked with a message at hand.                               *)
LEMMA PokedExact ==
  ASSUME NEW u, u.mode \in InHead, NEW x, NEW r, NEW ms, NEW mt, NEW e, Len(ms) \in Nat,
         Len(ms) > 0, u.heads = Len(ms), NEW C, NEW T, Exact(u, "poke", x, r, FALSE, ms, C, T),
         Updated(ms, mt, Len(ms), e), Poking(r, ms[Len(ms)], e)
  PROVE  Exact(u, "clear", x, r, FALSE, mt, C, T)
<1>1. ~ Between(u, "poke") /\ Between(u, "clear")
  BY DEF Between
<1>2. /\ Current(r, ms[Len(ms)], C[u.heads]) /\ Ends(u, r, x.tra, T[u.heads])
      /\ r.state \in {"COMPLETED", "DISCARDED"}
  BY ONLY <1>1, Exact(u, "poke", x, r, FALSE, ms, C, T) DEF Exact, Body, States
<1>3. PICK m : m = ms[Len(ms)]
  OBVIOUS
<1>4. Final(e, C[u.heads], T[u.heads])
  <2>1. Poking(r, m, e) /\ Current(r, m, C[u.heads])
    BY <1>2, <1>3
  <2>2. r.trailers = TrailersOf(T[u.heads])
    BY <1>2 DEF Ends
  <2> QED
    BY ONLY <1>2, <2>1, <2>2 DEF Final, Poking, Current
<1>5. Rest(r, "clear")
  BY <1>2 DEF Rest, Current
<1>6. ASSUME NEW i \in 1..Len(mt) PROVE Final(mt[i], C[i], T[i])
  <2>1. Len(mt) = Len(ms) /\ mt[i] = IF i = Len(ms) THEN e ELSE ms[i]
    BY DEF Updated
  <2>2. i # Len(ms) => Final(ms[i], C[i], T[i])
    BY <2>1 DEF Exact
  <2> QED
    BY <1>4, <2>1, <2>2
<1> QED
  BY <1>1, <1>5, <1>6 DEF Exact

(* The user is poked.                                                      *)
LEMMA PokeExact ==
  ASSUME Known, NEW answer, Poke(answer)
  PROVE  ExactThen
<1>0. ~ Exempt(htrd') /\ Told(Here, pc, peeking, seen.messages) /\ Here.heads \in Nat /\ Latest \in Nat
      /\ peeking \in BOOLEAN
  BY KnownTypes DEF Latest
<1>t. htrd \in HtrdType
  BY DEF Known, TypeInv
<1>1. pc = "poke" /\ ptr' = ptr /\ peeking' = peeking /\ answer # "fail" /\ pc' = "clear"
  BY DEF Poke, Goto, Known
<1>2. answer # "connect"
  <2> SUFFICES ASSUME answer = "connect" PROVE FALSE
    OBVIOUS
  <2>1. ~ htrd.suspended /\ htrd' = [htrd EXCEPT !.dummified = TRUE]
    BY DEF Poke
  <2> QED
    BY <1>0, <1>t, <2>1 DEF Exempt, HtrdType
<1>3. re' = re /\ htrd' = htrd
  BY <1>2 DEF Poke
<1>4. ~ peeking /\ Here.mode \in InHead /\ Here.heads > 0 /\ Here.heads = Latest
  <2>1. IsOver(Here, ptr)
    BY <1>1 DEF Known, GoodHere, Good, Place
  <2> QED
    BY <1>0, <1>1, <2>1 DEF IsOver, InHead, Told, Latest
<1> DEFINE m == seen.messages[Latest]
           e == [m EXCEPT !.poked = m.poked + 1,
                    !.policy = IF answer = "fail" THEN "fail" ELSE m.policy,
                    !.trailers = re.trailers,
                    !.content = IF m.policy = "keep" THEN re.content ELSE m.content]
           mt == [seen.messages EXCEPT ![Latest] = e]
<1>5. seen'.messages = mt
  <2>1. seen' = [seen EXCEPT !.messages = mt]
    BY DEF Poke
  <2> HIDE DEF mt
  <2> QED
    BY <2>1 DEF Known, TypeInv
<1>6. MessagesOk(seen.messages) /\ DOMAIN m = {"content", "ends", "poked", "trailers", "policy"}
  BY <1>0, <1>4 DEF Known, TypeInv, MessagesOk, Latest
<1>7. DOMAIN e = {"content", "ends", "poked", "trailers", "policy"} /\ Poking(re, m, e)
  <2> HIDE DEF m
  <2> QED
    BY <1>1, <1>6 DEF Poking
<1> HIDE DEF e
<1>8. Updated(seen.messages, mt, Latest, e)
  BY ONLY <1>6, <1>7, MessageUpdate, Zenon
<1> HIDE DEF mt
<1>9. PICK u, r, ms, C, T, x :
        /\ u = Here /\ r = re /\ ms = seen.messages
        /\ C = ContentAt(ptr) /\ T = TrailersAt(ptr) /\ x = htrd
  OBVIOUS
<1>10. Exact(u, "poke", x, r, FALSE, ms, C, T)
  <2>1. peeking = FALSE
    BY <1>0, <1>4
  <2> QED
    BY <1>1, <1>9, <2>1 DEF Known, ExactHere
<1>11. /\ u.mode \in InHead /\ Len(ms) \in Nat /\ Len(ms) > 0 /\ u.heads = Len(ms)
       /\ Updated(ms, mt, Len(ms), e) /\ Poking(r, ms[Len(ms)], e)
  BY <1>0, <1>4, <1>7, <1>8, <1>9 DEF Latest
<1>12. Exact(u, "clear", x, r, FALSE, mt, C, T)
  BY ONLY <1>10, <1>11, PokedExact, Zenon
<1>13. peeking' = FALSE
  BY <1>0, <1>1, <1>4
<1> QED
  BY <1>1, <1>3, <1>5, <1>9, <1>12, <1>13 DEF ExactThen, Here

-----------------------------------------------------------------------------
(* Reading the framing.                                                    *)

(* Reading on in a message, without its content, is not the end of it      *)
(* before the label at which it is complete.                               *)
LEMMA NotOver ==
  ASSUME NEW u, NEW v, NEW k, NEW l, NEW pk \in BOOLEAN, NEW ms, NEW mt, Len(ms) \in Nat,
         Told(u, k, pk, ms), Told(v, l, pk, mt), SamePokes(ms, mt), u.mode \notin InHead,
         u.heads \in Nat, l \notin {"complete", "peek", "poke"}
  PROVE  v.heads = u.heads /\ v.mode \notin InHead
<1>1. v.heads = u.heads /\ Len(mt) = Len(ms) /\ u.heads > 0
  BY DEF Told, SamePokes
<1>2. CASE pk
  BY <1>1, <1>2 DEF Told
<1>3. CASE ~ pk
  <2>1. Len(ms) = u.heads /\ Len(ms) \in 1..Len(ms)
    BY <1>1, <1>3 DEF Told
  <2>2. ms[Len(ms)].poked = 0 /\ mt[Len(ms)].poked = 0
    BY <1>1, <2>1 DEF Told, SamePokes
  <2>3. v.mode \in InHead => mt[Len(ms)].poked = 1
    BY <1>1, <2>1 DEF Told
  <2> QED
    BY <1>1, <2>2, <2>3
<1> QED
  BY <1>2, <1>3

(* Reading on, but neither content nor trailers.                           *)
LEMMA ReadOn ==
  ASSUME NEW u, NEW v, NEW k, NEW l, NEW x, NEW y, NEW r, NEW pk, NEW ms, NEW C, NEW T,
         Exact(u, k, x, r, pk, ms, C, T), u.mode \notin InHead, u.mode # "TRAILERS",
         v.heads = u.heads, l = "complete" \/ v.mode \notin InHead,
         k \notin {"peek", "poke"}, l \notin {"peek", "poke"},
         v.mode = "TRAILERS" => y.tra = <<>>, y.suspended = x.suspended
  PROVE  Exact(v, l, y, r, pk, ms, C, T)
<1>1. ~ Between(u, k) /\ ~ Between(v, l) /\ States(k) = States(l)
  BY DEF Between, States
<1>2. ~ y.suspended
  BY DEF Exact
<1>3. TrailersOf(<<>>) = <<>>
  BY DEF TrailersOf
<1>4. Ends(v, r, y.tra, T[v.heads])
  <2>1. Ends(u, r, x.tra, T[u.heads])
    BY <1>1 DEF Exact
  <2> QED
    BY ONLY <1>3, <2>1, u.mode \notin InHead, u.mode # "TRAILERS", v.heads = u.heads,
            v.mode = "TRAILERS" => y.tra = <<>>
       DEF Ends
<1> QED
  BY ONLY <1>1, <1>2, <1>4, Exact(u, k, x, r, pk, ms, C, T), v.heads = u.heads,
          u.mode \notin InHead, y.suspended = x.suspended DEF Exact, Body

(* So it is with the reader.                                               *)
LEMMA FramingExact ==
  ASSUME Known, Here.mode \notin InHead, Here.mode # "TRAILERS", pc \notin {"peek", "poke"},
         pc' \notin {"peek", "poke"}, seen' = seen, re' = re, peeking' = peeking,
         htrd'.tra = <<>>, htrd'.suspended = htrd.suspended,
         ptr <= ptr', \A k \in (ptr + 1)..ptr' : Uncut(scn)[k - 1].mode \notin {"data", "close", "TRAILERS"}
  PROVE  ExactThen
<1>1. /\ peeking \in BOOLEAN /\ Here.heads \in Nat /\ Latest \in Nat
      /\ Told(Here, pc, peeking, seen.messages)
      /\ Told(Uncut(scn)[ptr'], pc', peeking, seen.messages)
  BY KnownTypes DEF Latest
<1>u. scn.stream \in Seq(STRING) /\ Len(scn.stream) \in Nat /\ ptr \in Nat /\ ptr' \in Nat
      /\ ptr' <= Len(scn.stream)
  <2>1. scn.stream \in Seq(STRING) /\ Len(scn.stream) \in Nat /\ ptr \in Nat
    BY UncutHere DEF Known
  <2>2. ptr' \in Nat /\ end' \in Nat /\ ptr' <= end' /\ end' <= Len(scn.stream)
    BY DEF Known, TypeInv, Positions
  <2> QED
    BY <2>1, <2>2
<1>2. ContentAt(ptr') = ContentAt(ptr) /\ TrailersAt(ptr') = TrailersAt(ptr)
  <2>1. PICK q \in Nat : q = ptr'
    BY <1>u
  <2>2. /\ ptr <= q /\ q <= Len(scn.stream)
        /\ \A k \in (ptr + 1)..q : Uncut(scn)[k - 1].mode \notin {"data", "close", "TRAILERS"}
    BY <1>u, <2>1
  <2>3. TypeInv
    BY DEF Known
  <2>4. \A k \in (ptr + 1)..q : Uncut(scn)[k - 1].mode \notin {"data", "close"}
                                /\ Uncut(scn)[k - 1].mode \notin {"TRAILERS"}
    BY <2>2
  <2>5. PartsAt({"data", "close"}, q) = PartsAt({"data", "close"}, ptr)
    BY ONLY <1>u, <2>2, <2>3, <2>4, QuietParts, q \in Nat
  <2>6. PartsAt({"TRAILERS"}, q) = PartsAt({"TRAILERS"}, ptr)
    BY ONLY <1>u, <2>2, <2>3, <2>4, QuietParts, q \in Nat
  <2> QED
    BY <2>1, <2>5, <2>6 DEF ContentAt, TrailersAt
<1>3. SamePokes(seen.messages, seen.messages)
  BY DEF SamePokes
<1>4. PICK u, v, l, k, r, ms, C, T, x, y :
        /\ u = Here /\ v = Uncut(scn)[ptr'] /\ l = pc' /\ k = pc /\ r = re /\ ms = seen.messages
        /\ C = ContentAt(ptr) /\ T = TrailersAt(ptr) /\ x = htrd /\ y = htrd'
  OBVIOUS
<1>5. Exact(u, k, x, r, peeking, ms, C, T)
  BY <1>4 DEF Known, ExactHere
<1>6. v.heads = u.heads
  BY <1>1, <1>4 DEF Told
<1>7. l = "complete" \/ v.mode \notin InHead
  <2>1. /\ Told(u, k, peeking, ms) /\ Told(v, l, peeking, ms) /\ SamePokes(ms, ms)
        /\ u.mode \notin InHead /\ u.heads \in Nat /\ Len(ms) \in Nat /\ l \notin {"peek", "poke"}
    BY <1>1, <1>3, <1>4 DEF Latest
  <2> QED
    BY ONLY <1>1, <2>1, NotOver
<1>8. Exact(v, l, y, r, peeking, ms, C, T)
  <2>1. /\ u.mode \notin InHead /\ u.mode # "TRAILERS" /\ k \notin {"peek", "poke"}
        /\ l \notin {"peek", "poke"} /\ y.tra = <<>> /\ y.suspended = x.suspended
    BY <1>4
  <2> QED
    BY ONLY <1>5, <1>6, <1>7, <2>1, ReadOn
<1> QED
  BY <1>2, <1>4, <1>8 DEF ExactThen

(* The end of a chunk is read.                                             *)
LEMMA EndChunkExact ==
  ASSUME Known, EndChunk
  PROVE  ExactThen
<1>0. scn.stream \in Seq(STRING) /\ IsUncut(scn, Uncut(scn)) /\ Len(scn.stream) \in Nat
      /\ ptr \in Nat /\ end \in Nat /\ ptr <= end /\ end <= Len(scn.stream)
  BY UncutHere DEF Known
<1>t. Here \in UncutType /\ htrd \in HtrdType
  BY HereType DEF Known
<1> DEFINE stop == Skip(is_space_octet, ptr)
<1>1. /\ stop \in ptr..end /\ stop \in Nat
      /\ \A k \in (ptr + 1)..stop : scn.stream[k] \in is_space_octet
  BY <1>0, SkipDef
<1> HIDE DEF stop
<1>2. /\ pc = "dechunk_crlf" /\ peeking' = peeking /\ seen' = seen /\ re' = re
      /\ \/ ptr' = stop /\ pc' = "feedme_more" /\ htrd' = htrd
         \/ ptr' = stop + 1 /\ htrd' = NewChunk(htrd) /\ pc' \in {"dechunk_resume", "feedme_more"}
  BY Zenon DEF EndChunk, Goto, stop, Known
<1>3. Here.mode = "CRLF" /\ InStep(Here, htrd, scn.stream, ptr)
  BY <1>2, InMessage DEF Known, GoodHere
<1>4. AtCrlf(htrd)
  BY <1>3 DEF InStep, InHead
<1>5. htrd'.tra = <<>> /\ htrd'.suspended = htrd.suspended
  BY <1>2, <1>4, <1>t DEF AtCrlf, NewChunk, HtrdType
<1>6. pc' \in {"feedme_more", "dechunk_resume"}
  BY <1>2
<1>7. ASSUME NEW k \in ptr..stop PROVE Uncut(scn)[k].mode = "CRLF"
  <2>1. k \in Nat /\ ptr <= k /\ k <= Len(scn.stream) /\ \A j \in (ptr + 1)..k : j \in (ptr + 1)..stop
    BY ONLY <1>0, <1>1, k \in ptr..stop
  <2>2. \A j \in (ptr + 1)..k : scn.stream[j] \in is_space_octet
    BY <1>1, <2>1
  <2>3. Uncut(scn)[k] = Here
    BY ONLY <1>0, <1>3, <2>1, <2>2, SpaceRun DEF Here
  <2> QED
    BY <1>3, <2>3
<1>8. ptr <= ptr' /\ \A k \in (ptr + 1)..ptr' : k - 1 \in ptr..stop
  <2>1. PICK q : q = ptr'
    OBVIOUS
  <2>2. q = stop \/ q = stop + 1
    BY <1>2, <2>1
  <2>3. ptr <= q /\ \A k \in (ptr + 1)..q : k - 1 \in ptr..stop
    BY ONLY <1>0, <1>1, <2>2
  <2> QED
    BY <2>1, <2>3
<1>9. \A k \in (ptr + 1)..ptr' : Uncut(scn)[k - 1].mode \notin {"data", "close", "TRAILERS"}
  BY ONLY <1>7, <1>8
<1>10. Here.mode \notin InHead /\ Here.mode # "TRAILERS"
  BY <1>3 DEF InHead
<1> QED
  BY <1>2, <1>5, <1>6, <1>8, <1>9, <1>10, FramingExact

(* The characters of the length of a chunk.                                *)
LEMMA LengthRun ==
  ASSUME NEW s, s.stream \in Seq(STRING), NEW u, IsUncut(s, u),
         NEW p \in Nat, NEW q \in Nat, p <= q, q <= Len(s.stream), u[p].mode \in {"LEN", "LENSP"},
         \A k \in (p + 1)..q : s.stream[k] \in xdigit \union is_space_octet
  PROVE  \A k \in p..q : u[k].mode \in {"LEN", "LENSP", "any"}
<1> DEFINE S == {k \in p..q : u[k].mode \in {"LEN", "LENSP", "any"}}
<1>1. p \in S
  OBVIOUS
<1>2. ASSUME NEW k \in (p + 1)..q, k - 1 \in S PROVE k \in S
  <2>1. PICK j \in Nat : j = k - 1
    OBVIOUS
  <2>2. k = j + 1 /\ k \in p..q /\ j + 1 <= Len(s.stream) /\ j \in 0..Len(s.stream)
    BY <2>1
  <2>3. u[k] = UncutStep(s, u[j], k)
    BY ONLY <2>2, OneStep, s.stream \in Seq(STRING), IsUncut(s, u), j \in Nat
  <2>4. u[j].mode \in {"LEN", "LENSP", "any"}
    BY <1>2, <2>1
  <2>5. u[j] \in UncutType
    BY <2>2 DEF IsUncut
  <2>6. CASE u[j].mode = "any"
    <3>1. u[k] = u[j]
      BY ONLY <2>3, <2>6 DEF UncutStep
    <3> QED
      BY <2>2, <2>6, <3>1
  <2>7. CASE u[j].mode \in {"LEN", "LENSP"}
    <3>1. s.stream[k] \in xdigit \union is_space_octet
      OBVIOUS
    <3>2. s.stream[k] \notin {"EOF", "LF"} /\ (s.stream[k] \in xdigit => s.stream[k] \notin is_space_octet)
      BY ONLY <3>1 DEF xdigit, is_space_octet
    <3>3. u[k] = UncutLen(u[j], s.stream[k], k)
      BY ONLY <2>3, <2>7, <3>2 DEF UncutStep
    <3>4. CASE s.stream[k] \in xdigit
      <4>1. u[k] = IF u[j].mode = "LEN"
                   THEN [u[j] EXCEPT !.count = @ + 1, !.len = AddDigit(@, s.stream[k])]
                   ELSE Undecided(u[j])
        BY ONLY <3>2, <3>3, <3>4 DEF UncutLen
      <4>2. u[k].mode \in {"LEN", "any"}
        BY ONLY <2>5, <4>1 DEF Undecided, UncutType
      <4> QED
        BY <2>2, <4>2
    <3>5. CASE s.stream[k] \in is_space_octet
      <4>1. u[k] = IF u[j].count = 0 THEN u[j] ELSE [u[j] EXCEPT !.mode = "LENSP"]
        BY ONLY <3>2, <3>3, <3>5 DEF UncutLen
      <4>2. u[k].mode \in {"LEN", "LENSP"}
        BY ONLY <2>5, <2>7, <4>1 DEF UncutType
      <4> QED
        BY <2>2, <4>2
    <3> QED
      BY <3>1, <3>4, <3>5
  <2> QED
    BY <2>4, <2>6, <2>7
<1> HIDE DEF S
<1>3. \A k \in p..q : k \in S
  BY <1>1, <1>2, Along
<1> QED
  BY <1>3 DEF S

(* The length of a chunk is read.                                          *)
LEMMA GetChunkLenExact ==
  ASSUME Known, GetChunkLen
  PROVE  ExactThen
<1>0. scn.stream \in Seq(STRING) /\ IsUncut(scn, Uncut(scn)) /\ Len(scn.stream) \in Nat
      /\ ptr \in Nat /\ end \in Nat /\ ptr <= end /\ end <= Len(scn.stream)
  BY UncutHere DEF Known
<1>t. Here \in UncutType /\ htrd \in HtrdType
  BY HereType DEF Known
<1> DEFINE first == IF htrd.count = 0 THEN Skip(is_space_octet, ptr) ELSE ptr
           lst == Skip(xdigit, first)
           stop == Skip(is_space_octet, lst)
           x == [htrd EXCEPT !.len = ChunkLen(first, lst), !.count = @ + (lst - first)]
           phase == CASE x.count = 0 -> "DONE"
                      [] x.count > 0 /\ x.len = 0 -> "TRAILERS"
                      [] x.count > 0 /\ x.len > 0 -> "DATA"
<1>1. first \in ptr..end /\ first \in Nat
      /\ \A k \in (ptr + 1)..first : scn.stream[k] \in is_space_octet
  <2>1. CASE htrd.count = 0
    BY <1>0, <2>1, SkipDef
  <2>2. CASE htrd.count # 0
    <3>1. first = ptr
      BY <2>2
    <3> QED
      BY ONLY <1>0, <3>1
  <2> QED
    BY <2>1, <2>2
<1> HIDE DEF first
<1>2. lst \in first..end /\ lst \in Nat
      /\ \A k \in (first + 1)..lst : scn.stream[k] \in xdigit
  <2>1. first <= end
    BY ONLY <1>0, <1>1
  <2> QED
    BY <1>0, <1>1, <2>1, SkipDef
<1> HIDE DEF lst
<1>3. stop \in lst..end /\ stop \in Nat
      /\ \A k \in (lst + 1)..stop : scn.stream[k] \in is_space_octet
  <2>1. lst <= end
    BY ONLY <1>0, <1>2
  <2> QED
    BY <1>0, <1>2, <2>1, SkipDef
<1> HIDE DEF stop
<1>4. x.tra = htrd.tra /\ x.suspended = htrd.suspended
  BY ONLY <1>t DEF HtrdType
<1>x. x \in HtrdType
  <2>1. ChunkLen(first, lst) \in Nat
    <3>0. htrd.len \in Nat
      BY <1>t, HtrdUpdates
    <3>1. first <= lst /\ lst \in first..lst
      BY ONLY <1>1, <1>2
    <3>2. PICK f : /\ f[first] = htrd.len /\ ChunkLen(first, lst) = f[lst]
                   /\ \A p \in first..lst : f[p] \in Nat
                   /\ \A p \in (first + 1)..lst : f[p] = AddDigit(f[p - 1], scn.stream[p])
      BY ONLY <3>0, <1>1, <1>2, <3>1, ChunkLenDef
    <3> QED
      BY ONLY <3>1, <3>2
  <2>2. htrd.count + (lst - first) \in Nat
    <3>1. htrd.count \in Nat
      BY <1>t, HtrdUpdates
    <3> QED
      BY ONLY <1>1, <1>2, <3>1
  <2> QED
    BY ONLY <1>t, <2>1, <2>2 DEF HtrdType, x
<1> HIDE DEF x
<1>5. /\ pc = "dechunk_resume" /\ peeking' = peeking /\ seen' = seen /\ re' = re
      /\ \/ htrd' = x /\ ptr' = stop /\ pc' = "feedme_more"
         \/ /\ ptr' = stop + 1
            /\ htrd' = [x EXCEPT !.phase = phase, !.need = x.len,
                                 !.crlf = IF phase = "TRAILERS" THEN 2 ELSE @]
            /\ pc' = CASE phase = "DONE" -> "complete"
                       [] phase = "TRAILERS" -> "dechunk_get_trailers"
                       [] phase = "DATA" -> "content_resume"
  BY Zenon DEF GetChunkLen, Goto, first, lst, stop, x, Known
<1>6. Here.mode \in {"LEN", "LENSP"} /\ InStep(Here, htrd, scn.stream, ptr)
  BY <1>5, InMessage DEF Known, GoodHere
<1>7. AtLen(Here, htrd)
  BY <1>6 DEF InStep, InHead
<1>8. htrd'.tra = <<>> /\ htrd'.suspended = htrd.suspended
  <2>1. htrd'.tra = x.tra /\ htrd'.suspended = x.suspended
    <3> HIDE DEF phase
    <3> QED
      BY ONLY <1>5, <1>x DEF HtrdType
  <2> QED
    BY ONLY <1>4, <1>7, <2>1 DEF AtLen
<1>9. pc' \notin {"peek", "poke"}
  <2>2. x.len \in Nat /\ x.count \in Nat
    BY ONLY <1>x, HtrdUpdates
  <2>3. phase \in {"DONE", "TRAILERS", "DATA"}
    BY ONLY <2>2
  <2> HIDE DEF phase
  <2> QED
    BY ONLY <1>5, <2>3
<1>10. \A k \in ptr..stop : Uncut(scn)[k].mode \in {"LEN", "LENSP", "any"}
  <2>1. ptr <= stop /\ stop <= Len(scn.stream)
    BY ONLY <1>0, <1>1, <1>2, <1>3
  <2>2. \A k \in (ptr + 1)..stop : scn.stream[k] \in xdigit \union is_space_octet
    <3> SUFFICES ASSUME NEW k \in (ptr + 1)..stop PROVE scn.stream[k] \in xdigit \union is_space_octet
      OBVIOUS
    <3>1. k \in (ptr + 1)..first \/ k \in (first + 1)..lst \/ k \in (lst + 1)..stop
      BY ONLY <1>0, <1>1, <1>2, <1>3, k \in (ptr + 1)..stop
    <3> QED
      BY ONLY <1>1, <1>2, <1>3, <3>1
  <2> QED
    BY ONLY <1>0, <1>3, <1>6, <2>1, <2>2, LengthRun DEF Here
<1>11. ptr <= ptr' /\ \A k \in (ptr + 1)..ptr' : k - 1 \in ptr..stop
  <2>1. PICK q : q = ptr'
    OBVIOUS
  <2>2. q = stop \/ q = stop + 1
    BY ONLY <1>5, <2>1
  <2>3. ptr <= q /\ \A k \in (ptr + 1)..q : k - 1 \in ptr..stop
    BY ONLY <1>0, <1>1, <1>2, <1>3, <2>2
  <2> QED
    BY <2>1, <2>3
<1>12. \A k \in (ptr + 1)..ptr' : Uncut(scn)[k - 1].mode \notin {"data", "close", "TRAILERS"}
  BY ONLY <1>10, <1>11
<1>13. Here.mode \notin InHead /\ Here.mode # "TRAILERS"
  BY <1>6 DEF InHead
<1> QED
  BY <1>5, <1>8, <1>9, <1>11, <1>12, <1>13, FramingExact

-----------------------------------------------------------------------------
(* Reading heads and trailers.                                             *)

(* The places before the end of a head.                                    *)
LEMMA HeadRun ==
  ASSUME TypeInv, Here.mode \in InHead, Here.mode = "head" => htrd.crlf = Here.crlf, ~ HasNull,
         NEW k \in ptr..EmptyLine, k < EmptyLine \/ Crlf[k] \in 0..3
  PROVE  /\ Uncut(scn)[k].mode \in {"head", "none", "any"}
         /\ Here.mode = "head" => Uncut(scn)[k].mode = "head"
         /\ Here.mode = "none" /\ ptr < k => Uncut(scn)[k].mode = "any"
<1>0. scn.stream \in Seq(STRING) /\ IsUncut(scn, Uncut(scn)) /\ Len(scn.stream) \in Nat
      /\ ptr \in Nat /\ end \in Nat /\ ptr <= end /\ end <= Len(scn.stream)
  BY UncutHere
<1>e. /\ EmptyLine \in ptr..end /\ EmptyLine \in Nat
      /\ \A j \in ptr..end : j < EmptyLine => Crlf[j] \in 0..3
  BY EmptyLineDef
<1>k. k \in ptr..end /\ k \in Nat /\ k <= Len(scn.stream) /\ k <= EmptyLine /\ ptr <= k
  BY ONLY <1>0, <1>e, k \in ptr..EmptyLine
<1>1. CASE Here.mode = "head"
  <2>1. \A j \in ptr..k : Crlf[j] \in 0..3
    <3> SUFFICES ASSUME NEW j \in ptr..k PROVE Crlf[j] \in 0..3
      OBVIOUS
    <3>1. j = k \/ (j < EmptyLine /\ j \in ptr..end)
      BY ONLY <1>0, <1>e, <1>k, j \in ptr..k
    <3>2. k < EmptyLine => Crlf[k] \in 0..3
      BY ONLY <1>e, <1>k
    <3> QED
      BY ONLY <1>e, <3>1, <3>2, k < EmptyLine \/ Crlf[k] \in 0..3
  <2>2. \A j \in (ptr + 1)..k : scn.stream[j] # "NUL"
    <3>1. \A j \in (ptr + 1)..k : j \in (ptr + 1)..EmptyLine
      BY ONLY <1>0, <1>e, <1>k
    <3> QED
      BY <3>1, HasNullDef
  <2>3. Uncut(scn)[k].mode = Here.mode
    BY <1>1, <1>k, <2>1, <2>2, LinesHere
  <2> QED
    BY <1>1, <2>3
<1>2. CASE Here.mode = "none"
  <2>1. CASE k = ptr
    BY <1>2, <2>1 DEF Here
  <2>2. CASE k # ptr
    <3>1. ptr < k
      BY ONLY <1>0, <1>k, <2>2
    <3>2. Uncut(scn)[k].mode = "any"
      BY ONLY <1>0, <1>2, <1>k, <3>1, BehindNone DEF Here
    <3> QED
      BY <1>2, <3>2
  <2> QED
    BY <2>1, <2>2
<1> QED
  BY <1>1, <1>2 DEF InHead

(* Nothing is added to content or trailers up to a position.               *)
LEMMA QuietBoth ==
  ASSUME TypeInv, NEW q \in Nat, ptr <= q, q <= end,
         \A k \in (ptr + 1)..q : Uncut(scn)[k - 1].mode \notin {"data", "close", "TRAILERS"}
  PROVE  ContentAt(q) = ContentAt(ptr) /\ TrailersAt(q) = TrailersAt(ptr)
<1>0. scn.stream \in Seq(STRING) /\ Len(scn.stream) \in Nat /\ ptr \in Nat /\ end \in Nat
      /\ end <= Len(scn.stream)
  BY UncutHere
<1>1. q <= Len(scn.stream)
  BY ONLY <1>0, q \in Nat, q <= end
<1>2. \A k \in (ptr + 1)..q : Uncut(scn)[k - 1].mode \notin {"data", "close"}
                              /\ Uncut(scn)[k - 1].mode \notin {"TRAILERS"}
  OBVIOUS
<1>3. PartsAt({"data", "close"}, q) = PartsAt({"data", "close"}, ptr)
  BY ONLY <1>0, <1>1, <1>2, QuietParts, TypeInv, q \in Nat, ptr <= q
<1>4. PartsAt({"TRAILERS"}, q) = PartsAt({"TRAILERS"}, ptr)
  BY ONLY <1>0, <1>1, <1>2, QuietParts, TypeInv, q \in Nat, ptr <= q
<1> QED
  BY <1>3, <1>4 DEF ContentAt, TrailersAt

(* The reader between two messages.                                        *)
LEMMA HeadsKnown ==
  ASSUME Known, pc = "header"
  PROVE  /\ Here.mode \in InHead /\ (Here.mode = "head" => htrd.crlf = Here.crlf)
         /\ ~ peeking /\ ~ htrd.suspended /\ req = ptr /\ ptr < end
<1>1. InStep(Here, htrd, scn.stream, ptr) /\ Here.mode \in InHead /\ req = ptr /\ ptr < end
  BY InMessage DEF Known, GoodHere
<1>2. Here.mode = "head" => htrd.crlf = Here.crlf
  BY <1>1 DEF InStep, InHead, AtHead
<1>3. ~ peeking
  BY KnownTypes DEF Told
<1>4. ~ htrd.suspended
  <2>1. Exact(Here, "header", htrd, re, peeking, seen.messages, ContentAt(ptr), TrailersAt(ptr))
    BY DEF Known, ExactHere
  <2> QED
    BY ONLY <2>1 DEF Exact
<1> QED
  BY <1>1, <1>2, <1>3, <1>4

(* A part of a head is read.                                               *)
LEMMA ReadPartOfHeadExact ==
  ASSUME Known, ReadPartOfHead
  PROVE  ExactThen
<1>0. ptr \in Nat /\ end \in Nat /\ ptr <= end
  BY UncutHere DEF Known
<1>i. TypeInv
  BY DEF Known
<1>t. htrd \in HtrdType
  BY DEF Known, TypeInv
<1>1. /\ pc = "header" /\ ~ HasNull /\ Crlf[end] < 4
      /\ htrd' = [htrd EXCEPT !.crlf = Crlf[end], !.raw = htrd.raw \o Octets(req, end)]
      /\ ptr' = end /\ pc' = "feedme_more" /\ peeking' = peeking /\ seen' = seen /\ re' = re
  BY DEF ReadPartOfHead, Goto
<1>2. /\ Here.mode \in InHead /\ (Here.mode = "head" => htrd.crlf = Here.crlf)
      /\ ~ peeking /\ ~ htrd.suspended /\ ptr < end
  BY <1>1, HeadsKnown
<1>3. EmptyLine = end /\ Crlf[end] \in 0..3
  <2>1. EmptyLine = end /\ Crlf[end] \in 0..4
    BY <1>1, <1>i, EmptyLineDef
  <2> QED
    BY ONLY <1>1, <2>1
<1>4. ASSUME NEW k \in ptr..end
      PROVE  /\ Uncut(scn)[k].mode \in {"head", "none", "any"}
             /\ Here.mode = "head" => Uncut(scn)[k].mode = "head"
             /\ Here.mode = "none" /\ ptr < k => Uncut(scn)[k].mode = "any"
  <2>1. k \in ptr..EmptyLine /\ (k < EmptyLine \/ Crlf[k] \in 0..3)
    <3>1. k = end \/ k < end
      BY ONLY <1>0, k \in ptr..end
    <3> QED
      BY <1>3, <3>1
  <2> QED
    BY <1>1, <1>2, <1>i, <2>1, HeadRun
<1>5. ContentAt(end) = ContentAt(ptr) /\ TrailersAt(end) = TrailersAt(ptr)
  <2>1. ASSUME NEW k \in (ptr + 1)..end
        PROVE  Uncut(scn)[k - 1].mode \notin {"data", "close", "TRAILERS"}
    <3>1. PICK j : j = k - 1
      OBVIOUS
    <3>2. j \in ptr..end
      BY ONLY <1>0, <3>1, k \in (ptr + 1)..end
    <3>3. Uncut(scn)[j].mode \in {"head", "none", "any"}
      BY <1>4, <3>2
    <3> QED
      BY <3>1, <3>3
  <2>2. end <= end
    BY <1>0
  <2> QED
    BY ONLY <1>0, <1>i, <2>1, <2>2, QuietBoth
<1>6. PICK v : v = Uncut(scn)[ptr']
  OBVIOUS
<1>7. v.mode \in InHead
  <2>1. end \in ptr..end /\ v = Uncut(scn)[end]
    BY <1>0, <1>1, <1>6
  <2>2. InStep(v, htrd', scn.stream, ptr')
    BY <1>1, <1>6 DEF Known, GoodThen, Good, Place
  <2>3. v.mode # "any"
    BY <2>2 DEF InStep, InHead
  <2> QED
    BY <1>4, <2>1, <2>3 DEF InHead
<1>8. v.heads = Here.heads /\ peeking \in BOOLEAN
  <2>1. /\ Told(Here, pc, peeking, seen.messages) /\ peeking \in BOOLEAN
        /\ Told(v, pc', peeking, seen.messages)
    BY <1>1, <1>6, KnownTypes
  <2>2. PICK pk \in BOOLEAN : pk = peeking
    BY <2>1
  <2>3. PICK u, ms, k, l : u = Here /\ ms = seen.messages /\ k = pc /\ l = pc'
    OBVIOUS
  <2>4. Told(u, k, pk, ms) /\ Told(v, l, pk, ms)
    BY <2>1, <2>2, <2>3
  <2>5. v.heads = u.heads
    BY ONLY <2>4 DEF Told
  <2> QED
    BY <2>1, <2>3, <2>5
<1>9. htrd'.suspended = htrd.suspended
  BY <1>1, <1>t DEF HtrdType
<1>10. PICK u, r, ms, C, T, x, y :
        /\ u = Here /\ r = re /\ ms = seen.messages
        /\ C = ContentAt(ptr) /\ T = TrailersAt(ptr) /\ x = htrd /\ y = htrd'
  OBVIOUS
<1>11. Exact(u, "header", x, r, peeking, ms, C, T)
  BY <1>1, <1>10 DEF Known, ExactHere
<1>12. Exact(v, "feedme_more", y, r, peeking, ms, C, T)
  <2>1. u.mode \in InHead /\ v.mode \in InHead /\ v.heads = u.heads /\ ~ x.suspended /\ ~ y.suspended
    BY <1>2, <1>7, <1>8, <1>9, <1>10
  <2>2. Between(u, "header") /\ Between(v, "feedme_more")
    BY ONLY <2>1 DEF Between
  <2> QED
    BY ONLY <1>11, <2>1, <2>2 DEF Exact, Rest
<1> QED
  BY <1>1, <1>5, <1>6, <1>10, <1>12 DEF ExactThen

(* A message is begun, from a state between two messages.                  *)
LEMMA BegunExact ==
  ASSUME NEW u, NEW v, NEW l, NEW x, NEW y, NEW r, NEW s, NEW pk, NEW ms, NEW C, NEW T,
         Exact(u, "header", x, r, pk, ms, C, T), u.mode \in InHead, u.heads \in Nat,
         v.heads = u.heads + 1, l = "complete" \/ v.mode \notin InHead, v.mode # "TRAILERS",
         l \in {"complete", "dechunk_resume", "content_resume"}, Len(ms) \in Nat, Len(ms) <= u.heads,
         ~ x.suspended, ~ y.suspended, r.concb \in {"none", "content", "raw"},
         s.concb = r.concb, s.state = r.state, s.content = r.content, s.trailers = r.trailers
  PROVE  Exact(v, l, y, s, TRUE, ms, C, T)
<1>1. Between(u, "header") /\ ~ Between(v, l)
  BY DEF Between
<1>2. r.concb = "none" /\ r.state = "open" /\ r.content = <<>> /\ r.trailers = <<>>
  BY <1>1 DEF Exact, Rest
<1>3. C[v.heads] = <<>> /\ T[v.heads] = <<>>
  <2>1. PICK h \in Nat : h = v.heads /\ h > u.heads
    BY ONLY u.heads \in Nat, v.heads = u.heads + 1
  <2> QED
    BY <2>1 DEF Exact
<1>4. TrailersOf(<<>>) = <<>>
  BY DEF TrailersOf
<1>5. Body(l, s, TRUE, ms, C[v.heads])
  BY ONLY <1>2, <1>3, l \in {"complete", "dechunk_resume", "content_resume"},
          s.concb = r.concb, s.state = r.state, s.content = r.content DEF Body, Unseen, States
<1>6. Ends(v, s, y.tra, T[v.heads])
  BY ONLY <1>2, <1>3, <1>4, s.trailers = r.trailers, v.mode # "TRAILERS" DEF Ends
<1>7. \A i \in Nat : i > v.heads => C[i] = <<>> /\ T[i] = <<>>
  BY DEF Exact
<1>8. \A i \in 1..Len(ms) : Final(ms[i], C[i], T[i])
  BY <1>1 DEF Exact
<1> QED
  BY ONLY <1>1, <1>2, <1>5, <1>6, <1>7, <1>8, ~ y.suspended, s.concb = r.concb DEF Exact

(* A head is read.                                                         *)
LEMMA ReadHeadExact ==
  ASSUME Known, scn.option # "peekonly", ReadHead
  PROVE  ExactThen
<1>0. scn.stream \in Seq(STRING) /\ IsUncut(scn, Uncut(scn)) /\ Len(scn.stream) \in Nat
      /\ ptr \in Nat /\ end \in Nat /\ ptr <= end /\ end <= Len(scn.stream)
  BY UncutHere DEF Known
<1>i. TypeInv
  BY DEF Known
<1>t. htrd \in HtrdType /\ DOMAIN re = {"flags", "length", "content", "trailers", "state", "concb"}
      /\ re.concb \in {"none", "content", "raw"}
  BY DEF Known, TypeInv
<1> DEFINE x == [htrd EXCEPT !.crlf = 0, !.raw = Raw]
           h == parse_initial_line_and_headers(scn.option, Raw)
           fr == Framing(scn.option, h)
<1>1. /\ pc = "header" /\ ~ HasNull /\ Crlf[end] = 4 /\ seen' = seen
      /\ re' = [re EXCEPT !.flags = h.flags, !.length = h.length]
      /\ ptr' = (IF fr = "none" THEN end ELSE EmptyLine)
      /\ peeking' = TRUE
      /\ htrd' = CASE fr = "chunked" -> NewChunk(x)
                   [] fr = "length" -> [x EXCEPT !.need = h.length]
                   [] fr = "close" -> [x EXCEPT !.need = SIZE_RANGE - 1, !.until_close = TRUE]
                   [] fr = "none" -> x
      /\ pc' = CASE fr = "chunked" -> "dechunk_resume"
                 [] fr # "chunked" /\ htrd'.need > 0 -> "content_resume"
                 [] OTHER -> "complete"
  BY Zenon DEF ReadHead, Goto, HasHead, Known
<1>2. fr \in {"chunked", "length", "close", "none"}
  BY DEF Framing
<1> HIDE DEF fr, h
<1>3. pc' \in {"dechunk_resume", "content_resume", "complete"}
  <2>1. PICK l : l = pc'
    OBVIOUS
  <2>2. l = CASE fr = "chunked" -> "dechunk_resume"
                 [] fr # "chunked" /\ htrd'.need > 0 -> "content_resume"
                 [] OTHER -> "complete"
    BY <1>1, <2>1, Zenon
  <2>3. l \in {"dechunk_resume", "content_resume", "complete"}
    BY ONLY <2>2
  <2> QED
    BY <2>1, <2>3
<1>4. htrd'.suspended = htrd.suspended
  <2>1. /\ x.suspended = htrd.suspended
        /\ DOMAIN x = {"crlf", "raw", "tra", "phase", "len", "count", "need", "until_close",
                       "clean", "suspended", "dummified"}
    BY ONLY <1>t DEF HtrdType
  <2> HIDE DEF x
  <2>2. htrd' = CASE fr = "chunked" -> NewChunk(x)
                   [] fr = "length" -> [x EXCEPT !.need = h.length]
                   [] fr = "close" -> [x EXCEPT !.need = SIZE_RANGE - 1, !.until_close = TRUE]
                   [] fr = "none" -> x
    BY <1>1
  <2>3. CASE fr = "chunked"
    <3>1. htrd' = [x EXCEPT !.phase = "LEN", !.len = 0, !.count = 0]
      BY ONLY <2>2, <2>3 DEF NewChunk
    <3> QED
      BY ONLY <2>1, <3>1
  <2>4. CASE fr = "length"
    <3>1. htrd' = [x EXCEPT !.need = h.length]
      BY ONLY <2>2, <2>4
    <3> QED
      BY ONLY <2>1, <3>1
  <2>5. CASE fr = "close"
    <3>1. htrd' = [x EXCEPT !.need = SIZE_RANGE - 1, !.until_close = TRUE]
      BY ONLY <2>2, <2>5
    <3> QED
      BY ONLY <2>1, <3>1
  <2>6. CASE fr = "none"
    <3>1. htrd' = x
      BY ONLY <2>2, <2>6
    <3> QED
      BY ONLY <2>1, <3>1
  <2> QED
    BY ONLY <1>2, <2>3, <2>4, <2>5, <2>6
<1> HIDE DEF x
<1>5. re'.concb = re.concb /\ re'.state = re.state /\ re'.content = re.content
      /\ re'.trailers = re.trailers
  BY ONLY <1>1, <1>t
<1>6. /\ Here.mode \in InHead /\ (Here.mode = "head" => htrd.crlf = Here.crlf)
      /\ ~ peeking /\ ~ htrd.suspended /\ ptr < end
  BY <1>1, HeadsKnown
<1>e. /\ EmptyLine \in ptr..end /\ EmptyLine \in Nat /\ ptr < EmptyLine /\ ptr <= EmptyLine
      /\ EmptyLine <= end
  <2>1. EmptyLine \in ptr..end /\ EmptyLine \in Nat /\ ptr < EmptyLine
    BY <1>1, <1>i, EmptyLineDef
  <2> QED
    BY ONLY <1>0, <2>1
<1>7. ContentAt(EmptyLine) = ContentAt(ptr) /\ TrailersAt(EmptyLine) = TrailersAt(ptr)
  <2>1. ASSUME NEW k \in (ptr + 1)..EmptyLine
        PROVE  Uncut(scn)[k - 1].mode \notin {"data", "close", "TRAILERS"}
    <3>1. PICK j : j = k - 1
      OBVIOUS
    <3>2. j \in ptr..EmptyLine /\ j < EmptyLine
      BY ONLY <1>0, <1>e, <3>1, k \in (ptr + 1)..EmptyLine
    <3>3. Uncut(scn)[j].mode \in {"head", "none", "any"}
      BY <1>1, <1>6, <1>i, <3>2, HeadRun
    <3> QED
      BY <3>1, <3>3
  <2> QED
    BY ONLY <1>0, <1>e, <1>i, <2>1, QuietBoth
<1>8. PICK v : v = Uncut(scn)[ptr']
  OBVIOUS
<1>9. Place(v, pc', htrd', scn.stream, ptr', req', end') /\ Told(v, pc', peeking', seen.messages)
  BY <1>1, <1>8 DEF Known, GoodThen, Good
<1>10. v.mode \notin {"any", "TRAILERS"} /\ (pc' = "complete" \/ v.mode \notin InHead)
  BY ONLY <1>3, <1>9 DEF Place, InHead, IsOver
<1>11. ptr' = EmptyLine
  <2> SUFFICES ASSUME fr = "none", EmptyLine < end PROVE FALSE
    <3>1. PICK q : q = ptr'
      OBVIOUS
    <3>2. q = IF fr = "none" THEN end ELSE EmptyLine
      BY <1>1, <3>1
    <3>3. ~ (fr = "none" /\ EmptyLine < end) => q = EmptyLine
      BY ONLY <1>0, <1>e, <3>2
    <3> QED
      BY <3>1, <3>3
  <2>1. ptr' = end
    BY <1>1
  <2>2. Uncut(scn)[EmptyLine].mode \in {"none", "any", "refused"}
    <3>1. CASE Here.mode = "none"
      <4>1. Uncut(scn)[EmptyLine].mode = "any"
        BY ONLY <1>0, <1>e, <3>1, BehindNone DEF Here
      <4> QED
        BY <4>1
    <3>2. CASE Here.mode = "head"
      <4>1. Here \in UncutType /\ Here.from \in Nat
        BY <1>i, HereType, UncutFields
      <4>2. /\ Here.from <= ptr /\ htrd.raw = SubSeq(scn.stream, Here.from + 1, ptr) /\ req = ptr
        <5>1. InStep(Here, htrd, scn.stream, ptr) /\ req = ptr
          BY <1>1, InMessage DEF Known, GoodHere
        <5> QED
          BY <3>2, <5>1 DEF InStep, InHead, AtHead
      <4>3. \A j \in (ptr + 1)..EmptyLine : scn.stream[j] # "NUL"
        BY <1>1, <1>i, HasNullDef
      <4>i. EmptyLine \in (ptr + 1)..EmptyLine /\ Crlf[EmptyLine] = 4
        <5>1. Crlf[EmptyLine] = 4
          BY <1>1, <1>i, EmptyLineDef
        <5> QED
          BY ONLY <1>0, <1>e, <5>1
      <4>4. PICK w : /\ w \in UncutType /\ w.mode = "head" /\ w.from = Here.from
                     /\ w.heads = Here.heads
                     /\ Crlf[EmptyLine] = NextCrlf(w.crlf, scn.stream[EmptyLine])
                     /\ scn.stream[EmptyLine] # "EOF"
                     /\ Uncut(scn)[EmptyLine] = UncutStep(scn, w, EmptyLine)
        BY <1>6, <1>i, <3>2, <4>3, <4>i, LineStep
      <4>5. Uncut(scn)[EmptyLine] = HeadOf(scn, w, EmptyLine)
        <5>1. Uncut(scn)[EmptyLine] = UncutHead(scn, w, EmptyLine)
          BY ONLY <4>4 DEF UncutStep
        <5>2. scn.stream[EmptyLine] # "NUL"
          BY ONLY <4>3, <4>i
        <5> QED
          BY ONLY <4>4, <4>i, <5>1, <5>2 DEF UncutHead
      <4>6. Raw = SubSeq(scn.stream, w.from + 1, EmptyLine)
        <5>1. PICK b \in Nat : b = Here.from
          BY <4>1
        <5>2. PICK e \in Nat : e = EmptyLine
          BY <1>e
        <5>3. b <= ptr /\ ptr <= e /\ e <= Len(scn.stream)
          BY ONLY <1>0, <1>e, <4>2, <5>1, <5>2
        <5>4. SubSeq(scn.stream, b + 1, ptr) \o SubSeq(scn.stream, ptr + 1, e)
              = SubSeq(scn.stream, b + 1, e)
          BY ONLY <1>0, <5>3, b \in Nat, e \in Nat, Pieces
        <5> QED
          BY ONLY <4>2, <4>4, <5>1, <5>2, <5>4 DEF Octets, Raw
      <4>7. HeadPlace(scn, w, EmptyLine, h, Uncut(scn)[EmptyLine])
        <5>1. h = parse_initial_line_and_headers(scn.option, SubSeq(scn.stream, w.from + 1, EmptyLine))
          BY ONLY <4>6 DEF h
        <5>2. h \in HeadType
          <6>1. Raw \in Seq(STRING)
            BY <1>e, <1>i, RawType DEF Raw
          <6> QED
            BY <6>1, ParseType DEF h
        <5> QED
          BY ONLY <4>4, <4>5, <5>1, <5>2, HeadOfFields
      <4> QED
        BY ONLY <4>7, fr = "none" DEF HeadPlace, fr
    <3> QED
      BY <1>6, <3>1, <3>2 DEF InHead
  <2>3. v.mode \in {"any", "refused"}
    <3>1. v = Uncut(scn)[end]
      BY <1>8, <2>1
    <3>2. CASE Uncut(scn)[EmptyLine].mode = "none"
      BY ONLY <1>0, <1>e, <3>1, <3>2, EmptyLine < end, BehindNone
    <3>3. CASE Uncut(scn)[EmptyLine].mode \in {"any", "refused"}
      <4>1. Uncut(scn)[end] = Uncut(scn)[EmptyLine]
        BY ONLY <1>0, <1>e, <3>3, Absorbed
      <4> QED
        BY <3>1, <3>3, <4>1
    <3> QED
      BY <2>2, <3>2, <3>3
  <2>4. v.mode # "refused"
    BY ONLY <1>3, <1>9 DEF Place, IsOver, InStep, InHead
  <2> QED
    BY <1>10, <2>3, <2>4
<1>12. v.heads = Here.heads + 1 /\ Here.heads = Latest /\ Here.heads \in Nat /\ Latest \in Nat
  <2>1. /\ Told(Here, pc, peeking, seen.messages) /\ Here.heads \in Nat /\ Latest \in Nat
    BY KnownTypes DEF Latest
  <2> QED
    BY <1>1, <1>6, <1>9, <2>1 DEF Told, Latest
<1>13. PICK u, r, s, ms, C, T, z, y, l :
        /\ u = Here /\ r = re /\ s = re' /\ ms = seen.messages /\ l = pc'
        /\ C = ContentAt(ptr) /\ T = TrailersAt(ptr) /\ z = htrd /\ y = htrd'
  OBVIOUS
<1>14. Exact(u, "header", z, r, peeking, ms, C, T)
  BY <1>1, <1>13 DEF Known, ExactHere
<1>15. Exact(v, l, y, s, TRUE, ms, C, T)
  <2>1. /\ u.mode \in InHead /\ u.heads \in Nat /\ v.heads = u.heads + 1
        /\ l = "complete" \/ v.mode \notin InHead
        /\ v.mode # "TRAILERS" /\ l \in {"complete", "dechunk_resume", "content_resume"}
        /\ Len(ms) \in Nat /\ ~ z.suspended /\ ~ y.suspended
        /\ r.concb \in {"none", "content", "raw"}
        /\ s.concb = r.concb /\ s.state = r.state /\ s.content = r.content /\ s.trailers = r.trailers
    BY <1>3, <1>4, <1>5, <1>6, <1>10, <1>12, <1>13, <1>t DEF Latest
  <2>2. Len(ms) <= u.heads
    BY <1>12, <1>13 DEF Latest
  <2> QED
    BY ONLY <1>14, <2>1, <2>2, BegunExact
<1> QED
  BY <1>1, <1>7, <1>8, <1>11, <1>13, <1>15 DEF ExactThen

(* Trailers are read, up to their end or not.                              *)
LEMMA TrailersExact ==
  ASSUME NEW u, u.mode = "TRAILERS", u.heads \in Nat, NEW v, v.heads = u.heads,
         NEW x, NEW y, NEW r, NEW s, NEW pk, NEW ms, NEW C, NEW T, NEW D, NEW octets,
         Exact(u, "dechunk_get_trailers", x, r, pk, ms, C, T), Grow(T, D, u.heads, octets),
         y.tra = x.tra \o octets, y.suspended = x.suspended, NEW l, l \in {"complete", "feedme_more"},
         s.state = r.state, s.content = r.content, s.concb = r.concb,
         l = "feedme_more" => v.mode = "TRAILERS" /\ s.trailers = r.trailers,
         l = "complete" => v.mode = "head" /\ s.trailers = TrailersOf(y.tra)
  PROVE  Exact(v, l, y, s, pk, ms, C, D)
<1>1. ~ Between(u, "dechunk_get_trailers") /\ ~ Between(v, l) /\ u.mode \notin InHead
  BY DEF Between, InHead
<1>2. Ends(u, r, x.tra, T[u.heads]) /\ Body("dechunk_get_trailers", r, pk, ms, C[u.heads])
  BY <1>1 DEF Exact
<1>3. Body(l, s, pk, ms, C[u.heads])
  BY ONLY <1>2, l \in {"complete", "feedme_more"}, s.state = r.state, s.content = r.content,
          s.concb = r.concb DEF Body, States, Unseen, Current
<1>4. D[u.heads] = y.tra /\ r.trailers = <<>>
  <2>1. T[u.heads] = x.tra /\ r.trailers = <<>>
    BY ONLY <1>1, <1>2, u.mode = "TRAILERS" DEF Ends
  <2> QED
    BY ONLY <2>1, Grow(T, D, u.heads, octets), y.tra = x.tra \o octets DEF Grow
<1>5. Ends(v, s, y.tra, D[u.heads])
  <2>1. "TRAILERS" \notin InHead /\ "head" \in InHead
    BY DEF InHead
  <2> QED
    BY ONLY <1>4, <2>1, l \in {"complete", "feedme_more"},
            l = "feedme_more" => v.mode = "TRAILERS" /\ s.trailers = r.trailers,
            l = "complete" => v.mode = "head" /\ s.trailers = TrailersOf(y.tra) DEF Ends
<1>6. \A i \in Nat : i > v.heads => C[i] = <<>> /\ D[i] = <<>>
  BY DEF Exact, Grow
<1>7. \A i \in 1..Len(ms) : i < u.heads => Final(ms[i], C[i], D[i])
  <2> SUFFICES ASSUME NEW i \in 1..Len(ms), i < u.heads PROVE Final(ms[i], C[i], D[i])
    OBVIOUS
  <2>1. Final(ms[i], C[i], T[i])
    BY DEF Exact
  <2>2. i \in Nat /\ i # u.heads
    OBVIOUS
  <2>3. D[i] = T[i]
    BY ONLY <2>2, Grow(T, D, u.heads, octets) DEF Grow
  <2> QED
    BY <2>1, <2>3
<1>8. ~ x.suspended /\ (r.concb = "raw" => x.suspended)
  BY <1>1 DEF Exact
<1> QED
  BY ONLY <1>1, <1>3, <1>5, <1>6, <1>7, <1>8, v.heads = u.heads, y.suspended = x.suspended,
          s.concb = r.concb DEF Exact

(* Trailers are read.                                                      *)
LEMMA GetTrailersExact ==
  ASSUME Known, GetTrailers
  PROVE  ExactThen
<1>0. scn.stream \in Seq(STRING) /\ IsUncut(scn, Uncut(scn)) /\ Len(scn.stream) \in Nat
      /\ ptr \in Nat /\ end \in Nat /\ ptr <= end /\ end <= Len(scn.stream)
  BY UncutHere DEF Known
<1>i. TypeInv
  BY DEF Known
<1>t. htrd \in HtrdType /\ DOMAIN re = {"flags", "length", "content", "trailers", "state", "concb"}
  BY DEF Known, TypeInv
<1> DEFINE tra == htrd.tra \o Octets(ptr, EmptyLine)
<1>1. /\ pc = "dechunk_get_trailers" /\ ~ HasNull
      /\ ptr' = EmptyLine /\ peeking' = peeking /\ seen' = seen
      /\ \/ /\ Crlf[end] = 4
            /\ htrd' = [htrd EXCEPT !.crlf = 0, !.phase = "DONE", !.tra = tra]
            /\ re' = [re EXCEPT !.trailers = SelectSeq(Fields(htrd'.tra), LAMBDA c : c = "field")]
            /\ pc' = "complete"
         \/ /\ Crlf[end] < 4
            /\ htrd' = [htrd EXCEPT !.crlf = Crlf[end], !.tra = htrd.tra \o Octets(ptr, end)]
            /\ pc' = "feedme_more" /\ re' = re
  BY Zenon DEF GetTrailers, Goto, Known
<1>e. /\ EmptyLine \in ptr..end /\ EmptyLine \in Nat
      /\ Crlf[end] < 4 => EmptyLine = end
      /\ Crlf[end] = 4 => Crlf[EmptyLine] = 4 /\ ptr < EmptyLine
      /\ Crlf[end] \in 0..4 /\ \A j \in ptr..end : j < EmptyLine => Crlf[j] \in 0..3
  BY <1>i, EmptyLineDef
<1>l. EmptyLine <= end /\ ptr <= EmptyLine /\ EmptyLine <= Len(scn.stream)
  BY ONLY <1>0, <1>e
<1>2. InStep(Here, htrd, scn.stream, ptr) /\ Here.mode = "TRAILERS"
  BY <1>1, InMessage DEF Known, GoodHere
<1>3. htrd.crlf = Here.crlf
  BY <1>2 DEF InStep, InHead, AtTrailers
<1>4. \A j \in (ptr + 1)..EmptyLine : scn.stream[j] # "NUL"
  BY <1>1, <1>i, HasNullDef
<1>5. ASSUME NEW k \in ptr..EmptyLine, k < EmptyLine \/ Crlf[k] \in 0..3
      PROVE  Uncut(scn)[k].mode = "TRAILERS" /\ Uncut(scn)[k].heads = Here.heads
  <2>k. k \in ptr..end /\ k \in Nat /\ k <= EmptyLine /\ ptr <= k
    BY ONLY <1>0, <1>e, k \in ptr..EmptyLine
  <2>1. \A j \in ptr..k : Crlf[j] \in 0..3
    <3> SUFFICES ASSUME NEW j \in ptr..k PROVE Crlf[j] \in 0..3
      OBVIOUS
    <3>1. j = k \/ (j < EmptyLine /\ j \in ptr..end)
      BY ONLY <1>0, <1>e, <2>k, j \in ptr..k
    <3>2. k < EmptyLine => Crlf[k] \in 0..3
      BY ONLY <1>e, <2>k
    <3> QED
      BY ONLY <1>e, <3>1, <3>2, <1>5
  <2>2. \A j \in (ptr + 1)..k : scn.stream[j] # "NUL"
    <3>1. \A j \in (ptr + 1)..k : j \in (ptr + 1)..EmptyLine
      BY ONLY <1>0, <1>e, <2>k
    <3> QED
      BY <1>4, <3>1
  <2> QED
    BY <1>2, <1>3, <1>i, <2>1, <2>2, <2>k, LinesHere
<1>6. Here.heads \in Nat
  BY KnownTypes
<1>7. PICK q \in Nat : q = EmptyLine
  BY <1>e
<1>8. /\ ptr <= q /\ q <= Len(scn.stream)
      /\ \A k \in (ptr + 1)..q : /\ Uncut(scn)[k - 1].mode = "TRAILERS"
                                 /\ Uncut(scn)[k - 1].heads = Here.heads /\ scn.stream[k] # "EOF"
  <2> SUFFICES ASSUME NEW k \in (ptr + 1)..q
               PROVE  /\ Uncut(scn)[k - 1].mode = "TRAILERS"
                      /\ Uncut(scn)[k - 1].heads = Here.heads /\ scn.stream[k] # "EOF"
    BY <1>l, <1>7
  <2>1. PICK j : j = k - 1
    OBVIOUS
  <2>2. j \in ptr..EmptyLine /\ j < EmptyLine /\ k \in (ptr + 1)..end
    BY ONLY <1>0, <1>e, <1>7, <2>1, k \in (ptr + 1)..q
  <2>3. Uncut(scn)[j].mode = "TRAILERS" /\ Uncut(scn)[j].heads = Here.heads
    BY <1>5, <2>2
  <2>4. scn.stream[k] # "EOF"
    BY <2>2 DEF Known, TypeInv, Positions
  <2> QED
    BY <2>1, <2>3, <2>4
<1>9. Grow(TrailersAt(ptr), TrailersAt(q), Here.heads, SubSeq(scn.stream, ptr + 1, q))
  <2>1. PICK h \in Nat : h = Here.heads
    BY <1>6
  <2>2. \A k \in (ptr + 1)..q : Takes(Uncut(scn)[k - 1], h, {"TRAILERS"}, scn.stream[k])
    BY <1>8, <2>1 DEF Takes
  <2>3. Grow(PartsAt({"TRAILERS"}, ptr), PartsAt({"TRAILERS"}, q), h, SubSeq(scn.stream, ptr + 1, q))
    BY ONLY <1>0, <1>8, <1>i, <2>2, BusyParts, q \in Nat, h \in Nat
  <2> QED
    BY <2>1, <2>3 DEF TrailersAt
<1>10. ContentAt(q) = ContentAt(ptr)
  <2>1. \A k \in (ptr + 1)..q : Uncut(scn)[k - 1].mode \notin {"data", "close"}
    BY <1>8
  <2>2. PartsAt({"data", "close"}, q) = PartsAt({"data", "close"}, ptr)
    BY ONLY <1>0, <1>8, <1>i, <2>1, QuietParts, q \in Nat
  <2> QED
    BY <2>2 DEF ContentAt
<1>11. PICK v : v = Uncut(scn)[ptr']
  OBVIOUS
<1>12. v.heads = Here.heads
  <2>1. /\ Told(Here, pc, peeking, seen.messages) /\ peeking \in BOOLEAN
        /\ Told(v, pc', peeking, seen.messages)
    BY <1>1, <1>11, KnownTypes
  <2>2. PICK pk \in BOOLEAN : pk = peeking
    BY <2>1
  <2>3. PICK u, ms, k, l : u = Here /\ ms = seen.messages /\ k = pc /\ l = pc'
    OBVIOUS
  <2>4. Told(u, k, pk, ms) /\ Told(v, l, pk, ms)
    BY <2>1, <2>2, <2>3
  <2>5. v.heads = u.heads
    BY ONLY <2>4 DEF Told
  <2> QED
    BY <2>3, <2>5
<1>13. /\ htrd'.tra = tra /\ htrd'.suspended = htrd.suspended
       /\ re'.state = re.state /\ re'.content = re.content /\ re'.concb = re.concb
       /\ pc' \in {"complete", "feedme_more"}
       /\ pc' = "feedme_more" => v.mode = "TRAILERS" /\ re'.trailers = re.trailers
       /\ pc' = "complete" => v.mode = "head" /\ re'.trailers = TrailersOf(htrd'.tra)
  <2>1. CASE Crlf[end] = 4
    <3>1. /\ htrd' = [htrd EXCEPT !.crlf = 0, !.phase = "DONE", !.tra = tra]
          /\ re' = [re EXCEPT !.trailers = SelectSeq(Fields(htrd'.tra), LAMBDA c : c = "field")]
          /\ pc' = "complete"
      BY <1>1, <2>1
    <3>2. tra # <<>>
      <4>1. Octets(ptr, EmptyLine) \in Seq(STRING) /\ Len(Octets(ptr, EmptyLine)) > 0
        <5>1. PICK b \in Nat : b = ptr
          BY <1>0
        <5>2. b < q /\ q <= Len(scn.stream)
          BY <1>7, <1>e, <1>8, <2>1, <5>1
        <5>3. SubSeq(scn.stream, b + 1, q) \in Seq(STRING) /\ Len(SubSeq(scn.stream, b + 1, q)) > 0
          BY ONLY <1>0, <5>2, b \in Nat, q \in Nat
        <5> QED
          BY <1>7, <5>1, <5>3 DEF Octets
      <4>2. PICK o \in Seq(STRING) : o = Octets(ptr, EmptyLine)
        BY <4>1
      <4>3. PICK t \in Seq(STRING) : t = htrd.tra
        BY <1>t DEF HtrdType
      <4>4. t \o o # <<>>
        <5>1. Len(o) > 0 /\ Len(t \o o) = Len(t) + Len(o) /\ Len(t) \in Nat /\ Len(o) \in Nat
          BY <4>1, <4>2
        <5>2. Len(t \o o) # 0
          BY ONLY <5>1
        <5> QED
          BY <5>2
      <4> QED
        BY <4>2, <4>3, <4>4
    <3> HIDE DEF tra
    <3>3. htrd'.tra = tra /\ htrd'.suspended = htrd.suspended
      BY ONLY <1>t, <3>1 DEF HtrdType
    <3>4. /\ re'.state = re.state /\ re'.content = re.content /\ re'.concb = re.concb
          /\ re'.trailers = SelectSeq(Fields(htrd'.tra), LAMBDA c : c = "field")
      BY <1>t, <3>1
    <3>5. re'.trailers = TrailersOf(htrd'.tra)
      BY <3>2, <3>3, <3>4 DEF TrailersOf
    <3>6. v.mode = "head"
      <4>1. IsOver(v, ptr')
        BY <1>11, <3>1 DEF Known, GoodThen, Good, Place
      <4>2. v.mode # "none"
        <5>1. EmptyLine \in (ptr + 1)..EmptyLine /\ Crlf[EmptyLine] = 4
          BY ONLY <1>0, <1>e, <2>1
        <5>2. PICK w : /\ w \in UncutType /\ w.mode = "TRAILERS" /\ w.from = Here.from
                       /\ w.heads = Here.heads
                       /\ Crlf[EmptyLine] = NextCrlf(w.crlf, scn.stream[EmptyLine])
                       /\ scn.stream[EmptyLine] # "EOF"
                       /\ Uncut(scn)[EmptyLine] = UncutStep(scn, w, EmptyLine)
          BY <1>2, <1>3, <1>4, <1>i, <5>1, Here.mode \in {"head", "TRAILERS"}, LineStep
        <5>3. v = UncutTrailers(scn, w, EmptyLine)
          <6>1. Uncut(scn)[EmptyLine] = UncutTrailers(scn, w, EmptyLine)
            BY ONLY <5>2 DEF UncutStep
          <6> QED
            BY <1>1, <1>11, <6>1
        <5>4. scn.stream[EmptyLine] # "NUL" /\ NextCrlf(w.crlf, scn.stream[EmptyLine]) = 4
          BY ONLY <1>4, <5>1, <5>2
        <5>5. v \in {EndOfMessage(w, EmptyLine), Refuse(w)}
          BY ONLY <5>3, <5>4 DEF UncutTrailers
        <5> QED
          BY ONLY <5>2, <5>5 DEF EndOfMessage, Refuse, UncutType
      <4> QED
        BY <4>1, <4>2 DEF IsOver
    <3> QED
      BY ONLY <3>1, <3>3, <3>4, <3>5, <3>6
  <2>2. CASE Crlf[end] < 4
    <3>0. EmptyLine = end /\ Crlf[end] # 4 /\ Crlf[end] \in 0..3
      BY ONLY <1>e, <2>2
    <3>1. /\ htrd' = [htrd EXCEPT !.crlf = Crlf[end], !.tra = htrd.tra \o Octets(ptr, end)]
          /\ pc' = "feedme_more" /\ re' = re
      BY ONLY <1>1, <3>0
    <3>2. htrd'.tra = tra /\ htrd'.suspended = htrd.suspended
      <4>1. htrd.tra \o Octets(ptr, end) = tra
        BY ONLY <3>0
      <4> HIDE DEF tra
      <4> QED
        BY ONLY <1>t, <3>1, <4>1 DEF HtrdType
    <3>3. v.mode = "TRAILERS"
      <4>1. EmptyLine \in ptr..EmptyLine /\ Crlf[EmptyLine] \in 0..3
        BY ONLY <1>0, <1>e, <3>0
      <4> QED
        BY <1>1, <1>5, <1>11, <4>1
    <3> HIDE DEF tra
    <3> QED
      BY ONLY <3>1, <3>2, <3>3
  <2> QED
    BY ONLY <1>1, <2>1, <2>2
<1>14. PICK u, r, s, ms, C, T, D, x, y, l :
        /\ u = Here /\ r = re /\ s = re' /\ ms = seen.messages /\ l = pc'
        /\ C = ContentAt(ptr) /\ T = TrailersAt(ptr) /\ D = TrailersAt(q) /\ x = htrd /\ y = htrd'
  OBVIOUS
<1>15. PICK octets : octets = SubSeq(scn.stream, ptr + 1, q) /\ octets = Octets(ptr, EmptyLine)
  BY <1>7 DEF Octets
<1>16. Exact(u, "dechunk_get_trailers", x, r, peeking, ms, C, T)
  BY <1>1, <1>14 DEF Known, ExactHere
<1>17. Exact(v, l, y, s, peeking, ms, C, D)
  <2>1. /\ u.mode = "TRAILERS" /\ u.heads \in Nat /\ v.heads = u.heads
        /\ Grow(T, D, u.heads, octets) /\ y.suspended = x.suspended
        /\ l \in {"complete", "feedme_more"}
        /\ s.state = r.state /\ s.content = r.content /\ s.concb = r.concb
        /\ l = "feedme_more" => v.mode = "TRAILERS" /\ s.trailers = r.trailers
        /\ l = "complete" => v.mode = "head" /\ s.trailers = TrailersOf(y.tra)
    BY <1>2, <1>6, <1>9, <1>12, <1>13, <1>14, <1>15
  <2>2. y.tra = x.tra \o octets
    BY <1>13, <1>14, <1>15
  <2> QED
    BY ONLY <1>16, <2>1, <2>2, TrailersExact
<1>18. ContentAt(ptr') = C /\ TrailersAt(ptr') = D
  BY <1>1, <1>7, <1>10, <1>14
<1> QED
  BY <1>1, <1>11, <1>14, <1>17, <1>18 DEF ExactThen

-----------------------------------------------------------------------------
(* Reading the content.                                                    *)

Added(r, s, ms, mt, octets) ==
  /\ s.state = r.state /\ s.concb = r.concb /\ s.trailers = r.trailers
  /\ s.content = IF r.state = "open" /\ r.concb = "none" /\ octets # <<>>
                 THEN r.content \o octets ELSE r.content
  /\ Len(mt) = Len(ms)
  /\ \A i \in 1..Len(ms) :
       i # Len(ms) \/ r.state # "open" \/ r.concb # "content" \/ octets = <<>> => mt[i] = ms[i]
  /\ Len(ms) > 0 /\ r.state = "open" /\ r.concb = "content" /\ octets # <<>> =>
       LET m == mt[Len(ms)]
           e == ms[Len(ms)]
       IN  /\ m.content = e.content \o octets /\ m.policy = e.policy
           /\ m.trailers = e.trailers /\ m.ends = e.ends

(* What it does to add content.                                            *)
LEMMA AddContentDoes ==
  ASSUME TypeInv, NEW octets, AddContent(octets)
  PROVE  Added(re, re', seen.messages, seen'.messages, octets)
<1>1. /\ DOMAIN re = {"flags", "length", "content", "trailers", "state", "concb"}
      /\ re.concb \in {"none", "content", "raw"}
      /\ DOMAIN seen = {"messages", "raw"} /\ MessagesOk(seen.messages)
  BY DEF TypeInv
<1>2. CASE re.state # "open" \/ octets = <<>>
  <2>1. re' = re /\ seen' = seen
    BY <1>2 DEF AddContent
  <2> QED
    BY ONLY <1>2, <2>1 DEF Added
<1>3. CASE ~ (re.state # "open" \/ octets = <<>>) /\ re.concb = "none"
  <2>1. seen' = seen /\ re' = [re EXCEPT !.content = re.content \o octets]
    BY <1>3 DEF AddContent
  <2>2. /\ re'.content = re.content \o octets /\ re'.trailers = re.trailers
        /\ re'.state = re.state /\ re'.concb = re.concb
    BY <1>1, <2>1
  <2> QED
    BY ONLY <1>3, <2>1, <2>2 DEF Added
<1>4. CASE ~ (re.state # "open" \/ octets = <<>>) /\ re.concb = "raw"
  <2>1. re' = re /\ seen' = [seen EXCEPT !.raw = @ \o octets]
    BY <1>4 DEF AddContent
  <2>2. seen'.messages = seen.messages
    BY <1>1, <2>1
  <2> QED
    BY ONLY <1>4, <2>1, <2>2 DEF Added
<1>5. CASE ~ (re.state # "open" \/ octets = <<>>) /\ re.concb = "content"
  <2> DEFINE e == [seen.messages[Latest] EXCEPT !.content = @ \o octets]
             ms == [seen.messages EXCEPT ![Latest] = e]
  <2>1. re' = re /\ seen' = [seen EXCEPT !.messages[Latest].content = @ \o octets]
    BY <1>5 DEF AddContent
  <2>2. seen' = [seen EXCEPT !.messages = ms]
    BY <2>1
  <2>3. seen'.messages = ms
    BY <1>1, <2>2
  <2>4. CASE Latest \in 1..Len(seen.messages)
    <3>1. DOMAIN seen.messages[Latest] = {"content", "ends", "poked", "trailers", "policy"}
      BY <1>1, <2>4 DEF MessagesOk
    <3>2. /\ DOMAIN e = {"content", "ends", "poked", "trailers", "policy"}
          /\ e.content = seen.messages[Latest].content \o octets
          /\ e.policy = seen.messages[Latest].policy
          /\ e.trailers = seen.messages[Latest].trailers /\ e.ends = seen.messages[Latest].ends
      BY <3>1
    <3> HIDE DEF e
    <3>3. Updated(seen.messages, ms, Latest, e)
      BY ONLY <1>1, <3>2, MessageUpdate, Zenon
    <3> HIDE DEF ms
    <3> QED
      BY ONLY <1>5, <2>1, <2>3, <2>4, <3>2, <3>3 DEF Added, Updated, Latest
  <2>5. CASE Latest \notin 1..Len(seen.messages)
    <3>1. PICK S : seen.messages \in Seq(S)
      BY <1>1 DEF MessagesOk
    <3>2. ms = seen.messages /\ Len(seen.messages) = 0
      BY <2>5, <3>1 DEF Latest
    <3> QED
      BY ONLY <1>5, <2>1, <2>3, <3>2 DEF Added
  <2> QED
    BY <2>4, <2>5
<1> QED
  BY <1>1, <1>2, <1>3, <1>4, <1>5

(* All that is read of the content is added to what the user has, or will  *)
(* have.                                                                   *)
LEMMA AddedExact ==
  ASSUME NEW u, u.mode \notin InHead, u.heads \in Nat, NEW x, NEW r, NEW s, NEW ms, NEW mt,
         NEW octets, Len(ms) \in Nat, Added(r, s, ms, mt, octets), NEW pk \in BOOLEAN,
         Len(ms) + (IF pk THEN 1 ELSE 0) = u.heads, u.heads > 0,
         NEW C, NEW D, NEW T, Grow(C, D, u.heads, octets), NEW k, k \notin {"complete", "peek", "poke"},
         Exact(u, k, x, r, pk, ms, C, T)
  PROVE  Exact(u, k, x, s, pk, mt, D, T)
<1>1. ~ Between(u, k) /\ ~ x.suspended /\ r.concb # "raw"
  BY DEF Between, Exact
<1>2. /\ r.state \in {"open", "DISCARDED"}
      /\ pk => Unseen(r, C[u.heads])
      /\ ~ pk => Current(r, ms[Len(ms)], C[u.heads])
      /\ Ends(u, r, x.tra, T[u.heads])
  <2>1. Body(k, r, pk, ms, C[u.heads]) /\ Ends(u, r, x.tra, T[u.heads])
    BY ONLY <1>1, Exact(u, k, x, r, pk, ms, C, T) DEF Exact
  <2> QED
    BY ONLY <2>1, k \notin {"complete", "peek", "poke"} DEF Body, States
<1>3. /\ s.state = r.state /\ s.concb = r.concb /\ s.trailers = r.trailers
      /\ s.content = (IF r.state = "open" /\ r.concb = "none" /\ octets # <<>>
                      THEN r.content \o octets ELSE r.content)
      /\ Len(mt) = Len(ms)
  BY ONLY Added(r, s, ms, mt, octets) DEF Added
<1>4. Ends(u, s, x.tra, T[u.heads])
  BY ONLY <1>2, <1>3 DEF Ends
<1>5. PICK c, d : /\ c = C[u.heads] /\ d = D[u.heads] /\ d = c \o octets
                  /\ octets = <<>> => d = c
  <2>1. PICK c \in Seq(STRING) : c = C[u.heads]
    BY DEF Grow
  <2>2. D[u.heads] = c \o octets
    BY ONLY <2>1, Grow(C, D, u.heads, octets) DEF Grow
  <2>3. octets = <<>> => c \o octets = c
    BY ONLY c \in Seq(STRING)
  <2> QED
    BY ONLY <2>1, <2>2, <2>3
<1>6. pk => Unseen(s, d)
  <2>1. pk => Unseen(r, c)
    BY ONLY <1>2, <1>5
  <2> QED
    BY ONLY <1>2, <1>3, <1>5, <2>1 DEF Unseen
<1>7. ~ pk => Current(s, mt[Len(mt)], d)
  <2> SUFFICES ASSUME ~ pk PROVE Current(s, mt[Len(mt)], d)
    OBVIOUS
  <2>1. Len(ms) > 0 /\ Len(mt) = Len(ms) /\ Len(ms) \in 1..Len(ms)
    BY <1>3
  <2>2. PICK m, e : m = mt[Len(ms)] /\ e = ms[Len(ms)]
    OBVIOUS
  <2>3. Current(r, e, c)
    BY <1>2, <1>5, <2>2
  <2>4. CASE r.state = "open" /\ r.concb = "content" /\ octets # <<>>
    <3>1. m.content = e.content \o octets /\ m.policy = e.policy /\ m.ends = e.ends
      BY ONLY <2>1, <2>2, <2>4, Added(r, s, ms, mt, octets) DEF Added
    <3>2. Current(s, m, d)
      BY ONLY <1>3, <1>5, <2>3, <2>4, <3>1 DEF Current
    <3> QED
      BY <2>1, <2>2, <3>2
  <2>5. CASE ~ (r.state = "open" /\ r.concb = "content" /\ octets # <<>>)
    <3>1. m = e
      BY ONLY <2>1, <2>2, <2>5, Added(r, s, ms, mt, octets) DEF Added
    <3>2. Current(s, m, d)
      <4>1. CASE octets = <<>>
        BY ONLY <1>3, <1>5, <2>3, <3>1, <4>1 DEF Current
      <4>2. CASE octets # <<>> /\ r.state # "open"
        BY ONLY <1>2, <1>3, <2>3, <3>1, <4>2 DEF Current
      <4>3. CASE octets # <<>> /\ r.state = "open" /\ r.concb # "content"
        BY ONLY <1>3, <1>5, <2>3, <3>1, <4>3 DEF Current
      <4> QED
        BY <2>5, <4>1, <4>2, <4>3
    <3> QED
      BY <2>1, <2>2, <3>2
  <2> QED
    BY <2>4, <2>5
<1>8. \A i \in 1..Len(mt) : i < u.heads => Final(mt[i], D[i], T[i])
  <2> SUFFICES ASSUME NEW i \in 1..Len(mt), i < u.heads PROVE Final(mt[i], D[i], T[i])
    OBVIOUS
  <2>1. i \in 1..Len(ms)
    BY <1>3
  <2>2. Final(ms[i], C[i], T[i])
    BY <2>1 DEF Exact
  <2>3. i # Len(ms) \/ r.concb # "content"
    <3>1. pk => r.concb = "none"
      BY ONLY <1>2 DEF Unseen
    <3>2. ~ pk => Len(ms) = u.heads
      OBVIOUS
    <3> QED
      BY <3>1, <3>2
  <2>4. mt[i] = ms[i]
    BY ONLY <2>1, <2>3, Added(r, s, ms, mt, octets) DEF Added
  <2>5. i \in Nat /\ i # u.heads
    BY <2>1
  <2>6. D[i] = C[i]
    BY ONLY <2>5, Grow(C, D, u.heads, octets) DEF Grow
  <2> QED
    BY <2>2, <2>4, <2>6
<1>9. \A i \in Nat : i > u.heads => D[i] = <<>> /\ T[i] = <<>>
  <2>1. \A i \in Nat : i > u.heads => i # u.heads
    OBVIOUS
  <2>2. \A i \in Nat : i > u.heads => C[i] = <<>> /\ T[i] = <<>>
    BY ONLY Exact(u, k, x, r, pk, ms, C, T) DEF Exact
  <2> QED
    BY ONLY <2>1, <2>2, Grow(C, D, u.heads, octets) DEF Grow
<1>10. Body(k, s, pk, mt, D[u.heads])
  <2>1. s.state \in States(k)
    BY ONLY <1>2, <1>3, k \notin {"complete", "peek", "poke"} DEF States
  <2> QED
    BY ONLY <1>5, <1>6, <1>7, <2>1 DEF Body
<1> QED
  BY ONLY <1>1, <1>3, <1>4, <1>8, <1>9, <1>10 DEF Exact

(* Content is read.                                                        *)
LEMMA ReadContentExact ==
  ASSUME Known, ReadContent
  PROVE  ExactThen
<1> DEFINE n == Min({htrd.need, end - ptr})
           left == IF htrd.until_close THEN htrd.need ELSE htrd.need - n
<1>0. scn.stream \in Seq(STRING) /\ IsUncut(scn, Uncut(scn)) /\ Len(scn.stream) \in Nat
      /\ ptr \in Nat /\ end \in Nat /\ ptr <= end /\ end <= Len(scn.stream)
  BY UncutHere DEF Known
<1>i. TypeInv
  BY DEF Known
<1>t. Here \in UncutType /\ htrd \in HtrdType
  BY <1>i, HereType
<1>f. htrd.need \in Nat
  BY <1>t, HtrdUpdates
<1>1. n \in Nat /\ n <= htrd.need /\ n <= end - ptr
  <2>1. {htrd.need, end - ptr} \in SUBSET Nat
    BY <1>0, <1>f
  <2>2. n \in {htrd.need, end - ptr} /\ \A k \in {htrd.need, end - ptr} : n <= k
    BY <2>1, LeastExists
  <2> HIDE DEF n
  <2> QED
    BY <2>1, <2>2
<1> HIDE DEF n
<1>2. /\ pc = "content_resume" /\ AddContent(Octets(ptr, ptr + n))
      /\ ptr' = ptr + n /\ peeking' = peeking
      /\ htrd' = [htrd EXCEPT !.need = left, !.phase = IF left = 0 /\ @ = "DATA" THEN "CRLF" ELSE @]
      /\ pc' = CASE end - ptr < htrd.need -> "feedme_more"
                 [] end - ptr >= htrd.need /\ htrd.phase = "DATA" -> "dechunk_crlf"
                 [] OTHER -> "complete"
  BY Zenon DEF ReadContent, Goto, n
<1>3. PICK q \in Nat : q = ptr + n
  BY <1>0, <1>1
<1>q. ptr <= q /\ q <= end /\ q <= Len(scn.stream)
  BY ONLY <1>0, <1>1, <1>3
<1>4. /\ htrd'.phase \in {"CRLF", htrd.phase} /\ htrd'.tra = htrd.tra
      /\ htrd'.suspended = htrd.suspended
  BY <1>2, <1>t DEF HtrdType
<1>5. InStep(Here, htrd, scn.stream, ptr) /\ Here.mode \in {"data", "close"}
      /\ \A k \in (ptr + 1)..end : scn.stream[k] # "EOF"
  BY <1>2, <1>i, InMessage DEF Known, GoodHere
<1>6. PICK l : l = pc' /\ l \in {"feedme_more", "dechunk_crlf", "complete"}
  <2>1. PICK l : l = pc'
    OBVIOUS
  <2>2. l = CASE end - ptr < htrd.need -> "feedme_more"
                 [] end - ptr >= htrd.need /\ htrd.phase = "DATA" -> "dechunk_crlf"
                 [] OTHER -> "complete"
    BY <1>2, <2>1, Zenon
  <2>3. l \in {"feedme_more", "dechunk_crlf", "complete"}
    BY ONLY <2>2
  <2> QED
    BY <2>1, <2>3
<1> HIDE DEF left
<1>7. ASSUME NEW j \in ptr..q, j < q
      PROVE  Uncut(scn)[j].mode \in {"data", "close"} /\ Uncut(scn)[j].heads = Here.heads
  <2>1. j \in Nat /\ ptr <= j /\ j <= Len(scn.stream) /\ j - ptr < n
        /\ \A k \in (ptr + 1)..j : k \in (ptr + 1)..end
    BY ONLY <1>0, <1>1, <1>3, <1>7, <1>q
  <2>2. \A k \in (ptr + 1)..j : scn.stream[k] # "EOF"
    BY ONLY <1>5, <2>1
  <2>3. CASE Here.mode = "close"
    <3>1. Uncut(scn)[j] = Uncut(scn)[ptr]
      BY ONLY <1>0, <2>1, <2>2, <2>3, CloseRun DEF Here
    <3> QED
      BY <2>3, <3>1 DEF Here
  <2>4. CASE Here.mode = "data"
    <3>1. htrd.need = Here.need
      BY <1>5, <2>4 DEF InStep, InHead, AtData
    <3>2. PICK u : u = Uncut(scn)
      OBVIOUS
    <3>3. j - ptr < u[ptr].need /\ u[ptr].mode = "data"
      <4>1. j - ptr < htrd.need
        BY ONLY <1>0, <1>1, <1>f, <2>1
      <4> QED
        BY <2>4, <3>1, <3>2, <4>1 DEF Here
    <3>4. DataLeft(u, ptr, j)
      BY ONLY <1>0, <2>1, <2>2, <3>2, <3>3, DataRun
    <3> QED
      BY <3>2, <3>4 DEF DataLeft, Here
  <2> QED
    BY <1>5, <2>3, <2>4
<1>8. \A k \in (ptr + 1)..q : /\ Uncut(scn)[k - 1].mode \in {"data", "close"}
                              /\ Uncut(scn)[k - 1].heads = Here.heads /\ scn.stream[k] # "EOF"
  <2> SUFFICES ASSUME NEW k \in (ptr + 1)..q
               PROVE  /\ Uncut(scn)[k - 1].mode \in {"data", "close"}
                      /\ Uncut(scn)[k - 1].heads = Here.heads /\ scn.stream[k] # "EOF"
    OBVIOUS
  <2>1. PICK j : j = k - 1
    OBVIOUS
  <2>2. j \in ptr..q /\ j < q /\ k \in (ptr + 1)..end
    BY ONLY <1>0, <1>q, <2>1, k \in (ptr + 1)..q
  <2>3. Uncut(scn)[j].mode \in {"data", "close"} /\ Uncut(scn)[j].heads = Here.heads
    BY <1>7, <2>2
  <2> QED
    BY <1>5, <2>1, <2>2, <2>3
<1>9. /\ Here.heads \in Nat /\ Latest \in Nat /\ peeking \in BOOLEAN
      /\ Told(Here, pc, peeking, seen.messages)
      /\ Told(Uncut(scn)[ptr'], pc', peeking, seen'.messages)
  BY <1>2, KnownTypes DEF Latest
<1>10. PICK h \in Nat : h = Here.heads
  BY <1>9
<1>11. PICK octets : octets = SubSeq(scn.stream, ptr + 1, q) /\ octets = Octets(ptr, ptr + n)
  BY <1>3 DEF Octets
<1>12. Grow(ContentAt(ptr), ContentAt(q), h, octets)
  <2>1. \A k \in (ptr + 1)..q : Takes(Uncut(scn)[k - 1], h, {"data", "close"}, scn.stream[k])
    BY <1>8, <1>10 DEF Takes
  <2>2. Grow(PartsAt({"data", "close"}, ptr), PartsAt({"data", "close"}, q), h,
             SubSeq(scn.stream, ptr + 1, q))
    BY ONLY <1>0, <1>i, <1>q, <2>1, BusyParts, q \in Nat, h \in Nat
  <2> QED
    BY <1>11, <2>2 DEF ContentAt
<1>13. TrailersAt(q) = TrailersAt(ptr)
  <2>1. \A k \in (ptr + 1)..q : Uncut(scn)[k - 1].mode \notin {"TRAILERS"}
    BY <1>8
  <2>2. PartsAt({"TRAILERS"}, q) = PartsAt({"TRAILERS"}, ptr)
    BY ONLY <1>0, <1>i, <1>q, <2>1, QuietParts, q \in Nat
  <2> QED
    BY <2>2 DEF TrailersAt
<1>14. Added(re, re', seen.messages, seen'.messages, octets) /\ SamePokes(seen.messages, seen'.messages)
  <2>1. AddContent(octets)
    BY <1>2, <1>11
  <2> QED
    BY <1>i, <2>1, AddContentDoes, AddContentType
<1>15. PICK v : v = Uncut(scn)[ptr']
  OBVIOUS
<1>16. v.mode # "TRAILERS"
  <2> SUFFICES ASSUME v.mode = "TRAILERS" PROVE FALSE
    OBVIOUS
  <2>1. l = "complete" => IsOver(v, ptr')
    BY <1>6, <1>15 DEF Known, GoodThen, Good, Place
  <2>2. l = "complete" => FALSE
    BY ONLY <2>1, v.mode = "TRAILERS" DEF IsOver
  <2>3. htrd.phase \in {"DATA", "DONE"}
    BY ONLY <1>5 DEF InStep, InHead, AtData, AtClose
  <2>4. PICK j \in Nat : j = q
    OBVIOUS
  <2>5. l = "feedme_more" => InStep(v, htrd', scn.stream, ptr')
    BY <1>6, <1>15 DEF Known, GoodThen, Good, Place
  <2>6. l = "dechunk_crlf" => v.mode = "CRLF"
    BY <1>6, <1>15 DEF Known, GoodThen, Good, Place
  <2>7. l = "feedme_more" => FALSE
    BY ONLY <1>4, <2>3, <2>5, v.mode = "TRAILERS" DEF InStep, InHead, AtTrailers
  <2> QED
    BY <1>6, <2>2, <2>6, <2>7
<1>17. PICK u, r, s, ms, mt, C, T, D, x, y, pk :
        /\ u = Here /\ r = re /\ s = re' /\ ms = seen.messages /\ mt = seen'.messages
        /\ C = ContentAt(ptr) /\ T = TrailersAt(ptr) /\ D = ContentAt(q) /\ x = htrd /\ y = htrd'
        /\ pk = peeking
  OBVIOUS
<1>18. PICK k : k = "content_resume"
  OBVIOUS
<1>19. Exact(u, k, x, r, pk, ms, C, T)
  BY <1>2, <1>17, <1>18 DEF Known, ExactHere
<1>20. u.mode \notin InHead /\ u.mode # "TRAILERS" /\ u.heads = h /\ Len(ms) \in Nat /\ pk \in BOOLEAN
  BY <1>5, <1>9, <1>10, <1>17 DEF InHead, Latest
<1>21. Told(u, k, pk, ms) /\ Told(v, l, pk, mt) /\ SamePokes(ms, mt)
  BY <1>2, <1>6, <1>9, <1>14, <1>15, <1>17, <1>18
<1>22. Len(ms) + (IF pk THEN 1 ELSE 0) = u.heads /\ u.heads > 0 /\ v.heads = u.heads
  BY ONLY <1>20, <1>21 DEF Told, SamePokes
<1>23. Exact(u, k, x, s, pk, mt, D, T)
  <2>1. Added(r, s, ms, mt, octets) /\ Grow(C, D, u.heads, octets)
    BY <1>12, <1>14, <1>17, <1>20
  <2>2. k \notin {"complete", "peek", "poke"} /\ u.heads \in Nat
    BY <1>18, <1>20
  <2> QED
    BY ONLY <1>19, <1>20, <1>22, <2>1, <2>2, AddedExact
<1>24. l = "complete" \/ v.mode \notin InHead
  <2>1. u.heads \in Nat /\ (l \notin {"complete", "peek", "poke"} \/ l = "complete")
    BY <1>6, <1>20
  <2> QED
    BY ONLY <1>20, <1>21, <2>1, NotOver
<1>25. Exact(v, l, y, s, pk, mt, D, T)
  <2>1. k \notin {"peek", "poke"} /\ l \notin {"peek", "poke"} /\ y.suspended = x.suspended
    BY <1>4, <1>6, <1>17, <1>18
  <2>2. v.mode = "TRAILERS" => y.tra = <<>>
    BY <1>16
  <2> QED
    BY ONLY <1>16, <1>20, <1>22, <1>23, <1>24, <2>1, <2>2, ReadOn
<1>26. ContentAt(ptr') = D /\ TrailersAt(ptr') = T /\ peeking' = pk
  BY <1>2, <1>3, <1>13, <1>17
<1> QED
  BY <1>6, <1>15, <1>17, <1>25, <1>26 DEF ExactThen

-----------------------------------------------------------------------------
(* The invariant of the content, and what it implies.                      *)

(* The reader does not go back.                                            *)
LEMMA Ahead ==
  ASSUME TypeInv, Next
  PROVE  scn' = scn /\ ptr <= ptr'
<1>0. scn.stream \in Seq(STRING) /\ Len(scn.stream) \in Nat /\ ptr \in Nat /\ end \in Nat /\ ptr <= end
  BY UncutHere
<1>e. ptr <= EmptyLine /\ ptr <= ptr
  BY <1>0, EmptyLineDef
<1>1. CASE \E n \in 1..(Len(scn.stream) - ptr) : Feed(n)
  BY <1>0, <1>1 DEF Feed
<1>2. CASE RejectNull \/ ReadPartOfHead \/ ReadHead
  BY <1>0, <1>2, <1>e DEF RejectNull, ReadPartOfHead, ReadHead, Goto
<1>3. CASE GetChunkLen
  <2> DEFINE first == IF htrd.count = 0 THEN Skip(is_space_octet, ptr) ELSE ptr
             lst == Skip(xdigit, first)
             stop == Skip(is_space_octet, lst)
  <2>1. first \in ptr..end /\ first \in Nat
    BY <1>0, SkipDef
  <2>2. lst \in first..end /\ lst \in Nat
    BY <1>0, <2>1, SkipDef
  <2>3. stop \in lst..end /\ stop \in Nat
    BY <1>0, <2>2, SkipDef
  <2>4. scn' = scn /\ (ptr' = stop \/ ptr' = stop + 1)
    BY <1>3 DEF GetChunkLen, Goto
  <2> HIDE DEF first, lst, stop
  <2> QED
    BY ONLY <1>0, <2>1, <2>2, <2>3, <2>4
<1>4. CASE GetTrailers
  BY <1>4, <1>e DEF GetTrailers, Goto
<1>5. CASE ReadContent
  <2> DEFINE S == {htrd.need, end - ptr}
             n == Min(S)
  <2>1. S \in SUBSET Nat /\ htrd.need \in S
    <3>1. htrd.need \in Nat
      BY DEF TypeInv, HtrdType
    <3> QED
      BY <1>0, <3>1
  <2>2. n \in Nat
    <3> HIDE DEF S
    <3> QED
      BY <2>1, LeastExists
  <2>3. scn' = scn /\ ptr' = ptr + n
    BY <1>5 DEF ReadContent, Goto
  <2> HIDE DEF n
  <2> QED
    BY ONLY <1>0, <2>2, <2>3
<1>6. CASE EndChunk
  <2> DEFINE stop == Skip(is_space_octet, ptr)
  <2>1. stop \in ptr..end /\ stop \in Nat
    BY <1>0, SkipDef
  <2>2. scn' = scn /\ (ptr' = stop \/ ptr' = stop + 1)
    BY <1>6 DEF EndChunk, Goto
  <2> HIDE DEF stop
  <2> QED
    BY ONLY <1>0, <2>1, <2>2
<1>7. CASE Complete \/ FeedmeMore \/ Halt
  BY <1>0, <1>7 DEF Complete, FeedmeMore, Halt, Goto
<1>8. CASE clear_feed
  BY <1>0, <1>8 DEF clear_feed
<1>9. CASE \/ \E policy \in Policies : Peek(policy)
           \/ \E answer \in {"go", "connect", "fail"} : Poke(answer)
  BY <1>e, <1>9 DEF Peek, Poke, Goto
<1>10. CASE (\E granted \in BOOLEAN : Resume(granted)) \/ Done
  BY <1>e, <1>10 DEF Resume, Done, vars, locals
<1> QED
  BY <1>1, <1>2, <1>3, <1>4, <1>5, <1>6, <1>7, <1>8, <1>9, <1>10 DEF Next

(* What follows an upgrade or CONNECT is not read as HTTP any more.        *)
LEMMA ExemptRemains ==
  ASSUME TypeInv, Next, Exempt(htrd), pc \in {"idle", "clear", "poke"}, pc' # "failed"
  PROVE  Exempt(htrd')
<1>0. htrd \in HtrdType
  BY DEF TypeInv
<1>1. CASE \E n \in 1..(Len(scn.stream) - ptr) : Feed(n)
  BY <1>1 DEF Feed, Exempt
<1>2. CASE Halt \/ Done
  BY <1>2 DEF Halt, Done, vars, Exempt
<1>3. CASE clear_feed
  <2>1. htrd' = Cleared(htrd)
    BY <1>3 DEF clear_feed, Exempt
  <2> QED
    BY <2>1 DEF Cleared, Fresh, Exempt
<1>4. CASE \E answer \in {"go", "connect", "fail"} : Poke(answer)
  <2>1. htrd' = htrd \/ htrd' = [htrd EXCEPT !.dummified = TRUE]
    BY <1>4 DEF Poke
  <2> QED
    BY <1>0, <2>1 DEF HtrdType, Exempt
<1>5. CASE \E granted \in BOOLEAN : Resume(granted)
  BY <1>5 DEF Resume, Exempt
<1>6. CASE \/ RejectNull \/ ReadPartOfHead \/ ReadHead \/ GetChunkLen \/ GetTrailers \/ ReadContent
           \/ EndChunk \/ Complete \/ FeedmeMore \/ \E policy \in Policies : Peek(policy)
  BY <1>6 DEF RejectNull, ReadPartOfHead, ReadHead, GetChunkLen, GetTrailers, ReadContent, EndChunk,
              Complete, FeedmeMore, Peek
<1> QED
  BY <1>1, <1>2, <1>3, <1>4, <1>5, <1>6 DEF Next

(* The new state by its parts.                                             *)
LEMMA ExactPrimed ==
  ASSUME scn' = scn
  PROVE  /\ Here' = Uncut(scn)[ptr']
         /\ ExactThen => ExactHere'
<1>1. Here' = Uncut(scn)[ptr']
  BY DEF Here
<1>2. ContentAt(ptr)' = ContentAt(ptr') /\ TrailersAt(ptr)' = TrailersAt(ptr')
  BY DEF ContentAt, TrailersAt, PartsAt
<1> QED
  BY <1>1, <1>2 DEF ExactThen, ExactHere

(* No message has content before the first character.                      *)
LEMMA InitExact ==
  ASSUME Init, TypeInv, ReadInv
  PROVE  ContentInv
<1>0. scn.stream \in Seq(STRING)
  BY UncutHere
<1>1. pc = "idle" /\ ptr = 0 /\ peeking = FALSE /\ htrd.suspended = FALSE
      /\ seen.messages = <<>>
  BY DEF Init, Fresh
<1>2. re.concb = "none" /\ re.state = "open" /\ re.content = <<>> /\ re.trailers = <<>>
  BY DEF Init, NoMessage
<1>3. Here.mode = "head" /\ Here.heads = 0
  <2>1. IsUncut(scn, Uncut(scn))
    BY UncutHere
  <2>2. Here = UncutStart
    BY <1>1, <2>1 DEF IsUncut, Here
  <2> QED
    BY <2>2 DEF UncutStart
<1>4. ASSUME NEW modes PROVE \A i \in Nat : PartsAt(modes, ptr)[i] = <<>>
  <2> SUFFICES ASSUME NEW i \in Nat PROVE PartsAt(modes, ptr)[i] = <<>>
    OBVIOUS
  <2>1. IsPart(scn, i, modes, UncutPart(scn, i, modes))
    BY <1>0, PartDef
  <2>2. UncutPart(scn, i, modes)[0] = <<>>
    BY ONLY <2>1 DEF IsPart
  <2> QED
    BY <1>1, <2>2, Zenon DEF PartsAt
<1>5. \A i \in Nat : ContentAt(ptr)[i] = <<>> /\ TrailersAt(ptr)[i] = <<>>
  BY <1>4 DEF ContentAt, TrailersAt
<1>6. PICK C, T, ms : C = ContentAt(ptr) /\ T = TrailersAt(ptr) /\ ms = seen.messages
  OBVIOUS
<1>7. Exact(Here, "idle", htrd, re, FALSE, ms, C, T)
  <2>1. Between(Here, "idle")
    BY ONLY <1>3 DEF Between, InHead
  <2>2. \A i \in 1..Len(ms) : FALSE
    <3>1. Len(ms) = 0
      BY ONLY <1>1, <1>6
    <3> QED
      BY ONLY <3>1
  <2>3. \A i \in Nat : i > Here.heads => C[i] = <<>> /\ T[i] = <<>>
    BY ONLY <1>5, <1>6
  <2> QED
    BY ONLY <1>1, <1>2, <2>1, <2>2, <2>3 DEF Exact, Rest
<1>8. ExactHere
  BY <1>1, <1>6, <1>7 DEF ExactHere
<1> QED
  BY <1>8 DEF ContentInv

(* Every step keeps the content exact.                                     *)
LEMMA StepExact ==
  ASSUME TypeInv, TypeInv', ReadInv, ReadInv', ContentInv, [Next]_vars
  PROVE  ContentInv'
<1>1. CASE UNCHANGED vars
  <2>1. UNCHANGED <<scn, pc, ptr, req, end, peeking, htrd, re, seen>>
    BY <1>1 DEF vars, locals
  <2> QED
    BY <2>1 DEF ContentInv, ExactHere, Here, ContentAt, TrailersAt, PartsAt
<1>2. CASE Next
  <2>1. scn' = scn /\ ptr <= ptr'
    BY <1>2, Ahead
  <2> SUFFICES ASSUME scn.option # "peekonly", pc' # "failed", Here'.mode # "any", ~ Exempt(htrd')
               PROVE  ExactHere'
    BY <2>1 DEF ContentInv
  <2>2. Here' = Uncut(scn)[ptr'] /\ (ExactThen => ExactHere')
    BY <2>1, ExactPrimed
  <2>3. CASE Done
    <3>1. ContentInv'
      BY <1>1, <2>3 DEF Done
    <3> QED
      BY <2>1, <3>1 DEF ContentInv
  <2>4. CASE ~ Done
    <3>1. pc # "failed"
      BY <1>2, <2>4 DEF Next, Feed, RejectNull, ReadPartOfHead, ReadHead, GetChunkLen, GetTrailers,
            ReadContent, EndChunk, Complete, FeedmeMore, clear_feed, Halt, Peek, Poke, Resume
    <3>2. Here.mode # "any"
      <4> SUFFICES ASSUME Here.mode = "any" PROVE FALSE
        OBVIOUS
      <4>1. /\ scn.stream \in Seq(STRING) /\ IsUncut(scn, Uncut(scn)) /\ ptr \in Nat
        BY UncutHere
      <4>2. PICK q : q = ptr'
        OBVIOUS
      <4>3. q \in Nat /\ ptr <= q /\ q <= Len(scn.stream)
        BY <2>1, <4>1, <4>2 DEF TypeInv, Positions
      <4>4. Uncut(scn)[ptr].mode \in {"any", "refused"}
        BY DEF Here
      <4>5. Uncut(scn)[q] = Uncut(scn)[ptr]
        BY ONLY <4>1, <4>3, <4>4, Absorbed
      <4> QED
        BY <2>2, <4>2, <4>5 DEF Here
    <3>3. ~ Exempt(htrd)
      <4> SUFFICES ASSUME Exempt(htrd) PROVE FALSE
        OBVIOUS
      <4>1. pc \in {"idle", "clear", "poke"}
        BY <3>1, <3>2 DEF ReadInv, Good
      <4> QED
        BY <1>2, <4>1, ExemptRemains
    <3>4. GoodHere
      BY <3>1, <3>2, <3>3 DEF ReadInv, GoodHere
    <3>5. GoodThen
      <4>1. Good(Here, pc, htrd, scn.stream, ptr, req, end, peeking, seen.messages)'
        BY <2>1 DEF ReadInv
      <4> QED
        BY <2>1, <2>2, <4>1 DEF GoodThen
    <3>6. ExactHere
      BY <3>1, <3>2, <3>3 DEF ContentInv
    <3>7. Known
      BY <2>1, <3>4, <3>5, <3>6 DEF Known
    <3> SUFFICES ExactThen
      BY <2>2
    <3>8. CASE \E n \in 1..(Len(scn.stream) - ptr) : Feed(n)
      BY <3>7, <3>8, FeedExact
    <3>9. CASE RejectNull \/ ReadPartOfHead \/ ReadHead
      <4>1. ~ RejectNull
        BY DEF RejectNull, Goto
      <4> QED
        BY <3>7, <3>9, <4>1, ReadPartOfHeadExact, ReadHeadExact
    <3>10. CASE GetChunkLen \/ GetTrailers \/ ReadContent \/ EndChunk
      BY <3>7, <3>10, GetChunkLenExact, GetTrailersExact, ReadContentExact, EndChunkExact
    <3>11. CASE Complete \/ FeedmeMore \/ clear_feed \/ Halt
      BY <3>7, <3>11, CompleteExact, FeedmeMoreExact, ClearExact, HaltExact
    <3>12. CASE \E policy \in Policies : Peek(policy)
      BY <3>7, <3>12, PeekExact
    <3>13. CASE \E answer \in {"go", "connect", "fail"} : Poke(answer)
      BY <3>7, <3>13, PokeExact
    <3>14. CASE \E granted \in BOOLEAN : Resume(granted)
      BY <3>7, <3>14, ResumeExact
    <3> QED
      BY <1>2, <2>4, <3>8, <3>9, <3>10, <3>11, <3>12, <3>13, <3>14 DEF Next
  <2> QED
    BY <2>3, <2>4
<1> QED
  BY <1>1, <1>2

(* Content that is exact is that of the stream, not cut.                   *)
LEMMA ContentImplies ==
  ASSUME TypeInv, ReadInv, ContentInv
  PROVE  ContentAsIfUncut
<1> DEFINE Said(i, m, isOver) ==
      /\ m.policy = "stream" \/ (m.policy = "keep" /\ isOver) =>
           m.content = UncutContent(scn, i)[ptr]
      /\ isOver => m.trailers = TrailersOf(UncutPart(scn, i, {"TRAILERS"})[ptr])
      /\ m.ends = IF m.policy = "stream" /\ isOver THEN 1 ELSE 0
<1> SUFFICES ASSUME scn.option # "peekonly", pc = "idle", htrd.dummified => htrd.suspended,
                    Here.mode # "any", NEW i \in 1..Latest
             PROVE  Said(i, seen.messages[i], seen.messages[i].poked = 1)
  BY DEF ContentAsIfUncut, Here
<1>1. ~ Exempt(htrd)
  BY DEF Exempt
<1>2. Good(Here, "idle", htrd, scn.stream, ptr, req, end, peeking, seen.messages)
  BY <1>1 DEF ReadInv
<1>3. ExactHere
  BY <1>1 DEF ContentInv
<1>4. PICK ms, m, C, T : /\ ms = seen.messages /\ m = ms[i]
                         /\ C = ContentAt(ptr) /\ T = TrailersAt(ptr)
  OBVIOUS
<1>5. Told(Here, "idle", peeking, ms) /\ peeking \in BOOLEAN
  BY <1>2, <1>4 DEF Good, TypeInv
<1>6. ~ peeking
  BY <1>5 DEF Told
<1>7. Exact(Here, "idle", htrd, re, FALSE, ms, C, T)
  <2>1. peeking = FALSE
    BY <1>5, <1>6
  <2> QED
    BY <1>3, <1>4, <2>1, Zenon DEF ExactHere
<1>8. Here.heads \in Nat /\ i \in Nat /\ i \in 1..Len(ms) /\ Len(ms) = Here.heads /\ Len(ms) \in Nat
  <2>1. Here.heads \in Nat /\ Latest \in Nat /\ Latest = Len(ms)
    BY <1>4, HereType DEF Latest
  <2>2. Len(ms) + 0 = Here.heads
    BY <1>5, <1>6 DEF Told
  <2> QED
    BY <2>1, <2>2
<1>9. C[i] = UncutContent(scn, i)[ptr] /\ T[i] = UncutPart(scn, i, {"TRAILERS"})[ptr]
  BY <1>4, <1>8 DEF ContentAt, TrailersAt, PartsAt, UncutContent
<1>10. m.poked = IF i < Here.heads \/ Here.mode \in InHead THEN 1 ELSE 0
  BY <1>4, <1>5, <1>8 DEF Told
<1>11. CASE i < Here.heads \/ Here.mode \in InHead
  <2>1. Final(m, C[i], T[i])
    <3>1. Between(Here, "idle") <=> Here.mode \in InHead
      BY DEF Between
    <3> QED
      BY ONLY <1>4, <1>7, <1>8, <1>11, <3>1 DEF Exact
  <2>2. m.poked = 1
    BY <1>10, <1>11
  <2>3. Said(i, m, m.poked = 1)
    BY <1>9, <2>1, <2>2 DEF Final
  <2> QED
    BY <1>4, <2>3
<1>12. CASE ~ (i < Here.heads \/ Here.mode \in InHead)
  <2>1. i = Here.heads /\ i = Len(ms)
    BY ONLY <1>8, <1>12
  <2>2. Body("idle", re, FALSE, ms, C[i])
    <3>1. ~ Between(Here, "idle")
      BY <1>12 DEF Between
    <3> QED
      BY ONLY <1>7, <2>1, <3>1 DEF Exact
  <2>3. Current(re, m, C[i]) /\ re.state \in {"open", "DISCARDED"}
    BY ONLY <1>4, <2>1, <2>2 DEF Body, States
  <2>4. m.policy = "stream" => m.content = C[i] /\ m.ends = 0
    BY ONLY <2>3 DEF Current
  <2>5. m.policy # "stream" => m.ends = 0
    BY ONLY <2>3 DEF Current
  <2>6. m.poked # 1
    BY <1>10, <1>12
  <2>7. Said(i, m, m.poked = 1)
    BY <1>9, <2>4, <2>5, <2>6
  <2> QED
    BY <1>4, <2>7
<1> QED
  BY <1>11, <1>12

(* For every stream, whatever its content, its chunks and its trailers,    *)
(* and every way to divide it into feeds, qse_htrd_feed() gives its user   *)
(* the content and the trailers of each message as if it were not divided. *)
THEOREM DivisionKeepsContent == Spec => []ContentAsIfUncut
<1>1. Init => TypeInv /\ ReadInv /\ ContentInv
  BY InitType, InitReads, InitExact
<1>2. TypeInv /\ ReadInv /\ ContentInv /\ [Next]_vars => TypeInv' /\ ReadInv' /\ ContentInv'
  BY StepType, StepReads, StepExact
<1>3. TypeInv /\ ReadInv /\ ContentInv => ContentAsIfUncut
  BY ContentImplies
<1> QED
  BY <1>1, <1>2, <1>3, PTL DEF Spec
=============================================================================
