----------------------- MODULE LisoConnectionOrder_proof -----------------------
(***************************************************************************)
(* Pipelined requests are answered in order and no input is lost, for any  *)
(* scripts, buffer sizes and faults: OrderInv is kept by every step.  The  *)
(* handlers are followed through the stream of units: what is in the       *)
(* buffer, what is behind it, and the unit that is expected next.          *)
(*                                                                         *)
(* What follows from the order of the answers: each step of LisoConnection *)
(* is a step of the FIFO server of RequestPipeline or a stutter, and no    *)
(* answer depends on the requests before its own.  And what a connection   *)
(* can do to the server process.                                           *)
(***************************************************************************)
EXTENDS LisoConnection_proof, Induction_proof, SequenceTheorems

-----------------------------------------------------------------------------
\* Streams of units.

LEMMA UnitTypes ==
  ASSUME script \in Seq(Texts)
  PROVE  SentUnit \subseteq Unit /\ Seq(SentUnit) \subseteq Seq(Unit)
<1>1. Len(script) \in Nat
  OBVIOUS
<1>2. SentUnit \subseteq Unit
  BY <1>1 DEF SentUnit, Unit
<1> QED
  BY <1>2, SeqMonotonic

\* Removing units from the front of a buffer removes them from the stream.
LEMMA Dropped ==
  ASSUME NEW S, NEW b \in Seq(S), NEW t \in 0..Len(b)
  PROVE  /\ SubSeq(b, t + 1, Len(b)) \in Seq(S)
         /\ Len(SubSeq(b, t + 1, Len(b))) = Len(b) - t
         /\ \A i \in 1..(Len(b) - t) : SubSeq(b, t + 1, Len(b))[i] = b[i + t]
<1>1. Len(b) \in Nat /\ t \in Nat /\ t <= Len(b)
  BY LenProperties
<1>2. \A i \in (t + 1)..Len(b) : b[i] \in S
  BY <1>1
<1>3. t + 1 \in Int /\ Len(b) \in Int
  BY <1>1
<1> DEFINE q == SubSeq(b, t + 1, Len(b))
<1>4. /\ q \in Seq(S) /\ Len(q) = IF t + 1 <= Len(b) THEN Len(b) - (t + 1) + 1 ELSE 0
      /\ \A i \in 1..(Len(b) - (t + 1) + 1) : q[i] = b[(t + 1) + i - 1]
  BY <1>2, <1>3, SubSeqProperties
<1> QED
  BY <1>1, <1>4

LEMMA DropFront ==
  ASSUME NEW S, NEW b \in Seq(S), NEW r \in Seq(S), NEW t \in 0..Len(b), r # <<>>,
         NEW q \in Seq(S), Len(q) = Len(b) - t, \A i \in 1..(Len(b) - t) : q[i] = b[i + t]
  PROVE  /\ Len(q \o r) = Len(b \o r) - t /\ Len(q \o r) > 0
         /\ \A p \in 1..Len(q \o r) : (q \o r)[p] = (b \o r)[p + t]
<1>1. Len(b) \in Nat /\ Len(r) \in Nat /\ Len(r) > 0 /\ t \in Nat /\ t <= Len(b)
  BY LenProperties, EmptySeq
<1>2. /\ Len(q \o r) = Len(q) + Len(r) /\ Len(b \o r) = Len(b) + Len(r)
      /\ \A i \in 1..(Len(q) + Len(r)) :
           (q \o r)[i] = IF i <= Len(q) THEN q[i] ELSE r[i - Len(q)]
      /\ \A i \in 1..(Len(b) + Len(r)) :
           (b \o r)[i] = IF i <= Len(b) THEN b[i] ELSE r[i - Len(b)]
  BY ConcatProperties
<1>3. ASSUME NEW p \in 1..Len(q \o r) PROVE (q \o r)[p] = (b \o r)[p + t]
  <2>1. CASE p <= Len(q)
    BY <1>1, <1>2, <2>1
  <2>2. CASE p > Len(q)
    <3>1. p - Len(q) = (p + t) - Len(b) /\ p + t > Len(b)
      BY <1>1, <1>2, <2>2
    <3> QED
      BY <1>1, <1>2, <2>2, <3>1, SMTT(60)
  <2> QED
    BY <1>1, <1>2, <2>1, <2>2
<1> QED
  BY <1>1, <1>2, <1>3

\* What is left of a stream of consecutive units is one.
LEMMA DropConsecutive ==
  ASSUME NEW S, NEW b \in Seq(S), NEW r \in Seq(S), NEW t \in 0..Len(b), r # <<>>,
         NEW q \in Seq(S), Len(q) = Len(b) - t, \A i \in 1..(Len(b) - t) : q[i] = b[i + t],
         Consecutive(b \o r)
  PROVE  Consecutive(q \o r)
<1> DEFINE s == b \o r
           z == q \o r
<1>1. /\ Len(z) = Len(s) - t /\ Len(z) > 0
      /\ \A p \in 1..Len(z) : z[p] = s[p + t]
  BY DropFront, Zenon
<1>2. Len(s) \in Nat /\ t \in Nat
  BY ConcatProperties
<1>3. Consecutive(s)
  OBVIOUS
<1> HIDE DEF s, z
<1>4. ASSUME NEW p \in 1..(Len(z) - 1) PROVE z[p + 1] = NextUnit(z[p])
  <2>1. p \in 1..Len(z) /\ p + 1 \in 1..Len(z) /\ p + t \in 1..(Len(s) - 1)
    BY <1>1, <1>2
  <2>2. z[p] = s[p + t] /\ z[p + 1] = s[(p + 1) + t] /\ (p + 1) + t = (p + t) + 1
    BY <1>1, <1>2, <2>1
  <2>3. s[(p + t) + 1] = NextUnit(s[p + t])
    BY <1>3, <2>1 DEF Consecutive
  <2> QED
    BY <2>2, <2>3
<1> QED
  BY <1>4 DEF Consecutive, z

LEMMA DropStream ==
  ASSUME NEW b \in Seq(Unit), NEW r \in Seq(Unit), NEW t \in 0..Len(b), r # <<>>,
         Consecutive(b \o r)
  PROVE  /\ Consecutive(SubSeq(b, t + 1, Len(b)) \o r)
         /\ Len(SubSeq(b, t + 1, Len(b)) \o r) = Len(b \o r) - t
         /\ t < Len(b \o r)
         /\ (SubSeq(b, t + 1, Len(b)) \o r)[1] = (b \o r)[t + 1]
<1> DEFINE q == SubSeq(b, t + 1, Len(b))
<1>1. q \in Seq(Unit) /\ Len(q) = Len(b) - t /\ \A i \in 1..(Len(b) - t) : q[i] = b[i + t]
  BY Dropped
<1> HIDE DEF q
<1>2. Consecutive(q \o r)
  BY <1>1, DropConsecutive
<1>3. /\ Len(q \o r) = Len(b \o r) - t /\ Len(q \o r) > 0
      /\ \A p \in 1..Len(q \o r) : (q \o r)[p] = (b \o r)[p + t]
  BY <1>1, DropFront
<1>4. Len(b \o r) \in Nat /\ t \in Nat
  BY ConcatProperties
<1>5. 1 \in 1..Len(q \o r) /\ t < Len(b \o r)
  BY <1>3, <1>4
<1>6. (q \o r)[1] = (b \o r)[1 + t] /\ 1 + t = t + 1
  BY <1>3, <1>4, <1>5
<1> QED
  BY <1>2, <1>3, <1>5, <1>6 DEF q

LEMMA UnitConcat ==
  ASSUME NEW a \in Seq(Unit), NEW b \in Seq(Unit), NEW c \in Seq(Unit)
  PROVE  (a \o b) \o c = a \o (b \o c)
  BY ConcatAssociative

\* The unit that follows j units of the body of request k.
BodyAt(k, j) == IF j < ContentLength(script[k]) THEN [k |-> k, part |-> 2 + j]
                                                ELSE [k |-> k + 1, part |-> 0]

LEMMA NextBodyUnit ==
  ASSUME NEW k \in Nat, ContentLength(script[k]) \in Nat, NEW j \in Nat,
         j < ContentLength(script[k])
  PROVE  NextUnit(BodyAt(k, j)) = BodyAt(k, j + 1)
<1> DEFINE len == ContentLength(script[k])
           u == [k |-> k, part |-> 2 + j]
<1>1. BodyAt(k, j) = u
  BY DEF BodyAt
<1>2. u.k = k /\ u.part = 2 + j
  OBVIOUS
<1>3. NextUnit(u) = IF 2 + j < 1 + len THEN [u EXCEPT !.part = @ + 1]
                                       ELSE [k |-> k + 1, part |-> 0]
  BY DEF NextUnit, LastPart
<1>4. [u EXCEPT !.part = @ + 1] = [k |-> k, part |-> 2 + (j + 1)]
  BY <1>2
<1>5. 2 + j < 1 + len <=> j + 1 < len
  OBVIOUS
<1> QED
  BY <1>1, <1>3, <1>4, <1>5 DEF BodyAt

\* A stream that begins inside a body runs through it.
LEMMA BodyStream ==
  ASSUME NEW k \in Nat, ContentLength(script[k]) \in Nat, NEW j \in Nat, NEW s,
         Len(s) \in Nat, Consecutive(s), s[1] = BodyAt(k, j),
         NEW t \in Nat, t < Len(s), j + t <= ContentLength(script[k])
  PROVE  s[t + 1] = BodyAt(k, j + t)
<1> DEFINE len == ContentLength(script[k])
           T == {n \in Nat : s[n + 1] = BodyAt(k, j + n)}
<1>1. 0 \in T
  <2>1. s[0 + 1] = s[1] /\ j + 0 = j
    OBVIOUS
  <2> QED
    BY <2>1
<1>2. ASSUME NEW n \in 0..(t - 1), n \in T PROVE n + 1 \in T
  <2>1. n + 1 \in 1..(Len(s) - 1) /\ j + n < len /\ j + n \in Nat /\ n + 1 \in Nat
    BY <1>2
  <2>2. s[(n + 1) + 1] = NextUnit(s[n + 1])
    BY <2>1 DEF Consecutive
  <2>3. s[n + 1] = BodyAt(k, j + n)
    BY <1>2
  <2>4. NextUnit(BodyAt(k, j + n)) = BodyAt(k, (j + n) + 1)
    BY <2>1, NextBodyUnit
  <2>5. (j + n) + 1 = j + (n + 1)
    BY <2>1
  <2>6. s[(n + 1) + 1] = BodyAt(k, j + (n + 1))
    BY <2>2, <2>3, <2>4, <2>5
  <2> QED
    BY <2>1, <2>6
<1> HIDE DEF T
<1>3. 0..t \subseteq T
  BY <1>1, <1>2, RangeInduction
<1>4. t \in T
  BY <1>3
<1> QED
  BY <1>4 DEF T

\* The header block of a request, and what is behind it.
LEMMA HeaderStream ==
  ASSUME NEW k \in Nat, ContentLength(script[k]) \in Nat, NEW s, Len(s) \in Nat,
         Len(s) > 2, Consecutive(s), s[1] = [k |-> k, part |-> 0]
  PROVE  s[3] = BodyAt(k, 0)
<1> DEFINE len == ContentLength(script[k])
           u == [k |-> k, part |-> 0]
           v == [k |-> k, part |-> 1]
<1>1. s[1 + 1] = NextUnit(s[1]) /\ s[2 + 1] = NextUnit(s[2])
  BY DEF Consecutive
<1>2. NextUnit(u) = v
  <2>1. u.k = k /\ u.part = 0 /\ 0 < 1 + len /\ [u EXCEPT !.part = @ + 1] = v
    OBVIOUS
  <2> QED
    BY <2>1 DEF NextUnit, LastPart
<1>3. NextUnit(v) = BodyAt(k, 0)
  <2>1. v.k = k /\ v.part = 1 /\ [v EXCEPT !.part = @ + 1] = [k |-> k, part |-> 2 + 0]
        /\ (1 < 1 + len <=> 0 < len)
    OBVIOUS
  <2> QED
    BY <2>1 DEF NextUnit, LastPart, BodyAt
<1>4. s[2] = v /\ s[3] = NextUnit(s[2])
  BY <1>1, <1>2
<1> QED
  BY <1>3, <1>4

-----------------------------------------------------------------------------
\* The handlers that process the buffer.

\* post_recv_phase, while the body of a request that is not an error is on the way.
LEMMA PostRecvOrder ==
  ASSUME script \in Seq(Texts), NEW c, ConnOK(c), c.status = 200, ~c.postfinish,
         c.k \in 1..Len(script), ContentLength(c.request) = ContentLength(script[c.k]),
         NEW at, at = IF c.iindex < 0 THEN 0 ELSE c.iindex,
         NEW e, e = PostRecv(c)
  PROVE  /\ e.k = c.k
         /\ \/ e.postfinish /\ e.wfd
            \/ /\ ~e.postfinish /\ e.wfd = c.wfd /\ e.buf = <<>>
               /\ e.iindex >= 0 /\ e.iindex < ContentLength(c.request)
         /\ \A R \in Seq(Unit), n \in Nat :
              /\ R # <<>>
              /\ Consecutive(c.buf \o R)
              /\ (c.buf \o R)[1] = BodyAt(c.k, at)
              => InStep(e, R, n)
<1> DEFINE len   == ContentLength(c.request)
           taken == Smaller(len - at, Len(c.buf))
           rest  == SubSeq(c.buf, taken + 1, Len(c.buf))
           t     == [c EXCEPT !.iindex = at + taken, !.buf = rest]
           f     == [t EXCEPT !.postfinish = TRUE, !.iindex = -1, !.wfd = TRUE]
<1>1. /\ c \in Conn /\ c.iindex \in Nat \cup {-1} /\ c.iindex <= len /\ c.request \in Texts
      /\ c.hasRequestHeaders /\ c.buf \in Seq(SentUnit)
  BY DEF ConnOK, Conn, BodyBound, Decided
<1>2. len \in Nat
  BY <1>1, ContentLengthType
<1>3. at \in 0..len /\ Len(c.buf) \in Nat
  BY <1>1, <1>2
<1> HIDE DEF len
<1>4. /\ taken \in 0..Len(c.buf) /\ at + taken \in 0..len
      /\ at + taken # len => taken = Len(c.buf)
  BY <1>2, <1>3, SMTT(60) DEF Smaller
<1>5. e = IF t.iindex = len THEN f ELSE t
  BY DEF PostRecv, TakeBody, len, taken
<1> HIDE DEF taken
<1>6. rest \in Seq(SentUnit)
  BY <1>1, <1>4
<1>7. at + taken # len => rest = <<>>
  BY <1>1, <1>3, <1>4, SubSeqEmpty
<1> HIDE DEF rest
<1>8. t \in Conn
  <2>1. at + taken \in Nat \cup {-1}
    BY <1>2, <1>4
  <2> QED
    BY <1>1, <1>6, <2>1 DEF Conn
<1>9. /\ t.iindex = at + taken /\ t.buf = rest /\ t.k = c.k /\ t.wfd = c.wfd
      /\ t.postfinish = c.postfinish /\ t.hasRequestHeaders = c.hasRequestHeaders
  BY <1>1 DEF Conn
<1> HIDE DEF t
<1>10. /\ f.postfinish /\ f.wfd /\ f.k = t.k /\ f.buf = t.buf
       /\ f.hasRequestHeaders = t.hasRequestHeaders
  BY <1>8 DEF Conn
<1> HIDE DEF f
<1>11. ASSUME NEW R \in Seq(Unit), NEW n \in Nat, R # <<>>, Consecutive(c.buf \o R),
              (c.buf \o R)[1] = BodyAt(c.k, at)
       PROVE  InStep(e, R, n)
  <2> DEFINE s == c.buf \o R
             z == rest \o R
  <2>1. c.buf \in Seq(Unit)
    BY <1>1, UnitTypes
  <2>2. taken \in 0..Len(c.buf) /\ R # <<>> /\ Consecutive(s) /\ s[1] = BodyAt(c.k, at)
    BY <1>4, <1>11
  <2>3. Len(s) \in Nat
    BY <2>1, ConcatProperties
  <2>4. Consecutive(z) /\ z[1] = s[taken + 1] /\ taken < Len(s)
    <3> DEFINE b == c.buf
               q == SubSeq(b, taken + 1, Len(b))
    <3>1. b \in Seq(Unit) /\ R \in Seq(Unit) /\ taken \in 0..Len(b) /\ R # <<>>
      BY <2>1, <2>2
    <3>2. Consecutive(b \o R)
      BY <2>2
    <3> HIDE DEF b
    <3>3. /\ Consecutive(q \o R) /\ (q \o R)[1] = (b \o R)[taken + 1]
          /\ taken < Len(b \o R)
      BY <3>1, <3>2, DropStream
    <3> QED
      BY <3>3 DEF rest, b
  <2> HIDE DEF s, z
  <2>5. s[taken + 1] = BodyAt(c.k, at + taken)
    <3>1. /\ c.k \in Nat /\ len \in Nat /\ at \in Nat /\ taken \in Nat /\ at + taken <= len
          /\ len = ContentLength(script[c.k])
      BY <1>2, <1>3, <1>4 DEF len
    <3> QED
      BY <2>2, <2>3, <2>4, <3>1, BodyStream, SMTT(60)
  <2>6. len = ContentLength(script[c.k])
    BY DEF len
  <2>7. CASE at + taken = len
    <3>1. z[1] = [k |-> c.k + 1, part |-> 0]
      BY <1>2, <2>4, <2>5, <2>6, <2>7 DEF BodyAt
    <3>2. e = f
      BY <1>5, <1>9, <2>7
    <3>3. e.buf \o R = z /\ Expected(e, n) = [k |-> c.k + 1, part |-> 0]
      BY <1>1, <1>9, <1>10, <3>2 DEF Expected, z
    <3> QED
      BY <2>4, <3>1, <3>3 DEF InStep
  <2>8. CASE at + taken # len
    <3>1. z[1] = [k |-> c.k, part |-> 2 + (at + taken)]
      BY <1>2, <1>4, <2>4, <2>5, <2>6, <2>8 DEF BodyAt
    <3>2. e = t
      BY <1>5, <1>9, <2>8
    <3>3. e.buf \o R = z /\ Expected(e, n) = [k |-> c.k, part |-> 2 + (at + taken)]
      BY <1>1, <1>9, <3>2 DEF Expected, z
    <3> QED
      BY <2>4, <3>1, <3>3 DEF InStep
  <2> QED
    BY <2>7, <2>8
<1>12. CASE at + taken = len
  <2>1. e = f
    BY <1>5, <1>9, <1>12
  <2> QED
    BY <1>9, <1>10, <1>11, <2>1
<1>13. CASE at + taken # len
  <2>1. e = t
    BY <1>5, <1>9, <1>13
  <2>2. e.iindex >= 0 /\ e.iindex < len
    BY <1>2, <1>4, <1>9, <1>13, <2>1
  <2> QED
    BY <1>7, <1>9, <1>11, <1>13, <2>1, <2>2 DEF len
<1> QED
  BY <1>12, <1>13

\* What a first look at the buffer keeps of a request that is not refused.
LEMMA ParsedRequest ==
  ASSUME script \in Seq(Texts), NEW buf \in Seq(SentUnit), NEW t \in Parsed(buf),
         NEW v \in VersionTokens, NEW r, r = ParsedInto(NoText(v), t), NEW s, NEW o,
         DetermineStatus(s, r, r.method, o) = 200
  PROVE  /\ Framed(buf) /\ Len(buf) >= 2 /\ buf[1].k \in 1..Len(script)
         /\ t = script[buf[1].k]
         /\ r.method = t.method /\ ContentLength(r) = ContentLength(t)
<1>1. t \in Texts
  BY ParsedType
<1>2. r.method \in Implemented
  BY DEF DetermineStatus, MethodStatus
<1>3. r.method = StoredMethod(t.method)
  BY <1>1 DEF ParsedInto, Texts
<1>4. t.method \in Implemented /\ r.method = t.method
  BY <1>1, <1>2, <1>3 DEF StoredMethod, Implemented, Texts
<1>5. Framed(buf)
  <2> SUFFICES ASSUME ~Framed(buf) PROVE FALSE
    OBVIOUS
  <2>1. PICK cl \in BOOLEAN : t = Garbled(cl)
    BY DEF Parsed
  <2>2. t.method = "garbled"
    BY <2>1 DEF Garbled, NoText
  <2> QED
    BY <1>4, <2>2 DEF Implemented
<1>6. Len(buf) >= 2
  BY <1>5, HeaderEndRange DEF Framed
<1>7. buf[1] \in SentUnit
  BY <1>6
<1>8. t = script[buf[1].k]
  BY <1>5 DEF Parsed
<1>9. /\ r.lenHeader = t.lenHeader
      /\ t.lenHeader = "number" => r.len = t.len
  BY <1>1 DEF ParsedInto, NoText, Texts
<1>10. ContentLength(r) = ContentLength(t)
  BY <1>9 DEF ContentLength
<1> QED
  BY <1>4, <1>5, <1>6, <1>7, <1>8, <1>10 DEF SentUnit

LEMMA LookBufferOrder ==
  ASSUME script \in Seq(Texts), NEW c, ConnOK(c), c.buf # <<>>, ~c.hasRequestHeaders,
         RequestTracks(c), c.status = 0, NEW d, NEW l \in LookBuffer(c, d)
  PROVE  /\ l.k = c.buf[1].k /\ ~l.postfinish
         /\ l.status = 200 =>
              /\ Framed(c.buf) /\ l.k \in 1..Len(script) /\ l.hasRequestHeaders
              /\ l.request.method = script[l.k].method
              /\ ContentLength(l.request) = ContentLength(script[l.k])
              /\ l.iindex = -1 /\ ~l.wfd /\ Len(c.buf) >= 2
              /\ l.buf = SubSeq(c.buf, 3, Len(c.buf))
<1> DEFINE he   == HeaderEnd(c.buf)
           seen == [c EXCEPT !.k = c.buf[1].k]
<1>1. /\ c \in Conn /\ c.buf \in Seq(SentUnit) /\ c.iindex = -1 /\ ~c.wfd /\ ~c.postfinish
  BY DEF ConnOK, Conn, BodyBound, Decided, RequestTracks
<1>2. PICK v \in VersionTokens : c.request = NoText(v)
  BY DEF RequestTracks
<1>3. /\ seen.k = c.buf[1].k /\ ~seen.postfinish /\ seen.iindex = -1 /\ ~seen.wfd
      /\ seen.request = c.request /\ seen.buf = c.buf
      /\ DOMAIN seen = DOMAIN c
  BY <1>1 DEF Conn
<1>3a. DOMAIN seen = {"open", "wfd", "buf", "hasRequestHeaders", "sentResponseHeaders",
                      "iindex", "postfinish", "ioIndex", "sendContentSize", "responseLeft",
                      "status", "request", "k"}
  BY <1>1, <1>3 DEF Conn
<1> HIDE DEF seen
<1>4. CASE he = 0
  <2>1. l = [seen EXCEPT !.status = 400, !.wfd = TRUE]
    BY <1>4 DEF LookBuffer, seen
  <2>2. l.k = seen.k /\ l.postfinish = seen.postfinish /\ l.status = 400
    BY <1>3a, <2>1
  <2> QED
    BY <1>3, <2>2
<1>5. CASE he # 0
  <2>1. PICK t \in Parsed(c.buf) :
          l = Determine([seen EXCEPT
                !.status = ParseHttp(t, @),
                !.request = ParsedInto(@, t),
                !.hasRequestHeaders = TRUE,
                !.buf = SubSeq(@, HeaderEnd(@) + 1, Len(@))], d)
    BY <1>5 DEF LookBuffer, seen
  <2> DEFINE st == ParseHttp(t, seen.status)
             rq == ParsedInto(NoText(v), t)
             rest == SubSeq(c.buf, he + 1, Len(c.buf))
             e  == [seen EXCEPT !.status = st, !.request = rq,
                                !.hasRequestHeaders = TRUE, !.buf = rest]
  <2>2. l = Determine(e, d)
    BY <1>2, <1>3, <2>1
  <2> HIDE DEF st, rq, rest
  <2>3. /\ e.k = seen.k /\ e.postfinish = seen.postfinish /\ e.iindex = -1 /\ ~e.wfd
        /\ e.request = rq /\ e.buf = rest /\ e.hasRequestHeaders
        /\ DOMAIN e = DOMAIN seen
    BY <1>3, <1>3a
  <2> HIDE DEF e
  <2> DEFINE s2 == DetermineStatus(e.status, e.request, e.request.method,
                                   DirOutcome(e.request, d))
  <2>4. l = [e EXCEPT !.status = s2]
    BY <2>2 DEF Determine
  <2> HIDE DEF s2
  <2>5. /\ l.k = e.k /\ l.postfinish = e.postfinish /\ l.iindex = e.iindex /\ l.wfd = e.wfd
        /\ l.request = e.request /\ l.buf = e.buf
        /\ l.hasRequestHeaders = e.hasRequestHeaders /\ l.status = s2
    BY <1>3a, <2>3, <2>4
  <2>6. ASSUME s2 = 200
        PROVE  /\ Framed(c.buf) /\ Len(c.buf) >= 2 /\ c.buf[1].k \in 1..Len(script)
               /\ t = script[c.buf[1].k]
               /\ rq.method = t.method /\ ContentLength(rq) = ContentLength(t)
    <3> DEFINE b == c.buf
    <3>1. DetermineStatus(e.status, rq, rq.method, DirOutcome(rq, d)) = 200
      BY <2>3, <2>6 DEF s2
    <3>2. b \in Seq(SentUnit) /\ t \in Parsed(b) /\ rq = ParsedInto(NoText(v), t)
      BY <1>1, <2>1 DEF rq
    <3> HIDE DEF b
    <3>3. /\ Framed(b) /\ Len(b) >= 2 /\ b[1].k \in 1..Len(script)
          /\ t = script[b[1].k]
          /\ rq.method = t.method /\ ContentLength(rq) = ContentLength(t)
      BY <3>1, <3>2, ParsedRequest
    <3> QED
      BY <3>3 DEF b
  <2>7. s2 = 200 => rest = SubSeq(c.buf, 3, Len(c.buf))
    BY <2>6 DEF Framed, rest
  <2> QED
    BY <1>3, <2>3, <2>5, <2>6, <2>7
<1> QED
  BY <1>4, <1>5

\* process_buffer: the request in front of it is parsed, or goes on with its body.
LEMMA ProcessOrder ==
  ASSUME script \in Seq(Texts), NEW c, ConnOK(c), c.buf # <<>>, RequestTracks(c),
         c.status \in {0, 200}, NEW d, NEW e \in ProcessBuffer(c, d)
  PROVE  /\ RequestTracks(e)
         /\ ~e.wfd => ~Stranded(e)
         /\ c.wfd => e.wfd
         /\ e.k = IF c.hasRequestHeaders THEN c.k ELSE c.buf[1].k
         /\ \A R \in Seq(Unit), n \in Nat :
              R # <<>> /\ InStep(c, R, n) /\ e.status \in {0, 200} => InStep(e, R, n)
<1>0. /\ c \in Conn /\ c.buf \in Seq(SentUnit) /\ c.hasRequestHeaders \in BOOLEAN
      /\ c.iindex \in Nat \cup {-1}
      /\ c.sentResponseHeaders \in BOOLEAN /\ c.postfinish \in BOOLEAN
  BY DEF ConnOK, Conn
<1>1. CASE ~c.hasRequestHeaders
  <2>1. c.status = 0 /\ ~c.wfd /\ ~c.sentResponseHeaders
    BY <1>1 DEF ConnOK, Decided
  <2>2. PICK l \in LookBuffer(c, d) : e = PostRecv(WatchIfError(l))
    BY <1>1 DEF ProcessBuffer
  <2>3. ConnOK(l) /\ l.status # 0 /\ SameProgress(c, l)
    BY <1>1, <2>2, LookBufferOK
  <2>4. /\ l.k = c.buf[1].k /\ ~l.postfinish
        /\ l.status = 200 =>
              /\ Framed(c.buf) /\ l.k \in 1..Len(script) /\ l.hasRequestHeaders
              /\ l.request.method = script[l.k].method
              /\ ContentLength(l.request) = ContentLength(script[l.k])
              /\ l.iindex = -1 /\ ~l.wfd /\ Len(c.buf) >= 2
              /\ l.buf = SubSeq(c.buf, 3, Len(c.buf))
    BY <1>1, <2>1, LookBufferOrder
  <2>5. CASE l.status # 200
    <3> DEFINE w == [l EXCEPT !.wfd = TRUE]
    <3>1. WatchIfError(l) = w
      BY <2>3, <2>5 DEF WatchIfError
    <3>2. l \in Conn
      BY <2>3 DEF ConnOK
    <3>3. w \in Conn /\ w.status = l.status /\ ~w.postfinish /\ w.k = l.k
      BY <2>4, <3>2 DEF Conn
    <3> HIDE DEF w
    <3>4. e = [w EXCEPT !.wfd = TRUE]
      BY <2>2, <2>5, <3>1, <3>3 DEF PostRecv
    <3>5. e.wfd /\ e.status = l.status /\ ~e.postfinish /\ e.k = l.k
      BY <3>3, <3>4 DEF Conn
    <3> QED
      BY <1>1, <2>3, <2>4, <2>5, <3>5 DEF RequestTracks
  <2>6. CASE l.status = 200
    <3>1. WatchIfError(l) = l
      BY <2>6 DEF WatchIfError
    <3>2. e = PostRecv(l)
      BY <2>2, <3>1
    <3>3. /\ e.status = 200 /\ e.request = l.request
          /\ e.sentResponseHeaders = l.sentResponseHeaders /\ ConnOK(e)
      BY <2>3, <2>6, <3>2, PostRecvOK DEF SameProgress
    <3> DEFINE at == IF l.iindex < 0 THEN 0 ELSE l.iindex
    <3>4. at = 0
      BY <2>4, <2>6
    <3> HIDE DEF at
    <3>5. /\ e.k = l.k
          /\ \/ e.postfinish /\ e.wfd
             \/ /\ ~e.postfinish /\ e.wfd = l.wfd /\ e.buf = <<>>
                /\ e.iindex >= 0 /\ e.iindex < ContentLength(l.request)
          /\ \A R \in Seq(Unit), n \in Nat :
               /\ R # <<>>
               /\ Consecutive(l.buf \o R)
               /\ (l.buf \o R)[1] = BodyAt(l.k, at)
               => InStep(e, R, n)
      BY <2>3, <2>4, <2>6, <3>2, PostRecvOrder, SMTT(60) DEF at
    <3>6. e.hasRequestHeaders /\ ~e.sentResponseHeaders
      BY <2>1, <2>3, <3>3 DEF ConnOK, Decided, SameProgress
    <3>7. RequestTracks(e)
      BY <2>4, <2>6, <3>3, <3>5, <3>6 DEF RequestTracks
    <3>8. ~e.wfd => ~Stranded(e)
      <4> SUFFICES ASSUME ~e.wfd PROVE ~Stranded(e)
        OBVIOUS
      <4>1. e.buf = <<>> /\ e.iindex < ContentLength(e.request)
        BY <3>3, <3>5
      <4>2. e.iindex \in Nat \cup {-1} /\ ContentLength(e.request) \in Nat
        BY <3>3, ContentLengthType DEF ConnOK, Conn
      <4> QED
        BY <4>1, <4>2 DEF Stranded
    <3>9. ASSUME NEW R \in Seq(Unit), NEW n \in Nat, R # <<>>, InStep(c, R, n)
          PROVE  InStep(e, R, n)
      <4> DEFINE b == c.buf
                 k == l.k
      <4>1. b \in Seq(Unit) /\ Len(b) >= 2 /\ Len(b) \in Nat
        BY <1>0, <2>4, <2>6, UnitTypes
      <4>2. Consecutive(b \o R) /\ (b \o R)[1] = [k |-> n + 1, part |-> 0]
        BY <1>1, <3>9 DEF InStep, Expected
      <4>3. k = b[1].k /\ l.buf = SubSeq(b, 2 + 1, Len(b)) /\ k \in 1..Len(script)
        BY <2>4, <2>6
      <4>4. ContentLength(script[k]) \in Nat /\ k \in Nat
        <5>1. script[k] \in Texts /\ k \in Nat
          BY <4>3
        <5> QED
          BY <5>1, ContentLengthType
      <4> HIDE DEF b, k
      <4>5. b[1] = (b \o R)[1] /\ Len(b \o R) > 2 /\ Len(b \o R) \in Nat
        <5>1. Len(R) \in Nat /\ Len(R) > 0
          BY <3>9, EmptySeq
        <5>2. 1 \in 1..(Len(b) + Len(R)) /\ 1 <= Len(b)
          BY <4>1, <5>1
        <5> QED
          BY <4>1, <5>1, <5>2, ConcatProperties
      <4>6. (b \o R)[1] = [k |-> k, part |-> 0]
        BY <4>2, <4>3, <4>5
      <4>7. (b \o R)[3] = BodyAt(k, 0)
        <5> DEFINE s == b \o R
        <5>1. Len(s) \in Nat /\ Len(s) > 2 /\ Consecutive(s) /\ s[1] = [k |-> k, part |-> 0]
          BY <4>2, <4>5, <4>6
        <5> HIDE DEF s
        <5>2. s[3] = BodyAt(k, 0)
          BY <4>4, <5>1, HeaderStream
        <5> QED
          BY <5>2 DEF s
      <4>8. 2 \in 0..Len(b)
        BY <4>1
      <4>9. /\ Consecutive(SubSeq(b, 2 + 1, Len(b)) \o R)
            /\ (SubSeq(b, 2 + 1, Len(b)) \o R)[1] = (b \o R)[2 + 1]
        BY <3>9, <4>1, <4>2, <4>8, DropStream
      <4>10. Consecutive(l.buf \o R) /\ (l.buf \o R)[1] = BodyAt(k, at)
        <5> DEFINE q == SubSeq(b, 2 + 1, Len(b)) \o R
        <5>1. q = l.buf \o R /\ 2 + 1 = 3
          BY <4>3
        <5>2. Consecutive(q) /\ q[1] = (b \o R)[2 + 1]
          BY <4>9
        <5> HIDE DEF q
        <5> QED
          BY <3>4, <4>7, <5>1, <5>2, ZenonT(60)
      <4> QED
        BY <3>5, <3>9, <4>10 DEF k
    <3> QED
      BY <1>1, <2>1, <2>4, <3>5, <3>7, <3>8, <3>9
  <2> QED
    BY <2>5, <2>6
<1>2. CASE c.hasRequestHeaders
  <2>1. c.status = 200
    BY <1>2 DEF ConnOK, Decided
  <2>2. CASE c.request.method = "POST" /\ c.postfinish
    <3>1. e = c
      BY <1>2, <2>2 DEF ProcessBuffer, PostRecv
    <3> QED
      BY <1>2, <2>2, <3>1 DEF RequestTracks
  <2>3. CASE c.request.method = "POST" /\ ~c.postfinish
    <3>1. e = PostRecv(c)
      BY <1>2, <2>3 DEF ProcessBuffer
    <3>2. /\ e.status = 200 /\ e.request = c.request
          /\ e.sentResponseHeaders = c.sentResponseHeaders /\ ConnOK(e)
      BY <2>1, <3>1, PostRecvOK DEF SameProgress
    <3>3. /\ c.k \in 1..Len(script) /\ c.iindex >= 0 /\ ~c.wfd
          /\ c.iindex < ContentLength(c.request)
          /\ c.request.method = script[c.k].method
          /\ ContentLength(c.request) = ContentLength(script[c.k])
      BY <2>1, <2>3 DEF RequestTracks
    <3>4. c.iindex = IF c.iindex < 0 THEN 0 ELSE c.iindex
      BY <1>0, <3>3
    <3>5. /\ e.k = c.k
          /\ \/ e.postfinish /\ e.wfd
             \/ /\ ~e.postfinish /\ e.wfd = c.wfd /\ e.buf = <<>>
                /\ e.iindex >= 0 /\ e.iindex < ContentLength(c.request)
          /\ \A R \in Seq(Unit), n \in Nat :
               /\ R # <<>>
               /\ Consecutive(c.buf \o R)
               /\ (c.buf \o R)[1] = BodyAt(c.k, c.iindex)
               => InStep(e, R, n)
      BY <2>1, <2>3, <3>1, <3>3, <3>4, PostRecvOrder
    <3>6. RequestTracks(e)
      <4>1. e.hasRequestHeaders
        BY <3>2 DEF ConnOK, Decided
      <4>2. e.sentResponseHeaders => e.request.method = "GET"
        BY <2>1, <3>2 DEF RequestTracks
      <4> QED
        BY <3>2, <3>3, <3>5, <4>1, <4>2 DEF RequestTracks
    <3>7. ~e.wfd => ~Stranded(e)
      <4> SUFFICES ASSUME ~e.wfd PROVE ~Stranded(e)
        OBVIOUS
      <4>1. e.buf = <<>> /\ e.iindex < ContentLength(e.request)
        BY <3>2, <3>5
      <4>2. e.iindex \in Nat \cup {-1} /\ ContentLength(e.request) \in Nat
        BY <3>2, ContentLengthType DEF ConnOK, Conn
      <4> QED
        BY <4>1, <4>2 DEF Stranded
    <3>8. ASSUME NEW R \in Seq(Unit), NEW n \in Nat, R # <<>>, InStep(c, R, n)
          PROVE  InStep(e, R, n)
      <4>1. (c.buf \o R)[1] = BodyAt(c.k, c.iindex)
        BY <1>2, <2>3, <3>3, <3>8 DEF InStep, Expected, BodyAt
      <4>2. Consecutive(c.buf \o R)
        BY <3>8 DEF InStep
      <4> QED
        BY <3>5, <3>8, <4>1, <4>2
    <3> QED
      BY <1>2, <3>3, <3>5, <3>6, <3>7, <3>8
  <2>4. CASE c.request.method # "POST"
    <3>1. e = [c EXCEPT !.wfd = TRUE]
      BY <1>2, <2>4 DEF ProcessBuffer
    <3>2. /\ e.wfd /\ e.buf = c.buf /\ e.k = c.k /\ e.status = c.status
          /\ e.request = c.request /\ e.postfinish = c.postfinish
          /\ e.hasRequestHeaders = c.hasRequestHeaders /\ e.iindex = c.iindex
          /\ e.sentResponseHeaders = c.sentResponseHeaders
      BY <1>0, <3>1 DEF Conn
    <3> HIDE DEF ProcessBuffer
    <3>3. RequestTracks(e)
      BY <1>2, <2>1, <2>4, <3>2 DEF RequestTracks
    <3>4. \A R, n : InStep(c, R, n) => InStep(e, R, n)
      BY <3>2 DEF InStep, Expected
    <3> QED
      BY <1>2, <3>2, <3>3, <3>4
  <2> QED
    BY <1>0, <2>2, <2>3, <2>4
<1> QED
  BY <1>0, <1>1, <1>2

\* get_ready_for_pipeline keeps the buffer and forgets the request.
LEMMA ReadyOrder ==
  ASSUME script \in Seq(Texts), NEW c, ConnOK(c), NEW g, g = [GetReady(c) EXCEPT !.wfd = FALSE]
  PROVE  /\ ConnOK(g) /\ RequestTracks(g) /\ g.buf = c.buf /\ g.open /\ ~g.wfd
         /\ g.status = 0 /\ ~g.hasRequestHeaders /\ ~Started(g)
<1>1. /\ ConnOK(g) /\ g.buf = c.buf /\ ~g.hasRequestHeaders /\ ~g.wfd
      /\ g.open /\ g.responseLeft = 0 /\ ~g.sentResponseHeaders
  BY GetReadyOK
<1>2. g.status = 0 /\ g.request = NoText("") /\ ~g.postfinish
  BY DEF GetReady, Fresh
<1>3. RequestTracks(g)
  <2>1. "" \in VersionTokens
    BY DEF VersionTokens
  <2>2. g.status # 200
    <3>1. g.status = 0
      BY <1>2, Zenon
    <3> QED
      BY <3>1
  <2> QED
    BY <1>1, <1>2, <2>1, <2>2, Zenon DEF RequestTracks
<1> QED
  BY <1>1, <1>2, <1>3 DEF Started

LEMMA ClosedOrder == RequestTracks(Closed) /\ ~Closed.open
<1>1. /\ Closed.status = 0 /\ Closed.request = NoText("") /\ ~Closed.postfinish
      /\ ~Closed.sentResponseHeaders /\ ~Closed.open
  BY DEF Closed, Fresh
<1>2. "" \in VersionTokens
  BY DEF VersionTokens
<1>3. Closed.status # 200
  <2>1. Closed.status = 0
    BY <1>1, Zenon
  <2> QED
    BY <2>1
<1> QED
  BY <1>1, <1>2, <1>3, Zenon DEF RequestTracks

\* The stream begins with a new request.
AtRequest(c, R, n) == /\ (c.buf \o R)[1] = [k |-> n, part |-> 0]
                      /\ Consecutive(c.buf \o R)

\* non_poisonouse_finish: when the request that has been answered has been read to
\* its end, what is left in the buffer is the next one.
LEMMA FinishOrder ==
  ASSUME script \in Seq(Texts), NEW c, ConnOK(c), c.responseLeft = 0,
         NEW o, Len(o) \in Nat, NEW R \in Seq(Unit), R # <<>>,
         AllClean(o) => AtRequest(c, R, Len(o) + 1),
         NEW d, NEW e \in Finish(c, d)
  PROVE  /\ RequestTracks(e)
         /\ e.open => /\ ~e.wfd => ~Stranded(e)
                      /\ AnswerTracks(e, o)
                      /\ e.status \in {0, 200} /\ AllClean(o) => InStep(e, R, Len(o))
<1>1. CASE ClosesAfter(c.request)
  BY <1>1, ClosedOrder DEF Finish
<1>2. CASE ~ClosesAfter(c.request)
  <2> DEFINE g == [GetReady(c) EXCEPT !.wfd = FALSE]
  <2>1. e \in IF g.buf = <<>> THEN {g} ELSE ProcessBuffer(g, d)
    BY <1>2 DEF Finish
  <2>2. /\ ConnOK(g) /\ RequestTracks(g) /\ g.buf = c.buf /\ g.open /\ ~g.wfd
        /\ g.status = 0 /\ ~g.hasRequestHeaders /\ ~Started(g)
    BY ReadyOrder
  <2> HIDE DEF g
  <2>3. AllClean(o) => InStep(g, R, Len(o))
    BY <2>2 DEF AtRequest, InStep, Expected
  <2>4. CASE g.buf = <<>>
    <3>1. e = g
      BY <2>1, <2>4
    <3> QED
      BY <2>2, <2>3, <2>4, <3>1 DEF Stranded, AnswerTracks
  <2>5. CASE g.buf # <<>>
    <3>1. e \in ProcessBuffer(g, d) /\ g.status \in {0, 200}
      BY <2>1, <2>2, <2>5
    <3>2. SameProgress(g, e)
      BY <2>2, <2>5, <3>1, ProcessBufferOK
    <3>3. /\ RequestTracks(e)
          /\ ~e.wfd => ~Stranded(e)
          /\ e.k = g.buf[1].k
          /\ \A Q \in Seq(Unit), n \in Nat :
               Q # <<>> /\ InStep(g, Q, n) /\ e.status \in {0, 200} => InStep(e, Q, n)
      BY <2>2, <2>5, <3>1, ProcessOrder
    <3>4. ~Started(e)
      BY <2>2, <3>2 DEF Started, SameProgress
    <3>5. AllClean(o) => e.k = Len(o) + 1
      <4> DEFINE b == g.buf
      <4>1. b \in Seq(Unit) /\ b # <<>> /\ (AllClean(o) => (b \o R)[1] = [k |-> Len(o) + 1, part |-> 0])
        BY <2>2, <2>5, UnitTypes DEF AtRequest, ConnOK, Conn
      <4> HIDE DEF b
      <4>2. (b \o R)[1] = b[1]
        <5>1. Len(b) \in Nat /\ Len(b) > 0 /\ Len(R) \in Nat
          BY <4>1, EmptySeq
        <5>2. 1 \in 1..(Len(b) + Len(R)) /\ 1 <= Len(b)
          BY <5>1
        <5> QED
          BY <4>1, <5>2, ConcatProperties
      <4> QED
        BY <3>3, <4>1, <4>2 DEF b
    <3> QED
      BY <2>3, <3>3, <3>4, <3>5 DEF AnswerTracks
  <2> QED
    BY <2>4, <2>5
<1> QED
  BY <1>1, <1>2

\* When the last response is clean, so was the reading of its request: the body of
\* a POST has been taken to its end, any other clean request has none.
LEMMA ReadToEnd ==
  ASSUME NEW c, ConnOK(c), RequestTracks(c), c.wfd, c.status = 200,
         NEW o \in Seq(Response), o # <<>>, AllClean(o), o[Len(o)].of = c.k, c.k = Len(o),
         NEW R, NEW n, InStep(c, R, n)
  PROVE  AtRequest(c, R, Len(o) + 1)
<1>1. Clean(o[Len(o)])
  <2>1. Len(o) \in 1..Len(o)
    OBVIOUS
  <2> QED
    BY <2>1 DEF AllClean
<1>2. /\ c.hasRequestHeaders
      /\ c.request.method = script[c.k].method
      /\ ContentLength(c.request) = ContentLength(script[c.k])
      /\ ~c.postfinish => /\ c.iindex >= 0 /\ c.iindex < ContentLength(c.request)
                          /\ c.request.method # "POST"
      /\ c.iindex \in Nat \cup {-1}
  BY DEF RequestTracks, ConnOK, Conn, Decided
<1>3. c.postfinish
  BY <1>1, <1>2 DEF Clean
<1> QED
  BY <1>2, <1>3 DEF InStep, Expected, AtRequest

-----------------------------------------------------------------------------
\* The invariant holds initially and every action keeps it.

InOrder(o) == \A n \in 1..Len(o) : (\A m \in 1..(n - 1) : Clean(o[m])) => o[n].of = n

LEMMA NotZero ==
  ASSUME NEW x, x = 0
  PROVE  x # 200
  OBVIOUS

LEMMA NoElements ==
  ASSUME NEW o, Len(o) = 0
  PROVE  Len(o) + 1 = 1 /\ \A n : n \notin 1..Len(o)
  OBVIOUS

LEMMA OneElement ==
  ASSUME NEW S, NEW u \in S
  PROVE  /\ <<u>> \in Seq(S) /\ Len(<<u>>) = 1 /\ <<u>>[1] = u
         /\ Append(<<>>, u) = <<u>> /\ <<>> \o <<>> = <<>>
         /\ Consecutive(<<u>>)
<1>1. \A p : p \notin 1..(Len(<<u>>) - 1)
  OBVIOUS
<1>2. Consecutive(<<u>>)
  BY <1>1, Zenon DEF Consecutive
<1> QED
  BY <1>2

LEMMA OrderInit == Init => OrderInv
<1> SUFFICES ASSUME Init PROVE OrderInv
  OBVIOUS
<1>0. IInv
  BY InitInv
<1>1. PICK v \in {""} \cup Versions : conn = Fresh(v)
  BY DEF Init
<1>2. /\ conn.status = 0 /\ conn.request = NoText(v) /\ ~conn.postfinish /\ conn.buf = <<>>
      /\ ~conn.hasRequestHeaders /\ ~conn.sentResponseHeaders /\ conn.responseLeft = 0
  BY <1>1 DEF Fresh
<1>3. conn.status # 200
  BY <1>2, NotZero, Zenon
<1>4. v \in VersionTokens
  BY DEF VersionTokens
<1>5. RequestTracks(conn)
  BY <1>2, <1>3, <1>4, Zenon DEF RequestTracks
<1>6. NoStrandedInput /\ AnswerTracks(conn, out)
  BY <1>2, Zenon DEF NoStrandedInput, Stranded, AnswerTracks, Started
<1>7. snap = {} /\ out = <<>> /\ pending = <<>> /\ input = <<>>
        /\ nextUnit = [k |-> 1, part |-> 0]
  BY Zenon DEF Init
<1>8. AnswersInOrder
  <2>1. Len(out) = 0
    BY <1>7, EmptySequence, Zenon
  <2>2. \A n : n \notin 1..Len(out)
    BY <2>1, NoElements, Zenon
  <2> QED
    BY <2>2 DEF AnswersInOrder
<1>9. StreamIntact
  <2> DEFINE u == nextUnit
             s == <<u>>
  <2>0. /\ s \in Seq(Unit) /\ Len(s) = 1 /\ s[1] = u
        /\ Append(<<>>, u) = s /\ <<>> \o <<>> = <<>>
        /\ Consecutive(s)
    <3>1. u \in Unit
      BY <1>0, Zenon DEF IInv, TypeOK
    <3> QED
      BY <3>1, OneElement, Zenon
  <2>1. conn.buf \o Unread = s
    <3>1. Unread = s
      BY <1>7, <2>0, Zenon DEF Unread
    <3>2. <<>> \o s = s
      BY <2>0, ConcatEmptySeq
    <3> QED
      BY <1>2, <3>1, <3>2, Zenon
  <2>2. Expected(conn, Len(out)) = u
    <3>1. Len(out) + 1 = 1
      <4>1. Len(out) = 0
        BY <1>7, EmptySequence, Zenon
      <4> QED
        BY <4>1, NoElements, Zenon
    <3> QED
      BY <1>2, <1>7, <3>1, Zenon DEF Expected
  <2> HIDE DEF s, u
  <2> QED
    BY <2>0, <2>1, <2>2, Zenon DEF StreamIntact, InStep
<1> QED
  BY <1>5, <1>6, <1>7, <1>8, <1>9 DEF OrderInv

\* What is left to show for a step.
LEMMA OrderStep ==
  ASSUME UNCHANGED <<script, tls>>,
         RequestTracks(conn'),
         conn'.open /\ ~conn'.wfd => ~Stranded(conn'),
         conn'.open /\ "w" \in snap' => conn'.wfd,
         InOrder(out'),
         ~tls => pending' = <<>>,
         conn'.open /\ conn'.status \in {0, 200} /\ AllClean(out') =>
           InStep(conn', Append(pending' \o input', nextUnit'), Len(out')),
         conn'.open /\ ~(gone' /\ conn'.status \notin {0, 200}) => AnswerTracks(conn', out')
  PROVE  OrderInv'
<1>1. RequestTracks(conn)' /\ NoStrandedInput' /\ (conn.open /\ "w" \in snap => conn.wfd)'
      /\ (~tls => pending = <<>>)'
  BY DEF RequestTracks, NoStrandedInput, Stranded
<1>2. AnswersInOrder'
  BY DEF InOrder, AnswersInOrder, Clean
<1>3. StreamIntact'
  BY DEF StreamIntact, Serving, AllClean, Clean, InStep, Expected, Consecutive, NextUnit,
         LastPart, Unread
<1>4. (conn.open /\ ~(gone /\ ~Serving) => AnswerTracks(conn, out))'
  BY DEF Serving, AnswerTracks, AllClean, Clean, Started
<1> QED
  BY <1>1, <1>2, <1>3, <1>4 DEF OrderInv

\* The invariant in the form the steps start from.
LEMMA OrderNow ==
  ASSUME OrderInv
  PROVE  /\ RequestTracks(conn)
         /\ conn.open /\ ~conn.wfd => ~Stranded(conn)
         /\ conn.open /\ "w" \in snap => conn.wfd
         /\ InOrder(out)
         /\ ~tls => pending = <<>>
         /\ conn.open /\ conn.status \in {0, 200} /\ AllClean(out) =>
              InStep(conn, Unread, Len(out))
         /\ conn.open /\ ~(gone /\ conn.status \notin {0, 200}) => AnswerTracks(conn, out)
  BY DEF OrderInv, NoStrandedInput, AnswersInOrder, InOrder, StreamIntact, Serving

\* The client sends its next unit.
LEMMA Growing ==
  ASSUME NEW b \in Seq(Unit), NEW x \in Seq(Unit), x # <<>>, NEW v \in Unit,
         v = NextUnit(x[Len(x)]), Consecutive(b \o x)
  PROVE  /\ Consecutive(b \o Append(x, v))
         /\ (b \o Append(x, v))[1] = (b \o x)[1]
<1> DEFINE s == b \o x
           y == Append(x, v)
           z == b \o y
<1>1. /\ Len(b) \in Nat /\ Len(x) \in Nat /\ Len(x) > 0 /\ y \in Seq(Unit)
      /\ Len(y) = Len(x) + 1 /\ y[Len(x) + 1] = v /\ \A i \in 1..Len(x) : y[i] = x[i]
  BY EmptySeq, AppendProperties
<1> HIDE DEF y
<1>2a. /\ Len(s) = Len(b) + Len(x)
       /\ \A i \in 1..(Len(b) + Len(x)) : s[i] = IF i <= Len(b) THEN b[i] ELSE x[i - Len(b)]
  BY ConcatProperties
<1>2b. /\ Len(z) = Len(b) + Len(y)
       /\ \A i \in 1..(Len(b) + Len(y)) : z[i] = IF i <= Len(b) THEN b[i] ELSE y[i - Len(b)]
  BY <1>1, ConcatProperties
<1>2c. Len(z) = Len(s) + 1
  BY <1>1, <1>2a, <1>2b
<1>2. /\ Len(s) = Len(b) + Len(x) /\ Len(z) = Len(s) + 1
      /\ \A i \in 1..(Len(b) + Len(x)) : s[i] = IF i <= Len(b) THEN b[i] ELSE x[i - Len(b)]
      /\ \A i \in 1..(Len(b) + Len(y)) : z[i] = IF i <= Len(b) THEN b[i] ELSE y[i - Len(b)]
  BY <1>2a, <1>2b, <1>2c
<1>3. Consecutive(s)
  OBVIOUS
<1> HIDE DEF s, z
<1>4. ASSUME NEW i \in 1..Len(s) PROVE z[i] = s[i]
  <2>1. CASE i <= Len(b)
    BY <1>1, <1>2, <2>1
  <2>2. CASE i > Len(b)
    <3>1. i - Len(b) \in 1..Len(x)
      BY <1>1, <1>2, <2>2
    <3> QED
      BY <1>1, <1>2, <2>2, <3>1
  <2> QED
    BY <1>1, <1>2, <2>1, <2>2
<1>5. z[Len(s) + 1] = v /\ s[Len(s)] = x[Len(x)]
  <2>1. /\ (Len(s) + 1) - Len(b) = Len(x) + 1 /\ ~(Len(s) + 1 <= Len(b))
        /\ Len(s) - Len(b) = Len(x) /\ ~(Len(s) <= Len(b))
        /\ Len(s) + 1 \in 1..(Len(b) + Len(y)) /\ Len(s) \in 1..(Len(b) + Len(x))
    BY <1>1, <1>2
  <2> QED
    BY <1>1, <1>2, <2>1
<1>6. Len(s) \in Nat /\ 1 \in 1..Len(s)
  BY <1>1, <1>2
<1>7. ASSUME NEW p \in 1..(Len(z) - 1) PROVE z[p + 1] = NextUnit(z[p])
  <2>1. CASE p = Len(s)
    <3>1. z[Len(s)] = s[Len(s)]
      BY <1>4, <1>6
    <3> QED
      BY <1>5, <2>1, <3>1
  <2>2. CASE p # Len(s)
    <3>1. p \in 1..(Len(s) - 1) /\ p \in 1..Len(s) /\ p + 1 \in 1..Len(s)
      BY <1>2c, <1>6, <2>2
    <3>2. z[p] = s[p] /\ z[p + 1] = s[p + 1]
      BY <1>4, <3>1
    <3> QED
      BY <1>3, <3>1, <3>2 DEF Consecutive
  <2> QED
    BY <2>1, <2>2
<1> QED
  BY <1>4, <1>6, <1>7 DEF Consecutive, s, y, z

LEMMA UnreadTypes ==
  ASSUME IInv
  PROVE  /\ pending \in Seq(Unit) /\ input \in Seq(Unit) /\ pending \o input \in Seq(Unit)
         /\ nextUnit \in Unit /\ Unread \in Seq(Unit) /\ Unread # <<>>
         /\ conn.buf \in Seq(Unit)
<1>1. /\ pending \in Seq(Unit) /\ input \in Seq(Unit) /\ nextUnit \in Unit
      /\ conn.buf \in Seq(Unit)
  BY UnitTypes DEF IInv, TypeOK, Conn
<1>2. pending \o input \in Seq(Unit)
  BY <1>1, ConcatProperties
<1> QED
  BY <1>1, <1>2, AppendProperties DEF Unread

LEMMA EnvironmentOrder ==
  ASSUME IInv, OrderInv, Environment
  PROVE  OrderInv'
<1>1. UNCHANGED <<script, tls, pending, conn, snap, out>> /\ (~gone' => ~gone)
  BY DEF Environment, ClientSend, ClientFinish, ClientFails, RemoveFile, TruncateFile,
         client, IInv, TypeOK
<1>2. ASSUME conn.open, conn.status \in {0, 200}, AllClean(out)
      PROVE  InStep(conn, Append(pending \o input', nextUnit'), Len(out))
  <2>1. InStep(conn, Unread, Len(out))
    BY <1>2, OrderNow
  <2>2. CASE ClientSend
    <3> DEFINE x == Unread
               b == conn.buf
    <3>1. /\ x \in Seq(Unit) /\ x # <<>> /\ b \in Seq(Unit) /\ Consecutive(b \o x)
          /\ (b \o x)[1] = Expected(conn, Len(out))
      BY <2>1, UnreadTypes DEF InStep
    <3>2. /\ pending \in Seq(Unit) /\ input \in Seq(Unit) /\ pending \o input \in Seq(Unit)
          /\ nextUnit \in Unit
      BY UnreadTypes
    <3>3. x[Len(x)] = nextUnit
      BY <3>2, AppendProperties DEF Unread
    <3>4. nextUnit' = NextUnit(nextUnit) /\ nextUnit' \in Unit
      <4>1. nextUnit \in SentUnit /\ script \in Seq(Texts)
        BY <2>2 DEF ClientSend, SentUnit, Unit, IInv, TypeOK
      <4> QED
        BY <2>2, <4>1, NextUnitType DEF ClientSend
    <3>5. pending \o input' = x
      <4>1. input' = input \o <<nextUnit>>
        BY <2>2, <3>2, AppendIsConcat DEF ClientSend
      <4>2. <<nextUnit>> \in Seq(Unit)
        BY <3>2
      <4>3. pending \o (input \o <<nextUnit>>) = (pending \o input) \o <<nextUnit>>
        BY <3>2, <4>2, ConcatAssociative
      <4>4. x = (pending \o input) \o <<nextUnit>>
        BY <3>2, AppendIsConcat DEF Unread
      <4> QED
        BY <4>1, <4>3, <4>4
    <3> HIDE DEF x, b
    <3>6. /\ Consecutive(b \o Append(x, nextUnit'))
          /\ (b \o Append(x, nextUnit'))[1] = (b \o x)[1]
      <4> DEFINE v == nextUnit'
      <4>1. v \in Unit /\ v = NextUnit(x[Len(x)])
        BY <3>3, <3>4
      <4> HIDE DEF v
      <4>2. /\ Consecutive(b \o Append(x, v))
            /\ (b \o Append(x, v))[1] = (b \o x)[1]
        BY <3>1, <4>1, Growing
      <4> QED
        BY <4>2 DEF v
    <3> QED
      BY <3>1, <3>5, <3>6 DEF InStep, b
  <2>3. CASE ~ClientSend
    <3>1. UNCHANGED <<input, nextUnit>>
      BY <2>3 DEF Environment, ClientFinish, ClientFails, RemoveFile, TruncateFile, client
    <3> QED
      BY <2>1, <3>1 DEF Unread
  <2> QED
    BY <2>2, <2>3
<1> QED
  BY <1>1, <1>2, OrderNow, OrderStep

LEMMA SelectOrder ==
  ASSUME OrderInv, Select
  PROVE  OrderInv'
<1>1. /\ UNCHANGED <<script, nextUnit, input, gone, tls, pending, conn, out>>
      /\ "w" \in snap' => conn.wfd
  BY DEF Select, client
<1> QED
  BY <1>1, OrderNow, OrderStep DEF Unread

-----------------------------------------------------------------------------
\* The read handler.

\* What a read returns, followed by what it leaves, is what was unread.
LEMMA DeliverOrder ==
  ASSUME IInv, OrderInv, conn.open,
         NEW data \in Seq(SentUnit), data # <<>>, Len(data) <= Space, Deliver(data),
         NEW R \in Seq(Unit), R # <<>>, data \o R = Unread
  PROVE  /\ RequestTracks(conn')
         /\ ~conn'.wfd => ~Stranded(conn')
         /\ conn.wfd => conn'.wfd
         /\ conn'.status \in {0, 200} /\ AllClean(out) => InStep(conn', R, Len(out))
         /\ ~(gone /\ conn'.status \notin {0, 200}) => AnswerTracks(conn', out)
<1>1. ConnOK(conn) /\ script \in Seq(Texts) /\ out \in Seq(Response)
  BY DEF IInv, TypeOK
<1>2. CASE ~Serving
  <2>1. conn' = conn /\ conn.status \notin {0, 200}
    BY <1>2 DEF Deliver, Serving
  <2> QED
    BY <2>1, OrderNow
<1>3. CASE Serving
  <2> DEFINE b == conn.buf \o data
             p == [conn EXCEPT !.buf = b]
  <2>1. conn \in Conn /\ conn.buf \in Seq(SentUnit) /\ Len(conn.buf) \in Nat
    BY <1>1 DEF ConnOK, Conn
  <2>2. /\ b \in Seq(SentUnit) /\ Len(b) = Len(conn.buf) + Len(data)
        /\ Len(data) \in Nat /\ Len(data) # 0
    BY <2>1
  <2>3. Len(b) <= BufSize /\ b # <<>>
    BY <2>1, <2>2, SizesAssumption DEF Space
  <2>4. conn' \in ProcessBuffer(p, disk)
    BY <1>3 DEF Deliver
  <2>5. AllClean(out) => /\ Consecutive(b \o R)
                         /\ (b \o R)[1] = Expected(conn, Len(out))
    <3>1. data \in Seq(Unit) /\ conn.buf \in Seq(Unit)
      BY <1>1, <2>1, UnitTypes
    <3>2. b \o R = conn.buf \o Unread
      BY <3>1, UnitConcat, Zenon
    <3> QED
      BY <1>3, <3>2, OrderNow DEF InStep, Serving
  <2> HIDE DEF b
  <2>6. p \in Conn
    BY <2>1, <2>2 DEF Conn
  <2>7. /\ p.buf = b /\ p.iindex = conn.iindex /\ p.request = conn.request
        /\ p.hasRequestHeaders = conn.hasRequestHeaders /\ p.wfd = conn.wfd
        /\ p.status = conn.status /\ p.open = conn.open
        /\ p.responseLeft = conn.responseLeft /\ p.k = conn.k
        /\ p.sentResponseHeaders = conn.sentResponseHeaders
        /\ p.postfinish = conn.postfinish
    BY <2>1, <2>2 DEF Conn
  <2> HIDE DEF p
  <2>8. ConnOK(p) /\ p.buf # <<>>
    BY <1>1, <2>3, <2>6, <2>7 DEF ConnOK, BodyBound, Decided
  <2>9. RequestTracks(p) /\ p.status \in {0, 200}
    BY <1>3, <2>7, OrderNow DEF RequestTracks, Serving
  <2>10. /\ conn'.status # 0 /\ SameProgress(p, conn')
         /\ p.hasRequestHeaders => conn'.status = p.status
    BY <1>1, <2>4, <2>8, ProcessBufferOK
  <2>11. /\ RequestTracks(conn')
         /\ ~conn'.wfd => ~Stranded(conn')
         /\ p.wfd => conn'.wfd
         /\ conn'.k = IF p.hasRequestHeaders THEN p.k ELSE p.buf[1].k
         /\ \A Q \in Seq(Unit), n \in Nat :
              Q # <<>> /\ InStep(p, Q, n) /\ conn'.status \in {0, 200} => InStep(conn', Q, n)
    BY <1>1, <2>4, <2>8, <2>9, ProcessOrder
  <2>12. Len(out) \in Nat
    BY <1>1
  <2>13. conn'.status \in {0, 200} /\ AllClean(out) => InStep(conn', R, Len(out))
    <3>1. AllClean(out) => InStep(p, R, Len(out))
      BY <2>5, <2>7 DEF InStep, Expected
    <3> QED
      BY <2>11, <2>12, <3>1
  <2>14. AnswerTracks(conn', out)
    <3>1. AnswerTracks(conn, out)
      BY <1>3, OrderNow DEF Serving
    <3>2. Started(conn') <=> Started(conn)
      BY <2>7, <2>10 DEF Started, SameProgress
    <3>3. CASE conn.hasRequestHeaders
      <4>1. conn'.k = conn.k /\ conn'.status = conn.status
        BY <2>7, <2>10, <2>11, <3>3
      <4> QED
        BY <3>1, <3>2, <4>1 DEF AnswerTracks
    <3>4. CASE ~conn.hasRequestHeaders
      <4>1. ~Started(conn)
        BY <1>1, <1>3, <3>4 DEF ConnOK, Decided, Started, Serving
      <4>2. AllClean(out) => conn'.k = Len(out) + 1
        <5>1. conn'.k = b[1].k
          BY <2>7, <2>11, <3>4
        <5>2. (b \o R)[1] = b[1]
          <6>1. Len(b) \in Nat /\ Len(b) > 0 /\ Len(R) \in Nat /\ b \in Seq(Unit)
            BY <1>1, <2>2, <2>3, UnitTypes, EmptySeq
          <6>2. 1 \in 1..(Len(b) + Len(R)) /\ 1 <= Len(b)
            BY <6>1
          <6> QED
            BY <6>1, <6>2, ConcatProperties
        <5>3. AllClean(out) => (b \o R)[1] = [k |-> Len(out) + 1, part |-> 0]
          BY <2>5, <3>4 DEF Expected
        <5> QED
          BY <5>1, <5>2, <5>3
      <4> QED
        BY <3>2, <4>1, <4>2 DEF AnswerTracks
    <3> QED
      BY <3>3, <3>4
  <2> QED
    BY <2>7, <2>11, <2>13, <2>14
<1> QED
  BY <1>2, <1>3

\* The units behind a read, when it and what SSL and the socket keep of it are what
\* they had.
LEMMA Behind ==
  ASSUME NEW data \in Seq(Unit), NEW p \in Seq(Unit), NEW i \in Seq(Unit), NEW u \in Unit
  PROVE  /\ Append(p \o i, u) \in Seq(Unit) /\ Append(p \o i, u) # <<>>
         /\ data \o Append(p \o i, u) = Append(data \o (p \o i), u)
<1> DEFINE x == p \o i
           s == <<u>>
           q == data \o x
<1>1. x \in Seq(Unit)
  BY ConcatProperties
<1> HIDE DEF x
<1>2. Append(x, u) \in Seq(Unit) /\ Append(x, u) # <<>> /\ q \in Seq(Unit)
  BY <1>1, AppendProperties, ConcatProperties
<1> HIDE DEF q
<1>3. s \in Seq(Unit) /\ Append(x, u) = x \o s /\ Append(q, u) = q \o s
  BY <1>1, <1>2, AppendIsConcat, OneElement
<1> HIDE DEF s
<1>4. data \o (x \o s) = (data \o x) \o s
  <2>1. x \in Seq(Unit) /\ s \in Seq(Unit)
    BY <1>1, <1>3
  <2> QED
    BY <2>1, UnitConcat, Zenon
<1> QED
  BY <1>2, <1>3, <1>4 DEF x, q

LEMMA Cut ==
  ASSUME NEW S, NEW q \in Seq(S), NEW n \in 1..Len(q)
  PROVE  /\ SubSeq(q, 1, n) \in Seq(S) /\ SubSeq(q, n + 1, Len(q)) \in Seq(S)
         /\ SubSeq(q, 1, n) \o SubSeq(q, n + 1, Len(q)) = q
         /\ SubSeq(q, 1, n) # <<>> /\ Len(SubSeq(q, 1, n)) = n
<1>1. Len(q) \in Nat /\ \A i \in 1..Len(q) : q[i] \in S
  BY LenProperties
<1>2. 1 \in 1..(Len(q) + 1) /\ n \in (1 - 1)..Len(q) /\ Len(q) \in n..Len(q)
  BY <1>1
<1>3. SubSeq(q, 1, n) \o SubSeq(q, n + 1, Len(q)) = SubSeq(q, 1, Len(q))
  BY <1>2, ConcatAdjacentSubSeq
<1>4. SubSeq(q, 1, Len(q)) = q
  BY SubSeqFull
<1>5. /\ SubSeq(q, 1, n) \in Seq(S) /\ SubSeq(q, n + 1, Len(q)) \in Seq(S)
      /\ SubSeq(q, 1, n) # <<>> /\ Len(SubSeq(q, 1, n)) = n
  BY <1>1
<1> QED
  BY <1>3, <1>4, <1>5

\* What is left to show for a read that returns data.
LEMMA ReadStep ==
  ASSUME IInv, OrderInv, conn.open,
         NEW data \in Seq(SentUnit), data # <<>>, Len(data) <= Space, Deliver(data),
         NEW R \in Seq(Unit), R # <<>>, data \o R = Unread,
         R = Append(pending' \o input', nextUnit'),
         UNCHANGED <<script, tls, gone, out>>, snap' = snap \ {"r"},
         ~tls => pending' = <<>>
  PROVE  OrderInv'
<1>1. /\ RequestTracks(conn')
      /\ ~conn'.wfd => ~Stranded(conn')
      /\ conn.wfd => conn'.wfd
      /\ conn'.status \in {0, 200} /\ AllClean(out) => InStep(conn', R, Len(out))
      /\ ~(gone /\ conn'.status \notin {0, 200}) => AnswerTracks(conn', out)
  BY DeliverOrder
<1>2. "w" \in snap' => conn'.wfd
  BY <1>1, OrderNow
<1>3. out' = out /\ InOrder(out)
  BY OrderNow
<1> QED
  BY <1>1, <1>2, <1>3, OrderStep

LEMMA RecvPlainOrder ==
  ASSUME IInv, OrderInv, RecvPlain
  PROVE  OrderInv'
<1>1. PICK n \in 1..Smaller(Space, Len(input)) :
        /\ Deliver(SubSeq(input, 1, n))
        /\ input' = SubSeq(input, n + 1, Len(input))
  BY DEF RecvPlain
<1>2. input \in Seq(SentUnit) /\ Len(input) \in Nat /\ Space \in Int
  BY SizesAssumption DEF IInv, TypeOK, Space, ConnOK, Conn
<1>3. n \in 1..Len(input) /\ n <= Space
  BY <1>2 DEF Smaller
<1> DEFINE data == SubSeq(input, 1, n)
           rest == SubSeq(input, n + 1, Len(input))
<1>4. /\ data \in Seq(SentUnit) /\ rest \in Seq(SentUnit) /\ data \o rest = input
      /\ data # <<>> /\ Len(data) <= Space
  BY <1>2, <1>3, Cut
<1>5. Deliver(data) /\ input' = rest
  BY <1>1
<1>6. /\ UNCHANGED <<script, tls, nextUnit, gone, out, pending>> /\ snap' = snap \ {"r"}
      /\ conn.open /\ ~tls /\ pending = <<>>
  BY OrderNow DEF RecvPlain, Receiving, StayInPass
<1> HIDE DEF data, rest
<1>7. /\ rest \in Seq(Unit) /\ <<>> \in Seq(Unit) /\ input \in Seq(Unit)
      /\ <<>> \o rest = rest /\ <<>> \o input = input
  BY <1>2, <1>4, UnitTypes, ConcatEmptySeq, EmptySeq DEF IInv, TypeOK
<1>8. nextUnit \in Unit /\ data \in Seq(Unit)
  BY <1>2, <1>4, UnreadTypes, UnitTypes DEF IInv, TypeOK
<1> DEFINE none == <<>>
           R == Append(none \o rest, nextUnit)
<1>9. none \in Seq(Unit) /\ none \o rest = rest /\ none \o input = input /\ pending = none
  BY <1>6, <1>7
<1> HIDE DEF none
<1>10. R \in Seq(Unit) /\ R # <<>> /\ data \o R = Append(data \o (none \o rest), nextUnit)
  <2>1. none \in Seq(Unit) /\ rest \in Seq(Unit)
    BY <1>7, <1>9
  <2> QED
    BY <1>8, <2>1, Behind, Zenon
<1>11. data \o R = Unread
  BY <1>4, <1>9, <1>10, Zenon DEF Unread
<1>12. R = Append(pending' \o input', nextUnit')
  BY <1>5, <1>6, <1>9
<1> HIDE DEF R
<1> QED
  BY <1>4, <1>5, <1>6, <1>10, <1>11, <1>12, ReadStep

LEMMA RecvTlsOrder ==
  ASSUME IInv, OrderInv, RecvTls
  PROVE  OrderInv'
<1>1. PICK m \in 0..Smaller(MaxRecord, Len(input)) :
       LET record == IF pending # <<>> THEN pending ELSE SubSeq(input, 1, m)
           n      == Smaller(Space, Len(record))
       IN /\ (m = 0) = (pending # <<>>)
          /\ Deliver(SubSeq(record, 1, n))
          /\ pending' = SubSeq(record, n + 1, Len(record))
          /\ input' = SubSeq(input, m + 1, Len(input))
  BY DEF RecvTls
<1> DEFINE record == IF pending # <<>> THEN pending ELSE SubSeq(input, 1, m)
           n      == Smaller(Space, Len(record))
           data   == SubSeq(record, 1, n)
           over   == SubSeq(record, n + 1, Len(record))
           rest   == SubSeq(input, m + 1, Len(input))
<1>2. /\ input \in Seq(SentUnit) /\ Len(input) \in Nat
      /\ pending \in Seq(SentUnit) /\ Len(pending) \in Nat
      /\ Space \in Nat \ {0} /\ conn.open /\ script \in Seq(Texts)
  BY SizesAssumption, SMTT(60) DEF IInv, TypeOK, RecvTls, Receiving, Space, ConnOK, Conn
<1>3. m \in 0..Len(input)
  BY <1>2, SizesAssumption DEF Smaller
<1>4. Deliver(data) /\ pending' = over /\ input' = rest
  BY <1>1
<1>5. /\ record \in Seq(SentUnit) /\ record # <<>> /\ rest \in Seq(SentUnit)
      /\ record \o rest = pending \o input
  <2>1. CASE pending # <<>>
    <3>1. m = 0 /\ record = pending
      BY <1>1, <2>1
    <3>2. rest = input
      BY <1>2, <3>1, SubSeqFull
    <3> QED
      BY <1>2, <2>1, <3>1, <3>2
  <2>2. CASE pending = <<>>
    <3>1. m \in 1..Len(input) /\ record = SubSeq(input, 1, m)
      BY <1>1, <1>3, <2>2
    <3>2. /\ record \in Seq(SentUnit) /\ rest \in Seq(SentUnit) /\ record # <<>>
          /\ record \o rest = input
      BY <1>2, <3>1, Cut
    <3>3. <<>> \o input = input
      BY <1>2, ConcatEmptySeq
    <3> QED
      BY <2>2, <3>2, <3>3
  <2> QED
    BY <2>1, <2>2
<1> HIDE DEF record, rest
<1>6. Len(record) \in Nat \ {0}
  BY <1>5, EmptySeq
<1>7. n \in 1..Len(record) /\ n <= Space
  BY <1>2, <1>6 DEF Smaller
<1> HIDE DEF n
<1>8. /\ data \in Seq(SentUnit) /\ over \in Seq(SentUnit) /\ data \o over = record
      /\ data # <<>> /\ Len(data) <= Space
  BY <1>5, <1>7, Cut
<1> HIDE DEF data, over
<1>9. /\ data \in Seq(Unit) /\ over \in Seq(Unit) /\ rest \in Seq(Unit)
  BY <1>2, <1>5, <1>8, UnitTypes
<1>10. data \o (over \o rest) = pending \o input
  <2>1. data \o (over \o rest) = (data \o over) \o rest
    BY <1>9, UnitConcat, Zenon
  <2> QED
    BY <1>5, <1>8, <2>1, Zenon
<1>11. /\ UNCHANGED <<script, tls, nextUnit, gone, out>> /\ snap' = snap \ {"r"} /\ tls
  BY DEF RecvTls, StayInPass
<1> DEFINE R == Append(over \o rest, nextUnit)
<1>12. R \in Seq(Unit) /\ R # <<>> /\ data \o R = Append(data \o (over \o rest), nextUnit)
  <2>1. nextUnit \in Unit
    BY UnreadTypes
  <2> QED
    BY <1>9, <2>1, Behind, ZenonT(60)
<1>13. data \o R = Unread
  BY <1>10, <1>12, Zenon DEF Unread
<1>14. R = Append(pending' \o input', nextUnit')
  BY <1>4, <1>11
<1> HIDE DEF R
<1> QED
  BY <1>2, <1>4, <1>8, <1>11, <1>12, <1>13, <1>14, ReadStep

\* A step that closes the connection, or leaves it alone.
LEMMA CloseOrder ==
  ASSUME IInv, OrderInv, UNCHANGED <<script, tls, pending, out>>, conn' = Closed
  PROVE  OrderInv'
<1>1. RequestTracks(conn') /\ ~conn'.open
  BY ClosedOrder
<1> QED
  BY <1>1, OrderNow, OrderStep

LEMMA RecvEndOrder ==
  ASSUME IInv, OrderInv, RecvZero \/ RecvError
  PROVE  OrderInv'
<1>1. UNCHANGED <<script, nextUnit, input, gone, tls, pending, out>>
  BY DEF RecvZero, RecvError, client
<1>2. CASE conn' = Closed
  BY <1>1, <1>2, CloseOrder
<1>3. CASE conn' = conn /\ snap' = snap \ {"r"}
  BY <1>1, <1>3, OrderNow, OrderStep DEF Unread
<1>4. CASE /\ conn' = [conn EXCEPT !.status = 500, !.wfd = TRUE] /\ snap' = snap \ {"r"}
           /\ RecvError
  <2>1. gone
    BY <1>4 DEF RecvError, IInv
  <2>2. conn \in Conn
    BY DEF IInv, ConnOK
  <2>3. /\ conn'.status = 500 /\ conn'.wfd /\ conn'.postfinish = conn.postfinish
        /\ conn'.hasRequestHeaders = conn.hasRequestHeaders
    BY <1>4, <2>2 DEF Conn
  <2>4. conn'.status \notin {0, 200}
    BY <2>3
  <2>5. RequestTracks(conn')
    BY <2>3, <2>4, OrderNow DEF RequestTracks
  <2> QED
    BY <1>1, <2>1, <2>3, <2>4, <2>5, OrderNow, OrderStep
<1> QED
  BY <1>2, <1>3, <1>4 DEF RecvZero, RecvError, CloseInPass, StayInPass

-----------------------------------------------------------------------------
\* The write handler.

\* What only the read handler changes.
SameRequest(c, e) == /\ e.open = c.open /\ e.wfd = c.wfd /\ e.buf = c.buf
                     /\ e.hasRequestHeaders = c.hasRequestHeaders
                     /\ e.iindex = c.iindex /\ e.postfinish = c.postfinish
                     /\ e.request = c.request /\ e.k = c.k

LEMMA SameRequestTracks ==
  ASSUME NEW c, NEW e, RequestTracks(c), SameRequest(c, e), e.status # 0,
         e.status = 200 => c.status = 200,
         e.sentResponseHeaders /\ e.status = 200 => e.request.method = "GET"
  PROVE  RequestTracks(e)
  BY DEF RequestTracks, SameRequest

LEMMA SameStream ==
  ASSUME NEW c, NEW e, SameRequest(c, e), c.hasRequestHeaders, NEW R, NEW n, NEW m,
         InStep(c, R, n)
  PROVE  InStep(e, R, m)
  BY DEF InStep, Expected, SameRequest

LEMMA BuiltRequest ==
  ASSUME NEW c, ConnOK(c), NEW d
  PROVE  SameRequest(c, Built(c, d))
<1>1. c \in Conn
  BY DEF ConnOK
<1>2. CASE c.responseLeft # 0
  BY <1>2 DEF Built, SameRequest
<1>3. CASE c.responseLeft = 0
  <2> DEFINE s == DetermineStatus(c.status, c.request, c.request.method,
                                  DirOutcome(c.request, d))
             e == [c EXCEPT !.status = s]
             z == IF e.status = 200 /\ e.request.method \in {"GET", "HEAD"}
                    THEN DirSize(e.request, d) ELSE e.sendContentSize
             b == [e EXCEPT !.responseLeft = ResponseSize, !.sendContentSize = z]
  <2>1. Built(c, d) = b
    BY <1>3 DEF Built, Determine
  <2> HIDE DEF s
  <2>2. SameRequest(c, e) /\ DOMAIN e = DOMAIN c
    BY <1>1 DEF Conn, SameRequest
  <2>3. DOMAIN c = {"open", "wfd", "buf", "hasRequestHeaders", "sentResponseHeaders",
                    "iindex", "postfinish", "ioIndex", "sendContentSize", "responseLeft",
                    "status", "request", "k"}
    BY <1>1 DEF Conn
  <2> HIDE DEF e, z
  <2>4. SameRequest(e, b)
    BY <2>2, <2>3 DEF SameRequest
  <2> HIDE DEF b
  <2> QED
    BY <2>1, <2>2, <2>4 DEF SameRequest
<1> QED
  BY <1>2, <1>3

LEMMA WroteRequest ==
  ASSUME NEW b, ConnOK(b), NEW n
  PROVE  SameRequest(b, Wrote(b, n))
<1>1. b \in Conn
  BY DEF ConnOK
<1> QED
  BY <1>1 DEF Wrote, Conn, SameRequest

\* The same answers, sent further.
SameAnswers(o, q) ==
  Len(q) = Len(o) /\ \A n \in 1..Len(o) : q[n].of = o[n].of /\ q[n].status = o[n].status

LEMMA SameOrder ==
  ASSUME NEW o, NEW q, SameAnswers(o, q)
  PROVE  /\ InOrder(o) => InOrder(q)
         /\ AllClean(q) <=> AllClean(o)
<1>1. Len(q) = Len(o) /\ \A n \in 1..Len(o) : q[n].of = o[n].of /\ Clean(q[n]) = Clean(o[n])
  BY DEF SameAnswers, Clean
<1>2. \A n \in 1..Len(o) : \A m \in 1..(n - 1) : m \in 1..Len(o) \/ Len(o) \notin Nat
  OBVIOUS
<1>3. AllClean(q) <=> AllClean(o)
  BY <1>1 DEF AllClean
<1>4. ASSUME InOrder(o), NEW n \in 1..Len(o), \A m \in 1..(n - 1) : Clean(q[m])
      PROVE  q[n].of = n
  <2>1. ASSUME NEW m \in 1..(n - 1) PROVE m \in 1..Len(o)
    OBVIOUS
  <2>2. \A m \in 1..(n - 1) : Clean(o[m])
    BY <1>1, <1>4, <2>1
  <2>3. o[n].of = n
    BY <1>4, <2>2 DEF InOrder
  <2> QED
    BY <1>1, <2>3
<1> QED
  BY <1>1, <1>3, <1>4 DEF InOrder

LEMMA LeftAnswers ==
  ASSUME NEW o \in Seq(Response), o # <<>>, NEW l,
         NEW q, q = [o EXCEPT ![Len(o)].left = l] \/ q = [o EXCEPT ![Len(o)].owed = l]
  PROVE  SameAnswers(o, q)
<1>1. Len(o) \in 1..Len(o)
  OBVIOUS
<1> DEFINE r == o[Len(o)]
           x == [r EXCEPT !.left = l]
           y == [r EXCEPT !.owed = l]
<1>2. r \in Response
  BY <1>1
<1> HIDE DEF r
<1>3. x.of = r.of /\ x.status = r.status /\ y.of = r.of /\ y.status = r.status
  BY <1>2 DEF Response
<1>4. q = [o EXCEPT ![Len(o)] = x] \/ q = [o EXCEPT ![Len(o)] = y]
  BY DEF r
<1> HIDE DEF x, y
<1>5. ASSUME NEW z, q = [o EXCEPT ![Len(o)] = z], z.of = r.of, z.status = r.status
      PROVE  SameAnswers(o, q)
  <2>1. Len(q) = Len(o) /\ q[Len(o)] = z
    BY <1>1, <1>5
  <2>2. ASSUME NEW n \in 1..Len(o), n # Len(o) PROVE q[n] = o[n]
    BY <1>5, <2>2
  <2>3. ASSUME NEW n \in 1..Len(o) PROVE q[n].of = o[n].of /\ q[n].status = o[n].status
    BY <1>5, <2>1, <2>2 DEF r
  <2> QED
    BY <2>1, <2>3 DEF SameAnswers
<1> QED
  BY <1>3, <1>4, <1>5

LEMMA NextAnswer ==
  ASSUME NEW o \in Seq(Response), NEW r \in Response, NEW q, q = Append(o, r),
         InOrder(o), AllClean(o) => r.of = Len(o) + 1
  PROVE  /\ InOrder(q) /\ q \in Seq(Response) /\ q # <<>> /\ q[Len(q)] = r
         /\ AllClean(q) => AllClean(o)
<1>1. /\ q \in Seq(Response) /\ q # <<>> /\ Len(q) = Len(o) + 1 /\ q[Len(q)] = r
      /\ \A n \in 1..Len(o) : q[n] = o[n] /\ n \in 1..Len(q)
      /\ Len(o) \in Nat
  OBVIOUS
<1>2. AllClean(q) => AllClean(o)
  BY <1>1 DEF AllClean
<1>3. ASSUME NEW n \in 1..Len(q), \A m \in 1..(n - 1) : Clean(q[m])
      PROVE  q[n].of = n
  <2>1. CASE n = Len(q)
    <3>1. n - 1 = Len(o)
      BY <1>1, <2>1
    <3>2. AllClean(o)
      BY <1>1, <1>3, <3>1 DEF AllClean
    <3> QED
      BY <1>1, <2>1, <3>2
  <2>2. CASE n # Len(q)
    <3>1. n \in 1..Len(o) /\ \A m \in 1..(n - 1) : m \in 1..Len(o)
      BY <1>1, <2>2
    <3>2. \A m \in 1..(n - 1) : Clean(o[m])
      BY <1>1, <1>3, <3>1
    <3> QED
      BY <1>1, <3>1, <3>2 DEF InOrder
  <2> QED
    BY <2>1, <2>2
<1> QED
  BY <1>1, <1>2, <1>3 DEF InOrder

\* The response under way is for the request at hand, and in its place.
LEMMA OutBuiltOrder ==
  ASSUME IInv, OrderInv, conn.open, ~gone, ~BodyTurn, conn.status # 0,
         NEW b, b = Built(conn, disk), NEW o, o = OutBuilt(b)
  PROVE  /\ o \in Seq(Response) /\ o # <<>> /\ InOrder(o)
         /\ o[Len(o)].of = conn.k /\ o[Len(o)].status = b.status
         /\ AllClean(o) => AllClean(out)
<1>1. /\ ConnOK(conn) /\ out \in Seq(Response) /\ InOrder(out) /\ RequestTracks(conn)
      /\ AnswerTracks(conn, out) /\ disk \in [Paths -> [open : OpenOutcomes, size : Nat]]
  BY OrderNow DEF IInv, TypeOK
<1>a. ConnOK(b) /\ (conn.responseLeft # 0 => b = conn)
  BY <1>1, BuiltOK
<1>b. b.responseLeft \in 0..ResponseSize /\ b.status \in Nat /\ b.sendContentSize \in Nat
  <2>1. b \in Conn
    BY <1>a DEF ConnOK
  <2> QED
    BY <2>1 DEF Conn
<1>c. o \in Seq(Response) /\ o # <<>>
  BY OutBuiltOK
<1>2. /\ o \in Seq(Response) /\ o # <<>>
      /\ conn.responseLeft # 0 => b = conn
      /\ b.responseLeft \in 0..ResponseSize /\ b.status \in Nat /\ b.sendContentSize \in Nat
  BY <1>a, <1>b, <1>c
<1>3. CASE conn.responseLeft # 0
  BY <1>1, <1>2, <1>3 DEF OutBuilt, AnswerTracks, Started
<1>4. CASE conn.responseLeft = 0
  <2> DEFINE owed == IF b.status = 200 /\ b.request.method = "GET"
                       THEN b.sendContentSize ELSE 0
             r == [of |-> conn.k, status |-> b.status, left |-> b.responseLeft,
                   owed |-> owed]
  <2>1. o = Append(out, r)
    BY <1>4 DEF OutBuilt
  <2>2. owed \in Nat /\ conn.k \in Nat
    BY <1>1, <1>2 DEF ConnOK, Conn
  <2> HIDE DEF owed
  <2>3. r \in Response /\ r.of = conn.k /\ r.status = b.status
    BY <1>2, <2>2 DEF Response
  <2> HIDE DEF r
  <2>4. ASSUME AllClean(out) PROVE conn.k = Len(out) + 1
    <3>1. CASE Started(conn)
      <4>1. conn.sentResponseHeaders /\ out # <<>> /\ out[Len(out)].status = conn.status
        BY <1>1, <1>4, <3>1 DEF Started, AnswerTracks
      <4>2. Len(out) \in 1..Len(out)
        BY <1>1, <4>1
      <4>3. conn.status = 200
        BY <2>4, <4>1, <4>2 DEF AllClean, Clean
      <4> QED
        BY <1>1, <4>1, <4>3 DEF RequestTracks, BodyTurn
    <3>2. CASE ~Started(conn)
      BY <1>1, <2>4, <3>2 DEF AnswerTracks
    <3> QED
      BY <3>1, <3>2
  <2> QED
    BY <1>1, <2>1, <2>3, <2>4, NextAnswer
<1> QED
  BY <1>3, <1>4

\* When all answers are clean, the last one is to the request that has been read
\* last, and that request has been read to its end.
LEMMA NextRequest ==
  ASSUME IInv, OrderInv, conn.open, conn.wfd, NEW s, s = 200 => conn.status = 200,
         NEW q \in Seq(Response), q # <<>>, InOrder(q), AllClean(q), AllClean(out),
         q[Len(q)].of = conn.k, q[Len(q)].status = s
  PROVE  AtRequest(conn, Unread, Len(q) + 1)
<1>1. Len(q) \in 1..Len(q) /\ \A m \in 1..(Len(q) - 1) : m \in 1..Len(q)
  OBVIOUS
<1>2. Clean(q[Len(q)]) /\ \A m \in 1..(Len(q) - 1) : Clean(q[m])
  BY <1>1 DEF AllClean
<1>3. conn.k = Len(q) /\ conn.status = 200
  BY <1>1, <1>2 DEF InOrder, Clean
<1>4. InStep(conn, Unread, Len(out)) /\ RequestTracks(conn) /\ ConnOK(conn)
  BY <1>3, OrderNow DEF IInv
<1> QED
  BY <1>3, <1>4, ReadToEnd

LEMMA SendResponseOrder ==
  ASSUME IInv, OrderInv, SendResponse
  PROVE  OrderInv'
<1> DEFINE b == Built(conn, disk)
           o == OutBuilt(b)
<1>1. /\ ConnOK(conn) /\ disk \in [Paths -> [open : OpenOutcomes, size : Nat]]
      /\ script \in Seq(Texts) /\ conn.open /\ ~gone /\ ~BodyTurn /\ conn.status # 0
      /\ RequestTracks(conn) /\ conn.wfd
  BY OrderNow DEF SendResponse, Sending, IInv, TypeOK
<1>2. PICK n \in 1..b.responseLeft :
        /\ out' = [o EXCEPT ![Len(o)].left = @ - n]
        /\ IF conn.status = 200 /\ conn.request.method = "GET"
             THEN conn' = Wrote(b, n)
             ELSE conn' \in Finish(Wrote(b, n), disk)
  BY DEF SendResponse
<1>3. /\ ConnOK(b) /\ b.status # 0 /\ b.responseLeft \in 1..ResponseSize
      /\ b.sentResponseHeaders = conn.sentResponseHeaders
      /\ b.status = 200 => conn.status = 200
      /\ SameRequest(conn, b)
  BY <1>1, BuiltOK, BuiltRequest
<1>4. /\ o \in Seq(Response) /\ o # <<>> /\ InOrder(o)
      /\ o[Len(o)].of = conn.k /\ o[Len(o)].status = b.status
      /\ AllClean(o) => AllClean(out)
  BY <1>1, OutBuiltOrder
<1>5. SameAnswers(o, out')
  <2> DEFINE l == o[Len(o)].left - n
             q == out'
  <2>1. q = [o EXCEPT ![Len(o)].left = l]
    BY <1>2
  <2> HIDE DEF o, l, q
  <2>2. SameAnswers(o, q)
    BY <1>4, <2>1, LeftAnswers
  <2> QED
    BY <2>2 DEF q
<1>6. out' \in Seq(Response)
  BY SendResponseInv DEF IInv, TypeOK
<1> DEFINE w == Wrote(b, n)
           q == out'
<1>7. /\ ConnOK(w) /\ w.status = b.status /\ w.responseLeft = b.responseLeft - n
      /\ w.sentResponseHeaders = (b.sentResponseHeaders \/ b.responseLeft = n)
      /\ SameRequest(b, w)
  BY <1>3, WroteOK, WroteRequest
<1>8. IF conn.status = 200 /\ conn.request.method = "GET"
        THEN conn' = w ELSE conn' \in Finish(w, disk)
  BY <1>2
<1> HIDE DEF b, o, w
<1>9. SameRequest(conn, w)
  BY <1>3, <1>7 DEF SameRequest
<1>10. /\ q \in Seq(Response) /\ q # <<>> /\ InOrder(q)
       /\ q[Len(q)].of = conn.k /\ q[Len(q)].status = b.status
       /\ AllClean(q) => AllClean(out)
  <2>1. InOrder(q) /\ (AllClean(q) => AllClean(out)) /\ Len(q) = Len(o)
    BY <1>4, <1>5, SameOrder DEF SameAnswers
  <2>2. Len(o) \in 1..Len(o)
    BY <1>4
  <2>3. q[Len(q)].of = conn.k /\ q[Len(q)].status = b.status
    BY <1>4, <1>5, <2>2 DEF SameAnswers
  <2>4. q # <<>>
    BY <1>6, <2>1, <2>2
  <2> QED
    BY <1>6, <2>1, <2>3, <2>4
<1> HIDE DEF q
<1>11. UNCHANGED <<script, nextUnit, input, gone, tls, pending>> /\ snap' = {} /\ q = out'
  BY DEF SendResponse, client, q
<1>12. CASE conn' = w /\ (w.sentResponseHeaders /\ w.status = 200 => w.request.method = "GET")
              /\ Started(w)
  <2>1. RequestTracks(w)
    BY <1>1, <1>3, <1>7, <1>9, <1>12, SameRequestTracks
  <2>2. w.wfd /\ w.k = conn.k
    BY <1>1, <1>9 DEF SameRequest
  <2>3. w.status \in {0, 200} /\ AllClean(q) => InStep(w, Unread, Len(q))
    <3> SUFFICES ASSUME w.status \in {0, 200}, AllClean(q) PROVE InStep(w, Unread, Len(q))
      OBVIOUS
    <3>1. conn.status = 200 /\ AllClean(out)
      BY <1>3, <1>7, <1>10
    <3>2. InStep(conn, Unread, Len(out)) /\ conn.hasRequestHeaders
      BY <1>1, <3>1, OrderNow DEF ConnOK, Decided
    <3> QED
      BY <1>9, <3>2, SameStream
  <2>4. AnswerTracks(w, q)
    BY <1>7, <1>10, <1>12, <2>2 DEF AnswerTracks
  <2> QED
    BY <1>10, <1>11, <1>12, <2>1, <2>2, <2>3, <2>4, OrderNow, OrderStep DEF Unread
<1>13. CASE conn' \in Finish(w, disk) /\ w.responseLeft = 0
  <2>1. AllClean(q) => AtRequest(w, Unread, Len(q) + 1)
    <3> SUFFICES ASSUME AllClean(q) PROVE AtRequest(w, Unread, Len(q) + 1)
      OBVIOUS
    <3>1. AtRequest(conn, Unread, Len(q) + 1)
      BY <1>1, <1>3, <1>10, NextRequest
    <3> QED
      BY <1>9, <3>1 DEF AtRequest, SameRequest
  <2>2. Len(q) \in Nat /\ Unread \in Seq(Unit) /\ Unread # <<>>
    BY <1>10, UnreadTypes
  <2>3. /\ RequestTracks(conn')
        /\ conn'.open => /\ ~conn'.wfd => ~Stranded(conn')
                         /\ AnswerTracks(conn', q)
                         /\ conn'.status \in {0, 200} /\ AllClean(q) => InStep(conn', Unread, Len(q))
    BY <1>1, <1>7, <1>13, <2>1, <2>2, FinishOrder
  <2> QED
    BY <1>10, <1>11, <2>3, OrderNow, OrderStep DEF Unread
<1>14. w.responseLeft \in Nat /\ w.sentResponseHeaders \in BOOLEAN /\ b.responseLeft \in Nat
  BY <1>3, <1>7, SizesAssumption DEF ConnOK, Conn
<1>15. w.responseLeft = 0 => w.sentResponseHeaders
  <2>1. w.responseLeft = 0 => b.responseLeft = n
    BY <1>7, <1>14
  <2> QED
    BY <1>7, <2>1, Zenon
<1>16. Started(w)
  BY <1>14, <1>15 DEF Started
<1>17. CASE conn.status = 200 /\ conn.request.method = "GET"
  <2>1. conn' = w /\ w.request.method = "GET"
    BY <1>8, <1>9, <1>17 DEF SameRequest
  <2> QED
    BY <1>12, <1>16, <2>1
<1>18. CASE ~(conn.status = 200 /\ conn.request.method = "GET")
  <2>1. conn' \in Finish(w, disk)
    BY <1>8, <1>18
  <2>2. CASE w.responseLeft # 0
    <3>1. conn' = w
      BY <2>1, <2>2 DEF Finish
    <3>2. w.sentResponseHeaders => conn.sentResponseHeaders
      <4>1. b.responseLeft # n
        BY <1>7, <1>14, <2>2
      <4> QED
        BY <1>3, <1>7, <4>1, Zenon
    <3>3. w.sentResponseHeaders /\ w.status = 200 => w.request.method = "GET"
      <4> SUFFICES ASSUME w.sentResponseHeaders, w.status = 200
                   PROVE  w.request.method = "GET"
        OBVIOUS
      <4>1. conn.sentResponseHeaders /\ conn.status = 200
        BY <1>3, <1>7, <3>2
      <4> QED
        BY <1>1, <1>9, <4>1 DEF RequestTracks, SameRequest
    <3> QED
      BY <1>12, <1>16, <3>1, <3>3
  <2> QED
    BY <1>13, <2>1, <2>2
<1> QED
  BY <1>17, <1>18

Sent(c, i, l) == [c EXCEPT !.ioIndex = i, !.sendContentSize = l]

LEMMA SentRequest ==
  ASSUME NEW c, ConnOK(c), NEW i \in Nat, NEW l \in Nat
  PROVE  /\ ConnOK(Sent(c, i, l)) /\ SameRequest(c, Sent(c, i, l))
         /\ Sent(c, i, l).sendContentSize = l
         /\ Sent(c, i, l).status = c.status /\ Sent(c, i, l).responseLeft = c.responseLeft
         /\ Sent(c, i, l).sentResponseHeaders = c.sentResponseHeaders
<1> DEFINE e == Sent(c, i, l)
<1>1. c \in Conn
  BY DEF ConnOK
<1>2. e \in Conn
  BY <1>1 DEF Conn, Sent
<1>3. /\ SameRequest(c, e) /\ e.sendContentSize = l
      /\ e.status = c.status /\ e.responseLeft = c.responseLeft
      /\ e.sentResponseHeaders = c.sentResponseHeaders
  BY <1>1 DEF Conn, Sent, SameRequest
<1> HIDE DEF e
<1>4. ConnOK(e)
  BY <1>2, <1>3 DEF ConnOK, SameRequest, BodyBound, Decided
<1> QED
  BY <1>3, <1>4 DEF e

LEMMA SendFileOrder ==
  ASSUME IInv, OrderInv, SendFile
  PROVE  OrderInv'
<1>1. PICK m \in 0..Piece :
       LET sent == [conn EXCEPT !.ioIndex = @ + m, !.sendContentSize = @ - m] IN
       /\ m = 0 => Piece = 0
       /\ out' = IF m = 0 THEN out ELSE [out EXCEPT ![Len(out)].owed = @ - m]
       /\ conn' \in IF sent.sendContentSize = 0 THEN Finish(sent, disk) ELSE {sent}
  BY Zenon DEF SendFile
<1>2. /\ ConnOK(conn) /\ disk \in [Paths -> [open : OpenOutcomes, size : Nat]]
      /\ script \in Seq(Texts) /\ conn.open /\ BodyTurn
      /\ out \in Seq(Response) /\ RequestTracks(conn) /\ InOrder(out)
      /\ conn.wfd
  BY OrderNow DEF SendFile, Sending, IInv, TypeOK
<1>3. /\ conn.status = 200 /\ conn.request.method = "GET" /\ Started(conn)
      /\ AnswerTracks(conn, out) /\ conn.hasRequestHeaders
      /\ AllClean(out) => InStep(conn, Unread, Len(out))
  BY <1>2, OrderNow DEF BodyTurn, Started, ConnOK, Decided
<1>4. out # <<>> /\ out[Len(out)].of = conn.k /\ out[Len(out)].status = 200
  BY <1>3 DEF AnswerTracks
<1>5. Piece \in 0..conn.sendContentSize /\ conn.ioIndex \in Nat /\ conn.sendContentSize \in Nat
  BY <1>2, PieceType DEF ConnOK, Conn
<1> DEFINE l == conn.sendContentSize - m
           i == conn.ioIndex + m
           e == Sent(conn, i, l)
           q == out'
<1>6. i \in Nat /\ l \in Nat
  BY <1>5
<1>7. conn' \in IF e.sendContentSize = 0 THEN Finish(e, disk) ELSE {e}
  BY <1>1 DEF Sent
<1>8. q = IF m = 0 THEN out ELSE [out EXCEPT ![Len(out)].owed = out[Len(out)].owed - m]
  BY <1>1
<1> HIDE DEF i, l
<1>9. /\ ConnOK(e) /\ SameRequest(conn, e)
      /\ e.status = conn.status /\ e.responseLeft = conn.responseLeft
      /\ e.sentResponseHeaders = conn.sentResponseHeaders
  <2>1. ConnOK(conn)
    BY <1>2
  <2> QED
    BY <1>6, <2>1, SentRequest
<1>10. q \in Seq(Response)
  BY SendFileInv DEF IInv, TypeOK
<1> HIDE DEF e, q
<1>11. SameAnswers(out, q)
  <2>1. CASE m = 0
    BY <1>8, <2>1 DEF SameAnswers
  <2>2. CASE m # 0
    <3> DEFINE z == out[Len(out)].owed - m
    <3>1. q = [out EXCEPT ![Len(out)].owed = z]
      BY <1>8, <2>2
    <3> HIDE DEF z
    <3>2. out \in Seq(Response) /\ out # <<>>
      BY <1>2, <1>4
    <3> QED
      BY <3>1, <3>2, LeftAnswers, Zenon
  <2> QED
    BY <2>1, <2>2
<1>12. /\ InOrder(q) /\ (AllClean(q) <=> AllClean(out)) /\ Len(q) = Len(out) /\ q # <<>>
       /\ q[Len(q)].of = conn.k /\ q[Len(q)].status = 200
  <2>1. InOrder(q) /\ (AllClean(q) <=> AllClean(out)) /\ Len(q) = Len(out)
    BY <1>2, <1>11, SameOrder DEF SameAnswers
  <2>2. Len(out) \in 1..Len(out)
    BY <1>2, <1>4
  <2>3. q[Len(q)].of = conn.k /\ q[Len(q)].status = 200
    BY <1>4, <1>11, <2>2 DEF SameAnswers
  <2>4. q # <<>>
    BY <1>10, <2>1, <2>2
  <2> QED
    BY <2>1, <2>3, <2>4
<1>13. UNCHANGED <<script, nextUnit, input, gone, tls, pending>> /\ snap' = {} /\ q = out'
  BY DEF SendFile, client, q
<1>14. CASE conn' = e
  <2>1. RequestTracks(e)
    <3>1. e.status = 200 /\ e.request.method = "GET" /\ e.status # 0
      BY <1>3, <1>9 DEF SameRequest
    <3> QED
      BY <1>2, <1>3, <1>9, <3>1, SameRequestTracks
  <2>2. e.wfd /\ e.k = conn.k
    BY <1>2, <1>9 DEF SameRequest
  <2>3. AllClean(q) => InStep(e, Unread, Len(q))
    BY <1>3, <1>9, <1>12, SameStream
  <2>4. AnswerTracks(e, q)
    BY <1>3, <1>9, <1>12, <2>2 DEF AnswerTracks, Started
  <2> QED
    BY <1>12, <1>13, <1>14, <2>1, <2>2, <2>3, <2>4, OrderNow, OrderStep DEF Unread
<1>15. CASE conn' \in Finish(e, disk) /\ e.responseLeft = 0
  <2>1. AllClean(q) => AtRequest(e, Unread, Len(q) + 1)
    <3> SUFFICES ASSUME AllClean(q) PROVE AtRequest(e, Unread, Len(q) + 1)
      OBVIOUS
    <3>1. AtRequest(conn, Unread, Len(q) + 1)
      BY <1>2, <1>3, <1>10, <1>12, NextRequest
    <3> QED
      BY <1>9, <3>1 DEF AtRequest, SameRequest
  <2>2. Len(q) \in Nat /\ Unread \in Seq(Unit) /\ Unread # <<>>
    BY <1>10, UnreadTypes
  <2>3. /\ RequestTracks(conn')
        /\ conn'.open => /\ ~conn'.wfd => ~Stranded(conn')
                         /\ AnswerTracks(conn', q)
                         /\ conn'.status \in {0, 200} /\ AllClean(q) => InStep(conn', Unread, Len(q))
    BY <1>2, <1>9, <1>15, <2>1, <2>2, FinishOrder
  <2> QED
    BY <1>12, <1>13, <2>3, OrderNow, OrderStep DEF Unread
<1>16. conn' = e \/ (conn' \in Finish(e, disk) /\ e.responseLeft = 0)
  <2>1. CASE conn' = e
    BY <2>1
  <2>2. CASE conn' # e
    <3>1. conn' \in Finish(e, disk)
      BY <1>7, <2>2
    <3>2. e.responseLeft = 0
      BY <2>2, <3>1 DEF Finish
    <3> QED
      BY <3>1, <3>2
  <2> QED
    BY <2>1, <2>2
<1> QED
  BY <1>14, <1>15, <1>16

LEMMA SendEndOrder ==
  ASSUME IInv, OrderInv, SendFileVanished \/ SendFails
  PROVE  OrderInv'
<1>1. UNCHANGED <<script, tls, pending, out>> /\ conn' = Closed
  BY DEF SendFileVanished, SendFails, client
<1> QED
  BY <1>1, CloseOrder

-----------------------------------------------------------------------------

LEMMA StutterOrder ==
  ASSUME OrderInv, UNCHANGED vars
  PROVE  OrderInv'
<1>1. UNCHANGED <<script, nextUnit, input, gone, tls, pending, conn, snap, out>>
  BY DEF vars, client
<1> QED
  BY <1>1, OrderNow, OrderStep DEF Unread

LEMMA OrderInvariance == Spec => [](IInv /\ OrderInv)
<1>1. IInv /\ OrderInv /\ [Next]_vars => OrderInv'
  <2> SUFFICES ASSUME IInv, OrderInv, [Next]_vars PROVE OrderInv'
    OBVIOUS
  <2>1. CASE Environment
    BY <2>1, EnvironmentOrder
  <2>2. CASE Select
    BY <2>2, SelectOrder
  <2>3. CASE HandleRecv
    BY <2>3, RecvPlainOrder, RecvTlsOrder, RecvEndOrder DEF HandleRecv
  <2>4. CASE HandleSend
    BY <2>4, SendResponseOrder, SendFileOrder, SendEndOrder DEF HandleSend
  <2>5. CASE UNCHANGED vars
    BY <2>5, StutterOrder
  <2> QED
    BY <2>1, <2>2, <2>3, <2>4, <2>5 DEF Next, Server
<1> QED
  BY OrderInit, Invariance, <1>1, PTL DEF Spec

\* However the reads cut the stream, the n-th response answers the n-th request
\* up to the first response that is not clean: no request is answered twice,
\* skipped or overtaken by get_ready_for_pipeline and buffer_shift_forward.
THEOREM PipelinedInOrder == Spec => []AnswersInOrder
<1>1. OrderInv => AnswersInOrder
  BY DEF OrderInv
<1> QED
  BY OrderInvariance, <1>1, PTL

\* Between the first unit that no request has used and the last one the client has
\* sent, the buffer, SSL's leftover and the socket hold every unit once: the
\* appends at bufindex and the removals from the front of the buffer neither lose
\* input nor read it twice, for any capacity of the buffer and any read.
THEOREM InputKept == Spec => []StreamIntact
<1>1. OrderInv => StreamIntact
  BY DEF OrderInv
<1> QED
  BY OrderInvariance, <1>1, PTL

\* A connection that select does not watch for writing has nothing in its buffer
\* that a handler would have to be called for.
THEOREM BufferNeverStranded == Spec => []NoStrandedInput
<1>1. OrderInv => NoStrandedInput
  BY DEF OrderInv
<1> QED
  BY OrderInvariance, <1>1, PTL


-----------------------------------------------------------------------------
\* What the connection has answered.

PrefixOf(o) == {n \in 1..Len(o) : \A m \in 1..n : Clean(o[m]) /\ Complete(o[m])}
ServedBy(o) == [n \in PrefixOf(o) |-> o[n].of]

\* The last response grew, or there is a new one: the answers given so far stay,
\* and there is one more when all of them are clean and complete.
LEMMA ServedGrows ==
  ASSUME NEW o \in Seq(Response), NEW q \in Seq(Response), q # <<>>,
         Len(o) = Len(q) \/ Len(o) = Len(q) - 1,
         \A n \in 1..(Len(q) - 1) : q[n] = o[n],
         AllSent(q, Len(q) - 1),
         Len(o) = Len(q) => ~Complete(o[Len(o)]),
         InOrder(q)
  PROVE  \/ ServedBy(q) = ServedBy(o)
         \/ /\ AllClean(q) /\ Len(ServedBy(o)) = Len(q) - 1
            /\ ServedBy(q) = Append(ServedBy(o), Len(q))
<1> DEFINE L == Len(q)
<1>1. L \in Nat \ {0} /\ Len(o) \in {L, L - 1}
  BY EmptySeq
<1>2. \A n \in 1..(L - 1) : n \in 1..L /\ n \in 1..Len(o) /\ q[n] = o[n]
  BY <1>1
<1>3. ASSUME NEW n \in 1..(L - 1) PROVE n \in PrefixOf(q) <=> n \in PrefixOf(o)
  <2>1. \A m \in 1..n : m \in 1..(L - 1)
    BY <1>1
  <2>2. \A m \in 1..n : q[m] = o[m]
    BY <1>2, <2>1
  <2> QED
    BY <1>2, <2>2 DEF PrefixOf
<1>4. L \notin PrefixOf(o)
  BY <1>1 DEF PrefixOf
<1>5. PrefixOf(q) \subseteq 1..L /\ PrefixOf(o) \subseteq 1..L
  BY <1>1 DEF PrefixOf
<1>6. CASE L \notin PrefixOf(q)
  <2>1. PrefixOf(q) = PrefixOf(o) /\ PrefixOf(q) \subseteq 1..(L - 1)
    <3>1. \A n \in 1..L : n \in 1..(L - 1) \/ n = L
      BY <1>1
    <3>2. \A n \in PrefixOf(q) : n \in 1..(L - 1) /\ n \in PrefixOf(o)
      BY <1>3, <1>5, <1>6, <3>1
    <3>3. \A n \in PrefixOf(o) : n \in PrefixOf(q)
      BY <1>3, <1>4, <1>5, <3>1
    <3> QED
      BY <3>2, <3>3
  <2> QED
    BY <1>2, <2>1 DEF ServedBy
<1>7. CASE L \in PrefixOf(q)
  <2>1. \A m \in 1..L : Clean(q[m]) /\ Complete(q[m])
    BY <1>7 DEF PrefixOf
  <2>2. PrefixOf(q) = 1..L
    <3>1. \A n \in 1..L : \A m \in 1..n : m \in 1..L
      BY <1>1
    <3> QED
      BY <1>5, <2>1, <3>1 DEF PrefixOf
  <2>3. PrefixOf(o) = 1..(L - 1)
    <3>1. \A n \in 1..L : n \in 1..(L - 1) \/ n = L
      BY <1>1
    <3> QED
      BY <1>2, <1>3, <1>4, <1>5, <2>2, <3>1
  <2>4. \A n \in 1..L : q[n].of = n
    <3>1. ASSUME NEW n \in 1..L PROVE \A m \in 1..(n - 1) : m \in 1..L
      BY <1>1
    <3> QED
      BY <2>1, <3>1 DEF InOrder
  <2>5. ServedBy(q) = [n \in 1..L |-> n]
    BY <2>2, <2>4 DEF ServedBy
  <2>6. ServedBy(o) = [n \in 1..(L - 1) |-> n]
    BY <1>2, <2>3, <2>4 DEF ServedBy
  <2>7. Len([n \in 1..(L - 1) |-> n]) = L - 1
        /\ Append([n \in 1..(L - 1) |-> n], L) = [n \in 1..L |-> n]
    BY <1>1
  <2> QED
    BY <2>1, <2>5, <2>6, <2>7 DEF AllClean
<1> QED
  BY <1>6, <1>7

-----------------------------------------------------------------------------
\* A request that has been read to its end has been submitted.

LEMMA StreamGrows ==
  ASSUME NEW s \in Seq(Unit), s # <<>>, Consecutive(s)
  PROVE  s[1].k <= s[Len(s)].k
<1> DEFINE T == {n \in 1..Len(s) : s[1].k <= s[n].k}
<1>1. Len(s) \in Nat /\ Len(s) >= 1 /\ \A n \in 1..Len(s) : s[n].k \in Nat
  <2>1. Len(s) \in Nat /\ Len(s) >= 1 /\ \A n \in 1..Len(s) : s[n] \in Unit
    BY EmptySeq
  <2> QED
    BY <2>1 DEF Unit
<1>2. 1 \in T
  BY <1>1
<1>3. ASSUME NEW n \in 1..(Len(s) - 1), n \in T PROVE n + 1 \in T
  <2>1. n \in 1..Len(s) /\ n + 1 \in 1..Len(s)
    BY <1>1
  <2>2. s[n + 1] = NextUnit(s[n]) /\ s[n] \in Unit
    BY <2>1 DEF Consecutive
  <2>3. s[n + 1].k \in {s[n].k, s[n].k + 1}
    BY <2>2 DEF NextUnit, Unit
  <2> QED
    BY <1>1, <1>3, <2>1, <2>3
<1>4. Len(s) \in T
  <2> HIDE DEF T
  <2>1. 1..Len(s) \subseteq T
    BY <1>1, <1>2, <1>3, RangeInduction
  <2> QED
    BY <1>1, <2>1
<1> QED
  BY <1>4

LEMMA AnsweredIsSubmitted ==
  ASSUME IInv, NEW n, n \in Nat, AtRequest(conn, Unread, n)
  PROVE  n <= nextUnit.k
<1> DEFINE s == conn.buf \o Unread
<1>1. /\ conn.buf \in Seq(Unit) /\ Unread \in Seq(Unit) /\ Unread # <<>>
      /\ Unread = Append(pending \o input, nextUnit) /\ pending \o input \in Seq(Unit)
      /\ nextUnit \in Unit
  BY UnreadTypes DEF Unread
<1>2. Unread[Len(Unread)] = nextUnit
  BY <1>1, AppendProperties
<1>3. s \in Seq(Unit) /\ s # <<>> /\ s[Len(s)] = nextUnit
  <2> DEFINE b == conn.buf
             r == Unread
  <2>1. b \in Seq(Unit) /\ r \in Seq(Unit) /\ r # <<>> /\ r[Len(r)] = nextUnit
    BY <1>1, <1>2
  <2>2. s = b \o r
    OBVIOUS
  <2> HIDE DEF b, r, s
  <2> QED
    BY <2>1, <2>2
<1>4. Consecutive(s) /\ s[1] = [k |-> n, part |-> 0]
  BY DEF AtRequest
<1> HIDE DEF s
<1>5. s[1].k <= s[Len(s)].k
  BY <1>3, <1>4, StreamGrows
<1> QED
  BY <1>3, <1>4, <1>5

-----------------------------------------------------------------------------
\* The state of the FIFO server, and its steps.

ModeOf(up, o) == IF ~up THEN "closed" ELSE IF AllClean(o) THEN "serving" ELSE "failed"

LEMMA Mapped ==
  /\ [n \in CleanPrefix |-> out[n].of] = ServedBy(out)
  /\ Mode = ModeOf(conn.open /\ server = "up", out)
<1>1. [n \in CleanPrefix |-> out[n].of] = ServedBy(out)
  BY DEF CleanPrefix, ServedBy, PrefixOf
<1>2. Mode = ModeOf(conn.open /\ server = "up", out)
  BY DEF Mode, ModeOf
<1> QED
  BY <1>1, <1>2

LEMMA MappedNext ==
  ASSUME UNCHANGED script
  PROVE  /\ [n \in CleanPrefix |-> out[n].of]' = ServedBy(out')
         /\ Mode' = ModeOf(conn'.open /\ server' = "up", out')
<1>1. [n \in CleanPrefix |-> out[n].of]' = ServedBy(out')
  BY DEF CleanPrefix, ServedBy, PrefixOf, Clean, Complete
<1>2. Mode' = ModeOf(conn'.open /\ server' = "up", out')
  BY DEF Mode, ModeOf, AllClean, Clean
<1> QED
  BY <1>1, <1>2

LEMMA StepOfClient ==
  ASSUME UNCHANGED <<script, conn, server, out>>, nextUnit.k \in Nat,
         nextUnit'.k \in {nextUnit.k, nextUnit.k + 1}
  PROVE  [Pipeline!Next]_(Pipeline!vars)
<1>1. /\ [n \in CleanPrefix |-> out[n].of]' = [n \in CleanPrefix |-> out[n].of]
      /\ Mode' = Mode
  BY Mapped, MappedNext
<1>2. (nextUnit.k - 1)' \in {nextUnit.k - 1, (nextUnit.k - 1) + 1}
  OBVIOUS
<1> QED
  BY <1>1, <1>2 DEF Pipeline!Next, Pipeline!Submit, Pipeline!vars

LEMMA StepOfServer ==
  ASSUME UNCHANGED <<script, nextUnit>>, conn.open, server = "up",
         AllClean(out') => AllClean(out),
         \/ ServedBy(out') = ServedBy(out)
         \/ /\ AllClean(out) /\ Len(ServedBy(out)) < nextUnit.k - 1
            /\ ServedBy(out') = Append(ServedBy(out), Len(ServedBy(out)) + 1)
  PROVE  [Pipeline!Next]_(Pipeline!vars)
<1> DEFINE v == [n \in CleanPrefix |-> out[n].of]
           m == Mode
<1>1. v = ServedBy(out) /\ m = ModeOf(TRUE, out)
  BY Mapped
<1>2. v' = ServedBy(out') /\ m' = ModeOf(conn'.open /\ server' = "up", out')
  BY MappedNext
<1>3. (nextUnit.k - 1)' = nextUnit.k - 1
  OBVIOUS
<1>4. m' \in {"serving", "failed", "closed"}
  BY <1>2 DEF ModeOf
<1> HIDE DEF v, m
<1>5. CASE v' = v
  <2>1. m' = m \/ (m \in {"serving", "failed"} /\ m' \in {"failed", "closed"})
    BY <1>1, <1>2 DEF ModeOf
  <2> QED
    BY <1>3, <1>5, <2>1 DEF Pipeline!Next, Pipeline!Stop, Pipeline!vars, v, m
<1>6. CASE /\ AllClean(out) /\ Len(v) < nextUnit.k - 1
           /\ v' = Append(v, Len(v) + 1)
  <2>1. m = "serving"
    BY <1>1, <1>6 DEF ModeOf
  <2> QED
    BY <1>3, <1>4, <1>6, <2>1 DEF Pipeline!Next, Pipeline!Answer, v, m
<1> QED
  BY <1>1, <1>2, <1>5, <1>6

-----------------------------------------------------------------------------
\* The handlers.

LEMMA Changed ==
  ASSUME NEW o \in Seq(Response), o # <<>>, NEW l,
         NEW q, q = [o EXCEPT ![Len(o)].left = l] \/ q = [o EXCEPT ![Len(o)].owed = l]
  PROVE  Len(q) = Len(o) /\ \A n \in 1..(Len(q) - 1) : q[n] = o[n]
<1>1. Len(o) \in 1..Len(o)
  OBVIOUS
<1>2. ASSUME NEW z, q = [o EXCEPT ![Len(o)] = z]
      PROVE  Len(q) = Len(o) /\ \A n \in 1..(Len(q) - 1) : q[n] = o[n]
  <2>1. Len(q) = Len(o)
    BY <1>2
  <2>2. ASSUME NEW n \in 1..Len(o), n # Len(o) PROVE q[n] = o[n]
    BY <1>2, <2>2
  <2>3. \A n \in 1..(Len(o) - 1) : n \in 1..Len(o) /\ n # Len(o)
    BY <1>1
  <2> QED
    BY <2>1, <2>2, <2>3
<1> DEFINE x == [o[Len(o)] EXCEPT !.left = l]
           y == [o[Len(o)] EXCEPT !.owed = l]
<1>3. q = [o EXCEPT ![Len(o)] = x] \/ q = [o EXCEPT ![Len(o)] = y]
  OBVIOUS
<1> HIDE DEF x, y
<1> QED
  BY <1>2, <1>3

\* What an answer that has grown, or has been started, means to the FIFO server.
LEMMA AnswerStep ==
  ASSUME IInv, OrderInv, IInv', OrderInv', conn.open, conn.wfd, server = "up",
         UNCHANGED <<script, nextUnit>>, out' # <<>>,
         Len(out) = Len(out') \/ Len(out) = Len(out') - 1,
         \A n \in 1..(Len(out') - 1) : out'[n] = out[n],
         Len(out) = Len(out') => ~Complete(out[Len(out)]),
         out'[Len(out')].of = conn.k,
         out'[Len(out')].status = 200 => conn.status = 200,
         AllClean(out') => AllClean(out)
  PROVE  [Pipeline!Next]_(Pipeline!vars)
<1> DEFINE q == out'
<1>1. out \in Seq(Response) /\ q \in Seq(Response) /\ AllSent(q, Len(q) - 1)
  BY DEF IInv, TypeOK, NotInterleaved, AllSent, Complete
<1>2. InOrder(q)
  BY DEF OrderInv, AnswersInOrder, InOrder, Clean
<1>3. \/ ServedBy(q) = ServedBy(out)
      \/ /\ AllClean(q) /\ Len(ServedBy(out)) = Len(q) - 1
         /\ ServedBy(q) = Append(ServedBy(out), Len(q))
  BY <1>1, <1>2, ServedGrows
<1>4. ASSUME AllClean(q), Len(ServedBy(out)) = Len(q) - 1
      PROVE  Len(ServedBy(out)) < nextUnit.k - 1 /\ Len(q) = Len(ServedBy(out)) + 1
  <2> DEFINE s == q[Len(q)].status
  <2>1. AtRequest(conn, Unread, Len(q) + 1)
    <3>1. s = 200 => conn.status = 200
      OBVIOUS
    <3>2. q # <<>> /\ q[Len(q)].of = conn.k /\ q[Len(q)].status = s /\ AllClean(out)
      BY <1>4
    <3> HIDE DEF s, q
    <3> QED
      BY <1>1, <1>2, <1>4, <3>1, <3>2, NextRequest
  <2>2. Len(q) \in Nat /\ nextUnit.k \in Nat
    BY <1>1 DEF IInv, TypeOK, Unit
  <2>3. Len(q) + 1 <= nextUnit.k
    BY <2>1, <2>2, AnsweredIsSubmitted
  <2> QED
    BY <1>4, <2>2, <2>3
<1>5. CASE ServedBy(q) = ServedBy(out)
  BY <1>5, StepOfServer
<1>6. CASE /\ AllClean(q) /\ Len(ServedBy(out)) = Len(q) - 1
           /\ ServedBy(q) = Append(ServedBy(out), Len(q))
  <2>1. Len(ServedBy(out)) < nextUnit.k - 1 /\ Len(q) = Len(ServedBy(out)) + 1
    BY <1>4, <1>6
  <2> QED
    BY <1>6, <2>1, StepOfServer
<1> QED
  BY <1>3, <1>5, <1>6

LEMMA SendResponseStep ==
  ASSUME IInv, OrderInv, IInv', OrderInv', SendResponse
  PROVE  [Pipeline!Next]_(Pipeline!vars)
<1> DEFINE b == Built(conn, disk)
           o == OutBuilt(b)
           q == out'
<1>1. /\ ConnOK(conn) /\ disk \in [Paths -> [open : OpenOutcomes, size : Nat]]
      /\ conn.open /\ ~gone /\ ~BodyTurn /\ conn.status # 0 /\ conn.wfd /\ server = "up"
      /\ out \in Seq(Response) /\ q \in Seq(Response)
      /\ OutTracks(conn, out)
      /\ UNCHANGED <<script, nextUnit>>
  BY OrderNow DEF SendResponse, Sending, IInv, TypeOK, client
<1>2. PICK n \in 1..b.responseLeft : q = [o EXCEPT ![Len(o)].left = @ - n]
  BY DEF SendResponse
<1>3. b.status = 200 => conn.status = 200
  BY <1>1, BuiltOK
<1>4. /\ o \in Seq(Response) /\ o # <<>> /\ InOrder(o)
      /\ o[Len(o)].of = conn.k /\ o[Len(o)].status = b.status
      /\ AllClean(o) => AllClean(out)
  BY <1>1, OutBuiltOrder
<1> DEFINE l == o[Len(o)].left - n
<1>5. q = [o EXCEPT ![Len(o)].left = l]
  BY <1>2
<1>6. /\ conn.responseLeft # 0 => o = out
      /\ conn.responseLeft = 0 => Len(o) = Len(out) + 1 /\ \A m \in 1..Len(out) : o[m] = out[m]
  BY <1>1 DEF OutBuilt
<1> HIDE DEF b, o, l, q
<1>7. SameAnswers(o, q) /\ Len(q) = Len(o) /\ \A m \in 1..(Len(q) - 1) : q[m] = o[m]
  <2>1. o \in Seq(Response) /\ o # <<>>
    BY <1>4
  <2>2. SameAnswers(o, q)
    BY <1>5, <2>1, LeftAnswers
  <2>3. Len(q) = Len(o) /\ \A m \in 1..(Len(q) - 1) : q[m] = o[m]
    BY <1>5, <2>1, Changed
  <2> QED
    BY <2>2, <2>3
<1>8. Len(out) \in Nat /\ Len(o) \in Nat
  BY <1>1, <1>4
<1>9. /\ Len(out) = Len(q) \/ Len(out) = Len(q) - 1
      /\ \A m \in 1..(Len(q) - 1) : q[m] = out[m]
  <2>1. CASE conn.responseLeft # 0
    BY <1>6, <1>7, <2>1
  <2>2. CASE conn.responseLeft = 0
    BY <1>6, <1>7, <1>8, <2>2
  <2> QED
    BY <2>1, <2>2
<1>10. Len(out) = Len(q) => ~Complete(out[Len(out)])
  <2>1. CASE conn.responseLeft # 0
    BY <1>1, <2>1 DEF OutTracks, Complete
  <2>2. CASE conn.responseLeft = 0
    BY <1>6, <1>7, <1>8, <2>2
  <2> QED
    BY <2>1, <2>2
<1>11. AllClean(q) => AllClean(out)
  BY <1>4, <1>7, SameOrder
<1>12. q # <<>> /\ q[Len(q)].of = conn.k /\ q[Len(q)].status = b.status
  <2>1. Len(o) \in 1..Len(o)
    BY <1>4
  <2>2. q[Len(q)].of = conn.k /\ q[Len(q)].status = b.status
    BY <1>4, <1>7, <2>1 DEF SameAnswers
  <2>3. q # <<>>
    BY <1>1, <1>7, <2>1
  <2> QED
    BY <2>2, <2>3
<1> QED
  BY <1>1, <1>3, <1>9, <1>10, <1>11, <1>12, AnswerStep DEF q

LEMMA SendFileStep ==
  ASSUME IInv, OrderInv, IInv', OrderInv', SendFile
  PROVE  [Pipeline!Next]_(Pipeline!vars)
<1>1. /\ ConnOK(conn) /\ disk \in [Paths -> [open : OpenOutcomes, size : Nat]]
      /\ conn.open /\ BodyTurn /\ conn.wfd /\ server = "up" /\ (gone => Piece = 0)
      /\ out \in Seq(Response) /\ out' \in Seq(Response)
      /\ UNCHANGED <<script, nextUnit>> /\ AnswerTracks(conn, out)
  BY OrderNow DEF SendFile, Sending, IInv, TypeOK, client, BodyTurn
<1>2. PICK m \in 0..Piece : out' = IF m = 0 THEN out ELSE [out EXCEPT ![Len(out)].owed = @ - m]
  BY DEF SendFile
<1>3. Piece \in 0..conn.sendContentSize /\ conn.sendContentSize \in Nat
  BY <1>1, PieceType DEF ConnOK, Conn
<1>4. /\ conn.status = 200 /\ out # <<>> /\ out[Len(out)].of = conn.k
      /\ out[Len(out)].status = 200
  BY <1>1 DEF BodyTurn, AnswerTracks, Started
<1>5. CASE m = 0
  BY <1>1, <1>2, <1>5, StepOfServer
<1>6. CASE m # 0
  <2> DEFINE l == out[Len(out)].owed - m
             q == out'
  <2>1. q = [out EXCEPT ![Len(out)].owed = l]
    BY <1>2, <1>6
  <2>2. out[Len(out)].owed # 0
    <3>1. ~gone
      BY <1>1, <1>3, <1>6
    <3>2. out[Len(out)].owed = conn.sendContentSize
      BY <1>1, <3>1 DEF IInv, OutTracks, BodyTurn
    <3> QED
      BY <1>3, <1>6, <3>2
  <2> HIDE DEF l, q
  <2>3. SameAnswers(out, q) /\ Len(q) = Len(out) /\ \A j \in 1..(Len(q) - 1) : q[j] = out[j]
    <3>1. out \in Seq(Response) /\ out # <<>>
      BY <1>1, <1>4
    <3>2. SameAnswers(out, q)
      BY <2>1, <3>1, LeftAnswers
    <3>3. Len(q) = Len(out) /\ \A j \in 1..(Len(q) - 1) : q[j] = out[j]
      BY <2>1, <3>1, Changed
    <3> QED
      BY <3>2, <3>3
  <2>4. AllClean(q) => AllClean(out)
    BY <2>3, SameOrder
  <2>5. Len(out) \in 1..Len(out)
    BY <1>1, <1>4
  <2>6. q[Len(q)].of = conn.k
    BY <1>4, <2>3, <2>5 DEF SameAnswers
  <2>7. q # <<>>
    BY <1>1, <2>3, <2>5 DEF q
  <2> QED
    BY <1>1, <1>4, <2>2, <2>3, <2>4, <2>6, <2>7, AnswerStep DEF q, Complete
<1> QED
  BY <1>5, <1>6

LEMMA EnvironmentStep ==
  ASSUME IInv, Environment
  PROVE  [Pipeline!Next]_(Pipeline!vars)
<1>1. UNCHANGED <<script, conn, server, out>>
  BY DEF Environment, ClientSend, ClientFinish, ClientFails, RemoveFile, TruncateFile, client
<1>2. nextUnit \in Unit
  BY DEF IInv, TypeOK
<1>3. nextUnit' = nextUnit \/ nextUnit' = NextUnit(nextUnit)
  BY DEF Environment, ClientSend, ClientFinish, ClientFails, RemoveFile, TruncateFile, client
<1>4. nextUnit.k \in Nat /\ nextUnit'.k \in {nextUnit.k, nextUnit.k + 1}
  BY <1>2, <1>3 DEF NextUnit, Unit
<1> QED
  BY <1>1, <1>4, StepOfClient

\* Reads, and the ends of a connection, answer nothing.
LEMMA SilentStep ==
  ASSUME Select \/ HandleRecv \/ SendFileVanished \/ SendFails
  PROVE  [Pipeline!Next]_(Pipeline!vars)
<1>1. UNCHANGED <<script, nextUnit, out>> /\ conn.open /\ server = "up"
  BY DEF Select, HandleRecv, RecvPlain, RecvTls, RecvZero, RecvError, Receiving,
         SendFileVanished, SendFails, Sending, client
<1> QED
  BY <1>1, StepOfServer

\* Every behaviour of a connection is one of the FIFO server of pipelined requests,
\* as far as its initial state and its steps go: clean responses answer submitted
\* requests once each, in the order they were sent, and only while every answer
\* before was clean.  (ImplementsPipeline says besides that answers do come.)
THEOREM StepsOfPipeline == Spec => Pipeline!Init /\ [][Pipeline!Next]_(Pipeline!vars)
<1>1. Init => Pipeline!Init
  <2> SUFFICES ASSUME Init PROVE Pipeline!Init
    OBVIOUS
  <2>0. nextUnit = [k |-> 1, part |-> 0] /\ server = "up" /\ out = <<>>
    BY Zenon DEF Init
  <2>1. nextUnit.k - 1 = 0 /\ server = "up" /\ out = <<>>
    BY <2>0
  <2>2. conn.open
    <3>1. PICK v \in {""} \cup Versions : conn = Fresh(v)
      BY Zenon DEF Init
    <3> QED
      BY <3>1 DEF Fresh
  <2>3. ServedBy(out) = <<>> /\ AllClean(out)
    BY <2>1 DEF ServedBy, PrefixOf, AllClean
  <2> QED
    BY <2>1, <2>2, <2>3, Mapped DEF Pipeline!Init, ModeOf
<1>2. IInv /\ OrderInv /\ IInv' /\ OrderInv' /\ [Next]_vars => [Pipeline!Next]_(Pipeline!vars)
  <2> SUFFICES ASSUME IInv, OrderInv, IInv', OrderInv', [Next]_vars
               PROVE  [Pipeline!Next]_(Pipeline!vars)
    OBVIOUS
  <2>1. CASE Environment
    BY <2>1, EnvironmentStep
  <2>2. CASE Select \/ HandleRecv \/ SendFileVanished \/ SendFails
    BY <2>2, SilentStep
  <2>3. CASE SendResponse
    BY <2>3, SendResponseStep
  <2>4. CASE SendFile
    BY <2>4, SendFileStep
  <2>5. CASE UNCHANGED vars
    <3>1. UNCHANGED <<script, nextUnit, conn, server, out>> /\ nextUnit.k \in Nat
      BY <2>5 DEF vars, client, IInv, TypeOK, Unit
    <3> QED
      BY <3>1, StepOfClient
  <2> QED
    BY <2>1, <2>2, <2>3, <2>4, <2>5 DEF Next, Server, HandleSend
<1> QED
  BY <1>1, <1>2, OrderInvariance, PTL DEF Spec

-----------------------------------------------------------------------------
\* What a connection can do to the process.

\* On a plain connection the error of a dead socket has been read only by a handler
\* that closed it, or that has nothing but an error response to send; the error is
\* EPIPE only after the client had shut down.
UpInv == /\ ServerStaysUp
         /\ sockErr # "ETIMEDOUT"
         /\ sockErr = "EPIPE" => fin
         /\ gone /\ sockErr = "none" /\ ~tls /\ conn.open => ~Serving

LEMMA UpInit == Init => UpInv
<1> SUFFICES ASSUME Init PROVE UpInv
  OBVIOUS
<1>1. server = "up" /\ sockErr = "none" /\ gone = FALSE
  BY Zenon DEF Init
<1> QED
  BY <1>1 DEF UpInv, ServerStaysUp

LEMMA UpStep ==
  ASSUME "timeout" \notin PeerFaults, IInv, UpInv, [Next]_vars
  PROVE  UpInv'
<1>1. /\ gone \in BOOLEAN /\ (sockErr # "none" => gone) /\ conn.open \in BOOLEAN
      /\ sockErr \in {"ECONNRESET", "EPIPE", "none"} /\ fin \in BOOLEAN
  BY DEF IInv, TypeOK, Conn, Errnos, UpInv
<1>2. CASE ClientSend \/ ClientFinish \/ RemoveFile \/ TruncateFile \/ Select \/ UNCHANGED vars
  BY <1>2 DEF ClientSend, ClientFinish, RemoveFile, TruncateFile, Select, vars, client, UpInv,
              ServerStaysUp, FileOwed, Serving
<1>3. CASE ClientFails
  <2>1. sockErr' = IF fin THEN "EPIPE" ELSE "ECONNRESET"
    BY <1>3, InputsAssumption DEF ClientFails, Reported
  <2> QED
    BY <1>3, <2>1 DEF ClientFails, UpInv, ServerStaysUp, Serving
<1>4. CASE RecvPlain \/ RecvTls
  <2>1. UNCHANGED <<sockErr, fin, gone, tls, server>> /\ server = "up" /\ conn.open /\ (~Serving => conn' = conn)
    BY <1>4 DEF RecvPlain, RecvTls, Receiving, Deliver
  <2> QED
    BY <2>1 DEF UpInv, ServerStaysUp, Serving
<1>5. CASE RecvZero \/ RecvError
  <2>1. /\ UNCHANGED <<fin, gone, tls, server>> /\ server = "up" /\ sockErr' \in {sockErr, "none"}
        /\ conn.open
    BY <1>5 DEF RecvZero, RecvError, Receiving, client
  <2>2. ~conn'.open \/ (~Serving /\ conn' = conn) \/ (conn'.status = 500)
    <3>1. conn' = Closed => ~conn'.open
      BY DEF Closed, Fresh
    <3>2. conn' = [conn EXCEPT !.status = 500, !.wfd = TRUE] => conn'.status = 500
      BY DEF IInv, ConnOK, Conn
    <3>3. \/ conn' = Closed \/ (~Serving /\ conn' = conn)
          \/ conn' = [conn EXCEPT !.status = 500, !.wfd = TRUE]
      BY <1>5 DEF RecvZero, RecvError, CloseInPass
    <3> QED
      BY <3>1, <3>2, <3>3
  <2> QED
    BY <1>1, <2>1, <2>2 DEF UpInv, ServerStaysUp, Serving
<1>6. CASE SendResponse
  <2>1. UNCHANGED <<sockErr, fin, gone, tls, server>> /\ server = "up" /\ ~gone
    BY <1>6 DEF SendResponse, Sending, client
  <2> QED
    BY <2>1 DEF UpInv, ServerStaysUp
<1>7. CASE SendFile
  <2>1. UNCHANGED <<sockErr, fin, gone, tls, server>> /\ server = "up" /\ conn.open /\ Serving
    BY <1>7 DEF SendFile, Sending, BodyTurn, Serving, client
  <2> QED
    BY <2>1 DEF UpInv, ServerStaysUp
<1>8. CASE SendFileVanished
  <2>1. /\ conn' = Closed /\ UNCHANGED <<sockErr, fin, gone, tls>>
        /\ server = "up" /\ server' = IF tls THEN "crashed" ELSE server
    BY <1>8 DEF SendFileVanished, Sending, client
  <2>2. ~conn'.open
    BY <2>1 DEF Closed, Fresh
  <2> QED
    BY <2>1, <2>2 DEF UpInv, ServerStaysUp
<1>9. CASE SendFails
  <2>1. /\ conn' = Closed /\ UNCHANGED <<fin, gone, tls, out>> /\ sockErr' = "none" /\ gone
        /\ conn.open /\ server = "up" /\ server' = AfterWriteError
        /\ (BodyTurn => Piece > 0)
    BY <1>9 DEF SendFails, Sending
  <2>2. ~conn'.open
    BY <2>1 DEF Closed, Fresh
  <2>3. \/ server' = "up" \/ (tls /\ server' = "killed")
        \/ ~tls /\ BodyTurn /\ fin /\ server' = "killed"
    <3>1. sockErr = "none" /\ ~tls => ~BodyTurn
      BY <2>1 DEF UpInv, Serving, BodyTurn
    <3>2. tls \in BOOLEAN
      BY DEF IInv, TypeOK
    <3> QED
      BY <1>1, <2>1, <3>1, <3>2 DEF AfterWriteError, WriteError, UpInv
  <2>4. BodyTurn /\ fin => FileOwed
    <3> SUFFICES ASSUME BodyTurn, fin PROVE FileOwed
      OBVIOUS
    <3>1. OutTracks(conn, out) /\ ConnOK(conn)
      BY <2>1 DEF IInv
    <3>2. Piece \in 0..conn.sendContentSize /\ conn.sendContentSize \in Nat
      <4>1. disk \in [Paths -> [open : OpenOutcomes, size : Nat]]
        BY DEF IInv, TypeOK
      <4> QED
        BY <3>1, <4>1, PieceType DEF ConnOK, Conn
    <3>3. conn.sendContentSize > 0
      BY <2>1, <3>2
    <3>4. out # <<>> /\ out[Len(out)].left = 0 /\ out[Len(out)].owed = conn.sendContentSize
      BY <3>1 DEF OutTracks, BodyTurn
    <3> QED
      BY <3>3, <3>4 DEF FileOwed
  <2>5. FileOwed' <=> FileOwed
    BY <2>1 DEF FileOwed
  <2> QED
    BY <2>1, <2>2, <2>3, <2>4, <2>5 DEF UpInv, ServerStaysUp
<1> QED
  BY <1>2, <1>3, <1>4, <1>5, <1>6, <1>7, <1>8, <1>9
     DEF Next, Environment, Server, HandleRecv, HandleSend

\* Unless the network lets a connection time out (send_response exits on any errno
\* but those it names), no client and no change to the files ends the process, but
\* for the two ways in which a TLS connection does and for a client that has shut
\* down and resets while a file is sent to it (sendfile, without MSG_NOSIGNAL).
THEOREM ProcessSurvives ==
  ASSUME "timeout" \notin PeerFaults
  PROVE  Spec => []ServerStaysUp
<1>1. IInv /\ UpInv /\ [Next]_vars => UpInv'
  BY UpStep
<1>2. UpInv => ServerStaysUp
  BY DEF UpInv
<1> QED
  BY UpInit, Invariance, <1>1, <1>2, PTL DEF Spec

-----------------------------------------------------------------------------
\* What a request is told, when the files stay as they are.

Told(t, d) == {400, DetermineStatus(ParseHttp(t, 0), t, StoredMethod(t.method),
                                    DirOutcome(t, d))}

\* Determining the status again changes nothing.
Settled(c, d) == c.status # 0 => DetermineStatus(c.status, c.request, c.request.method,
                                                 DirOutcome(c.request, d)) = c.status

\* The request at hand is told what its header block alone is, unless the version
\* may come from what malloc left.
Sound(c, o, d) == c.status # 0 /\ (o # <<>> \/ script[c.k].version # "") =>
                    c.status \in Told(script[c.k], d)

\* What the responses have told (OwnStatus).
OwnIn(o, d) ==
  \A n \in 1..Len(o) :
    (\A m \in 1..(n - 1) : Clean(o[m])) /\ (n = 1 => script[1].version # "") =>
      o[n].status \in Told(script[n], d)

StatusInv == /\ OwnIn(out, disk)
             /\ conn.status = 0 /\ out # <<>> => conn.request = NoText("")
             /\ Settled(conn, disk)
             /\ conn.open /\ ~(gone /\ ~Serving) /\ ~Started(conn) => Sound(conn, out, disk)

LEMMA StatusSettles ==
  ASSUME NEW s, NEW r, NEW m, NEW o
  PROVE  DetermineStatus(DetermineStatus(s, r, m, o), r, m, o) = DetermineStatus(s, r, m, o)
  BY DEF DetermineStatus, OpenStatus, MethodStatus

LEMMA SameHeaders ==
  ASSUME NEW s, NEW m, NEW o, NEW r, NEW t,
         r.version = t.version, r.lenHeader = t.lenHeader
  PROVE  DetermineStatus(s, r, m, o) = DetermineStatus(s, t, m, o)
  BY DEF DetermineStatus

LEMMA BlockStatus ==
  ASSUME NEW t \in Texts, NEW v, v = "" \/ t.version # "",
         NEW r, r = ParsedInto(NoText(v), t), NEW d
  PROVE  DetermineStatus(ParseHttp(t, 0), r, r.method, DirOutcome(r, d)) \in Told(t, d)
<1>1. /\ r.method = StoredMethod(t.method) /\ r.version = t.version
      /\ r.lenHeader = t.lenHeader /\ r.path = t.path
  BY DEF ParsedInto, NoText, Texts
<1>2. DirOutcome(r, d) = DirOutcome(t, d)
  BY <1>1 DEF DirOutcome
<1>3. DetermineStatus(ParseHttp(t, 0), r, r.method, DirOutcome(r, d))
        = DetermineStatus(ParseHttp(t, 0), t, StoredMethod(t.method), DirOutcome(t, d))
  <2> DEFINE s == ParseHttp(t, 0)
             m == StoredMethod(t.method)
             o == DirOutcome(t, d)
  <2>1. r.version = t.version /\ r.lenHeader = t.lenHeader
    BY <1>1
  <2>2. r.method = m /\ DirOutcome(r, d) = o
    BY <1>1, <1>2
  <2> HIDE DEF s, m, o
  <2>3. DetermineStatus(s, r, m, o) = DetermineStatus(s, t, m, o)
    BY <2>1, SameHeaders
  <2> QED
    BY <2>2, <2>3 DEF s, m, o
<1> QED
  BY <1>3 DEF Told

LEMMA GarbledStatus ==
  ASSUME NEW cl \in BOOLEAN
  PROVE  ParseHttp(Garbled(cl), 0) = 400
<1>1. Garbled(cl).method = "garbled" /\ Garbled(cl).headersOk
  BY DEF Garbled, NoText
<1>2. StoredMethod("garbled") = "garbled" /\ MethodStatus("garbled") = 400
      /\ "garbled" \notin Implemented
  BY DEF StoredMethod, MethodStatus, ValidMethods, MethodBytes, Implemented
<1> HIDE DEF Garbled
<1> QED
  BY <1>1, <1>2 DEF ParseHttp, ParseHeaders, ParseRequestLine

Parse(l, d, v) == /\ Settled(l, d) /\ l.status # 0
                  /\ v = "" \/ script[l.k].version # "" => l.status \in Told(script[l.k], d)

\* look_buffer_for_request.
LEMMA LookStatus ==
  ASSUME script \in Seq(Texts), NEW c, ConnOK(c), c.status = 0, c.buf # <<>>,
         NEW v, c.request = NoText(v), NEW d, NEW l \in LookBuffer(c, d)
  PROVE  Parse(l, d, v)
<1>1. c \in Conn
  BY DEF ConnOK
<1> DEFINE e == [c EXCEPT !.k = c.buf[1].k]
<1>2. CASE HeaderEnd(c.buf) = 0
  <2>1. l = [e EXCEPT !.status = 400, !.wfd = TRUE]
    BY <1>2 DEF LookBuffer
  <2>2. l.status = 400
    BY <1>1, <2>1 DEF Conn
  <2> QED
    BY <2>2 DEF Settled, Told, DetermineStatus, Parse
<1>3. CASE HeaderEnd(c.buf) # 0
  <2>1. PICK t \in Parsed(c.buf) :
          l = Determine([e EXCEPT !.status = ParseHttp(t, @),
                                  !.request = ParsedInto(@, t),
                                  !.hasRequestHeaders = TRUE,
                                  !.buf = SubSeq(@, HeaderEnd(@) + 1, Len(@))], d)
    BY <1>3 DEF LookBuffer
  <2> DEFINE r == ParsedInto(NoText(v), t)
             s == DetermineStatus(ParseHttp(t, 0), r, r.method, DirOutcome(r, d))
  <2>2. l.status = s /\ l.request = r /\ l.k = c.buf[1].k
    BY <1>1, <2>1 DEF Determine, Conn
  <2>3. Settled(l, d)
    BY <2>2, StatusSettles DEF Settled
  <2>4. s # 0
    BY DEF DetermineStatus, OpenStatus, MethodStatus
  <2>5. ASSUME v = "" \/ script[l.k].version # "" PROVE s \in Told(script[l.k], d)
    <3>1. CASE Framed(c.buf)
      <4>1. t = script[l.k] /\ c.buf[1].k \in 1..Len(script)
        <5>1. c.buf \in Seq(SentUnit) /\ Len(c.buf) >= 1
          BY <1>1, EmptySeq DEF Conn
        <5>2. c.buf[1] \in SentUnit
          BY <5>1
        <5> QED
          BY <2>2, <3>1, <5>2 DEF Parsed, SentUnit
      <4>2. t \in Texts
        BY <2>2, <4>1
      <4> QED
        BY <2>5, <4>1, <4>2, BlockStatus
    <3>2. CASE ~Framed(c.buf)
      <4>1. ParseHttp(t, 0) = 400
        BY <3>2, GarbledStatus DEF Parsed
      <4> QED
        BY <4>1 DEF Told, DetermineStatus
    <3> QED
      BY <3>1, <3>2
  <2> QED
    BY <2>2, <2>3, <2>4, <2>5 DEF Parse
<1> QED
  BY <1>2, <1>3

LEMMA WatchOK ==
  ASSUME NEW c, ConnOK(c), c.status # 0
  PROVE  /\ ConnOK(WatchIfError(c)) /\ WatchIfError(c).status = c.status
         /\ WatchIfError(c).request = c.request
<1>1. CASE c.status \in {0, 200}
  BY <1>1 DEF WatchIfError
<1>2. CASE c.status \notin {0, 200}
  <2> DEFINE w == [c EXCEPT !.wfd = TRUE]
  <2>1. WatchIfError(c) = w
    BY <1>2 DEF WatchIfError
  <2>2. c \in Conn
    BY DEF ConnOK
  <2>3. /\ w \in Conn /\ w.status = c.status /\ w.request = c.request /\ w.buf = c.buf
        /\ w.iindex = c.iindex /\ w.hasRequestHeaders = c.hasRequestHeaders
    BY <2>2 DEF Conn
  <2> HIDE DEF w
  <2>4. ConnOK(w)
    BY <1>2, <2>3 DEF ConnOK, BodyBound, Decided
  <2> QED
    BY <2>1, <2>3, <2>4
<1> QED
  BY <1>1, <1>2

LEMMA ProcessStatus ==
  ASSUME script \in Seq(Texts), NEW c, ConnOK(c), c.buf # <<>>, RequestTracks(c),
         c.status \in {0, 200}, NEW d, NEW e \in ProcessBuffer(c, d)
  PROVE  /\ c.status = 200 => e.status = 200 /\ e.request = c.request /\ e.k = c.k
         /\ c.status = 0 => \A v : c.request = NoText(v) => Parse(e, d, v)
<1>1. c \in Conn /\ (c.status = 200 <=> c.hasRequestHeaders) /\ (c.status = 200 <=> c.status # 0)
  BY DEF ConnOK, Decided
<1>2. e.k = IF c.hasRequestHeaders THEN c.k ELSE c.buf[1].k
  BY ProcessOrder
<1>3. CASE c.status = 200
  <2>1. CASE c.request.method = "POST"
    <3>1. e = PostRecv(c)
      BY <1>1, <1>3, <2>1 DEF ProcessBuffer
    <3> QED
      BY <1>1, <1>2, <1>3, <3>1, PostRecvOK
  <2>2. CASE c.request.method # "POST"
    <3>1. e = [c EXCEPT !.wfd = TRUE]
      BY <1>1, <1>3, <2>2 DEF ProcessBuffer
    <3>2. e.status = c.status /\ e.request = c.request
      BY <1>1, <3>1 DEF Conn
    <3> QED
      BY <1>1, <1>2, <1>3, <3>2
  <2> QED
    BY <2>1, <2>2
<1>4. CASE c.status = 0
  <2>1. PICK l \in LookBuffer(c, d) : e = PostRecv(WatchIfError(l))
    BY <1>1, <1>4 DEF ProcessBuffer
  <2>2. ConnOK(l) /\ l.status # 0
    BY <1>1, <1>4, <2>1, LookBufferOK
  <2>3. l.k = c.buf[1].k
    BY <1>1, <1>4, <2>1, LookBufferOrder DEF ConnOK, Decided
  <2>4. e.status = l.status /\ e.request = l.request
    <3>1. ConnOK(WatchIfError(l)) /\ WatchIfError(l).status = l.status
          /\ WatchIfError(l).request = l.request
      BY <2>2, WatchOK
    <3> QED
      BY <2>1, <2>2, <3>1, PostRecvOK
  <2>5. e.k = l.k
    BY <1>1, <1>2, <1>4, <2>3
  <2>6. ASSUME NEW v, c.request = NoText(v) PROVE Parse(e, d, v)
    <3>1. Parse(l, d, v)
      BY <1>4, <2>1, <2>6, LookStatus
    <3> QED
      BY <2>4, <2>5, <3>1 DEF Parse, Settled
  <2>7. c.status # 200
    BY <1>4, NotZero
  <2> QED
    BY <2>6, <2>7
<1> QED
  BY <1>3, <1>4

\* non_poisonouse_finish.
LEMMA FinishStatus ==
  ASSUME script \in Seq(Texts), NEW c, ConnOK(c), c.responseLeft = 0, NEW d,
         NEW e \in Finish(c, d)
  PROVE  \/ e.status = 0 /\ e.request = NoText("")
         \/ Parse(e, d, "")
<1>1. CASE ClosesAfter(c.request)
  <2>1. e = Closed
    BY <1>1 DEF Finish
  <2> QED
    BY <2>1 DEF Closed, Fresh
<1>2. CASE ~ClosesAfter(c.request)
  <2> DEFINE g == [GetReady(c) EXCEPT !.wfd = FALSE]
  <2>1. e \in IF g.buf = <<>> THEN {g} ELSE ProcessBuffer(g, d)
    BY <1>2 DEF Finish
  <2>2. ConnOK(g) /\ RequestTracks(g) /\ g.status = 0
    BY ReadyOrder
  <2>3. g.request = NoText("")
    BY DEF GetReady, Fresh
  <2> HIDE DEF g
  <2>4. CASE g.buf = <<>>
    BY <2>1, <2>2, <2>3, <2>4
  <2>5. CASE g.buf # <<>>
    <3>1. e \in ProcessBuffer(g, d) /\ g.status \in {0, 200}
      BY <2>1, <2>2, <2>5
    <3> QED
      BY <2>2, <2>3, <2>5, <3>1, ProcessStatus
  <2> QED
    BY <2>4, <2>5
<1> QED
  BY <1>1, <1>2

LEMMA OwnSame ==
  ASSUME NEW o, NEW q, SameAnswers(o, q), NEW d, OwnIn(o, d)
  PROVE  OwnIn(q, d)
<1>1. Len(q) = Len(o) /\ \A n \in 1..Len(o) : q[n].status = o[n].status /\ Clean(q[n]) = Clean(o[n])
  BY DEF SameAnswers, Clean
<1>2. ASSUME NEW n \in 1..Len(q), \A m \in 1..(n - 1) : Clean(q[m]),
             n = 1 => script[1].version # ""
      PROVE  q[n].status \in Told(script[n], d)
  <2>1. n \in 1..Len(o)
    BY <1>1
  <2>2. ASSUME NEW m \in 1..(n - 1) PROVE m \in 1..Len(o)
    BY <2>1
  <2>3. \A m \in 1..(n - 1) : Clean(o[m])
    BY <1>1, <1>2, <2>2
  <2>4. o[n].status \in Told(script[n], d)
    BY <1>2, <2>1, <2>3 DEF OwnIn
  <2> QED
    BY <1>1, <2>1, <2>4
<1> QED
  BY <1>2 DEF OwnIn

LEMMA Appended ==
  ASSUME NEW S, NEW o \in Seq(S), NEW r \in S, NEW q, q = Append(o, r)
  PROVE  /\ Len(q) = Len(o) + 1 /\ q[Len(q)] = r /\ Len(o) \in Nat
         /\ \A n \in 1..Len(o) : q[n] = o[n]
  OBVIOUS

LEMMA LastOf ==
  ASSUME NEW l \in Nat, NEW n \in 1..(l + 1)
  PROVE  IF n = l + 1 THEN n - 1 = l /\ (l = 0 => n = 1)
                      ELSE n \in 1..l /\ \A m \in 1..(n - 1) : m \in 1..l
  OBVIOUS

LEMMA OwnNext ==
  ASSUME NEW o, NEW r, NEW d, OwnIn(o, d), NEW q,
         Len(q) = Len(o) + 1, q[Len(q)] = r, Len(o) \in Nat,
         \A n \in 1..Len(o) : q[n] = o[n],
         AllClean(o) /\ (Len(o) = 0 => script[1].version # "") =>
           r.status \in Told(script[Len(o) + 1], d)
  PROVE  OwnIn(q, d)
<1>2. ASSUME NEW n \in 1..Len(q), \A m \in 1..(n - 1) : Clean(q[m]),
             n = 1 => script[1].version # ""
      PROVE  q[n].status \in Told(script[n], d)
  <2>1. CASE n = Len(q)
    <3>1. n - 1 = Len(o) /\ n = Len(o) + 1 /\ (Len(o) = 0 => n = 1)
      BY <2>1, LastOf
    <3>2. AllClean(o)
      BY <1>2, <3>1 DEF AllClean
    <3> QED
      BY <1>2, <2>1, <3>1, <3>2
  <2>2. CASE n # Len(q)
    <3>1. n \in 1..Len(o) /\ \A m \in 1..(n - 1) : m \in 1..Len(o)
      BY <2>2, LastOf
    <3>2. \A m \in 1..(n - 1) : Clean(o[m])
      BY <1>2, <3>1
    <3>3. o[n].status \in Told(script[n], d)
      BY <1>2, <3>1, <3>2 DEF OwnIn
    <3> QED
      BY <3>1, <3>3
  <2> QED
    BY <2>1, <2>2
<1> QED
  BY <1>2 DEF OwnIn

LEMMA StatusNow ==
  ASSUME StatusInv
  PROVE  /\ OwnIn(out, disk)
         /\ conn.status = 0 /\ out # <<>> => conn.request = NoText("")
         /\ Settled(conn, disk)
         /\ conn.open /\ ~(gone /\ ~Serving) /\ ~Started(conn) => Sound(conn, out, disk)
  BY DEF StatusInv

LEMMA StatusStep ==
  ASSUME UNCHANGED <<script, disk>>, OwnIn(out', disk),
         conn'.status = 0 /\ out' # <<>> => conn'.request = NoText(""),
         Settled(conn', disk),
         conn'.open /\ ~(gone' /\ conn'.status \notin {0, 200}) /\ ~Started(conn') =>
           Sound(conn', out', disk)
  PROVE  StatusInv'
<1>1. OwnIn(out, disk)'
  <2>1. \A m : Clean(out[m])' <=> Clean(out'[m])
    BY DEF Clean
  <2> QED
    BY <2>1, Zenon DEF OwnIn
<1>2. Settled(conn, disk)'
  BY DEF Settled
<1>3. (conn.open /\ ~(gone /\ ~Serving) /\ ~Started(conn) => Sound(conn, out, disk))'
  BY DEF Started, Serving, Sound, Told
<1> QED
  BY <1>1, <1>2, <1>3 DEF StatusInv

LEMMA StatusInit == Init => StatusInv
<1> SUFFICES ASSUME Init PROVE StatusInv
  OBVIOUS
<1>1. out = <<>>
  BY Zenon DEF Init
<1>2. PICK v \in {""} \cup Versions : conn = Fresh(v)
  BY Zenon DEF Init
<1>3. conn.status = 0
  BY <1>2 DEF Fresh
<1>4. Len(out) = 0
  BY <1>1
<1>5. OwnIn(out, disk)
  BY <1>4, NoElements DEF OwnIn
<1> QED
  BY <1>1, <1>3, <1>5, Zenon DEF StatusInv, Settled, Sound

\* The handlers.

LEMMA CloseStatus ==
  ASSUME StatusInv, UNCHANGED <<script, disk, out>>, conn' = Closed
  PROVE  StatusInv'
<1>1. conn'.status = 0 /\ conn'.request = NoText("") /\ ~conn'.open
  BY DEF Closed, Fresh
<1>2. Settled(conn', disk)
  BY <1>1 DEF Settled
<1> QED
  BY <1>1, <1>2, StatusNow, StatusStep

LEMMA DeliverStatus ==
  ASSUME IInv, OrderInv, StatusInv, conn.open,
         NEW data \in Seq(SentUnit), data # <<>>, Len(data) <= Space, Deliver(data)
  PROVE  /\ conn'.status = 0 /\ out # <<>> => conn'.request = NoText("")
         /\ Settled(conn', disk)
         /\ ~(gone /\ conn'.status \notin {0, 200}) /\ ~Started(conn') => Sound(conn', out, disk)
<1>1. ConnOK(conn) /\ script \in Seq(Texts) /\ out \in Seq(Response) /\ RequestTracks(conn)
  BY OrderNow DEF IInv, TypeOK
<1>2. CASE ~Serving
  <2>1. conn' = conn
    BY <1>2 DEF Deliver
  <2> QED
    BY <2>1, StatusNow DEF Serving
<1>3. CASE Serving
  <2> DEFINE b == conn.buf \o data
             p == [conn EXCEPT !.buf = b]
  <2>1. conn \in Conn /\ conn.buf \in Seq(SentUnit) /\ Len(conn.buf) \in Nat
    BY <1>1 DEF ConnOK, Conn
  <2>2. /\ b \in Seq(SentUnit) /\ Len(b) = Len(conn.buf) + Len(data)
        /\ Len(data) \in Nat /\ Len(data) # 0
    BY <2>1
  <2>3. Len(b) <= BufSize /\ b # <<>>
    BY <2>1, <2>2, SizesAssumption DEF Space
  <2>4. conn' \in ProcessBuffer(p, disk)
    BY <1>3 DEF Deliver
  <2> HIDE DEF b
  <2>5. p \in Conn
    BY <2>1, <2>2 DEF Conn
  <2>6. /\ p.buf = b /\ p.iindex = conn.iindex /\ p.request = conn.request
        /\ p.hasRequestHeaders = conn.hasRequestHeaders /\ p.wfd = conn.wfd
        /\ p.status = conn.status /\ p.open = conn.open
        /\ p.responseLeft = conn.responseLeft /\ p.k = conn.k
        /\ p.sentResponseHeaders = conn.sentResponseHeaders
        /\ p.postfinish = conn.postfinish
    BY <2>1, <2>2 DEF Conn
  <2> HIDE DEF p
  <2>7. ConnOK(p) /\ p.buf # <<>>
    BY <1>1, <2>3, <2>5, <2>6 DEF ConnOK, BodyBound, Decided
  <2>8. RequestTracks(p) /\ p.status \in {0, 200}
    BY <1>1, <1>3, <2>6 DEF RequestTracks, Serving
  <2>9. SameProgress(p, conn') /\ conn'.status # 0
    BY <1>1, <2>4, <2>7, <2>8, ProcessBufferOK
  <2>10. /\ p.status = 200 => conn'.status = 200 /\ conn'.request = p.request /\ conn'.k = p.k
         /\ p.status = 0 => \A v : p.request = NoText(v) => Parse(conn', disk, v)
    BY <1>1, <2>4, <2>7, <2>8, ProcessStatus
  <2>11. CASE conn.status = 200
    <3>1. conn'.status = conn.status /\ conn'.request = conn.request /\ conn'.k = conn.k
      BY <2>6, <2>10, <2>11
    <3>2. Settled(conn', disk)
      BY <3>1, StatusNow DEF Settled
    <3>3. ~Started(conn') => ~Started(conn)
      BY <2>6, <2>9 DEF Started, SameProgress
    <3>4. ~Started(conn') => Sound(conn', out, disk)
      BY <1>3, <3>1, <3>3, StatusNow DEF Sound
    <3> QED
      BY <2>9, <3>2, <3>4
  <2>12. CASE conn.status = 0
    <3>1. PICK v : conn.request = NoText(v)
      BY <1>1, <2>12 DEF RequestTracks
    <3>2. \A w : conn.request = NoText(w) => Parse(conn', disk, w)
      BY <2>6, <2>10, <2>12
    <3>3. Settled(conn', disk) /\ (script[conn'.k].version # "" => conn'.status \in Told(script[conn'.k], disk))
      BY <3>1, <3>2 DEF Parse
    <3>4. out # <<>> => conn'.status \in Told(script[conn'.k], disk)
      BY <2>12, <3>2, StatusNow DEF Parse
    <3> QED
      BY <2>9, <3>3, <3>4 DEF Sound
  <2> QED
    BY <1>3, <2>11, <2>12 DEF Serving
<1> QED
  BY <1>2, <1>3

\* What RecvPlain and RecvTls hand over.
LEMMA ReadPlain ==
  ASSUME IInv, RecvPlain
  PROVE  \E data \in Seq(SentUnit) : data # <<>> /\ Len(data) <= Space /\ Deliver(data)
<1>1. PICK n \in 1..Smaller(Space, Len(input)) : Deliver(SubSeq(input, 1, n))
  BY DEF RecvPlain
<1>2. input \in Seq(SentUnit) /\ Len(input) \in Nat /\ Space \in Int
  BY SizesAssumption DEF IInv, TypeOK, Space, ConnOK, Conn
<1>3. n \in 1..Len(input) /\ n <= Space
  BY <1>2 DEF Smaller
<1>4. /\ SubSeq(input, 1, n) \in Seq(SentUnit) /\ SubSeq(input, 1, n) # <<>>
      /\ Len(SubSeq(input, 1, n)) <= Space
  BY <1>2, <1>3, Cut
<1> QED
  BY <1>1, <1>4

LEMMA ReadTls ==
  ASSUME IInv, RecvTls
  PROVE  \E data \in Seq(SentUnit) : data # <<>> /\ Len(data) <= Space /\ Deliver(data)
<1>1. PICK m \in 0..Smaller(MaxRecord, Len(input)) :
       LET record == IF pending # <<>> THEN pending ELSE SubSeq(input, 1, m)
       IN /\ (m = 0) = (pending # <<>>)
          /\ Deliver(SubSeq(record, 1, Smaller(Space, Len(record))))
  BY DEF RecvTls
<1> DEFINE record == IF pending # <<>> THEN pending ELSE SubSeq(input, 1, m)
           n      == Smaller(Space, Len(record))
<1>2. /\ input \in Seq(SentUnit) /\ Len(input) \in Nat
      /\ pending \in Seq(SentUnit) /\ Len(pending) \in Nat /\ Space \in Nat \ {0}
  BY SizesAssumption, SMTT(60) DEF IInv, TypeOK, RecvTls, Receiving, Space, ConnOK, Conn
<1>3. m \in 0..Len(input)
  BY <1>2, SizesAssumption DEF Smaller
<1>4. Deliver(SubSeq(record, 1, n))
  BY <1>1
<1>5. record \in Seq(SentUnit) /\ record # <<>>
  <2>1. CASE pending # <<>>
    BY <1>2, <2>1
  <2>2. CASE pending = <<>>
    <3>1. m \in 1..Len(input) /\ record = SubSeq(input, 1, m)
      BY <1>1, <1>3, <2>2
    <3>2. SubSeq(input, 1, m) \in Seq(SentUnit) /\ SubSeq(input, 1, m) # <<>>
      BY <1>2, <3>1, Cut
    <3> QED
      BY <3>1, <3>2
  <2> QED
    BY <2>1, <2>2
<1> HIDE DEF record
<1>6. Len(record) \in Nat \ {0}
  BY <1>5, EmptySeq
<1>7. n \in 1..Len(record) /\ n <= Space
  BY <1>2, <1>6 DEF Smaller
<1> HIDE DEF n
<1>8. /\ SubSeq(record, 1, n) \in Seq(SentUnit) /\ SubSeq(record, 1, n) # <<>>
      /\ Len(SubSeq(record, 1, n)) <= Space
  BY <1>5, <1>7, Cut
<1> QED
  BY <1>4, <1>8

LEMMA RecvStatus ==
  ASSUME IInv, OrderInv, StatusInv, UNCHANGED disk, HandleRecv
  PROVE  StatusInv'
<1>1. UNCHANGED <<script, disk, gone, out>> /\ conn.open
  BY DEF HandleRecv, RecvPlain, RecvTls, RecvZero, RecvError, Receiving, client
<1>2. ASSUME NEW data \in Seq(SentUnit), data # <<>>, Len(data) <= Space, Deliver(data)
      PROVE  StatusInv'
  BY <1>1, <1>2, DeliverStatus, StatusNow, StatusStep
<1>3. CASE RecvPlain
  BY <1>2, <1>3, ReadPlain
<1>4. CASE RecvTls
  BY <1>2, <1>4, ReadTls
<1>5. CASE RecvZero \/ RecvError
  <2>1. \/ conn' = Closed \/ conn' = conn
        \/ conn' = [conn EXCEPT !.status = 500, !.wfd = TRUE] /\ gone'
    BY <1>1, <1>5 DEF RecvZero, RecvError, CloseInPass, IInv
  <2>2. CASE conn' = Closed
    BY <1>1, <2>2, CloseStatus
  <2>3. CASE conn' = conn
    BY <1>1, <2>3, StatusNow, StatusStep DEF Serving
  <2>4. CASE conn' = [conn EXCEPT !.status = 500, !.wfd = TRUE] /\ gone'
    <3>1. conn'.status = 500
      BY <2>4 DEF IInv, ConnOK, Conn
    <3>2. Settled(conn', disk)
      BY <3>1 DEF Settled, DetermineStatus
    <3> QED
      <4>1. conn'.status # 0 /\ gone' /\ conn'.status \notin {0, 200}
        BY <2>4, <3>1
      <4> QED
        BY <1>1, <3>2, <4>1, StatusNow, StatusStep
  <2> QED
    BY <2>1, <2>2, <2>3, <2>4
<1> QED
  BY <1>3, <1>4, <1>5 DEF HandleRecv

\* A response sent further, or finished.
LEMMA SentStatus ==
  ASSUME StatusInv, script \in Seq(Texts), UNCHANGED <<script, disk>>, out' # <<>>,
         OwnIn(out', disk), NEW w, ConnOK(w), SameRequest(conn, w),
         w.status # 0, w.status = conn.status, Started(w),
         \/ conn' = w
         \/ conn' \in Finish(w, disk) /\ w.responseLeft = 0
  PROVE  StatusInv'
<1>1. CASE conn' = w
  <2>1. Settled(w, disk)
    BY StatusNow DEF Settled, SameRequest
  <2> QED
    BY <1>1, <2>1, StatusStep
<1>2. CASE conn' \in Finish(w, disk) /\ w.responseLeft = 0
  <2>1. \/ conn'.status = 0 /\ conn'.request = NoText("")
        \/ Parse(conn', disk, "")
    BY <1>2, FinishStatus
  <2>2. Settled(conn', disk) /\ (conn'.status = 0 => conn'.request = NoText(""))
    BY <2>1 DEF Parse, Settled
  <2>3. Sound(conn', out', disk)
    BY <2>1 DEF Parse, Sound
  <2> QED
    BY <2>2, <2>3, StatusStep
<1> QED
  BY <1>1, <1>2

LEMMA SendResponseStatus ==
  ASSUME IInv, OrderInv, StatusInv, UNCHANGED disk, SendResponse
  PROVE  StatusInv'
<1> DEFINE b == Built(conn, disk)
           o == OutBuilt(b)
           q == out'
<1>1. /\ ConnOK(conn) /\ disk \in [Paths -> [open : OpenOutcomes, size : Nat]]
      /\ conn.open /\ ~gone /\ ~BodyTurn /\ conn.status # 0 /\ conn.wfd
      /\ out \in Seq(Response) /\ script \in Seq(Texts) /\ UNCHANGED <<script, disk>>
      /\ AnswerTracks(conn, out) /\ RequestTracks(conn)
  BY OrderNow DEF SendResponse, Sending, IInv, TypeOK, client
<1>2. PICK n \in 1..b.responseLeft :
        /\ q = [o EXCEPT ![Len(o)].left = @ - n]
        /\ IF conn.status = 200 /\ conn.request.method = "GET"
             THEN conn' = Wrote(b, n)
             ELSE conn' \in Finish(Wrote(b, n), disk)
  BY DEF SendResponse
<1>3. /\ ConnOK(b) /\ b.status # 0 /\ b.responseLeft \in 1..ResponseSize
      /\ SameRequest(conn, b)
  BY <1>1, BuiltOK, BuiltRequest
<1>4. b.status = conn.status
  <2>1. CASE conn.responseLeft # 0
    BY <2>1 DEF Built
  <2>2. CASE conn.responseLeft = 0
    <3> DEFINE s == DetermineStatus(conn.status, conn.request, conn.request.method,
                                    DirOutcome(conn.request, disk))
               e == [conn EXCEPT !.status = s]
    <3>1. s = conn.status
      BY <1>1, StatusNow DEF Settled
    <3>2. conn \in Conn
      BY <1>1 DEF ConnOK
    <3>3. \E z : b = [e EXCEPT !.responseLeft = ResponseSize, !.sendContentSize = z]
      BY <2>2 DEF Built, Determine
    <3> HIDE DEF s, b
    <3>4. e.status = s /\ DOMAIN e = DOMAIN conn
      BY <3>2 DEF Conn
    <3>5. DOMAIN conn = {"open", "wfd", "buf", "hasRequestHeaders", "sentResponseHeaders",
                        "iindex", "postfinish", "ioIndex", "sendContentSize", "responseLeft",
                        "status", "request", "k"}
      BY <3>2 DEF Conn
    <3> HIDE DEF e
    <3> QED
      BY <3>1, <3>3, <3>4, <3>5
  <2> QED
    BY <2>1, <2>2
<1>5. /\ o \in Seq(Response) /\ o # <<>>
  BY <1>1, OutBuiltOrder
<1>6. OwnIn(o, disk)
  <2>1. CASE conn.responseLeft # 0
    BY <2>1, StatusNow DEF OutBuilt
  <2>2. CASE conn.responseLeft = 0
    <3> DEFINE r == [of |-> conn.k, status |-> b.status, left |-> b.responseLeft,
                     owed |-> IF b.status = 200 /\ b.request.method = "GET"
                                THEN b.sendContentSize ELSE 0]
    <3>1. o = Append(out, r) /\ r.status = conn.status
      BY <1>4, <2>2 DEF OutBuilt
    <3> HIDE DEF o, r, b
    <3>2. /\ Len(o) = Len(out) + 1 /\ o[Len(o)] = r /\ Len(out) \in Nat
          /\ \A j \in 1..Len(out) : o[j] = out[j]
      BY <1>1, <3>1
    <3>3. ASSUME AllClean(out), Len(out) = 0 => script[1].version # ""
          PROVE  conn.status \in Told(script[Len(out) + 1], disk)
      <4>1. ~Started(conn)
        <5> SUFFICES ASSUME Started(conn) PROVE FALSE
          OBVIOUS
        <5>1. conn.sentResponseHeaders /\ out # <<>> /\ out[Len(out)].status = conn.status
          BY <1>1, <2>2 DEF Started, AnswerTracks
        <5>2. Len(out) \in 1..Len(out)
          BY <1>1, <5>1
        <5>3. conn.status = 200
          BY <3>3, <5>1, <5>2 DEF AllClean, Clean
        <5> QED
          BY <1>1, <5>1, <5>3 DEF RequestTracks, BodyTurn
      <4>2. conn.k = Len(out) + 1
        BY <1>1, <3>3, <4>1 DEF AnswerTracks
      <4>3. out # <<>> \/ script[conn.k].version # ""
        <5> SUFFICES ASSUME out = <<>> PROVE script[conn.k].version # ""
          OBVIOUS
        <5>1. Len(out) = 0
          OBVIOUS
        <5>2. conn.k = 1
          BY <4>2, <5>1
        <5> QED
          BY <3>3, <5>1, <5>2
      <4> QED
        BY <1>1, <4>1, <4>2, <4>3, StatusNow DEF Sound
    <3> QED
      BY <3>1, <3>2, <3>3, StatusNow, OwnNext
  <2> QED
    BY <2>1, <2>2
<1> DEFINE l == o[Len(o)].left - n
           w == Wrote(b, n)
<1>7. q = [o EXCEPT ![Len(o)].left = l]
  BY <1>2
<1>8. /\ ConnOK(w) /\ w.status = b.status /\ w.responseLeft = b.responseLeft - n
      /\ w.sentResponseHeaders = (b.sentResponseHeaders \/ b.responseLeft = n)
      /\ SameRequest(b, w)
  BY <1>3, WroteOK, WroteRequest
<1>9. IF conn.status = 200 /\ conn.request.method = "GET"
        THEN conn' = w ELSE conn' \in Finish(w, disk)
  BY <1>2
<1> HIDE DEF b, o, l, q, w
<1>10. SameAnswers(o, q)
  BY <1>5, <1>7, LeftAnswers
<1>11. OwnIn(q, disk)
  BY <1>6, <1>10, OwnSame
<1>12. q # <<>>
  <2>1. q \in Seq(Response)
    BY SendResponseInv DEF IInv, TypeOK, q
  <2>2. Len(o) \in 1..Len(o)
    BY <1>5
  <2> QED
    BY <1>10, <2>1, <2>2 DEF SameAnswers
<1>13. SameRequest(conn, w) /\ w.status = conn.status /\ w.status # 0
  BY <1>1, <1>3, <1>4, <1>8 DEF SameRequest
<1>14. Started(w)
  <2>1. w.responseLeft \in Nat /\ b.responseLeft \in Nat
    BY <1>3, <1>8, SizesAssumption DEF ConnOK, Conn
  <2>2. w.responseLeft = 0 => b.responseLeft = n
    BY <1>8, <2>1
  <2>3. w.responseLeft = 0 => w.sentResponseHeaders
    BY <1>8, <2>2, Zenon
  <2> QED
    BY <2>3 DEF Started
<1>15. conn' = w \/ (conn' \in Finish(w, disk) /\ w.responseLeft = 0)
  <2>1. CASE conn' = w
    BY <2>1
  <2>2. CASE conn' # w
    <3>1. conn' \in Finish(w, disk)
      BY <1>9, <2>2
    <3>2. w.responseLeft = 0
      BY <2>2, <3>1 DEF Finish
    <3> QED
      BY <3>1, <3>2
  <2> QED
    BY <2>1, <2>2
<1> QED
  BY <1>1, <1>8, <1>11, <1>12, <1>13, <1>14, <1>15, SentStatus DEF q

LEMMA SendFileStatus ==
  ASSUME IInv, OrderInv, StatusInv, UNCHANGED disk, SendFile
  PROVE  StatusInv'
<1>1. PICK m \in 0..Piece :
       LET sent == [conn EXCEPT !.ioIndex = @ + m, !.sendContentSize = @ - m] IN
       /\ out' = IF m = 0 THEN out ELSE [out EXCEPT ![Len(out)].owed = @ - m]
       /\ conn' \in IF sent.sendContentSize = 0 THEN Finish(sent, disk) ELSE {sent}
  BY Zenon DEF SendFile
<1>2. /\ ConnOK(conn) /\ disk \in [Paths -> [open : OpenOutcomes, size : Nat]]
      /\ script \in Seq(Texts) /\ conn.open /\ BodyTurn /\ UNCHANGED <<script, disk>>
      /\ out \in Seq(Response) /\ AnswerTracks(conn, out)
  BY OrderNow DEF SendFile, Sending, IInv, TypeOK, BodyTurn, client
<1>3. conn.status = 200 /\ conn.status # 0 /\ Started(conn) /\ out # <<>>
  BY <1>2 DEF BodyTurn, Started, AnswerTracks
<1>4. Piece \in 0..conn.sendContentSize /\ conn.ioIndex \in Nat /\ conn.sendContentSize \in Nat
  BY <1>2, PieceType DEF ConnOK, Conn
<1> DEFINE l == conn.sendContentSize - m
           i == conn.ioIndex + m
           e == Sent(conn, i, l)
           q == out'
           z == out[Len(out)].owed - m
<1>5. i \in Nat /\ l \in Nat
  BY <1>4
<1>6. conn' \in IF e.sendContentSize = 0 THEN Finish(e, disk) ELSE {e}
  BY <1>1 DEF Sent
<1>7. q = out \/ q = [out EXCEPT ![Len(out)].owed = z]
  BY <1>1
<1> HIDE DEF i, l
<1>8. /\ ConnOK(e) /\ SameRequest(conn, e)
      /\ e.status = conn.status /\ e.responseLeft = conn.responseLeft
      /\ e.sentResponseHeaders = conn.sentResponseHeaders
  BY <1>2, <1>5, SentRequest
<1> HIDE DEF e, q, z
<1>9. SameAnswers(out, q)
  <2>1. CASE q = out
    BY <2>1 DEF SameAnswers
  <2>2. CASE q = [out EXCEPT ![Len(out)].owed = z]
    <3>1. out \in Seq(Response) /\ out # <<>>
      BY <1>2, <1>3
    <3> QED
      BY <2>2, <3>1, LeftAnswers
  <2> QED
    BY <1>7, <2>1, <2>2
<1>10. OwnIn(q, disk)
  BY <1>9, StatusNow, OwnSame
<1>11. q # <<>>
  <2>1. q \in Seq(Response)
    BY SendFileInv DEF IInv, TypeOK, q
  <2>2. Len(out) \in 1..Len(out)
    BY <1>2, <1>3
  <2> QED
    BY <1>9, <2>1, <2>2 DEF SameAnswers
<1>12. Started(e)
  BY <1>2, <1>8 DEF BodyTurn, Started
<1>13. conn' = e \/ (conn' \in Finish(e, disk) /\ e.responseLeft = 0)
  <2>1. CASE conn' = e
    BY <2>1
  <2>2. CASE conn' # e
    <3>1. conn' \in Finish(e, disk)
      BY <1>6, <2>2
    <3>2. e.responseLeft = 0
      BY <2>2, <3>1 DEF Finish
    <3> QED
      BY <3>1, <3>2
  <2> QED
    BY <2>1, <2>2
<1> QED
  BY <1>2, <1>3, <1>8, <1>10, <1>11, <1>12, <1>13, SentStatus DEF q

\* While no file is removed or cut short, what the n-th request is told is what it
\* would be told on a connection of its own, or 400: nothing get_ready_for_pipeline
\* and the parser leave of one request reaches the answer to another.
THEOREM NoHeaderLeaks ==
  ASSUME DiskFaults = {}
  PROVE  Spec => []OwnStatus
<1>1. IInv /\ OrderInv /\ StatusInv /\ [Next]_vars => StatusInv'
  <2> SUFFICES ASSUME IInv, OrderInv, StatusInv, [Next]_vars PROVE StatusInv'
    OBVIOUS
  <2>1. UNCHANGED disk
    BY DEF Next, Environment, ClientSend, ClientFinish, ClientFails, RemoveFile, TruncateFile,
           Server, Select, HandleRecv, RecvPlain, RecvTls, RecvZero, RecvError, HandleSend,
           SendResponse, SendFile, SendFileVanished, SendFails, vars
  <2>2. CASE Environment \/ Select \/ UNCHANGED vars
    <3>1. UNCHANGED <<script, disk, conn, out>> /\ (gone => gone')
      BY <2>2 DEF Environment, ClientSend, ClientFinish, ClientFails, RemoveFile, TruncateFile,
                  Select, vars, client
    <3> QED
      BY <3>1, StatusNow, StatusStep DEF Serving
  <2>3. CASE HandleRecv
    BY <2>1, <2>3, RecvStatus
  <2>4. CASE SendResponse
    BY <2>1, <2>4, SendResponseStatus
  <2>5. CASE SendFile
    BY <2>1, <2>5, SendFileStatus
  <2>6. CASE SendFileVanished \/ SendFails
    <3>1. UNCHANGED <<script, disk, out>> /\ conn' = Closed
      BY <2>6 DEF SendFileVanished, SendFails, client
    <3> QED
      BY <3>1, CloseStatus
  <2> QED
    BY <2>2, <2>3, <2>4, <2>5, <2>6 DEF Next, Server, HandleSend
<1>2. StatusInv => OwnStatus
  BY DEF StatusInv, OwnStatus, OwnIn, Told
<1> QED
  BY StatusInit, OrderInvariance, <1>1, <1>2, PTL DEF Spec

=============================================================================
