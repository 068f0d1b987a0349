------------------------- MODULE LisoConnection_proof -------------------------
(***************************************************************************)
(* Type correctness of LisoConnection, and NotInterleaved, for any scripts,*)
(* buffer sizes and faults.  One lemma for each C function says that it    *)
(* maps a sound connection record to sound ones, and what it does to the   *)
(* fields that say how far a response has been sent.                       *)
(***************************************************************************)
EXTENDS LisoConnection, TLAPS

\* The fields of a connection that only the send handlers change.
SameProgress(c, e) == /\ e.open = c.open
                      /\ e.responseLeft = c.responseLeft
                      /\ e.sentResponseHeaders = c.sentResponseHeaders
                      /\ e.sendContentSize = c.sendContentSize

LEMMA StatusTypes ==
  ASSUME NEW s \in Nat, NEW t \in Texts, NEW m \in MethodTokens, NEW o
  PROVE  /\ ParseHttp(t, s) \in Nat
         /\ DetermineStatus(s, t, m, o) \in Nat \ {0}
         /\ StoredMethod(m) \in MethodTokens
         /\ ContentLength(t) \in Nat
<1> DEFINE m1 == StoredMethod(t.method)
<1>a. MethodStatus(m1) \in Nat
  BY DEF MethodStatus
<1> HIDE DEF m1
<1>b. ParseRequestLine(t, s) \in {500, MethodStatus(m1), 414, s}
  BY DEF ParseRequestLine, m1
<1>1. ParseHttp(t, s) \in Nat
  BY <1>a, <1>b DEF ParseHttp, ParseHeaders
<1>2. DetermineStatus(s, t, m, o) \in Nat \ {0}
  BY DEF MethodStatus, DetermineStatus, OpenStatus
<1>3. StoredMethod(m) \in MethodTokens
  BY DEF StoredMethod, MethodTokens
<1>4. ContentLength(t) \in Nat
  BY DEF ContentLength, Texts
<1> QED
  BY <1>1, <1>2, <1>3, <1>4

\* The updates the handlers make of a connection keep its type.
LEMMA SetStatus ==
  ASSUME NEW c \in Conn, NEW s \in Nat, NEW w \in BOOLEAN
  PROVE  [c EXCEPT !.status = s, !.wfd = w] \in Conn
  BY DEF Conn

LEMMA SetBody ==
  ASSUME NEW c \in Conn, NEW i \in Nat \cup {-1}, NEW b \in Seq(SentUnit)
  PROVE  [c EXCEPT !.iindex = i, !.buf = b] \in Conn
  BY DEF Conn

LEMMA SetDone ==
  ASSUME NEW c \in Conn, NEW p \in BOOLEAN, NEW i \in Nat \cup {-1}, NEW w \in BOOLEAN
  PROVE  [c EXCEPT !.postfinish = p, !.iindex = i, !.wfd = w] \in Conn
  BY DEF Conn

LEMMA SetWatch ==
  ASSUME NEW c \in Conn, NEW w \in BOOLEAN
  PROVE  [c EXCEPT !.wfd = w] \in Conn
  BY DEF Conn

LEMMA ContentLengthType ==
  ASSUME NEW t \in Texts
  PROVE  ContentLength(t) \in Nat
  BY DEF ContentLength, Texts

LEMMA NoTextType ==
  ASSUME NEW v \in VersionTokens
  PROVE  NoText(v) \in Texts /\ ContentLength(NoText(v)) = 0
  BY DEF NoText, Texts, ContentLength, MethodTokens

LEMMA FreshOK ==
  ASSUME NEW v \in VersionTokens
  PROVE  /\ ConnOK(Fresh(v))
         /\ Fresh(v).status = 0
         /\ Fresh(v).responseLeft = 0
         /\ ~Fresh(v).sentResponseHeaders
  BY NoTextType, SizesAssumption
  DEF ConnOK, Conn, Fresh, BodyBound, Decided, SentUnit

LEMMA ClosedOK == ConnOK(Closed) /\ ~Closed.open
<1> DEFINE f == Fresh("")
<1>1. ConnOK(f)
  BY FreshOK DEF VersionTokens
<1>2. f \in Conn /\ Closed \in Conn /\ ~Closed.open
  BY <1>1 DEF ConnOK, Conn, Closed
<1>3. /\ Closed.buf = f.buf /\ Closed.iindex = f.iindex /\ Closed.request = f.request
      /\ Closed.hasRequestHeaders = f.hasRequestHeaders
      /\ Closed.wfd = f.wfd /\ Closed.status = f.status
      /\ Closed.responseLeft = f.responseLeft
      /\ Closed.sentResponseHeaders = f.sentResponseHeaders
  BY <1>2 DEF Conn, Closed
<1> QED
  BY <1>1, <1>2, <1>3 DEF ConnOK, BodyBound, Decided

LEMMA GetReadyOK ==
  ASSUME NEW c, ConnOK(c)
  PROVE  LET g == [GetReady(c) EXCEPT !.wfd = FALSE] IN
         /\ ConnOK(g) /\ g.buf = c.buf /\ ~g.hasRequestHeaders /\ ~g.wfd
         /\ g.open /\ g.responseLeft = 0 /\ ~g.sentResponseHeaders
<1> DEFINE f == Fresh("")
           g == [GetReady(c) EXCEPT !.wfd = FALSE]
<1>1. ConnOK(f) /\ f.open /\ f.responseLeft = 0 /\ ~f.sentResponseHeaders
        /\ ~f.hasRequestHeaders /\ ~f.wfd
  BY FreshOK DEF VersionTokens, Fresh
<1>2. g = [f EXCEPT !.buf = c.buf, !.wfd = FALSE]
  BY <1>1 DEF GetReady, Fresh
<1> HIDE DEF f
<1>3. c.buf \in Seq(SentUnit) /\ Len(c.buf) <= BufSize
  BY DEF ConnOK, Conn
<1> HIDE DEF g
<1>4. g \in Conn
  BY <1>1, <1>2, <1>3 DEF ConnOK, Conn
<1>5. /\ g.buf = c.buf /\ ~g.wfd /\ g.iindex = f.iindex /\ g.request = f.request
      /\ ~g.hasRequestHeaders /\ g.open /\ g.responseLeft = 0 /\ ~g.sentResponseHeaders
      /\ g.status = f.status
  BY <1>1, <1>2, <1>3 DEF ConnOK, Conn
<1>6. ConnOK(g)
  BY <1>1, <1>3, <1>4, <1>5 DEF ConnOK, BodyBound, Decided
<1> QED
  BY <1>5, <1>6 DEF g

LEMMA DetermineOK ==
  ASSUME NEW c, ConnOK(c), c.status # 0, NEW d, NEW e, e = Determine(c, d)
  PROVE  /\ ConnOK(e) /\ e.status # 0 /\ SameProgress(c, e)
         /\ e.status = 200 => c.status = 200
         /\ e.request = c.request
<1>1. c \in Conn /\ c.request.method \in MethodTokens
  BY DEF ConnOK, Conn, Texts
<1> DEFINE s == DetermineStatus(c.status, c.request, c.request.method,
                                DirOutcome(c.request, d))
<1>2. s \in Nat \ {0}
  BY <1>1, StatusTypes DEF Conn
<1>3. e = [c EXCEPT !.status = s]
  BY DEF Determine
<1>4. s = 200 => c.status = 200
  BY DEF DetermineStatus
<1> HIDE DEF s
<1>5. e \in Conn
  BY <1>1, <1>2, <1>3 DEF Conn
<1>6. /\ e.status = s /\ e.buf = c.buf /\ e.iindex = c.iindex /\ e.request = c.request
      /\ e.hasRequestHeaders = c.hasRequestHeaders /\ SameProgress(c, e)
  BY <1>1, <1>3 DEF Conn, SameProgress
<1> QED
  BY <1>2, <1>4, <1>5, <1>6 DEF ConnOK, BodyBound, Decided

LEMMA HeaderEndRange ==
  ASSUME NEW buf \in Seq(SentUnit)
  PROVE  HeaderEnd(buf) \in 0..Len(buf)
<1>1. CASE \E p \in 1..Len(buf) : IsHeaderEnd(buf, p)
  <2>1. (CHOOSE p \in 1..Len(buf) : IsHeaderEnd(buf, p)) \in 1..Len(buf)
    BY <1>1
  <2> QED
    BY <1>1, <2>1 DEF HeaderEnd
<1>2. CASE ~\E p \in 1..Len(buf) : IsHeaderEnd(buf, p)
  BY <1>2 DEF HeaderEnd
<1> QED
  BY <1>1, <1>2

LEMMA ParsedType ==
  ASSUME script \in Seq(Texts), NEW buf \in Seq(SentUnit), NEW t \in Parsed(buf)
  PROVE  t \in Texts
<1>1. CASE Framed(buf)
  <2>1. Len(buf) >= 2
    BY <1>1, HeaderEndRange DEF Framed
  <2>2. buf[1] \in SentUnit
    BY <2>1
  <2> QED
    BY <1>1, <2>2 DEF Parsed, SentUnit
<1>2. CASE ~Framed(buf)
  <2>1. PICK cl \in BOOLEAN : t = Garbled(cl)
    BY <1>2 DEF Parsed
  <2>2. NoText("") \in Texts
    BY NoTextType DEF VersionTokens
  <2> QED
    BY <2>1, <2>2 DEF Garbled, Texts, MethodTokens
<1> QED
  BY <1>1, <1>2

LEMMA ParsedIntoType ==
  ASSUME NEW old \in Texts, NEW t \in Texts
  PROVE  ParsedInto(old, t) \in Texts
<1>1. StoredMethod(t.method) \in MethodTokens
  BY DEF StoredMethod, MethodTokens, Texts
<1> QED
  BY <1>1, ZenonT(60) DEF ParsedInto, Texts

LEMMA LookBufferOK ==
  ASSUME script \in Seq(Texts), NEW c, ConnOK(c), c.buf # <<>>, ~c.hasRequestHeaders,
         NEW d, NEW l \in LookBuffer(c, d)
  PROVE  ConnOK(l) /\ l.status # 0 /\ SameProgress(c, l)
<1> DEFINE he   == HeaderEnd(c.buf)
           seen == [c EXCEPT !.k = c.buf[1].k]
<1>1. c \in Conn /\ c.buf \in Seq(SentUnit) /\ c.iindex = -1 /\ he \in 0..Len(c.buf)
  BY HeaderEndRange DEF ConnOK, Conn, BodyBound
<1>2a. Len(c.buf) > 0 /\ Len(script) \in Nat
  BY <1>1
<1>2b. c.buf[1] \in SentUnit
  BY <1>1, <1>2a
<1>2. c.buf[1].k \in Nat
  BY <1>2a, <1>2b DEF SentUnit
<1>3. /\ seen \in Conn /\ SameProgress(c, seen) /\ seen.buf = c.buf /\ seen.iindex = -1
      /\ seen.status = c.status /\ seen.request = c.request /\ ~seen.hasRequestHeaders
  BY <1>1, <1>2 DEF Conn, SameProgress
<1>3a. Len(c.buf) <= BufSize /\ c.request \in Texts /\ ContentLength(c.request) \in Nat
  BY <1>1, ContentLengthType DEF ConnOK, Conn
<1> HIDE DEF seen
<1>4. CASE he = 0
  <2>1. l = [seen EXCEPT !.status = 400, !.wfd = TRUE]
    BY <1>4 DEF LookBuffer, seen
  <2>2. l \in Conn
    <3>1. 400 \in Nat /\ TRUE \in BOOLEAN
      OBVIOUS
    <3> QED
      BY <1>3, <2>1, <3>1, SetStatus, ZenonT(60)
  <2>3. /\ l.status = 400 /\ l.buf = c.buf /\ l.iindex = -1 /\ l.request = c.request
        /\ SameProgress(c, l)
    BY <1>3, <2>1 DEF Conn, SameProgress
  <2> QED
    BY <1>3a, <2>2, <2>3 DEF ConnOK, BodyBound, Decided
<1>5. CASE he # 0
  <2>1. PICK t \in Parsed(c.buf) :
          l = Determine([seen EXCEPT
                !.status = ParseHttp(t, @),
                !.request = ParsedInto(@, t),
                !.hasRequestHeaders = TRUE,
                !.buf = SubSeq(@, HeaderEnd(@) + 1, Len(@))], d)
    BY <1>5 DEF LookBuffer, seen
  <2>2. t \in Texts
    BY <1>1, ParsedType
  <2> DEFINE st == ParseHttp(t, seen.status)
             rq == ParsedInto(seen.request, t)
             rest == SubSeq(c.buf, he + 1, Len(c.buf))
             e  == [seen EXCEPT !.status = st, !.request = rq,
                                !.hasRequestHeaders = TRUE, !.buf = rest]
  <2>3. st \in Nat /\ rq \in Texts /\ ContentLength(rq) \in Nat
    BY <1>3, <2>2, StatusTypes, ParsedIntoType DEF ConnOK, Conn, ContentLength, Texts
  <2>4. rest \in Seq(SentUnit) /\ Len(rest) <= BufSize
    BY <1>1, <1>3, SizesAssumption DEF ConnOK
  <2>5. l = Determine(e, d)
    BY <1>3, <2>1
  <2> HIDE DEF st, rq, rest
  \* Between parse_http and determine_status there may be no status yet: what
  \* Determine needs of e is less than ConnOK.
  <2>6. /\ e \in Conn /\ e.iindex = -1 /\ e.request = rq /\ e.buf = rest
        /\ e.hasRequestHeaders /\ SameProgress(c, e)
    BY <1>3, <2>3, <2>4 DEF Conn, SameProgress
  <2> HIDE DEF e
  <2> DEFINE s2 == DetermineStatus(e.status, e.request, e.request.method,
                                   DirOutcome(e.request, d))
  <2>7. s2 \in Nat \ {0}
    BY <2>6, StatusTypes DEF Conn, Texts
  <2>8. l = [e EXCEPT !.status = s2]
    BY <2>5 DEF Determine
  <2> HIDE DEF s2
  <2>9. l \in Conn
    BY <2>6, <2>7, <2>8 DEF Conn
  <2>10. /\ l.status = s2 /\ l.iindex = -1 /\ l.request = rq /\ l.buf = rest
         /\ l.hasRequestHeaders /\ SameProgress(c, l)
    BY <2>6, <2>8 DEF Conn, SameProgress
  <2> QED
    BY <2>3, <2>4, <2>7, <2>9, <2>10 DEF ConnOK, BodyBound, Decided
<1> QED
  BY <1>4, <1>5

LEMMA TakeBodyOK ==
  ASSUME NEW c, ConnOK(c), c.status # 0
  PROVE  LET e == TakeBody(c) IN
         /\ e \in Conn /\ Len(e.buf) <= BufSize /\ e.status = c.status
         /\ e.iindex <= ContentLength(c.request) /\ e.request = c.request
         /\ e.hasRequestHeaders = c.hasRequestHeaders /\ SameProgress(c, e)
<1> DEFINE at    == IF c.iindex < 0 THEN 0 ELSE c.iindex
           len   == ContentLength(c.request)
           taken == Smaller(len - at, Len(c.buf))
           rest  == SubSeq(c.buf, taken + 1, Len(c.buf))
<1>1a. c \in Conn /\ c.iindex \in Nat \cup {-1} /\ c.iindex <= len /\ c.request \in Texts
  BY DEF ConnOK, Conn, BodyBound
<1>1b. len \in Nat
  BY <1>1a, ContentLengthType
<1>1. c \in Conn /\ len \in Nat /\ at \in 0..len
  BY <1>1a, <1>1b
<1>2. Len(c.buf) \in Nat /\ c.buf \in Seq(SentUnit)
  BY <1>1 DEF Conn
<1> HIDE DEF len, at
<1>3. taken \in 0..Len(c.buf) /\ at + taken \in 0..len
  BY <1>1, <1>2 DEF Smaller
<1> HIDE DEF taken
<1>4. rest \in Seq(SentUnit) /\ Len(rest) <= BufSize
  BY <1>2, <1>3, SizesAssumption DEF ConnOK
<1>5. TakeBody(c) = [c EXCEPT !.iindex = at + taken, !.buf = rest]
  BY DEF TakeBody, at, taken, len
<1> HIDE DEF rest
<1> DEFINE e == TakeBody(c)
<1>6. e \in Conn
  <2>1. at + taken \in Nat \cup {-1}
    BY <1>1, <1>3
  <2> QED
    BY <1>1, <1>4, <1>5, <2>1, SetBody, Zenon
<1>7. /\ e.iindex = at + taken /\ e.buf = rest /\ e.status = c.status
      /\ e.request = c.request /\ e.hasRequestHeaders = c.hasRequestHeaders
      /\ SameProgress(c, e)
  BY <1>1, <1>5 DEF Conn, SameProgress
<1> QED
  BY <1>3, <1>4, <1>6, <1>7 DEF len

LEMMA PostRecvOK ==
  ASSUME NEW c, ConnOK(c), c.status # 0
  PROVE  /\ ConnOK(PostRecv(c)) /\ PostRecv(c).status = c.status
         /\ PostRecv(c).request = c.request
         /\ SameProgress(c, PostRecv(c))
<1>1. c \in Conn /\ c.request \in Texts /\ ContentLength(c.request) \in Nat
  BY ContentLengthType DEF ConnOK, Conn
<1>2. CASE c.postfinish
  BY <1>2 DEF PostRecv, SameProgress
<1>3. CASE ~c.postfinish /\ c.status # 200
  <2> DEFINE e == [c EXCEPT !.wfd = TRUE]
  <2>1. PostRecv(c) = e
    BY <1>3 DEF PostRecv
  <2>2. e \in Conn
    BY <1>1, SetWatch
  <2>3. /\ e.buf = c.buf /\ e.iindex = c.iindex /\ e.request = c.request
        /\ e.hasRequestHeaders = c.hasRequestHeaders /\ e.status = c.status
        /\ SameProgress(c, e)
    BY <1>1 DEF Conn, SameProgress
  <2> QED
    BY <2>1, <2>2, <2>3 DEF ConnOK, BodyBound, Decided
<1>4. CASE ~c.postfinish /\ c.status = 200
  <2>0. -1 \in Nat \cup {-1} /\ TRUE \in BOOLEAN
    OBVIOUS
  <2> DEFINE t == TakeBody(c)
             e == [t EXCEPT !.postfinish = TRUE, !.iindex = -1, !.wfd = TRUE]
  <2>1. /\ t \in Conn /\ Len(t.buf) <= BufSize /\ t.status = c.status
        /\ t.iindex <= ContentLength(c.request) /\ t.request = c.request
        /\ t.hasRequestHeaders = c.hasRequestHeaders /\ SameProgress(c, t)
    BY TakeBodyOK
  <2>2. PostRecv(c) = IF t.iindex = ContentLength(c.request) THEN e ELSE t
    BY <1>4 DEF PostRecv
  <2> HIDE DEF t
  <2>3. CASE t.iindex = ContentLength(c.request)
    <3>1. e \in Conn
      BY <2>0, <2>1, SetDone, Zenon
    <3>2. /\ e.buf = t.buf /\ e.iindex = -1 /\ e.request = t.request
          /\ e.hasRequestHeaders = t.hasRequestHeaders /\ e.status = t.status
          /\ SameProgress(t, e)
      BY <2>1 DEF Conn, SameProgress
    <3> HIDE DEF e
    <3> QED
      BY <1>1, <1>4, <2>1, <2>2, <2>3, <3>1, <3>2
      DEF ConnOK, BodyBound, Decided, SameProgress
  <2>4. CASE t.iindex # ContentLength(c.request)
    <3>1. PostRecv(c) = t
      BY <2>2, <2>4
    <3>2. t.hasRequestHeaders
      BY <1>4, <2>1 DEF ConnOK, Decided
    <3> QED
      BY <1>1, <1>4, <2>1, <3>1, <3>2 DEF ConnOK, BodyBound, Decided
  <2> QED
    BY <2>3, <2>4
<1> QED
  BY <1>2, <1>3, <1>4

LEMMA WatchIfErrorOK ==
  ASSUME NEW c, ConnOK(c), c.status # 0
  PROVE  LET e == WatchIfError(c) IN
         /\ ConnOK(e) /\ e.status = c.status /\ SameProgress(c, e)
         /\ e.hasRequestHeaders = c.hasRequestHeaders
<1>1. c \in Conn
  BY DEF ConnOK
<1> DEFINE e == [c EXCEPT !.wfd = TRUE]
<1>2. WatchIfError(c) \in {c, e}
  BY DEF WatchIfError
<1>3. e \in Conn
  BY <1>1, SetWatch
<1>4. /\ e.buf = c.buf /\ e.iindex = c.iindex /\ e.request = c.request
      /\ e.hasRequestHeaders = c.hasRequestHeaders /\ e.status = c.status
      /\ SameProgress(c, e)
  BY <1>1 DEF Conn, SameProgress
<1> HIDE DEF e
<1> QED
  BY <1>2, <1>3, <1>4 DEF ConnOK, BodyBound, Decided, SameProgress

LEMMA ProcessBufferOK ==
  ASSUME script \in Seq(Texts), NEW c, ConnOK(c), c.buf # <<>>,
         NEW d, NEW e \in ProcessBuffer(c, d)
  PROVE  /\ ConnOK(e) /\ e.status # 0 /\ SameProgress(c, e)
         /\ c.hasRequestHeaders => e.status = c.status /\ e.request = c.request
<1>1. CASE ~c.hasRequestHeaders
  <2>1. PICK l \in LookBuffer(c, d) : e = PostRecv(WatchIfError(l))
    BY <1>1 DEF ProcessBuffer
  <2>2. ConnOK(l) /\ l.status # 0 /\ SameProgress(c, l)
    BY <1>1, LookBufferOK
  <2> DEFINE w == WatchIfError(l)
  <2>3. /\ ConnOK(w) /\ w.status = l.status /\ SameProgress(l, w)
        /\ w.hasRequestHeaders = l.hasRequestHeaders
    BY <2>2, WatchIfErrorOK
  <2>4. e = PostRecv(w)
    BY <2>1
  <2> HIDE DEF w
  <2>5. ConnOK(e) /\ e.status # 0 /\ SameProgress(w, e)
    BY <2>2, <2>3, <2>4, PostRecvOK
  <2> QED
    BY <1>1, <2>2, <2>3, <2>5 DEF SameProgress
<1>2. CASE c.hasRequestHeaders
  <2>1. c.status # 0 /\ c \in Conn
    BY <1>2 DEF ConnOK, Decided
  <2>2. CASE c.request.method = "POST"
    <3>1. e = PostRecv(c)
      BY <1>2, <2>2 DEF ProcessBuffer
    <3> QED
      BY <1>2, <2>1, <3>1, PostRecvOK
  <2>3. CASE c.request.method # "POST"
    <3>1. e = [c EXCEPT !.wfd = TRUE]
      BY <1>2, <2>3 DEF ProcessBuffer
    <3>2. e \in Conn
      BY <2>1, <3>1, SetWatch
    <3>3. /\ e.buf = c.buf /\ e.iindex = c.iindex /\ e.request = c.request
          /\ e.hasRequestHeaders = c.hasRequestHeaders /\ e.status = c.status
          /\ SameProgress(c, e)
      BY <2>1, <3>1 DEF Conn, SameProgress
    <3> QED
      BY <1>2, <2>1, <3>2, <3>3 DEF ConnOK, BodyBound, Decided
  <2> QED
    BY <2>2, <2>3
<1> QED
  BY <1>1, <1>2

LEMMA FinishOK ==
  ASSUME script \in Seq(Texts), NEW c, ConnOK(c), NEW d, NEW e \in Finish(c, d)
  PROVE  /\ ConnOK(e)
         /\ c.responseLeft # 0 => e = c
         /\ c.responseLeft = 0 /\ e.open => e.responseLeft = 0 /\ ~e.sentResponseHeaders
<1>1. CASE c.responseLeft # 0
  BY <1>1 DEF Finish
<1>2. CASE c.responseLeft = 0 /\ ClosesAfter(c.request)
  BY <1>2, ClosedOK DEF Finish
<1>3. CASE c.responseLeft = 0 /\ ~ClosesAfter(c.request)
  <2> DEFINE g == [GetReady(c) EXCEPT !.wfd = FALSE]
  <2>1. /\ ConnOK(g) /\ g.open /\ g.responseLeft = 0 /\ ~g.sentResponseHeaders
    BY GetReadyOK
  <2>2. e \in IF g.buf = <<>> THEN {g} ELSE ProcessBuffer(g, d)
    BY <1>3 DEF Finish
  <2> HIDE DEF g
  <2>3. CASE g.buf = <<>>
    BY <1>3, <2>1, <2>2, <2>3
  <2>4. CASE g.buf # <<>>
    <3>1. ConnOK(e) /\ SameProgress(g, e)
      BY <2>1, <2>2, <2>4, ProcessBufferOK
    <3> QED
      BY <1>3, <2>1, <3>1 DEF SameProgress
  <2> QED
    BY <2>3, <2>4
<1> QED
  BY <1>1, <1>2, <1>3

LEMMA BuiltOK ==
  ASSUME NEW d \in [Paths -> [open : OpenOutcomes, size : Nat]],
         NEW c, ConnOK(c), c.status # 0
  PROVE  LET b == Built(c, d) IN
         /\ ConnOK(b) /\ b.status # 0 /\ b.open = c.open
         /\ b.responseLeft \in 1..ResponseSize
         /\ c.responseLeft # 0 => b = c
         /\ b.sentResponseHeaders = c.sentResponseHeaders
         /\ b.status = 200 => c.status = 200
         /\ b.request = c.request
<1>1. CASE c.responseLeft # 0
  BY <1>1, SizesAssumption DEF Built, ConnOK, Conn
<1>2. CASE c.responseLeft = 0
  <2> DEFINE e == Determine(c, d)
             z == IF e.status = 200 /\ e.request.method \in {"GET", "HEAD"}
                    THEN DirSize(e.request, d) ELSE e.sendContentSize
             b == [e EXCEPT !.responseLeft = ResponseSize, !.sendContentSize = z]
  <2>1. /\ ConnOK(e) /\ e.status # 0 /\ SameProgress(c, e)
        /\ e.status = 200 => c.status = 200
        /\ e.request = c.request
    BY DetermineOK
  <2>2. Built(c, d) = b
    BY <1>2 DEF Built
  <2> HIDE DEF e
  <2>3. DirSize(e.request, d) \in Nat
    BY DEF DirSize
  <2>4. z \in Nat
    BY <2>1, <2>3 DEF ConnOK, Conn
  <2> HIDE DEF z
  <2>5. ResponseSize \in 0..ResponseSize /\ ResponseSize \in 1..ResponseSize
    BY SizesAssumption
  <2>6. b \in Conn
    BY <2>1, <2>4, <2>5 DEF ConnOK, Conn
  <2>7. /\ b.status = e.status /\ b.buf = e.buf /\ b.iindex = e.iindex
        /\ b.request = e.request /\ b.hasRequestHeaders = e.hasRequestHeaders
        /\ b.wfd = e.wfd /\ b.open = e.open /\ b.responseLeft = ResponseSize
        /\ b.sentResponseHeaders = e.sentResponseHeaders
    BY <2>1 DEF ConnOK, Conn
  <2> HIDE DEF b
  <2> QED
    BY <1>2, <2>1, <2>2, <2>5, <2>6, <2>7
    DEF ConnOK, BodyBound, Decided, SameProgress
<1> QED
  BY <1>1, <1>2

LEMMA WroteOK ==
  ASSUME NEW b, ConnOK(b), b.status # 0, NEW n \in 1..b.responseLeft
  PROVE  LET w == Wrote(b, n) IN
         /\ ConnOK(w) /\ w.status = b.status /\ w.request = b.request
         /\ w.open = b.open /\ w.sendContentSize = b.sendContentSize
         /\ w.responseLeft = b.responseLeft - n
         /\ w.sentResponseHeaders = (b.sentResponseHeaders \/ b.responseLeft = n)
<1> DEFINE w == Wrote(b, n)
           l == b.responseLeft - n
           h == b.sentResponseHeaders \/ b.responseLeft = n
<1>1. b \in Conn /\ b.responseLeft \in 0..ResponseSize
  BY DEF ConnOK, Conn
<1>2. l \in 0..ResponseSize /\ h \in BOOLEAN
  BY <1>1, SizesAssumption
<1>3. w = [b EXCEPT !.responseLeft = l, !.sentResponseHeaders = h]
  BY DEF Wrote
<1> HIDE DEF l, h
<1>4. w \in Conn
  BY <1>1, <1>2, <1>3 DEF Conn
<1>5. /\ w.status = b.status /\ w.buf = b.buf /\ w.iindex = b.iindex
      /\ w.request = b.request /\ w.hasRequestHeaders = b.hasRequestHeaders
      /\ w.wfd = b.wfd /\ w.open = b.open /\ w.responseLeft = l
      /\ w.sendContentSize = b.sendContentSize
  BY <1>1, <1>3 DEF Conn
<1>6. w.sentResponseHeaders = h
  BY <1>1, <1>3 DEF Conn
<1> HIDE DEF w
<1>7. ConnOK(w)
  BY <1>4, <1>5 DEF ConnOK, BodyBound, Decided
<1> QED
  BY <1>5, <1>6, <1>7 DEF l, h, w

-----------------------------------------------------------------------------
\* The invariant holds initially and every action keeps it.

LEMMA NoneSent ==
  ASSUME NEW o, Len(o) = 0
  PROVE  AllSent(o, Len(o)) /\ AllSent(o, Len(o) - 1)
<1>1. \A n : n \notin 1..Len(o) /\ n \notin 1..(Len(o) - 1)
  OBVIOUS
<1> QED
  BY <1>1 DEF AllSent

LEMMA FirstUnit == [k |-> 1, part |-> 0] \in Unit
<1>1. 1 \in Nat \ {0} /\ 0 \in Nat
  OBVIOUS
<1> QED
  BY <1>1, Zenon DEF Unit

LEMMA EmptySequence ==
  ASSUME NEW S, NEW q, q = <<>>
  PROVE  q \in Seq(S) /\ Len(q) = 0
  OBVIOUS

LEMMA InitInv == Init => IInv
<1> SUFFICES ASSUME Init PROVE IInv
  OBVIOUS
<1>1. PICK v \in {""} \cup Versions : conn = Fresh(v)
  BY DEF Init
<1>2. v \in VersionTokens
  BY DEF VersionTokens
<1>3. /\ ConnOK(conn) /\ conn.responseLeft = 0 /\ ~conn.sentResponseHeaders
  BY <1>1, <1>2, FreshOK
<1>4. TypeOK
  <2>1. script \in Seq(Texts) /\ tls \in BOOLEAN
        /\ disk \in [Paths -> [open : OpenOutcomes, size : Nat]]
    BY InputsAssumption DEF Init
  <2>2. nextUnit \in Unit
    BY FirstUnit DEF Init
  <2>3. input \in Seq(SentUnit) /\ pending \in Seq(SentUnit) /\ out \in Seq(Response)
    BY EmptySequence, Zenon DEF Init
  <2>4. fin \in BOOLEAN /\ gone \in BOOLEAN /\ snap \in SUBSET {"r", "w"}
        /\ sockErr \in Errnos \cup {"none"}
        /\ server \in {"up", "killed", "exited", "crashed"}
    BY DEF Init, Errnos
  <2> QED
    BY <1>3, <2>1, <2>2, <2>3, <2>4 DEF TypeOK, ConnOK
<1>5. out = <<>> /\ snap = {} /\ Len(out) = 0
  BY EmptySequence, Zenon DEF Init
<1>6. AllSent(out, Len(out)) /\ AllSent(out, Len(out) - 1)
  BY <1>5, NoneSent, Zenon
<1>7. NotInterleaved /\ OutTracks(conn, out)
  BY <1>3, <1>6 DEF NotInterleaved, OutTracks
<1>8. sockErr = "none"
  BY DEF Init
<1> QED
  BY <1>3, <1>4, <1>5, <1>7, <1>8 DEF IInv

LEMMA NextUnitType ==
  ASSUME script \in Seq(Texts), NEW u \in SentUnit
  PROVE  NextUnit(u) \in Unit
<1>1. u.k \in 1..Len(script) /\ u.part \in Nat /\ Len(script) \in Nat
  BY DEF SentUnit
<1>2. u.k + 1 \in Nat \ {0} /\ u.part + 1 \in Nat /\ u.k \in Nat \ {0}
  BY <1>1
<1> QED
  BY <1>2 DEF NextUnit, Unit, SentUnit

\* The environment does not touch the connection.
LEMMA EnvironmentInv ==
  ASSUME IInv, Environment
  PROVE  IInv'
<1>1. UNCHANGED <<script, tls, pending, conn, snap, server, out>>
  BY DEF Environment, ClientSend, ClientFinish, ClientFails, RemoveFile, TruncateFile,
         client
<1>2. /\ (gone' => fin') => (gone => fin)
      /\ sockErr' # "none" => gone'
  BY DEF Environment, ClientSend, ClientFinish, ClientFails, RemoveFile, TruncateFile,
         client, IInv, TypeOK
<1>3. TypeOK'
  <2> USE DEF IInv, TypeOK
  <2>1. CASE ClientSend
    <3>1. nextUnit \in SentUnit
      BY <2>1 DEF ClientSend, SentUnit, Unit
    <3>2. nextUnit' \in Unit /\ input' \in Seq(SentUnit)
      BY <2>1, <3>1, NextUnitType DEF ClientSend
    <3>3. UNCHANGED <<fin, gone, sockErr, disk>>
      BY <2>1 DEF ClientSend
    <3> QED
      BY <1>1, <3>2, <3>3 DEF Conn, SentUnit
  <2>2. CASE ClientFinish
    BY <1>1, <2>2 DEF ClientFinish, Conn, SentUnit
  <2>3. CASE ClientFails
    <3>1. sockErr' \in Errnos \cup {"none"} /\ gone' \in BOOLEAN
      BY <2>3 DEF ClientFails, Reported, Errnos
    <3>2. UNCHANGED <<nextUnit, input, fin, disk>>
      BY <2>3 DEF ClientFails
    <3> QED
      BY <1>1, <3>1, <3>2 DEF Conn, SentUnit
  <2>4. CASE RemoveFile \/ TruncateFile
    <3>1. disk' \in [Paths -> [open : OpenOutcomes, size : Nat]]
      <4>1. CASE RemoveFile
        <5>1. PICK p \in Paths : disk' = [disk EXCEPT ![p].open = "ENOENT"]
          BY <4>1 DEF RemoveFile
        <5>2. [disk[p] EXCEPT !.open = "ENOENT"] \in [open : OpenOutcomes, size : Nat]
          BY DEF OpenOutcomes
        <5> QED
          BY <5>1, <5>2
      <4>2. CASE TruncateFile
        <5>1. PICK p \in Paths : \E s \in 0..(disk[p].size - 1) :
                disk' = [disk EXCEPT ![p].size = s]
          BY <4>2 DEF TruncateFile
        <5>2. PICK s \in 0..(disk[p].size - 1) : disk' = [disk EXCEPT ![p].size = s]
          BY <5>1
        <5>3. disk[p] \in [open : OpenOutcomes, size : Nat] /\ s \in Nat
          BY <5>2
        <5>4. [disk[p] EXCEPT !.size = s] \in [open : OpenOutcomes, size : Nat]
          BY <5>3
        <5> QED
          BY <5>2, <5>4
      <4> QED
        BY <2>4, <4>1, <4>2
    <3>2. UNCHANGED <<nextUnit, input, fin, gone, sockErr>>
      BY <2>4 DEF RemoveFile, TruncateFile, client
    <3> QED
      BY <1>1, <3>1, <3>2 DEF Conn, SentUnit
  <2> QED
    BY <2>1, <2>2, <2>3, <2>4 DEF Environment
<1> QED
  BY <1>1, <1>2, <1>3
  DEF IInv, ConnOK, Conn, SentUnit, BodyBound, Decided, NotInterleaved, OutTracks, AllSent

LEMMA SelectInv ==
  ASSUME IInv, Select
  PROVE  IInv'
<1>1. /\ UNCHANGED <<script, nextUnit, input, fin, sockErr, gone, disk, tls, pending,
                     conn, server, out>>
      /\ snap' \in SUBSET {"r", "w"}
      /\ "w" \in snap' => conn.wfd
  BY DEF Select, client
<1>2. conn.wfd => conn.status # 0
  BY DEF IInv, ConnOK, Decided
<1> QED
  BY <1>1, <1>2
  DEF IInv, TypeOK, ConnOK, Conn, SentUnit, BodyBound, Decided, NotInterleaved,
      OutTracks, AllSent

-----------------------------------------------------------------------------
\* The read handler.

LEMMA SameTracks ==
  ASSUME NEW c, NEW e, NEW o, SameProgress(c, e), OutTracks(c, o),
         \/ c.responseLeft = 0 /\ ~c.sentResponseHeaders
         \/ e.status = c.status /\ e.request = c.request
  PROVE  OutTracks(e, o)
  BY DEF SameProgress, OutTracks

LEMMA DeliverOK ==
  ASSUME IInv, conn.open, NEW data \in Seq(SentUnit), data # <<>>, Len(data) <= Space,
         Deliver(data)
  PROVE  /\ ConnOK(conn') /\ conn'.open
         /\ conn'.status # 0
         /\ OutTracks(conn, out) => OutTracks(conn', out)
<1>1. ConnOK(conn) /\ script \in Seq(Texts)
  BY DEF IInv, TypeOK
<1>2. CASE ~Serving
  BY <1>1, <1>2 DEF Deliver, Serving
<1>3. CASE Serving
  <2> DEFINE b == conn.buf \o data
             p == [conn EXCEPT !.buf = b]
  <2>1. conn \in Conn /\ conn.buf \in Seq(SentUnit) /\ Len(conn.buf) \in Nat
    BY <1>1 DEF ConnOK, Conn
  <2>2. /\ b \in Seq(SentUnit) /\ Len(b) = Len(conn.buf) + Len(data)
        /\ Len(data) \in Nat /\ Len(data) # 0
    BY <2>1
  <2>3. Len(b) <= BufSize /\ b # <<>>
    BY <2>1, <2>2, SizesAssumption DEF Space
  <2>4. conn' \in ProcessBuffer(p, disk)
    BY <1>3 DEF Deliver
  <2> HIDE DEF b
  <2>5. p \in Conn
    BY <2>1, <2>2 DEF Conn
  <2>6. /\ p.buf = b /\ p.iindex = conn.iindex /\ p.request = conn.request
        /\ p.hasRequestHeaders = conn.hasRequestHeaders /\ p.wfd = conn.wfd
        /\ p.status = conn.status /\ p.open = conn.open
        /\ p.responseLeft = conn.responseLeft
        /\ p.sentResponseHeaders = conn.sentResponseHeaders
        /\ p.sendContentSize = conn.sendContentSize
    BY <2>1, <2>2 DEF Conn
  <2> HIDE DEF p
  <2>7. ConnOK(p) /\ p.buf # <<>>
    BY <1>1, <2>3, <2>5, <2>6 DEF ConnOK, BodyBound, Decided
  <2>8. /\ ConnOK(conn') /\ conn'.status # 0 /\ SameProgress(p, conn')
        /\ p.hasRequestHeaders => conn'.status = p.status /\ conn'.request = p.request
    BY <1>1, <2>4, <2>7, ProcessBufferOK
  <2>9. SameProgress(conn, conn') /\ conn'.open
    BY <2>6, <2>8 DEF SameProgress
  <2>10. \/ conn.responseLeft = 0 /\ ~conn.sentResponseHeaders
         \/ conn'.status = conn.status /\ conn'.request = conn.request
    BY <1>1, <1>3, <2>6, <2>8 DEF Serving, ConnOK, Decided
  <2> QED
    BY <2>8, <2>9, <2>10, SameTracks
<1> QED
  BY <1>2, <1>3

\* What is left to show for a step of the server that leaves the request
\* script, the client and the file system alone.
LEMMA StepInv ==
  ASSUME IInv, UNCHANGED <<script, nextUnit, fin, gone, disk, tls>>,
         input' \in Seq(SentUnit), pending' \in Seq(SentUnit),
         sockErr' \in {sockErr, "none"}, snap' \in SUBSET {"r", "w"},
         server' \in {"up", "killed", "exited", "crashed"}, out' \in Seq(Response),
         ConnOK(conn'), conn'.open /\ "w" \in snap' => conn'.status # 0,
         AllSent(out', Len(out') - 1), conn'.open /\ (gone => fin) => OutTracks(conn', out')
  PROVE  IInv'
<1>1. SentUnit' = SentUnit /\ Conn' = Conn
  BY DEF SentUnit, Conn
<1>2. TypeOK' /\ (sockErr' # "none" => gone')
  BY <1>1 DEF IInv, TypeOK, ConnOK
<1>3. ConnOK(conn)'
  BY <1>1 DEF ConnOK, BodyBound, Decided
<1>4. NotInterleaved' /\ (conn.open /\ (gone => fin) => OutTracks(conn, out))'
  BY DEF NotInterleaved, AllSent, OutTracks
<1> QED
  BY <1>2, <1>3, <1>4 DEF IInv

LEMMA RecvPlainInv ==
  ASSUME IInv, RecvPlain
  PROVE  IInv'
<1>1. PICK n \in 1..Smaller(Space, Len(input)) :
        /\ Deliver(SubSeq(input, 1, n))
        /\ input' = SubSeq(input, n + 1, Len(input))
  BY DEF RecvPlain
<1>2. input \in Seq(SentUnit) /\ Len(input) \in Nat /\ Space \in Int
  BY SizesAssumption DEF IInv, TypeOK, Space, ConnOK, Conn
<1>3. n \in 1..Len(input) /\ n <= Space
  BY <1>2 DEF Smaller
<1> DEFINE data == SubSeq(input, 1, n)
<1>4. data \in Seq(SentUnit) /\ data # <<>> /\ Len(data) <= Space
  BY <1>2, <1>3
<1>5. input' \in Seq(SentUnit)
  BY <1>1, <1>2, <1>3
<1> HIDE DEF data
<1>6. conn.open /\ snap' \in SUBSET {"r", "w"}
  BY DEF RecvPlain, Receiving, StayInPass, IInv, TypeOK
<1>7. Deliver(data)
  BY <1>1 DEF data
<1>8. /\ UNCHANGED <<script, nextUnit, fin, gone, disk, tls, sockErr, pending, server, out>>
      /\ pending \in Seq(SentUnit) /\ sockErr \in Errnos \cup {"none"}
      /\ server \in {"up", "killed", "exited", "crashed"} /\ out \in Seq(Response)
      /\ AllSent(out, Len(out) - 1)
      /\ conn.open /\ (gone => fin) => OutTracks(conn, out)
  BY DEF RecvPlain, IInv, TypeOK, NotInterleaved
<1>9. /\ ConnOK(conn') /\ conn'.status # 0
      /\ OutTracks(conn, out) => OutTracks(conn', out)
  BY <1>4, <1>6, <1>7, DeliverOK
<1>10. (gone => fin) => OutTracks(conn', out')
  BY <1>6, <1>8, <1>9
<1> QED
  BY <1>5, <1>6, <1>8, <1>9, <1>10, StepInv

LEMMA RecvTlsInv ==
  ASSUME IInv, RecvTls
  PROVE  IInv'
<1>1. PICK m \in 0..Smaller(MaxRecord, Len(input)) :
       LET record == IF pending # <<>> THEN pending ELSE SubSeq(input, 1, m)
           n      == Smaller(Space, Len(record))
       IN /\ (m = 0) = (pending # <<>>)
          /\ Deliver(SubSeq(record, 1, n))
          /\ pending' = SubSeq(record, n + 1, Len(record))
          /\ input' = SubSeq(input, m + 1, Len(input))
  BY DEF RecvTls
<1> DEFINE record == IF pending # <<>> THEN pending ELSE SubSeq(input, 1, m)
           n      == Smaller(Space, Len(record))
           data   == SubSeq(record, 1, n)
<1>2. /\ input \in Seq(SentUnit) /\ Len(input) \in Nat
      /\ pending \in Seq(SentUnit) /\ Len(pending) \in Nat
      /\ Space \in Nat \ {0}
  BY SizesAssumption, SMTT(60) DEF IInv, TypeOK, RecvTls, Space, ConnOK, Conn
<1>3. m \in 0..Len(input)
  BY <1>2, SizesAssumption DEF Smaller
<1>4. record \in Seq(SentUnit) /\ Len(record) \in Nat \ {0}
  <2>1. CASE pending # <<>>
    BY <1>2, <2>1
  <2>2. CASE pending = <<>>
    <3>1. m \in 1..Len(input)
      BY <1>1, <1>3, <2>2
    <3>2. SubSeq(input, 1, m) \in Seq(SentUnit) /\ Len(SubSeq(input, 1, m)) = m
      BY <1>2, <3>1
    <3> QED
      BY <2>2, <3>1, <3>2
  <2> QED
    BY <2>1, <2>2
<1>5. Deliver(data) /\ pending' = SubSeq(record, n + 1, Len(record))
        /\ input' = SubSeq(input, m + 1, Len(input))
  BY <1>1
<1> HIDE DEF record
<1>6. n \in 1..Len(record) /\ n <= Space
  BY <1>2, <1>4 DEF Smaller
<1> HIDE DEF n
<1>7. data \in Seq(SentUnit) /\ data # <<>> /\ Len(data) <= Space
  BY <1>2, <1>4, <1>6
<1> HIDE DEF data
<1>8. pending' \in Seq(SentUnit)
  BY <1>4, <1>5, <1>6
<1>9. input' \in Seq(SentUnit)
  BY <1>2, <1>3, <1>5
<1>10. conn.open /\ snap' \in SUBSET {"r", "w"}
  BY DEF RecvTls, Receiving, StayInPass, IInv, TypeOK
<1>11. /\ UNCHANGED <<script, nextUnit, fin, gone, disk, tls, sockErr, server, out>>
       /\ sockErr \in Errnos \cup {"none"}
       /\ server \in {"up", "killed", "exited", "crashed"} /\ out \in Seq(Response)
       /\ AllSent(out, Len(out) - 1)
       /\ conn.open /\ (gone => fin) => OutTracks(conn, out)
  BY DEF RecvTls, IInv, TypeOK, NotInterleaved
<1>12. /\ ConnOK(conn') /\ conn'.status # 0
       /\ OutTracks(conn, out) => OutTracks(conn', out)
  BY <1>5, <1>7, <1>10, DeliverOK
<1>13. (gone => fin) => OutTracks(conn', out')
  BY <1>10, <1>11, <1>12
<1> QED
  BY <1>8, <1>9, <1>10, <1>11, <1>12, <1>13, StepInv

\* A connection that has been closed satisfies what is asked of it.
LEMMA CloseInv ==
  ASSUME IInv, conn' = Closed, snap' = {}, sockErr' \in {sockErr, "none"},
         server' \in {"up", "killed", "exited", "crashed"},
         UNCHANGED <<script, nextUnit, input, fin, gone, disk, tls, pending, out>>
  PROVE  IInv'
<1>1. ConnOK(conn') /\ ~conn'.open
  BY ClosedOK
<1>2. /\ input' \in Seq(SentUnit) /\ pending' \in Seq(SentUnit) /\ out' \in Seq(Response)
      /\ AllSent(out', Len(out') - 1)
  BY DEF IInv, TypeOK, NotInterleaved
<1>3. snap' \in SUBSET {"r", "w"}
  OBVIOUS
<1> QED
  BY <1>1, <1>2, <1>3, StepInv

LEMMA RecvEndInv ==
  ASSUME IInv, RecvZero \/ RecvError
  PROVE  IInv'
<1>1. /\ sockErr' \in {sockErr, "none"}
      /\ UNCHANGED <<script, nextUnit, input, fin, gone, disk, tls, pending, server, out>>
      /\ server \in {"up", "killed", "exited", "crashed"}
      /\ input \in Seq(SentUnit) /\ pending \in Seq(SentUnit) /\ out \in Seq(Response)
      /\ AllSent(out, Len(out) - 1)
      /\ ConnOK(conn) /\ conn.open
      /\ conn.open /\ "w" \in snap => conn.status # 0
      /\ conn.open /\ (gone => fin) => OutTracks(conn, out)
      /\ snap \in SUBSET {"r", "w"}
  BY DEF RecvZero, RecvError, Receiving, client, IInv, TypeOK, NotInterleaved
<1>2. CASE CloseInPass
  BY <1>1, <1>2, CloseInv DEF CloseInPass
<1>3. CASE conn' = conn /\ StayInPass
  <2>1. snap' \subseteq snap
    BY <1>3 DEF StayInPass
  <2> QED
    BY <1>1, <1>3, <2>1, StepInv
<1>4. CASE /\ conn' = [conn EXCEPT !.status = 500, !.wfd = TRUE] /\ StayInPass
           /\ sockErr # "none" /\ ~fin /\ Serving
  <2>1. ~(gone => fin)
    BY <1>4 DEF IInv
  <2>2. conn \in Conn /\ 500 \in Nat /\ TRUE \in BOOLEAN
    BY <1>1 DEF ConnOK
  <2>3. conn' \in Conn
    BY <1>4, <2>2, SetStatus, ZenonT(60)
  <2>4. /\ conn'.buf = conn.buf /\ conn'.iindex = conn.iindex
        /\ conn'.request = conn.request /\ conn'.status = 500
        /\ conn'.hasRequestHeaders = conn.hasRequestHeaders
    BY <1>4, <2>2 DEF Conn
  <2>5. ConnOK(conn')
    BY <1>1, <2>3, <2>4 DEF ConnOK, BodyBound, Decided
  <2>6. snap' \in SUBSET {"r", "w"}
    BY <1>1, <1>4 DEF StayInPass
  <2> QED
    BY <1>1, <2>1, <2>4, <2>5, <2>6, StepInv
<1> QED
  BY <1>2, <1>3, <1>4 DEF RecvZero, RecvError

-----------------------------------------------------------------------------
\* The write handler.

\* Changing what is left, or owed, of the last response.
LEMMA LastLeft ==
  ASSUME NEW o \in Seq(Response), o # <<>>, NEW l \in 0..ResponseSize,
         NEW q, q = [o EXCEPT ![Len(o)].left = l]
  PROVE  /\ q \in Seq(Response) /\ q # <<>> /\ Len(q) = Len(o)
         /\ q[Len(q)].left = l /\ q[Len(q)].owed = o[Len(o)].owed
         /\ \A n \in 1..(Len(o) - 1) : q[n] = o[n]
<1>1. Len(o) \in 1..Len(o)
  OBVIOUS
<1>2. [o[Len(o)] EXCEPT !.left = l] \in Response
  <2> DEFINE r == o[Len(o)]
  <2>1. r \in Response
    BY <1>1
  <2> HIDE DEF r
  <2>2. [r EXCEPT !.left = l] \in Response
    BY <2>1 DEF Response
  <2> QED
    BY <2>2 DEF r
<1>3. q \in Seq(Response) /\ Len(q) = Len(o) /\ q[Len(q)] = [o[Len(o)] EXCEPT !.left = l]
      /\ \A n \in 1..(Len(o) - 1) : q[n] = o[n]
  BY <1>1, <1>2
<1>4. o[Len(o)] \in Response /\ q # <<>>
  BY <1>1, <1>3
<1>5. q[Len(q)].left = l /\ q[Len(q)].owed = o[Len(o)].owed
  BY <1>3, <1>4 DEF Response
<1> QED
  BY <1>3, <1>4, <1>5

LEMMA LastOwed ==
  ASSUME NEW o \in Seq(Response), o # <<>>, NEW l \in Nat,
         NEW q, q = [o EXCEPT ![Len(o)].owed = l]
  PROVE  /\ q \in Seq(Response) /\ q # <<>> /\ Len(q) = Len(o)
         /\ q[Len(q)].owed = l /\ q[Len(q)].left = o[Len(o)].left
         /\ \A n \in 1..(Len(o) - 1) : q[n] = o[n]
<1>1. Len(o) \in 1..Len(o)
  OBVIOUS
<1>2. [o[Len(o)] EXCEPT !.owed = l] \in Response
  <2> DEFINE r == o[Len(o)]
  <2>1. r \in Response
    BY <1>1
  <2> HIDE DEF r
  <2>2. [r EXCEPT !.owed = l] \in Response
    BY <2>1 DEF Response
  <2> QED
    BY <2>2 DEF r
<1>3. q \in Seq(Response) /\ Len(q) = Len(o) /\ q[Len(q)] = [o[Len(o)] EXCEPT !.owed = l]
      /\ \A n \in 1..(Len(o) - 1) : q[n] = o[n]
  BY <1>1, <1>2
<1>4. o[Len(o)] \in Response /\ q # <<>>
  BY <1>1, <1>3
<1>5. q[Len(q)].owed = l /\ q[Len(q)].left = o[Len(o)].left
  BY <1>3, <1>4 DEF Response
<1> QED
  BY <1>3, <1>4, <1>5

\* All responses are complete when all but the last are, and it is.
LEMMA AllSentLast ==
  ASSUME NEW o \in Seq(Response), o # <<>>, AllSent(o, Len(o) - 1), Complete(o[Len(o)])
  PROVE  AllSent(o, Len(o))
<1>1. \A n \in 1..Len(o) : n = Len(o) \/ n \in 1..(Len(o) - 1)
  OBVIOUS
<1> QED
  BY <1>1 DEF AllSent

\* The response being sent, once it has been built: the ones before it have been
\* sent whole.
LEMMA OutBuiltOK ==
  ASSUME IInv, conn.open, ~gone, ~BodyTurn, conn.status # 0,
         NEW b, b = Built(conn, disk), NEW o, o = OutBuilt(b)
  PROVE  /\ o \in Seq(Response) /\ o # <<>> /\ AllSent(o, Len(o) - 1)
         /\ o[Len(o)].left = b.responseLeft
         /\ o[Len(o)].owed = IF b.status = 200 /\ b.request.method = "GET"
                               THEN b.sendContentSize ELSE 0
<1>1. /\ ConnOK(conn) /\ out \in Seq(Response) /\ AllSent(out, Len(out) - 1)
      /\ OutTracks(conn, out) /\ disk \in [Paths -> [open : OpenOutcomes, size : Nat]]
  BY DEF IInv, TypeOK, NotInterleaved
<1>2. /\ ConnOK(b) /\ b.responseLeft \in 1..ResponseSize
      /\ conn.responseLeft # 0 => b = conn
  BY <1>1, BuiltOK
<1>3. CASE conn.responseLeft # 0
  BY <1>1, <1>2, <1>3 DEF OutBuilt, OutTracks
<1>4. CASE conn.responseLeft = 0
  <2>1. AllSent(out, Len(out))
    <3>1. CASE ~conn.sentResponseHeaders
      BY <1>1, <1>4, <3>1 DEF OutTracks
    <3>2. CASE conn.sentResponseHeaders
      <4>1. out # <<>> /\ out[Len(out)].left = 0 /\ out[Len(out)].owed = 0
        BY <1>1, <1>4, <3>2 DEF OutTracks, BodyTurn
      <4> QED
        BY <1>1, <4>1, AllSentLast DEF Complete
    <3>3. conn.sentResponseHeaders \in BOOLEAN
      BY <1>1 DEF ConnOK, Conn
    <3> QED
      BY <3>1, <3>2, <3>3
  <2> DEFINE owed == IF b.status = 200 /\ b.request.method = "GET"
                       THEN b.sendContentSize ELSE 0
             r == [of |-> conn.k, status |-> b.status, left |-> b.responseLeft,
                   owed |-> owed]
  <2>2. /\ b.status \in Nat /\ b.responseLeft \in 0..ResponseSize /\ owed \in Nat
        /\ conn.k \in Nat
    BY <1>1, <1>2 DEF ConnOK, Conn
  <2>3. o = Append(out, r)
    BY <1>4 DEF OutBuilt
  <2> HIDE DEF owed
  <2>4. r \in Response /\ r.left = b.responseLeft /\ r.owed = owed
    BY <2>2 DEF Response
  <2> HIDE DEF r
  <2>5. /\ o \in Seq(Response) /\ o # <<>> /\ Len(o) = Len(out) + 1 /\ o[Len(o)] = r
        /\ \A n \in 1..Len(out) : o[n] = out[n]
    BY <1>1, <2>3, <2>4
  <2>6. AllSent(o, Len(o) - 1)
    <3>1. Len(o) - 1 = Len(out)
      BY <1>1, <2>5
    <3> QED
      BY <2>1, <2>5, <3>1 DEF AllSent
  <2> QED
    BY <2>4, <2>5, <2>6 DEF owed
<1> QED
  BY <1>3, <1>4

\* What a change of the last response leaves alone.
LEMMA AllSentBefore ==
  ASSUME NEW o, NEW q, Len(q) = Len(o), AllSent(o, Len(o) - 1),
         \A n \in 1..(Len(o) - 1) : q[n] = o[n]
  PROVE  AllSent(q, Len(q) - 1)
  BY DEF AllSent

LEMMA SendResponseInv ==
  ASSUME IInv, SendResponse
  PROVE  IInv'
<1> DEFINE b == Built(conn, disk)
           o == OutBuilt(b)
<1>1. /\ ConnOK(conn) /\ disk \in [Paths -> [open : OpenOutcomes, size : Nat]]
      /\ script \in Seq(Texts) /\ conn.open /\ ~gone /\ ~BodyTurn /\ conn.status # 0
  BY DEF SendResponse, Sending, IInv, TypeOK
<1>2. PICK n \in 1..b.responseLeft :
        /\ out' = [o EXCEPT ![Len(o)].left = @ - n]
        /\ IF conn.status = 200 /\ conn.request.method = "GET"
             THEN conn' = Wrote(b, n)
             ELSE conn' \in Finish(Wrote(b, n), disk)
  BY DEF SendResponse
<1>3. /\ ConnOK(b) /\ b.status # 0 /\ b.responseLeft \in 1..ResponseSize
      /\ b.sentResponseHeaders = conn.sentResponseHeaders
      /\ b.status = 200 => conn.status = 200
      /\ b.request = conn.request
  BY <1>1, BuiltOK
<1>4. /\ o \in Seq(Response) /\ o # <<>> /\ AllSent(o, Len(o) - 1)
      /\ o[Len(o)].left = b.responseLeft
      /\ o[Len(o)].owed = IF b.status = 200 /\ b.request.method = "GET"
                            THEN b.sendContentSize ELSE 0
  BY <1>1, OutBuiltOK
<1> DEFINE w == Wrote(b, n)
           l == b.responseLeft - n
<1>5. /\ ConnOK(w) /\ w.status = b.status /\ w.request = b.request
      /\ w.sendContentSize = b.sendContentSize /\ w.responseLeft = l
      /\ w.sentResponseHeaders = (b.sentResponseHeaders \/ b.responseLeft = n)
  BY <1>3, WroteOK
<1>6. /\ IF conn.status = 200 /\ conn.request.method = "GET"
           THEN conn' = w ELSE conn' \in Finish(w, disk)
      /\ out' = [o EXCEPT ![Len(o)].left = l]
  BY <1>2, <1>4
<1> HIDE DEF b, o, w
<1>7. l \in 0..ResponseSize /\ (l = 0 <=> b.responseLeft = n)
  BY <1>3, SizesAssumption
<1> HIDE DEF l
<1>8. /\ out' \in Seq(Response) /\ out' # <<>> /\ Len(out') = Len(o)
      /\ out'[Len(out')].left = l /\ out'[Len(out')].owed = o[Len(o)].owed
      /\ \A i \in 1..(Len(o) - 1) : out'[i] = o[i]
  BY <1>4, <1>6, <1>7, LastLeft
<1>9. AllSent(out', Len(out') - 1)
  BY <1>4, <1>8, AllSentBefore
<1>10. OutTracks(w, out')
  <2>1. l = 0 => w.sentResponseHeaders
    BY <1>5, <1>7
  <2>2. w.status = 200 /\ w.request.method = "GET" /\ w.sentResponseHeaders => l = 0
    BY <1>1, <1>3, <1>5, <1>7, ZenonT(60) DEF BodyTurn
  <2> QED
    BY <1>4, <1>5, <1>8, <2>1, <2>2 DEF OutTracks
<1>11. ConnOK(conn') /\ (conn'.open => OutTracks(conn', out'))
  <2>1. CASE conn.status = 200 /\ conn.request.method = "GET"
    BY <1>5, <1>6, <1>10, <2>1
  <2>2. CASE ~(conn.status = 200 /\ conn.request.method = "GET")
    <3>1. /\ ConnOK(conn') /\ (l # 0 => conn' = w)
          /\ l = 0 /\ conn'.open => conn'.responseLeft = 0 /\ ~conn'.sentResponseHeaders
      BY <1>1, <1>5, <1>6, <2>2, FinishOK
    <3>2. l = 0 => AllSent(out', Len(out'))
      <4>1. out'[Len(out')].owed = 0
        BY <1>3, <1>4, <1>8, <2>2
      <4> QED
        BY <1>8, <1>9, <4>1, AllSentLast DEF Complete
    <3> QED
      BY <1>10, <3>1, <3>2 DEF OutTracks
  <2> QED
    BY <2>1, <2>2
<1>12. /\ UNCHANGED <<script, nextUnit, input, fin, sockErr, gone, disk, tls, pending, server>>
       /\ input \in Seq(SentUnit) /\ pending \in Seq(SentUnit) /\ snap' = {}
       /\ server \in {"up", "killed", "exited", "crashed"}
  BY DEF SendResponse, client, IInv, TypeOK
<1> QED
  BY <1>8, <1>9, <1>11, <1>12, StepInv

LEMMA PieceType ==
  ASSUME ConnOK(conn), disk \in [Paths -> [open : OpenOutcomes, size : Nat]]
  PROVE  Piece \in 0..conn.sendContentSize
<1>1. conn.ioIndex \in Nat /\ conn.sendContentSize \in Nat
  BY DEF ConnOK, Conn
<1> DEFINE size == DirSize(conn.request, disk)
<1>2. size \in Nat
  BY DEF DirSize
<1> HIDE DEF size
<1> QED
  BY <1>1, <1>2, SizesAssumption DEF Piece, Smaller, size

LEMMA SendFileInv ==
  ASSUME IInv, SendFile
  PROVE  IInv'
<1>1. PICK m \in 0..Piece :
       LET sent == [conn EXCEPT !.ioIndex = @ + m, !.sendContentSize = @ - m] IN
       /\ m = 0 => Piece = 0
       /\ out' = IF m = 0 THEN out ELSE [out EXCEPT ![Len(out)].owed = @ - m]
       /\ conn' \in IF sent.sendContentSize = 0 THEN Finish(sent, disk) ELSE {sent}
  BY DEF SendFile
<1>2. /\ ConnOK(conn) /\ disk \in [Paths -> [open : OpenOutcomes, size : Nat]]
      /\ script \in Seq(Texts) /\ conn.open /\ BodyTurn /\ (gone => Piece = 0)
      /\ out \in Seq(Response) /\ AllSent(out, Len(out) - 1)
      /\ (gone => fin) => OutTracks(conn, out)
  BY DEF SendFile, Sending, IInv, TypeOK, NotInterleaved
<1>3. Piece \in 0..conn.sendContentSize
  BY <1>2, PieceType
<1>4. /\ conn \in Conn /\ conn.ioIndex \in Nat /\ conn.sendContentSize \in Nat
      /\ conn.responseLeft \in 0..ResponseSize
  BY <1>2 DEF ConnOK, Conn
<1> DEFINE c == conn.sendContentSize - m
           i == conn.ioIndex + m
           sent == [conn EXCEPT !.ioIndex = i, !.sendContentSize = c]
<1>5. conn' \in IF sent.sendContentSize = 0 THEN Finish(sent, disk) ELSE {sent}
  BY <1>1
<1>6. c \in Nat /\ i \in Nat /\ m \in Nat
  BY <1>3, <1>4
<1>7. out' = IF m = 0 THEN out ELSE [out EXCEPT ![Len(out)].owed = out[Len(out)].owed - m]
  BY <1>1
<1>8. m = 0 => c = conn.sendContentSize
  BY <1>4
<1>9. /\ out' \in Seq(Response) /\ AllSent(out', Len(out') - 1)
      /\ (gone => fin) => /\ out' # <<>> /\ out'[Len(out')].left = 0
                           /\ out'[Len(out')].owed = c /\ conn.responseLeft = 0
  <2>1. (gone => fin) => /\ out # <<>> /\ out[Len(out)].left = 0 /\ conn.responseLeft = 0
                         /\ out[Len(out)].owed = conn.sendContentSize
    BY <1>2 DEF OutTracks, BodyTurn
  <2>2. CASE m = 0
    BY <1>2, <1>7, <1>8, <2>1, <2>2
  <2>3. CASE m # 0
    <3>1. ~gone
      BY <1>2, <1>3, <1>6, <2>3
    <3>2. out' = [out EXCEPT ![Len(out)].owed = c]
      BY <1>7, <2>1, <2>3, <3>1
    <3> HIDE DEF c
    <3>3. /\ out' \in Seq(Response) /\ out' # <<>> /\ Len(out') = Len(out)
          /\ out'[Len(out')].owed = c /\ out'[Len(out')].left = out[Len(out)].left
          /\ \A j \in 1..(Len(out) - 1) : out'[j] = out[j]
      <4>1. out \in Seq(Response) /\ out # <<>> /\ c \in Nat
        BY <1>2, <1>6, <2>1, <3>1
      <4> QED
        BY <3>2, <4>1, LastOwed, SMTT(60)
    <3> QED
      BY <1>2, <2>1, <3>1, <3>3, AllSentBefore
  <2> QED
    BY <2>2, <2>3
<1> HIDE DEF c, i
<1>10. sent \in Conn
  BY <1>4, <1>6 DEF Conn
<1>11. /\ sent.buf = conn.buf /\ sent.iindex = conn.iindex /\ sent.wfd = conn.wfd
       /\ sent.request = conn.request /\ sent.status = conn.status
       /\ sent.hasRequestHeaders = conn.hasRequestHeaders
       /\ sent.responseLeft = conn.responseLeft /\ sent.sendContentSize = c
       /\ sent.sentResponseHeaders = conn.sentResponseHeaders
  BY <1>4, <1>6 DEF Conn
<1> HIDE DEF sent
<1>12. ConnOK(sent) /\ sent.status = 200
  BY <1>2, <1>10, <1>11 DEF ConnOK, BodyBound, Decided, BodyTurn
<1>13. ConnOK(conn') /\ (conn'.open => conn'.status # 0 \/ snap' = {})
  <2>1. CASE sent.sendContentSize = 0
    BY <1>2, <1>5, <1>12, <2>1, FinishOK DEF SendFile
  <2>2. CASE sent.sendContentSize # 0
    BY <1>5, <1>12, <2>2
  <2> QED
    BY <2>1, <2>2
<1>14. ASSUME conn'.open, gone => fin PROVE OutTracks(conn', out')
  <2>1. CASE c = 0
    <3>1. conn' \in Finish(sent, disk) /\ sent.responseLeft = 0
      BY <1>5, <1>9, <1>11, <1>14, <2>1
    <3>2. conn'.responseLeft = 0 /\ ~conn'.sentResponseHeaders
      BY <1>2, <1>12, <1>14, <3>1, FinishOK
    <3>3. AllSent(out', Len(out'))
      BY <1>9, <1>14, <2>1, AllSentLast DEF Complete
    <3> QED
      BY <3>2, <3>3 DEF OutTracks
  <2>2. CASE c # 0
    <3>1. conn' = sent
      BY <1>5, <1>11, <2>2
    <3> QED
      BY <1>2, <1>9, <1>11, <1>14, <3>1 DEF OutTracks, BodyTurn
  <2> QED
    BY <2>1, <2>2
<1>15. /\ UNCHANGED <<script, nextUnit, input, fin, sockErr, gone, disk, tls, pending, server>>
       /\ input \in Seq(SentUnit) /\ pending \in Seq(SentUnit) /\ snap' = {}
       /\ server \in {"up", "killed", "exited", "crashed"}
  BY DEF SendFile, client, IInv, TypeOK
<1> QED
  BY <1>9, <1>13, <1>14, <1>15, StepInv

LEMMA SendEndInv ==
  ASSUME IInv, SendFileVanished \/ SendFails
  PROVE  IInv'
<1>1. /\ UNCHANGED <<script, nextUnit, input, fin, gone, disk, tls, pending, out>>
      /\ conn' = Closed /\ snap' = {} /\ sockErr' \in {sockErr, "none"}
  BY DEF SendFileVanished, SendFails, client
<1>2. server' \in {"up", "killed", "exited", "crashed"}
  <2>1. CASE SendFileVanished
    BY <2>1 DEF SendFileVanished, IInv, TypeOK
  <2>2. CASE SendFails
    <3>1. AfterWriteError \in {"killed", "exited", server}
      BY DEF AfterWriteError
    <3>2. server \in {"up", "killed", "exited", "crashed"} /\ server' = AfterWriteError
      BY <2>2 DEF SendFails, IInv, TypeOK
    <3> QED
      BY <3>1, <3>2
  <2> QED
    BY <2>1, <2>2
<1> QED
  BY <1>1, <1>2, CloseInv

-----------------------------------------------------------------------------

LEMMA StutterInv ==
  ASSUME IInv, UNCHANGED vars
  PROVE  IInv'
  BY DEF vars, client, IInv, TypeOK, ConnOK, Conn, SentUnit, BodyBound, Decided,
         NotInterleaved, OutTracks, AllSent

LEMMA Invariance == Spec => []IInv
<1>1. IInv /\ [Next]_vars => IInv'
  <2> SUFFICES ASSUME IInv, [Next]_vars PROVE IInv'
    OBVIOUS
  <2>1. CASE Environment
    BY <2>1, EnvironmentInv
  <2>2. CASE Select
    BY <2>2, SelectInv
  <2>3. CASE HandleRecv
    BY <2>3, RecvPlainInv, RecvTlsInv, RecvEndInv DEF HandleRecv
  <2>4. CASE HandleSend
    BY <2>4, SendResponseInv, SendFileInv, SendEndInv DEF HandleSend
  <2>5. CASE UNCHANGED vars
    BY <2>5, StutterInv
  <2> QED
    BY <2>1, <2>2, <2>3, <2>4, <2>5 DEF Next, Server
<1> QED
  BY InitInv, <1>1, PTL DEF Spec

\* Whatever the client sends and however the socket delivers it, the state keeps
\* its types; in particular bufindex never exceeds BUF_SIZE, so that no read of
\* liso_handle_recv writes past connection->buf.
THEOREM TypeCorrect == Spec => []TypeOK
<1>1. IInv => TypeOK
  BY DEF IInv
<1> QED
  BY Invariance, <1>1, PTL

\* liso_handle_send starts a response only when the headers and the body of the
\* one before it have been sent, for any cut of the reads and of the writes.
THEOREM ResponsesNotInterleaved == Spec => []NotInterleaved
<1>1. IInv => NotInterleaved
  BY DEF IInv
<1> QED
  BY Invariance, <1>1, PTL

=============================================================================
