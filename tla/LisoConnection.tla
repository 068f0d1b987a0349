--------------------------- MODULE LisoConnection ---------------------------
(***************************************************************************)
(* One connection of the Liso server: es_connection, and the handlers of   *)
(* liso_select_engine.c that read requests from it and write responses to  *)
(* it, for requests that are not sent to the CGI program.                  *)
(*                                                                         *)
(* Bytes are abstracted to units.  The client sends a script of requests;  *)
(* request k is the units <<head, tail, body, ..., body>>: the header      *)
(* block cut at an arbitrary place, the empty line that ends it being in   *)
(* the tail, and Content-Length units of body.  A unit is [k, part], with  *)
(* part 0 for the head, 1 for the tail, 2.. for the body.  The socket      *)
(* delivers the units in order; how many a read returns is arbitrary.      *)
(***************************************************************************)
EXTENDS HttpParser, Integers, Sequences

CONSTANTS
  Scripts,       \* what the client may send: sequences of header blocks
  Paths,         \* the URIs that are asked for
  Disks,         \* possible initial contents of the document tree
  TlsChoices,    \* whether the connection may come from sock, ssl_sock
  PeerFaults,    \* subset of {"fin", "reset", "timeout"}
  DiskFaults,    \* subset of {"remove", "truncate"}
  BufSize,       \* BUF_SIZE, in units of the request stream
  IoSize,        \* BUF_SIZE, in units of file contents
  ResponseSize,  \* units of a response's header block
  MaxInFlight,   \* bound: units sent and not yet read
  MaxRecord,     \* bound: units in a TLS record
  MaxResponses   \* bound: responses recorded

Texts == [method : MethodTokens, path : Paths \cup {""}, longUri : BOOLEAN,
          version : VersionTokens, headersOk : BOOLEAN,
          lenHeader : {"absent", "number", "text"}, len : Nat, close : BOOLEAN]

Errnos == {"ECONNRESET", "EPIPE", "ETIMEDOUT"}

ASSUME SizesAssumption ==
  /\ BufSize \in Nat \ {0}
  /\ IoSize \in Nat \ {0}
  /\ ResponseSize \in Nat \ {0}
  /\ MaxInFlight \in Nat
  /\ MaxRecord \in Nat
  /\ MaxResponses \in Nat
ASSUME InputsAssumption ==
  /\ Scripts \subseteq Seq(Texts)
  /\ Disks \subseteq [Paths -> [open : OpenOutcomes, size : Nat]]
  /\ TlsChoices \subseteq BOOLEAN
  /\ PeerFaults \subseteq {"fin", "reset", "timeout"}
  /\ DiskFaults \subseteq {"remove", "truncate"}

VARIABLES
  script,    \* the requests this client sends
  nextUnit,  \* the unit it sends next
  input,     \* units sent, still in the server's socket
  fin,       \* the client has shut down its side
  sockErr,   \* error the socket reports to the next call, or "none"
  gone,      \* the connection is dead: after sockErr, reads give 0, writes EPIPE
  disk,      \* the document tree
  tls,       \* connection->context # NULL
  pending,   \* units decrypted by SSL and not yet asked for
  conn,      \* the es_connection, and i's membership of engine.wfds
  snap,      \* what temp_rfds and temp_wfds still hold of i in this pass
  server,    \* "up", or how the process ended
  out        \* the responses the client has been sent (history)

client == <<script, nextUnit, input, fin, sockErr, gone>>
vars   == <<client, disk, tls, pending, conn, snap, server, out>>

-----------------------------------------------------------------------------
\* The request stream.

Smaller(a, b) == IF a <= b THEN a ELSE b

Unit     == [k : Nat \ {0}, part : Nat]
SentUnit == [k : 1..Len(script), part : Nat]

LastPart(k) == 1 + ContentLength(script[k])

NextUnit(u) == IF u.part < LastPart(u.k)
                 THEN [u EXCEPT !.part = @ + 1]
                 ELSE [k |-> u.k + 1, part |-> 0]

\* Position of the unit that holds the first empty line, 0 when there is none.
IsHeaderEnd(buf, p) == buf[p].part = 1 /\ \A q \in 1..(p - 1) : buf[q].part # 1

HeaderEnd(buf) ==
  IF \E p \in 1..Len(buf) : IsHeaderEnd(buf, p)
    THEN CHOOSE p \in 1..Len(buf) : IsHeaderEnd(buf, p)
    ELSE 0

\* The text in front of the empty line is one request, and all of it.
Framed(buf) == HeaderEnd(buf) = 2 /\ buf[1] = [k |-> buf[2].k, part |-> 0]

-----------------------------------------------------------------------------
\* es_connection.

NoText(v) == [method |-> "", path |-> "", longUri |-> FALSE, version |-> v,
              headersOk |-> TRUE, lenHeader |-> "absent", len |-> 0, close |-> FALSE]

\* Bytes that are not a request: the first token is no method, whether the
\* response ends the connection depends on the bytes.
Garbled(cl) == [NoText("") EXCEPT !.method = "garbled", !.close = cl]

Fresh(v) == [open |-> TRUE, wfd |-> FALSE, buf |-> <<>>,
             hasRequestHeaders |-> FALSE, sentResponseHeaders |-> FALSE,
             iindex |-> -1, postfinish |-> FALSE, ioIndex |-> 0,
             sendContentSize |-> 0, responseLeft |-> 0,
             status |-> 0, request |-> NoText(v), k |-> 0]

\* liso_close_and_cleanup.
Closed == [Fresh("") EXCEPT !.open = FALSE]

\* Faulty variants of this and other definitions, named "..._" and what they get
\* wrong, are what the properties below are tested against.
GetReady_LosesBuffer(c)  == [Fresh("") EXCEPT !.wfd = c.wfd]
GetReady_KeepsRequest(c) == [Fresh("") EXCEPT !.buf = c.buf, !.wfd = c.wfd,
                                              !.request = c.request]
\* get_ready_for_pipeline: everything but the buffer starts again.
GetReady(c) == [Fresh("") EXCEPT !.buf = c.buf, !.wfd = c.wfd]

DirOutcome(t, d) == IF t.path \in Paths THEN d[t.path].open ELSE "ENOENT"
DirSize(t, d)    == IF t.path \in Paths THEN d[t.path].size ELSE 0

\* A parsed block is written over what the request and its table of headers
\* hold: a field the block lacks keeps its value.
ParsedInto(old, t) ==
  [t EXCEPT !.method    = StoredMethod(@),
            !.version   = IF @ = "" /\ t.method # "" THEN old.version ELSE @,
            !.close     = @ \/ old.close,
            !.lenHeader = IF @ = "absent" THEN old.lenHeader ELSE @,
            !.len       = IF t.lenHeader = "absent" THEN old.len ELSE @]

Determine(c, d) ==
  [c EXCEPT !.status = DetermineStatus(@, c.request, c.request.method,
                                       DirOutcome(c.request, d))]

\* What parse_http makes of the front of the buffer.
Parsed(buf) == IF Framed(buf) THEN {script[buf[1].k]}
                              ELSE {Garbled(cl) : cl \in BOOLEAN}

\* look_buffer_for_request.  Without an empty line the answer is 400, even when
\* the buffer is full: the 500 set for that case is overwritten.
LookBuffer(c, d) ==
  LET seen == [c EXCEPT !.k = c.buf[1].k] IN
  IF HeaderEnd(c.buf) = 0
    THEN {[seen EXCEPT !.status = 400, !.wfd = TRUE]}
    ELSE {Determine([seen EXCEPT
            !.status = ParseHttp(t, @),
            !.request = ParsedInto(@, t),
            !.hasRequestHeaders = TRUE,
            !.buf = SubSeq(@, HeaderEnd(@) + 1, Len(@))], d) : t \in Parsed(c.buf)}

TakeBody_ForgetsIindex(c) ==
  LET at    == IF c.iindex < 0 THEN 0 ELSE c.iindex
      taken == Smaller(ContentLength(c.request), Len(c.buf))
  IN [c EXCEPT !.iindex = at + taken, !.buf = SubSeq(@, taken + 1, Len(@))]

\* The body units at the front of the buffer, as far as Content-Length goes.
TakeBody(c) ==
  LET at    == IF c.iindex < 0 THEN 0 ELSE c.iindex
      taken == Smaller(ContentLength(c.request) - at, Len(c.buf))
  IN [c EXCEPT !.iindex = at + taken, !.buf = SubSeq(@, taken + 1, Len(@))]

PostRecv_ForgetsWatch(c) ==
  IF c.postfinish THEN c
  ELSE IF c.status # 200 THEN [c EXCEPT !.wfd = TRUE]
  ELSE LET took == TakeBody(c)
       IN IF took.iindex = ContentLength(c.request)
            THEN [took EXCEPT !.postfinish = TRUE, !.iindex = -1] ELSE took

\* post_recv_phase: the response is due when the body is complete.
PostRecv(c) ==
  IF c.postfinish THEN c
  ELSE IF c.status # 200 THEN [c EXCEPT !.wfd = TRUE]
  ELSE LET took == TakeBody(c)
       IN IF took.iindex = ContentLength(c.request)
            THEN [took EXCEPT !.postfinish = TRUE, !.iindex = -1, !.wfd = TRUE]
            ELSE took

WatchIfError(c) == IF c.status \notin {0, 200} THEN [c EXCEPT !.wfd = TRUE] ELSE c

ProcessBuffer(c, d) ==
  IF ~c.hasRequestHeaders
    THEN {PostRecv(WatchIfError(l)) : l \in LookBuffer(c, d)}
  ELSE IF c.request.method = "POST" THEN {PostRecv(c)}
  ELSE {[c EXCEPT !.wfd = TRUE]}

ClosesAfter(r) == r.version = "HTTP/1.0" \/ r.close

Finish_Early(c, d) ==
  IF ClosesAfter(c.request) THEN {Closed}
  ELSE LET ready == [GetReady(c) EXCEPT !.wfd = FALSE]
       IN IF ready.buf = <<>> THEN {ready} ELSE ProcessBuffer(ready, d)

Finish_ForgetsBuffer(c, d) ==
  IF c.responseLeft # 0 THEN {c}
  ELSE IF ClosesAfter(c.request) THEN {Closed}
  ELSE {[GetReady(c) EXCEPT !.wfd = FALSE]}

\* non_poisonouse_finish.
Finish(c, d) ==
  IF c.responseLeft # 0 THEN {c}
  ELSE IF ClosesAfter(c.request) THEN {Closed}
  ELSE LET ready == [GetReady(c) EXCEPT !.wfd = FALSE]
       IN IF ready.buf = <<>> THEN {ready} ELSE ProcessBuffer(ready, d)

\* The part of send_response before the write: a new response is built from
\* the status as it is determined now.
Built(c, d) ==
  IF c.responseLeft # 0 THEN c
  ELSE LET now == Determine(c, d)
       IN [now EXCEPT
             !.responseLeft = ResponseSize,
             !.sendContentSize =
                IF now.status = 200 /\ now.request.method \in {"GET", "HEAD"}
                  THEN DirSize(now.request, d) ELSE @]

\* The part after a write of n units.
Wrote(c, n) == [c EXCEPT !.responseLeft = @ - n,
                         !.sentResponseHeaders = @ \/ c.responseLeft = n]

-----------------------------------------------------------------------------
Init ==
  /\ script \in Scripts
  /\ disk \in Disks
  /\ tls \in TlsChoices
  \* init_connection allocates the request without clearing it: the version a
  \* closed connection left there may still be in that memory.
  /\ conn \in {Fresh(v) : v \in {""} \cup Versions}
  /\ nextUnit = [k |-> 1, part |-> 0]
  /\ input = <<>> /\ pending = <<>>
  /\ fin = FALSE /\ sockErr = "none" /\ gone = FALSE
  /\ snap = {}
  /\ server = "up"
  /\ out = <<>>

-----------------------------------------------------------------------------
\* The client and the file system.

ClientSend ==
  /\ nextUnit.k <= Len(script)
  /\ Len(input) < MaxInFlight
  /\ ~fin /\ ~gone
  /\ input' = Append(input, nextUnit)
  /\ nextUnit' = NextUnit(nextUnit)
  /\ UNCHANGED <<script, fin, sockErr, gone, disk, tls, pending, conn, snap, server, out>>

ClientFinish ==
  /\ "fin" \in PeerFaults
  /\ ~fin /\ ~gone
  /\ fin' = TRUE
  /\ UNCHANGED <<script, nextUnit, input, sockErr, gone, disk, tls, pending, conn, snap,
                 server, out>>

\* What the socket reports after a reset by the client, which is another error
\* when the client had shut down before, or after the kernel gave up on it.
Reported(fault) == IF fault = "timeout" THEN "ETIMEDOUT"
                   ELSE IF fin THEN "EPIPE" ELSE "ECONNRESET"

ClientFails ==
  /\ ~gone
  /\ gone' = TRUE
  /\ sockErr' \in {Reported(f) : f \in PeerFaults \ {"fin"}}
  /\ UNCHANGED <<script, nextUnit, input, fin, disk, tls, pending, conn, snap, server, out>>

RemoveFile ==
  /\ "remove" \in DiskFaults
  /\ \E p \in Paths : /\ disk[p].open = "ok"
                      /\ disk' = [disk EXCEPT ![p].open = "ENOENT"]
  /\ UNCHANGED <<client, tls, pending, conn, snap, server, out>>

TruncateFile ==
  /\ "truncate" \in DiskFaults
  /\ \E p \in Paths : /\ disk[p].open = "ok"
                      /\ \E s \in 0..(disk[p].size - 1) :
                           disk' = [disk EXCEPT ![p].size = s]
  /\ UNCHANGED <<client, tls, pending, conn, snap, server, out>>

Environment == ClientSend \/ ClientFinish \/ ClientFails \/ RemoveFile \/ TruncateFile

-----------------------------------------------------------------------------
\* The event loop, as far as this descriptor is concerned: select copies the
\* sets, then the pass handles the read, then the write.

Readable == input # <<>> \/ fin \/ gone

Select ==
  /\ server = "up" /\ conn.open /\ snap = {}
  /\ snap' = (IF Readable THEN {"r"} ELSE {}) \cup (IF conn.wfd THEN {"w"} ELSE {})
  /\ snap' # {}
  /\ UNCHANGED <<client, disk, tls, pending, conn, server, out>>

Receiving == server = "up" /\ conn.open /\ "r" \in snap
Serving   == conn.status \in {0, 200}
Space_IgnoresBuffered == BufSize
Space     == BufSize - Len(conn.buf)

\* liso_close_and_cleanup in the handler; a return of -1 skips the write.
CloseInPass == conn' = Closed /\ snap' = {}
StayInPass  == snap' = snap \ {"r"}

\* What the read returns is appended to the buffer and processed, unless a
\* status has already been set: then it is dropped.
Deliver(data) ==
  IF Serving
    THEN conn' \in ProcessBuffer([conn EXCEPT !.buf = @ \o data], disk)
    ELSE conn' = conn

\* recv: any number of the units that have arrived, as far as there is room.
RecvPlain ==
  /\ Receiving /\ ~tls /\ Space > 0
  /\ \E n \in 1..Smaller(Space, Len(input)) :
       /\ Deliver(SubSeq(input, 1, n))
       /\ input' = SubSeq(input, n + 1, Len(input))
  /\ StayInPass
  /\ UNCHANGED <<script, nextUnit, fin, sockErr, gone, disk, tls, pending, server, out>>

\* SSL_read: what is left of the last record, or else a record from the socket;
\* what does not fit stays inside the SSL object.
RecvTls ==
  /\ Receiving /\ tls /\ Space > 0
  /\ \E m \in 0..Smaller(MaxRecord, Len(input)) :
       LET record == IF pending # <<>> THEN pending ELSE SubSeq(input, 1, m)
           n      == Smaller(Space, Len(record))
       IN /\ (m = 0) = (pending # <<>>)
          /\ Deliver(SubSeq(record, 1, n))
          /\ pending' = SubSeq(record, n + 1, Len(record))
          /\ input' = SubSeq(input, m + 1, Len(input))
  /\ StayInPass
  /\ UNCHANGED <<script, nextUnit, fin, sockErr, gone, disk, tls, server, out>>

NothingToRead == input = <<>> /\ pending = <<>>

\* The read returns 0: the end of the stream, or no room in the buffer.  At the
\* end of the stream it does so whatever error the socket has to report.
RecvZero ==
  /\ Receiving
  /\ \/ NothingToRead /\ (fin \/ (gone /\ sockErr = "none"))
     \/ ~NothingToRead /\ Space = 0
  /\ IF Serving THEN CloseInPass ELSE conn' = conn /\ StayInPass
  /\ UNCHANGED <<client, disk, tls, pending, server, out>>

\* The read fails.  Any error ends a TLS connection; on a plain one, an error
\* other than ECONNRESET becomes a 500.
RecvError ==
  /\ Receiving /\ NothingToRead /\ sockErr # "none" /\ ~fin
  /\ sockErr' = "none"
  /\ IF ~Serving
       THEN conn' = conn /\ StayInPass
     ELSE IF tls \/ sockErr = "ECONNRESET"
       THEN CloseInPass
     ELSE conn' = [conn EXCEPT !.status = 500, !.wfd = TRUE] /\ StayInPass
  /\ UNCHANGED <<script, nextUnit, input, fin, gone, disk, tls, pending, server, out>>

HandleRecv == RecvPlain \/ RecvTls \/ RecvZero \/ RecvError

-----------------------------------------------------------------------------
Sending == server = "up" /\ conn.open /\ snap = {"w"}

BodyTurn == /\ conn.status = 200
            /\ conn.request.method = "GET"
            /\ conn.sentResponseHeaders

\* The history: a response starts when it is built; the client gets its parts.
OutBuilt(b) ==
  IF conn.responseLeft # 0 THEN out
  ELSE Append(out, [of     |-> conn.k,
                    status |-> b.status,
                    left   |-> b.responseLeft,
                    owed   |-> IF b.status = 200 /\ b.request.method = "GET"
                                 THEN b.sendContentSize ELSE 0])

\* send_response, and what liso_handle_send does when it has not failed: the
\* headers of a GET are followed by the file, any other response is the end.
SendResponse ==
  /\ Sending /\ ~BodyTurn /\ ~gone
  /\ conn.responseLeft = 0 => Len(out) < MaxResponses
  /\ LET b == Built(conn, disk) IN
     \E n \in 1..b.responseLeft :
       /\ out' = [OutBuilt(b) EXCEPT ![Len(OutBuilt(b))].left = @ - n]
       /\ IF conn.status = 200 /\ conn.request.method = "GET"
            THEN conn' = Wrote(b, n)
            ELSE conn' \in Finish(Wrote(b, n), disk)
  /\ snap' = {}
  /\ UNCHANGED <<client, disk, tls, pending, server>>

\* What the next piece of the file can be: IoSize units, what is owed, what
\* the file still has beyond ioIndex, whichever is least.
Piece ==
  LET size == DirSize(conn.request, disk)
  IN IF size <= conn.ioIndex THEN 0
     ELSE Smaller(Smaller(IoSize, conn.sendContentSize), size - conn.ioIndex)

\* handle_get_io.  sendfile may send less than asked for, SSL_write sends all.
SendFile ==
  /\ Sending /\ BodyTurn
  /\ DirOutcome(conn.request, disk) = "ok"
  /\ gone => Piece = 0
  /\ \E m \in 0..Piece :
       LET sent == [conn EXCEPT !.ioIndex = @ + m, !.sendContentSize = @ - m] IN
       /\ m = 0 => Piece = 0
       /\ tls => m = Piece
       /\ out' = IF m = 0 THEN out ELSE [out EXCEPT ![Len(out)].owed = @ - m]
       /\ conn' \in IF sent.sendContentSize = 0 THEN Finish(sent, disk) ELSE {sent}
  /\ snap' = {}
  /\ UNCHANGED <<client, disk, tls, pending, server>>

\* The file cannot be opened any more: sendfile fails on descriptor -1 and the
\* connection is closed; on TLS, fclose(NULL) ends the process.
SendFileVanished ==
  /\ Sending /\ BodyTurn
  /\ DirOutcome(conn.request, disk) # "ok"
  /\ conn' = Closed
  /\ server' = IF tls THEN "crashed" ELSE server
  /\ snap' = {}
  /\ UNCHANGED <<client, disk, tls, pending, out>>

\* The first write to a dead connection gets the error of the socket, a later
\* one EPIPE, and with EPIPE a SIGPIPE.
WriteError == IF sockErr = "none" THEN "EPIPE" ELSE sockErr

AfterWriteError_WithoutNosignal == IF WriteError = "EPIPE" THEN "killed" ELSE server

\* What it does to the process.  Only send passes MSG_NOSIGNAL: the signal from
\* SSL_write or sendfile ends the process.  An errno send_response does not
\* expect makes it exit.
AfterWriteError ==
  IF WriteError = "EPIPE" /\ (tls \/ BodyTurn) THEN "killed"
  ELSE IF WriteError = "ETIMEDOUT" /\ ~BodyTurn THEN "exited"
  ELSE server

SendFails ==
  /\ Sending /\ gone
  /\ BodyTurn => DirOutcome(conn.request, disk) = "ok" /\ Piece > 0
  /\ conn' = Closed
  /\ server' = AfterWriteError
  /\ sockErr' = "none"
  /\ snap' = {}
  /\ UNCHANGED <<script, nextUnit, input, fin, gone, disk, tls, pending, out>>

HandleSend == SendResponse \/ SendFile \/ SendFileVanished \/ SendFails

-----------------------------------------------------------------------------
Server == Select \/ HandleRecv \/ HandleSend
Next   == Environment \/ Server

\* The loop never stops: select is called again after every pass, and the
\* pass reaches every descriptor of the snapshot.
Fairness == WF_vars(Server)

Spec == Init /\ [][Next]_vars /\ Fairness
-----------------------------------------------------------------------------
Conn == [open : BOOLEAN, wfd : BOOLEAN, buf : Seq(SentUnit),
         hasRequestHeaders : BOOLEAN, sentResponseHeaders : BOOLEAN,
         iindex : Nat \cup {-1}, postfinish : BOOLEAN, ioIndex : Nat,
         sendContentSize : Nat, responseLeft : 0..ResponseSize,
         status : Nat, request : Texts, k : Nat]

Response == [of : Nat, status : Nat, left : 0..ResponseSize, owed : Nat]

\* Types of the state, among them the capacity of es_connection.buf: nothing
\* the handlers do brings bufindex above BUF_SIZE (liso_handle_recv asks for
\* BUF_SIZE - bufindex bytes at most).
TypeOK ==
  /\ script \in Seq(Texts)
  /\ nextUnit \in Unit
  /\ input \in Seq(SentUnit)
  /\ fin \in BOOLEAN /\ gone \in BOOLEAN
  /\ sockErr \in Errnos \cup {"none"}
  /\ disk \in [Paths -> [open : OpenOutcomes, size : Nat]]
  /\ tls \in BOOLEAN
  /\ pending \in Seq(SentUnit)
  /\ conn \in Conn /\ Len(conn.buf) <= BufSize
  /\ snap \in SUBSET {"r", "w"}
  /\ server \in {"up", "killed", "exited", "crashed"}
  /\ out \in Seq(Response)

-----------------------------------------------------------------------------
\* A response leaves the framing of the stream known when it is a 200 and the
\* handlers consume the request's body (post_recv_phase runs to the end of the
\* body for a POST only).
Clean(o) == o.status = 200
              /\ (script[o.of].method = "POST" \/ ContentLength(script[o.of]) = 0)

Complete(o) == o.left = 0 /\ o.owed = 0

\* Up to and including the first response that is not clean, the n-th response
\* answers the n-th request: pipelined requests are answered once each, in the
\* order they were sent, however the reads cut them (process_buffer,
\* buffer_shift_forward, get_ready_for_pipeline).
AnswersInOrder ==
  \A n \in 1..Len(out) :
    (\A m \in 1..(n - 1) : Clean(out[m])) => out[n].of = n

\* A response is started only when the one before it has been sent whole, the
\* file behind a GET's headers included (non_poisonouse_finish is reached only
\* with nothing left to send, and no request is parsed before it).
AllSent(o, last) == \A n \in 1..last : Complete(o[n])

NotInterleaved == AllSent(out, Len(out) - 1)

\* Input is never left in the buffer with nobody to process it: a connection
\* that select does not watch for writing has an empty buffer, and has no
\* request or waits for the rest of its body (the last lines of
\* non_poisonouse_finish, and post_recv_phase).
Stranded(c) == c.buf # <<>> \/ (c.hasRequestHeaders /\ c.iindex >= ContentLength(c.request))

NoStrandedInput == conn.open /\ ~conn.wfd => ~Stranded(conn)

\* While a status is not an error, no input is lost, read twice or given to the
\* wrong request.  Expected is the first unit the requests parsed so far have not
\* used; from it on, the buffer, SSL's leftover and the socket hold consecutive
\* units of the stream up to the last one sent (liso_handle_recv appends at
\* bufindex, post_recv_phase and buffer_shift_forward remove from the front).
Expected(c, answers) ==
  IF ~c.hasRequestHeaders THEN [k |-> answers + 1, part |-> 0]
  ELSE IF c.postfinish    THEN [k |-> c.k + 1, part |-> 0]
  ELSE [k |-> c.k, part |-> 2 + c.iindex]

Consecutive(s) == \A p \in 1..(Len(s) - 1) : s[p + 1] = NextUnit(s[p])

\* The stream of a connection whose buffer is followed by rest.
InStep(c, rest, answers) == LET stream == c.buf \o rest
                            IN stream[1] = Expected(c, answers) /\ Consecutive(stream)

\* What has not reached the buffer, up to the unit that is sent next.
Unread == Append(pending \o input, nextUnit)

AllClean(o) == \A n \in 1..Len(o) : Clean(o[n])

StreamIntact ==
  conn.open /\ Serving /\ AllClean(out) => InStep(conn, Unread, Len(out))

\* No header, version or status of a request leaks into the answer to a later
\* one: what the n-th request is told is what it would be told on a connection
\* of its own, or 400 (get_ready_for_pipeline clears what the parser only
\* overwrites in part).  The first request is excepted when its request line
\* has no version: it finds what malloc left there.
OwnStatus ==
  \A n \in 1..Len(out) :
    (\A m \in 1..(n - 1) : Clean(out[m])) /\ (n = 1 => script[1].version # "") =>
      LET t == script[n]
      IN out[n].status \in
           {400, DetermineStatus(ParseHttp(t, 0), t, StoredMethod(t.method),
                                 DirOutcome(t, disk))}

\* The file of the last response is not yet sent to its end.
FileOwed == out # <<>> /\ out[Len(out)].left = 0 /\ out[Len(out)].owed > 0

\* Nothing that happens to a client's connection or to the files it asks for ends
\* the server process, but for three things: the SIGPIPE that SSL_write raises when
\* a TLS client has reset, the one that sendfile raises when a client that had
\* shut down resets in the middle of a file (no file of the server ignores the
\* signal), and fclose(NULL) when the file of a TLS response has gone.
ServerStaysUp ==
  \/ server = "up"
  \/ tls /\ server \in {"killed", "crashed"}
  \/ ~tls /\ server = "killed" /\ fin /\ gone /\ FileOwed

-----------------------------------------------------------------------------
\* The client has sent the whole of request k.
Submitted(k) == k <= Len(script) /\ nextUnit.k > k

Failed      == ~conn.open \/ server # "up" \/ \E n \in 1..Len(out) : ~Clean(out[n])
Answered(k) == Len(out) >= k /\ Complete(out[k])

\* Every request sent in full is answered in full, or the connection is closed,
\* or a response before it was not clean: no request waits for ever for an
\* event that select does not report.
RequestsServed ==
  \A k \in 1..MaxResponses : Submitted(k) ~> (Answered(k) \/ Failed)

-----------------------------------------------------------------------------
\* A connection implements a FIFO server of pipelined requests: a request is
\* answered when a clean response to it is complete; the connection has failed
\* from the first response that is not clean.
CleanPrefix == {n \in 1..Len(out) : \A m \in 1..n : Clean(out[m]) /\ Complete(out[m])}

Mode == IF ~conn.open \/ server # "up" THEN "closed"
        ELSE IF AllClean(out) THEN "serving"
        ELSE "failed"

Pipeline == INSTANCE RequestPipeline WITH
  submitted <- nextUnit.k - 1,
  served    <- [n \in CleanPrefix |-> out[n].of],
  mode      <- Mode

\* Clean responses answer the submitted requests once each and in order, and
\* while the connection neither fails nor closes each one is answered.
ImplementsPipeline == Pipeline!Spec

-----------------------------------------------------------------------------
\* What the documentation of the server says of it.

\* readme.txt, on GET: "reads the request, and parses it after reading the
\* entire request".  No answer before the header block has been sent whole.
AnswersWholeRequests ==
  \A n \in 1..Len(out) :
    out[n].of > 0 => nextUnit.k > out[n].of \/ nextUnit.part > 1

\* readme.txt, on POST: "After writing is complete, the write fd for the
\* specific client is set.  In the next iteration of the loop the response
\* message is sent."  A request sent in full is answered or fails.
SubmittedIsServed == Submitted(1) ~> (Answered(1) \/ Failed)
-----------------------------------------------------------------------------
\* Why TypeOK and NotInterleaved hold: the parts of an inductive invariant.

\* No more of a body is taken than there is, and nothing before the headers.
BodyBound(c) == /\ c.iindex <= ContentLength(c.request)
                /\ ~c.hasRequestHeaders => c.iindex = -1

\* A connection with a request, or with a response due, has a status; only a
\* parsed request gets a 200, and without a status nothing has been sent.
Decided(c) == /\ c.hasRequestHeaders \/ c.wfd => c.status # 0
              /\ c.status = 200 => c.hasRequestHeaders
              /\ c.status = 0 => c.responseLeft = 0 /\ ~c.sentResponseHeaders

ConnOK(c) == c \in Conn /\ Len(c.buf) <= BufSize /\ BodyBound(c) /\ Decided(c)

\* What the client still lacks of the last response.
OutTracks(c, o) ==
  IF c.responseLeft = 0 /\ ~c.sentResponseHeaders
    THEN AllSent(o, Len(o))
    ELSE LET inBody == c.status = 200 /\ c.request.method = "GET"
         IN /\ o # <<>>
            /\ o[Len(o)].left = c.responseLeft
            /\ o[Len(o)].owed = IF inBody THEN c.sendContentSize ELSE 0
            /\ inBody /\ c.sentResponseHeaders => c.responseLeft = 0

IInv == /\ TypeOK
        /\ ConnOK(conn)
        /\ conn.open /\ "w" \in snap => conn.status # 0
        /\ sockErr # "none" => gone
        /\ NotInterleaved
        /\ conn.open /\ (gone => fin) => OutTracks(conn, out)

\* Why AnswersInOrder, StreamIntact and NoStrandedInput hold.

\* A request that is not a 400 is what its header block says, and while its body
\* is on the way a POST is not watched for writing.
RequestTracks(c) ==
  /\ c.status = 0 => \E v \in VersionTokens : c.request = NoText(v)
  /\ c.postfinish => c.wfd /\ c.hasRequestHeaders
  /\ c.sentResponseHeaders /\ c.status = 200 => c.request.method = "GET"
  /\ c.status = 200 =>
       /\ c.k \in 1..Len(script)
       /\ c.request.method = script[c.k].method
       /\ ContentLength(c.request) = ContentLength(script[c.k])
       /\ ~c.postfinish => /\ c.iindex >= 0 /\ c.iindex < ContentLength(c.request)
                           /\ c.request.method = "POST" => ~c.wfd

Started(c) == c.responseLeft # 0 \/ c.sentResponseHeaders

\* The response due is for the request after the last one answered; the one under
\* way is the last of o.
AnswerTracks(c, o) ==
  /\ c.status # 0 /\ ~Started(c) /\ AllClean(o) => c.k = Len(o) + 1
  /\ Started(c) => /\ o # <<>>
                   /\ o[Len(o)].of = c.k
                   /\ o[Len(o)].status = c.status

OrderInv == /\ RequestTracks(conn)
            /\ NoStrandedInput
            /\ conn.open /\ "w" \in snap => conn.wfd
            /\ AnswersInOrder
            /\ ~tls => pending = <<>>
            /\ StreamIntact
            /\ conn.open /\ ~(gone /\ ~Serving) => AnswerTracks(conn, out)
=============================================================================
