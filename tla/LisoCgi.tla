------------------------------ MODULE LisoCgi ------------------------------
(***************************************************************************)
(* liso_cgi with the parts of liso_select_engine that call it: one         *)
(* connection on which a client pipelines requests for the CGI program,    *)
(* the two pipes, and the process that runs flaskr's gateway.              *)
(*                                                                         *)
(* All descriptors block.  The loop is a single thread: where it waits, in *)
(* the write to the program or in the read from it, everyone waits.  What  *)
(* a body, a pipe or a buffer holds is counted in units: <<r, 0>> is the   *)
(* r-th request's header block, <<r, i>> the i-th unit of its body.        *)
(*                                                                         *)
(* A GET for the program has status 404, as there is no such file, and a   *)
(* POST 200; liso_handle_recv looks at what it has read for 200 only.      *)
(***************************************************************************)
EXTENDS FiniteSetsExt, WsgiGateway

CONSTANTS
  Pipelines,  \* what the client may send: sequences of Request
  BufSize,    \* BUF_SIZE, in units
  PipeSize,   \* the capacity of a pipe, in units: a header block and a block of data fit
  Faults      \* what may go wrong: subset of {"fork", "execve", "fin", "reset"}

Request == [method : {"GET", "POST"}, body : Nat, script : Seq(Events)]

VARIABLES
  requests,    \* the requests the client sends
  inbound,     \* the unit the client sends next
  socket,      \* units it has sent and the server has not read
  client,      \* "open", or how it left: "fin" or "reset"
  got,         \* what the client received
  connection,  \* the es_connection
  temp,        \* what select reported and the pass has not come to, see Ready
  server,      \* what the loop is at, or how the process ended
  writeSize,   \* units cgi_write has still to write
  stdin_pipe, stdout_pipe,
  program,     \* the process that runs the gateway, or why there is none
  taken,       \* units the programs of all requests have read from their input
  begun,       \* the requests the server has come to
  lost         \* the first request during which input was dropped, or 0

vars == <<requests, inbound, socket, client, got, connection, temp, server, writeSize,
          stdin_pipe, stdout_pipe, program, taken, begun, lost>>

ASSUME CgiAssumption ==
  /\ BufSize \in Nat \ {0} /\ PipeSize \in Nat \ {0, 1}
  /\ Faults \subseteq {"fork", "execve", "fin", "reset"}
  /\ Pipelines \subseteq Seq({q \in Request : q.method = "GET" => q.body = 0})

\* What the client sends after u: the rest of that body, then the next request's head.
After(u) == IF u[2] < requests[u[1]].body THEN <<u[1], u[2] + 1>> ELSE <<u[1] + 1, 0>>

\* The state of the process: "none" before cgi_init, "unforked" when fork failed, "server"
\* when execve failed and the child went on as a second server, which keeps its ends of
\* the pipes.
Process(state, script) == [NewGateway(script) EXCEPT !.state = state]
NoProgram == Process("none", <<>>)

\* pipes: does the server hold its ends of the pipes?  watched: are they in the sets for
\* select?  astray: does the buffer begin inside a request?
InitConnection ==
  [buf |-> <<>>, request |-> 0, hasRequestHeaders |-> FALSE, postfinish |-> FALSE,
   iindex |-> 0, wfds |-> FALSE, pipes |-> FALSE, watched |-> FALSE, astray |-> FALSE,
   open |-> TRUE]

GetReady_KeepsIindex(c) ==
  [InitConnection EXCEPT !.buf = c.buf, !.request = c.request, !.iindex = c.iindex]
\* get_ready_for_pipeline, with the FD_CLR after it.
GetReady(c) == [InitConnection EXCEPT !.buf = c.buf, !.request = c.request]

Init ==
  /\ requests \in Pipelines
  /\ inbound = <<1, 0>>
  /\ socket = <<>> /\ client = "open" /\ got = <<>>
  /\ connection = InitConnection
  /\ temp = {} /\ server = "select" /\ writeSize = 0
  /\ stdin_pipe = <<>> /\ stdout_pipe = <<>>
  /\ program = NoProgram
  /\ taken = <<>> /\ begun = {} /\ lost = 0

Now   == requests[connection.request]
Up    == server \notin {"killed", "crashed", "exited"}
Space == BufSize - Len(connection.buf)
Exited  == program.state \in {"exited", "raised"}
Pipes   == <<stdin_pipe, stdout_pipe, program, taken>>
History == <<begun, lost>>

----------------------------------------------------------------------------
(* The client. *)

ClientSend ==
  /\ client = "open" /\ inbound[1] <= Len(requests)
  /\ socket' = Append(socket, inbound) /\ inbound' = After(inbound)
  /\ UNCHANGED <<requests, client, got, connection, temp, server, writeSize, Pipes, History>>

\* It shuts down its side, or closes all with a reset.
ClientLeaves(how) ==
  /\ how \in Faults \ {client} /\ client # "reset"
  /\ client' = how
  /\ UNCHANGED <<requests, inbound, socket, got, connection, temp, server, writeSize, Pipes,
                 History>>

----------------------------------------------------------------------------
(* The loop. *)

Serving == connection.open /\ ~connection.astray

\* What select would report: the connection for reading, for writing, and stdin_pipe[1],
\* which is readable once the reader is gone.
Ready == {f \in {"recv", "send", "pipe"} :
            \/ f = "recv" /\ Serving /\ (socket # <<>> \/ client # "open")
            \/ f = "send" /\ Serving /\ connection.wfds
            \/ f = "pipe" /\ connection.watched /\ Exited}

Select ==
  /\ server = "select" /\ temp = {} /\ Ready # {}
  /\ connection.watched => connection.pipes
  /\ temp' = Ready
  /\ UNCHANGED <<requests, inbound, socket, client, got, connection, server, writeSize, Pipes,
                 History>>

\* select fails with EBADF when the pipes are closed and still watched: exit(4).
SelectFails ==
  /\ server = "select" /\ temp = {}
  /\ connection.watched /\ ~connection.pipes
  /\ server' = "exited"
  /\ UNCHANGED <<requests, inbound, socket, client, got, connection, temp, writeSize, Pipes,
                 History>>

\* While a GET is in progress its status is neither 0 nor 200.
Ignoring == connection.hasRequestHeaders /\ Now.method = "GET"

\* liso_handle_recv reads what has come, up to the space left: on to process_buffer with it,
\* or it stays in engine.buf, which is cleared.
RecvData ==
  /\ server = "select" /\ "recv" \in temp
  /\ socket # <<>> /\ Space > 0
  /\ \E n \in 1..Min({Space, Len(socket)}) :
       /\ socket' = SubSeq(socket, n + 1, Len(socket))
       /\ IF Ignoring
            THEN /\ lost' = IF lost = 0 THEN connection.request ELSE lost
                 /\ UNCHANGED <<connection, server>>
            ELSE /\ connection' = [connection EXCEPT !.buf = @ \o SubSeq(socket, 1, n)]
                 /\ server' = "process"
                 /\ UNCHANGED lost
  /\ temp' = temp \ {"recv"}
  /\ UNCHANGED <<requests, inbound, client, got, writeSize, Pipes, begun>>

\* It reads the end or the reset, and goes on to liso_close_and_cleanup, which leaves the
\* pipes open.  Without space recv is given length 0 and returns 0, which is taken for
\* the end.
RecvEnd ==
  /\ server = "select" /\ "recv" \in temp
  /\ socket = <<>> \/ Space = 0
  /\ IF Ignoring
       THEN temp' = temp \ {"recv"} /\ UNCHANGED connection
       ELSE /\ temp' = temp \ {"recv", "send"}
            /\ connection' = [connection EXCEPT !.open = FALSE, !.wfds = FALSE, !.watched = FALSE]
  /\ UNCHANGED <<requests, inbound, socket, client, got, server, writeSize, Pipes, History>>

\* liso_handle_recv on stdin_pipe[1], which comes after the connection: no connection
\* has had this descriptor, its slot has no request, and the status is read through NULL.
RecvPipe ==
  /\ server = "select" /\ temp = {"pipe"}
  /\ server' = "crashed"
  /\ UNCHANGED <<requests, inbound, socket, client, got, connection, temp, writeSize, Pipes,
                 History>>

\* cgi_init: the pipes and the process; nobody looks at what it returns.
CgiInit(r) ==
  /\ stdin_pipe' = <<>> /\ stdout_pipe' = <<>>
  /\ program' \in {Process("running", requests[r].script)}
                    \union (IF "fork" \in Faults THEN {Process("unforked", <<>>)} ELSE {})
                    \union (IF "execve" \in Faults THEN {Process("server", <<>>)} ELSE {})

\* process_buffer with look_buffer_for_request for a new request.
NewRequest ==
  /\ server = "process" /\ ~connection.hasRequestHeaders
  /\ Head(connection.buf)[2] = 0
  /\ LET r == Head(connection.buf)[1]
     IN /\ CgiInit(r)
        /\ connection' = [connection EXCEPT !.hasRequestHeaders = TRUE, !.buf = Tail(@),
                                            !.request = r, !.wfds = requests[r].method = "GET",
                                            !.pipes = TRUE,
                                            !.watched = program'.state # "unforked"]
        /\ begun' = begun \cup {r}
  /\ server' = "post"
  /\ UNCHANGED <<requests, inbound, socket, client, got, temp, writeSize, taken, lost>>

\* What begins inside a request, because its head was dropped, is no request: it stays in the
\* buffer and is answered with 400 again and again.  (That a head further on in the
\* buffer would be found is not modelled.)
GoAstray ==
  /\ server = "process" /\ ~connection.hasRequestHeaders
  /\ Head(connection.buf)[2] # 0
  /\ connection' = [connection EXCEPT !.astray = TRUE]
  /\ server' = "select"
  /\ UNCHANGED <<requests, inbound, socket, client, got, temp, writeSize, Pipes, History>>

\* process_buffer for a request that has begun.
MoreInput ==
  /\ server = "process" /\ connection.hasRequestHeaders
  /\ IF Now.method = "POST"
       THEN server' = "post" /\ UNCHANGED connection
       ELSE server' = "select" /\ connection' = [connection EXCEPT !.wfds = TRUE]
  /\ UNCHANGED <<requests, inbound, socket, client, got, temp, writeSize, Pipes, History>>

BodyShare_Rest(c, body) == body - c.iindex
BodyShare_All(c, body) == Len(c.buf)
\* How much of the buffer is the body of this request.
BodyShare(c, body) == Min({body - c.iindex, Len(c.buf)})

\* post_recv_phase up to cgi_write.
PostRecv ==
  /\ server = "post"
  /\ IF connection.postfinish THEN server' = "select" /\ UNCHANGED writeSize
     ELSE server' = "write" /\ writeSize' = BodyShare(connection, Now.body)
  /\ UNCHANGED <<requests, inbound, socket, client, got, connection, temp, Pipes, History>>

\* Does anyone hold the end of the pipe the program reads from?
HasReader == program.state \in {"running", "unforked", "server"}

\* write inside cgi_write: unit by unit as the pipe has room; SIGPIPE, which is not handled,
\* once the program has exited.
CgiWrite ==
  /\ server = "write" /\ writeSize > 0
  /\ \/ /\ HasReader /\ Len(stdin_pipe) < PipeSize
        /\ stdin_pipe' = Append(stdin_pipe, Head(connection.buf))
        /\ connection' = [connection EXCEPT !.buf = Tail(@), !.iindex = @ + 1]
        /\ writeSize' = writeSize - 1
        /\ UNCHANGED server
     \/ /\ ~HasReader
        /\ server' = "killed"
        /\ UNCHANGED <<stdin_pipe, connection, writeSize>>
  /\ UNCHANGED <<requests, inbound, socket, client, got, temp, stdout_pipe, program, taken,
                 History>>

PostFinish_Early ==
  /\ server = "write" /\ writeSize = 0
  /\ connection' = [connection EXCEPT !.postfinish = TRUE, !.wfds = TRUE]
  /\ server' = "select"
  /\ UNCHANGED <<requests, inbound, socket, client, got, temp, writeSize, Pipes, History>>

\* The rest of post_recv_phase.
PostFinish ==
  /\ server = "write" /\ writeSize = 0
  /\ connection' = IF connection.iindex = Now.body
                     THEN [connection EXCEPT !.postfinish = TRUE, !.wfds = TRUE]
                     ELSE connection
  /\ server' = "select"
  /\ UNCHANGED <<requests, inbound, socket, client, got, temp, writeSize, Pipes, History>>

\* liso_handle_send calls cgi_send_response.
Send ==
  /\ server = "select" /\ "recv" \notin temp /\ "send" \in temp
  /\ server' = "read" /\ temp' = temp \ {"send"}
  /\ UNCHANGED <<requests, inbound, socket, client, got, connection, writeSize, Pipes, History>>

EndOfOutput_Empty == stdout_pipe = <<>>
\* The end of the program's output is seen once every holder of the other end is gone.
EndOfOutput == stdout_pipe = <<>> /\ Exited

\* read inside cgi_read returned n units (0: the end), and they are sent.  A client that
\* has reset makes send fail; the pipes are closed then, and stay in the sets.  A blocking
\* send with no signal handler is never short while the client is there, so nothing is left
\* over in response.
CgiSendResponse ==
  /\ server = "read"
  /\ stdout_pipe # <<>> \/ EndOfOutput
  /\ \E n \in (IF stdout_pipe = <<>> THEN {0} ELSE 1..Len(stdout_pipe)) :
       /\ stdout_pipe' = SubSeq(stdout_pipe, n + 1, Len(stdout_pipe))
       /\ IF client = "reset"
            THEN /\ connection' = [connection EXCEPT !.open = FALSE, !.wfds = FALSE,
                                                         !.pipes = FALSE]
                 /\ server' = "select"
                 /\ UNCHANGED <<got, program>>
          ELSE /\ server' = IF connection.buf # <<>> THEN "process" ELSE "select"
               /\ got' = got \o SubSeq(stdout_pipe, 1, n)
               /\ IF n > 0 THEN UNCHANGED <<connection, program>>
                  ELSE connection' = GetReady(connection) /\ program' = NoProgram
  /\ UNCHANGED <<requests, inbound, socket, client, temp, writeSize, stdin_pipe, taken, History>>

----------------------------------------------------------------------------
(* The program. *)

Put(r, out) == [i \in DOMAIN out |-> <<r, out[i]>>]
AtRead == program.script # <<>> /\ Head(program.script) = "read"
Running == Up /\ program.state = "running"

\* wsgi.input.read: waits for input as long as it has not had CONTENT_LENGTH of it.
ProgramReads ==
  /\ Running /\ AtRead
  /\ \/ /\ stdin_pipe # <<>>
        /\ taken' = Append(taken, [by |-> connection.request, unit |-> Head(stdin_pipe)])
        /\ stdin_pipe' = Tail(stdin_pipe)
     \/ stdin_pipe = <<>> /\ ~connection.pipes /\ UNCHANGED <<taken, stdin_pipe>>
  /\ program' = [program EXCEPT !.script = Tail(@), !.put = <<>>]
  /\ UNCHANGED <<requests, inbound, socket, client, got, connection, temp, server, writeSize,
                 stdout_pipe, History>>

\* Any other step, once the pipe has room for what it puts out; SIGPIPE ends it when the
\* server has closed its end.
ProgramSteps ==
  /\ Running /\ ~AtRead
  /\ LET g == run_with_cgi(program)
     IN \/ /\ connection.pipes \/ g.put = <<>>
           /\ Len(stdout_pipe) + Len(g.put) <= PipeSize
           /\ program' = g
           /\ stdout_pipe' = stdout_pipe \o Put(connection.request, g.put)
        \/ /\ ~connection.pipes /\ g.put # <<>>
           /\ program' = [program EXCEPT !.state = "exited"]
           /\ UNCHANGED stdout_pipe
  /\ UNCHANGED <<requests, inbound, socket, client, got, connection, temp, server, writeSize,
                 stdin_pipe, taken, History>>

ServerStep == \/ Select \/ SelectFails \/ RecvData \/ RecvEnd \/ RecvPipe
              \/ NewRequest \/ GoAstray \/ MoreInput
              \/ PostRecv \/ CgiWrite \/ PostFinish \/ Send \/ CgiSendResponse
ProgramStep == ProgramReads \/ ProgramSteps
Next == ClientSend \/ (\E how \in {"fin", "reset"} : ClientLeaves(how)) \/ ServerStep \/ ProgramStep

\* The loop, the program's process and a client that has begun go on.
Spec == Init /\ [][Next]_vars
             /\ WF_vars(ServerStep) /\ WF_vars(ProgramStep) /\ WF_vars(ClientSend)

----------------------------------------------------------------------------
(* Properties. *)

\* The types, and what writeSize counts down from is in the buffer.
TypeOK ==
  /\ requests \in Pipelines
  /\ server \in {"select", "process", "post", "write", "read", "killed", "crashed", "exited"}
  /\ client \in {"open", "fin", "reset"}
  /\ temp \subseteq {"recv", "send", "pipe"}
  /\ connection.request \in 0..Len(requests)
  /\ Len(connection.buf) <= BufSize
  /\ Len(stdin_pipe) <= PipeSize /\ Len(stdout_pipe) <= PipeSize
  /\ program.state \in {"none", "unforked", "server", "running", "raised", "exited"}
  /\ (server = "write" => writeSize \in 0..Len(connection.buf))

\* post_recv_phase 486-529 with cgi_write: however reads and writes cut the pipeline, a
\* program reads its own request's body, from its first unit on, and never a part of the
\* next request or of the last one; up to the end of the first GET during which
\* liso_handle_recv drops what it reads.
OwnInput ==
  \A k \in DOMAIN taken : lost = 0 \/ taken[k].by <= lost =>
    /\ taken[k].unit[1] = taken[k].by
    /\ taken[k].unit[2] = Cardinality({j \in 1..k : taken[j].by = taken[k].by})

\* How many blocks of request r's answer the client has got, up to the k-th it got at all.
Blocks(r, k) == Cardinality({j \in 1..k : got[j][1] = r})
Complete(r)  == Blocks(r, Len(got)) = Len(Output(requests[r].script))

\* cgi_send_response 286-360 with liso_handle_send 386-410: the client receives what the
\* programs wrote, in the order of its requests, nothing twice and nothing left out; the
\* server turns to another request only when all of the last one's output was sent, and it
\* passes over a request only if input was dropped before.
OutputIntact ==
  /\ \A k \in DOMAIN got :
       /\ got[k][2] = Output(requests[got[k][1]].script)[Blocks(got[k][1], k)]
       /\ \A j \in 1..(k - 1) : got[j][1] <= got[k][1]
  /\ \A r \in 1..connection.request :
       /\ r \in begun \/ (lost # 0 /\ lost < r)
       /\ r \in begun /\ (r < connection.request \/ ~connection.hasRequestHeaders) => Complete(r)

\* run_with_cgi 140-181: a program that exits has put out the headers exactly once, before
\* any data; one that raises has at least not put out data without them; and a result that
\* was returned has been closed in either case.
WsgiKept ==
  /\ client # "reset" =>
       LET out == got \o stdout_pipe
       IN \A i \in DOMAIN out :
            (out[i][2] = "head") <=> (\A j \in 1..(i - 1) : out[j][1] # out[i][1])
  /\ program.state = "exited" /\ connection.pipes => program.headers_sent
  /\ Exited /\ connection.pipes => (program.result => program.closed)

\* A program that reads all of the body it is sent, no more, and puts out nothing before
\* it has; and that exists.
Careful(q) ==
  /\ q.body <= Len(q.script)
  /\ \A i \in DOMAIN q.script : (q.script[i] = "read") <=> (i <= q.body)
NotStarted == program.state \in {"unforked", "server"}

ProgramWaits ==
  /\ program.state = "running"
  /\ IF AtRead
       THEN stdin_pipe = <<>>
       ELSE Len(stdout_pipe) + Len(run_with_cgi(program).put) > PipeSize
ServerWaits ==
  \/ server = "write" /\ writeSize > 0 /\ HasReader /\ Len(stdin_pipe) = PipeSize
  \/ server = "read" /\ stdout_pipe = <<>> /\ ~EndOfOutput

\* cgi_write and cgi_read block the only thread.  The loop and the program never wait for
\* each other, and writing never kills the server, as long as the program is careful: both
\* take a program that writes or leaves before it has read its input, one that waits for
\* more input than there is, or one that was never started.
OnlyCarelessPrograms ==
  (ServerWaits /\ (ProgramWaits \/ NotStarted)) \/ server = "killed"
    => ~Careful(Now) \/ NotStarted

\* With the loop, the programs and the client going on, every request of a pipeline for
\* careful programs is answered, unless the connection is closed, input was dropped, or
\* select was called after a program's end and reported its pipe.
Answered ==
  (\A r \in DOMAIN requests : Careful(requests[r])) ~>
    \/ \A r \in DOMAIN requests : Complete(r)
    \/ ~connection.open \/ lost # 0 \/ server = "crashed" \/ NotStarted
=============================================================================
