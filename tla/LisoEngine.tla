----------------------------- MODULE LisoEngine -----------------------------
(***************************************************************************)
(* liso_select_engine: the select loop over all descriptors, the table of  *)
(* connections that descriptors index, and the two pipes that a request    *)
(* for the CGI program adds to the loop.                                   *)
(*                                                                         *)
(* What is said on one connection is the subject of LisoConnection; here a *)
(* client has one request outstanding, which arrives in one read, and a    *)
(* response is some number of writes.  The kernel gives out the lowest     *)
(* free descriptor.  Descriptors 0..3 are the standard streams and the     *)
(* log.                                                                    *)
(***************************************************************************)
EXTENDS Integers, Sequences, FiniteSets, FiniteSetsExt

CONSTANTS
  Clients,
  MaxConnections,  \* MAX_CONNECTIONS, and the process's limit of descriptors
  Ports,           \* the listeners that clients connect to
  Requests,        \* what a client may ask for, see Request
  Hellos,          \* how a TLS client opens: subset of {"ok", "bad", "silent"}
  AcceptErrors,    \* whether accept may fail for want of memory or system-wide files
  Departures,      \* how a client leaves: subset of {"fin", "reset"}
  MaxSends,        \* bound: writes a static response takes
  MaxChunks        \* bound: chunks of output in the pipe

Sock      == 4
SslSock   == 5
Listeners == {Sock, SslSock}
Fds       == 0..(MaxConnections - 1)

\* ok: determine_status gives 200.  close: "Connection: Close" or HTTP/1.0.
Request   == [uri : {"static", "cgi"}, ok : BOOLEAN, close : BOOLEAN]
NoRequest == [uri |-> "", ok |-> FALSE, close |-> FALSE]

ASSUME EngineAssumption ==
  /\ MaxConnections \in Nat /\ MaxConnections > 7
  /\ Ports \subseteq Listeners
  /\ Requests \subseteq Request
  /\ Hellos \subseteq {"ok", "bad", "silent"} /\ "ok" \in Hellos
  /\ Departures \subseteq {"fin", "reset"}
  /\ AcceptErrors \in BOOLEAN
  /\ MaxSends \in Nat \ {0} /\ MaxChunks \in Nat

VARIABLES
  peer,         \* each client's side of its connection
  backlog,      \* per listener, the clients waiting to be accepted
  child,        \* per connection, the CGI program that serves it
  kernel,       \* what each descriptor of the process stands for
  engine,       \* liso_select_engine without its connections
  connections,  \* engine.connections
  server,       \* "up", or how the process ended
  seen          \* kernel when select returned (history)

vars == <<peer, backlog, child, kernel, engine, connections, server, seen>>

Max2(a, b) == IF a >= b THEN a ELSE b

-----------------------------------------------------------------------------
Away    == [state |-> "away", port |-> Sock, hello |-> "ok", input |-> NoRequest,
            waiting |-> FALSE, end |-> "open"]
NoChild == [state |-> "none", out |-> 0]
Free    == [kind |-> "free"]
Conn(c) == [kind |-> "conn", of |-> c]

OpenFds == {f \in Fds : kernel[f].kind # "free"}
FreeFds == Fds \ OpenFds

\* The n lowest free descriptors, in the order the kernel gives them out.
Lowest(n) == CHOOSE s \in [1..n -> FreeFds] :
               /\ \A a, b \in 1..n : a < b => s[a] < s[b]
               /\ \A f \in FreeFds : f < s[n] => \E a \in 1..n : s[a] = f

Released(fs) == [f \in Fds |-> IF f \in fs THEN Free ELSE kernel[f]]

\* init_connection, with the context liso_handle_recv adds for the TLS port.
InitConnection(tls) ==
  [request |-> "live", context |-> tls, status |-> 0, uri |-> "static",
   close |-> FALSE, left |-> 0, stdin_pipe |-> -1, stdout_pipe |-> -1]

GetReady_KeepsStatus(s) == [InitConnection(s.context) EXCEPT !.status = s.status]
\* get_ready_for_pipeline.
GetReady(s) == InitConnection(s.context)

\* cleanup_connection frees the request and keeps the pointer to it.
Cleaned   == [InitConnection(FALSE) EXCEPT !.request = "freed"]
NeverUsed == [Cleaned EXCEPT !.request = "NULL"]

\* Moving on to the next descriptor of the pass, after the read or altogether.
ReadDone(e, i) == [e EXCEPT !.temp_rfds = @ \ {i}]
AllDone_KeepsWrite(e, i) == ReadDone(e, i)
AllDone(e, i)  == [e EXCEPT !.temp_rfds = @ \ {i}, !.temp_wfds = @ \ {i}]

CloseAndCleanup_KeepsWatch(e, s, i) ==
  [e EXCEPT !.rfds = @ \ {i}, !.nfds = @ - 1]
\* liso_close_and_cleanup, as far as the engine goes: it stops watching the
\* pipes of a CGI request and counts them off, but does not close them.
CloseAndCleanup(e, s, i) ==
  IF s.uri = "cgi"
    THEN [e EXCEPT !.rfds = @ \ {i, s.stdin_pipe}, !.wfds = @ \ {i, s.stdout_pipe},
                   !.nfds = @ - 3]
    ELSE [e EXCEPT !.rfds = @ \ {i}, !.wfds = @ \ {i}, !.nfds = @ - 1]

FinishCgi_ForgetsPipe(e, s, i) ==
  [e EXCEPT !.rfds = @ \ {s.stdin_pipe}, !.wfds = @ \ {s.stdout_pipe, i},
            !.nfds = @ - 1]
FinishCgi_KeepsWatch(e, s, i) ==
  [e EXCEPT !.wfds = @ \ {s.stdout_pipe, i}, !.nfds = @ - 2]
\* The loop after the last of a CGI program's output.
FinishCgi(e, s, i) ==
  [e EXCEPT !.rfds = @ \ {s.stdin_pipe}, !.wfds = @ \ {s.stdout_pipe, i},
            !.nfds = @ - 2]

-----------------------------------------------------------------------------
Init ==
  /\ peer = [c \in Clients |-> Away]
  /\ backlog = [l \in Listeners |-> <<>>]
  /\ child = [f \in Fds |-> NoChild]
  /\ kernel = [f \in Fds |-> IF f < Sock THEN [kind |-> "std"]
                             ELSE IF f \in Listeners THEN [kind |-> "listener"]
                             ELSE Free]
  /\ engine = [rfds |-> Listeners, wfds |-> {}, temp_rfds |-> {}, temp_wfds |-> {},
               nfds |-> 6, fdmax |-> SslSock]
  /\ connections = [f \in Fds |-> NeverUsed]
  /\ server = "up"
  /\ seen = kernel

-----------------------------------------------------------------------------
\* Clients and CGI programs.

Connect(c, l, h) ==
  /\ peer[c].state = "away" /\ kernel[l].kind = "listener"
  /\ l = Sock => h = "ok"
  /\ peer' = [peer EXCEPT ![c].state = "queued", ![c].port = l, ![c].hello = h]
  /\ backlog' = [backlog EXCEPT ![l] = Append(@, c)]
  /\ UNCHANGED <<child, kernel, engine, connections, server, seen>>

Ask(c, r) ==
  /\ peer[c].state # "away" /\ peer[c].hello = "ok" /\ peer[c].end = "open"
  /\ ~peer[c].waiting
  /\ peer' = [peer EXCEPT ![c].input = r, ![c].waiting = TRUE]
  /\ UNCHANGED <<backlog, child, kernel, engine, connections, server, seen>>

OnTls(c) == peer[c].port = SslSock

\* A client that goes away.  Resets of TLS connections are left to LisoConnection.
Leave(c, how) ==
  /\ peer[c].state # "away" /\ peer[c].end = "open"
  /\ how = "reset" => ~OnTls(c)
  /\ peer' = [peer EXCEPT ![c].end = how]
  /\ UNCHANGED <<backlog, child, kernel, engine, connections, server, seen>>

ChildWrites(f) ==
  /\ child[f].state = "running" /\ child[f].out < MaxChunks
  /\ child' = [child EXCEPT ![f].out = @ + 1]
  /\ UNCHANGED <<peer, backlog, kernel, engine, connections, server, seen>>

ChildExits(f) ==
  /\ child[f].state = "running"
  /\ child' = [child EXCEPT ![f].state = "exited"]
  /\ UNCHANGED <<peer, backlog, kernel, engine, connections, server, seen>>

\* Once the server's process has ended nothing of interest happens.
Environment ==
  /\ server = "up"
  /\ \/ \E c \in Clients, l \in Ports, h \in Hellos : Connect(c, l, h)
     \/ \E c \in Clients, r \in Requests : Ask(c, r)
     \/ \E c \in Clients, how \in Departures : Leave(c, how)
     \/ \E f \in Fds : ChildWrites(f) \/ ChildExits(f)

-----------------------------------------------------------------------------
\* select.

Watched == engine.rfds \cup engine.wfds

\* The write end of a pipe whose reader has exited is readable: it has POLLERR.
ReadableFd(f) ==
  CASE kernel[f].kind = "listener" -> backlog[f] # <<>>
    [] kernel[f].kind = "conn"     -> \/ peer[kernel[f].of].input # NoRequest
                                      \/ peer[kernel[f].of].end # "open"
    [] kernel[f].kind = "stdin"    -> child[kernel[f].of].state = "exited"
    [] kernel[f].kind = "stdout"   -> \/ child[kernel[f].of].out > 0
                                      \/ child[kernel[f].of].state = "exited"
    [] OTHER                       -> FALSE

\* The read end of a pipe is never writable.
WritableFd(f) == kernel[f].kind \in {"conn", "stdin"}

InPass == engine.temp_rfds \cup engine.temp_wfds # {}

Select ==
  /\ server = "up" /\ ~InPass
  /\ Watched \cap 0..engine.fdmax \subseteq OpenFds
  /\ LET r == {f \in engine.rfds \cap 0..engine.fdmax : ReadableFd(f)}
         w == {f \in engine.wfds \cap 0..engine.fdmax : WritableFd(f)}
     IN /\ r \cup w # {}
        /\ engine' = [engine EXCEPT !.temp_rfds = r, !.temp_wfds = w]
  /\ seen' = kernel
  /\ UNCHANGED <<peer, backlog, child, kernel, connections, server>>

\* select returns -1 with EBADF when it is given a closed descriptor: exit(4).
SelectFails ==
  /\ server = "up" /\ ~InPass
  /\ ~(Watched \cap 0..engine.fdmax \subseteq OpenFds)
  /\ server' = "exited"
  /\ UNCHANGED <<peer, backlog, child, kernel, engine, connections, seen>>

\* The descriptor the pass has come to, and what it was reported for.
Current == Min(engine.temp_rfds \cup engine.temp_wfds)

Reading(i) == server = "up" /\ InPass /\ i = Current /\ i \in engine.temp_rfds
Writing(i) == server = "up" /\ InPass /\ i = Current /\ i \notin engine.temp_rfds

-----------------------------------------------------------------------------
\* liso_handle_recv on a listener.

Room_OffByOne(e) == e.nfds <= MaxConnections - 1
\* Whether one more connection is let in.
Room(e) == e.nfds < MaxConnections - 1

AcceptFds_CountsMax(e, f) ==
  [e EXCEPT !.rfds = @ \cup {f}, !.nfds = @ + 1, !.fdmax = @ + 1]
AcceptFds_ForgetsMax(e, f) == [e EXCEPT !.rfds = @ \cup {f}, !.nfds = @ + 1]
AcceptFds(e, f) == [e EXCEPT !.rfds = @ \cup {f}, !.nfds = @ + 1, !.fdmax = Max2(@, f)]

\* SSL_accept waits for the client; SSL_wrap closes the socket when it fails.
Handshake(i, c) == i = Sock \/ (peer[c].hello = "ok" /\ peer[c].end = "open")
Refused(i, c)   == i = SslSock /\ (peer[c].hello = "bad" \/ peer[c].end # "open")

Accept(i) ==
  /\ Reading(i) /\ i \in Listeners /\ Room(engine)
  /\ kernel[i].kind = "listener" /\ FreeFds # {} /\ backlog[i] # <<>>
  /\ LET c == Head(backlog[i])
         f == Lowest(1)[1]
     IN /\ \/ /\ Handshake(i, c)
              /\ engine' = ReadDone(AcceptFds(engine, f), i)
              /\ kernel' = [kernel EXCEPT ![f] = Conn(c)]
              /\ peer' = [peer EXCEPT ![c].state = "in"]
           \/ /\ Refused(i, c)
              /\ engine' = AllDone(engine, i)
              /\ kernel' = kernel
              /\ peer' = [peer EXCEPT ![c] = Away]
        /\ connections' = [connections EXCEPT ![f] = InitConnection(i = SslSock)]
        /\ child' = [child EXCEPT ![f] = NoChild]
  /\ backlog' = [backlog EXCEPT ![i] = Tail(@)]
  /\ UNCHANGED <<server, seen>>

\* accept fails, for one because there is no descriptor for the client or no
\* listener behind i any more: both listeners are closed, and stay in rfds.
AcceptFails(i) ==
  /\ Reading(i) /\ i \in Listeners /\ Room(engine)
  /\ kernel[i].kind # "listener" \/ FreeFds = {} \/ AcceptErrors
  /\ kernel' = Released(Listeners)
  /\ engine' = AllDone(engine, i)
  /\ UNCHANGED <<peer, backlog, child, connections, server, seen>>

\* At the limit a client is accepted from sock, whichever listener reported one,
\* and the 503 goes to connections[i], the listener's own slot: its request is
\* NULL.
AcceptAtLimit(i) ==
  /\ Reading(i) /\ i \in Listeners /\ engine.nfds = MaxConnections - 1
  /\ \/ kernel[Sock].kind # "listener" \/ FreeFds = {}
     \/ backlog[Sock] # <<>>
  /\ IF kernel[Sock].kind = "listener" /\ FreeFds # {}
       THEN server' = "crashed" /\ UNCHANGED <<kernel, engine>>
       ELSE /\ kernel' = Released({Sock})
            /\ engine' = AllDone(engine, i)
            /\ UNCHANGED server
  /\ UNCHANGED <<peer, backlog, child, connections, seen>>

\* The branch for nfds > MAX_CONNECTIONS - 1 is never taken: see LimitHolds.

-----------------------------------------------------------------------------
\* liso_handle_recv on any other descriptor.

IsConn(i) == kernel[i].kind = "conn" /\ connections[i].request = "live"
Client(i) == kernel[i].of

\* The connection on descriptor i ends: e is what becomes of the engine, fs the
\* descriptors closed.
Ends(i, e, fs) ==
  /\ engine' = AllDone(e, i)
  /\ kernel' = Released(fs)
  /\ connections' = [connections EXCEPT ![i] = Cleaned]
  /\ peer' = [peer EXCEPT ![Client(i)] = Away]
  /\ child' = [child EXCEPT ![i] = NoChild]
  /\ UNCHANGED <<backlog, server, seen>>

Parsed(s, r) == [s EXCEPT !.uri = r.uri, !.status = IF r.ok THEN 200 ELSE 404,
                          !.close = r.close]

RecvStatic(i) ==
  /\ Reading(i) /\ IsConn(i) /\ connections[i].status = 0
  /\ peer[Client(i)].input.uri = "static"
  /\ \E n \in 1..MaxSends :
       connections' = [connections EXCEPT
                         ![i] = [Parsed(@, peer[Client(i)].input) EXCEPT !.left = n]]
  /\ engine' = [ReadDone(engine, i) EXCEPT !.wfds = @ \cup {i}]
  /\ peer' = [peer EXCEPT ![Client(i)].input = NoRequest]
  /\ UNCHANGED <<backlog, child, kernel, server, seen>>

\* cgi_init: two pipes, of which the parent keeps stdin_pipe[1] and
\* stdout_pipe[0].  Without four descriptors pipe fails, nobody looks at the
\* result, and FD_CLR(-1) in cgi_write is undefined.
RecvCgi(i) ==
  /\ Reading(i) /\ IsConn(i) /\ connections[i].status = 0
  /\ peer[Client(i)].input.uri = "cgi"
  /\ IF Cardinality(FreeFds) < 4
       THEN server' = "undefined" /\ UNCHANGED <<kernel, engine, connections, child>>
       ELSE LET in  == Lowest(4)[2]
                out == Lowest(4)[3]
            IN /\ kernel' = [kernel EXCEPT ![in] = [kind |-> "stdin", of |-> i],
                                           ![out] = [kind |-> "stdout", of |-> i]]
               /\ connections' = [connections EXCEPT
                    ![i] = [Parsed(@, peer[Client(i)].input) EXCEPT
                              !.stdin_pipe = in, !.stdout_pipe = out]]
               /\ child' = [child EXCEPT ![i].state = "running"]
               /\ engine' = [ReadDone(engine, i) EXCEPT
                               !.rfds = @ \cup {in}, !.wfds = @ \cup {out, i},
                               !.nfds = @ + 2, !.fdmax = Max2(@, out)]
               /\ UNCHANGED server
  /\ peer' = [peer EXCEPT ![Client(i)].input = NoRequest]
  /\ UNCHANGED <<backlog, seen>>

\* End of the stream or a reset.
RecvEnd(i) ==
  /\ Reading(i) /\ IsConn(i) /\ connections[i].status \in {0, 200}
  /\ peer[Client(i)].input = NoRequest /\ peer[Client(i)].end # "open"
  /\ Ends(i, CloseAndCleanup(engine, connections[i], i), {i})

\* Whatever is read while an error response is due is dropped.
RecvIgnored(i) ==
  /\ Reading(i) /\ IsConn(i) /\ connections[i].status \notin {0, 200}
  /\ engine' = ReadDone(engine, i)
  /\ peer' = [peer EXCEPT ![Client(i)].input = NoRequest]
  /\ UNCHANGED <<backlog, child, kernel, connections, server, seen>>

\* A descriptor that is no connection: recv fails, and request->status is read
\* through NULL, or in a request that has been freed.
RecvStale(i) ==
  /\ Reading(i) /\ i \notin Listeners /\ ~IsConn(i)
  /\ \/ /\ server' = "crashed"
        /\ engine' = engine
     \/ /\ connections[i].request # "NULL"
        /\ server' = server
        /\ \E watch \in {{}, {i}} :
             engine' = [ReadDone(engine, i) EXCEPT !.wfds = @ \cup watch]
  /\ UNCHANGED <<peer, backlog, child, kernel, connections, seen>>

HandleRecv(i) ==
  \/ Accept(i) \/ AcceptFails(i) \/ AcceptAtLimit(i)
  \/ RecvStatic(i) \/ RecvCgi(i) \/ RecvEnd(i) \/ RecvIgnored(i) \/ RecvStale(i)

-----------------------------------------------------------------------------
\* liso_handle_send.

Answered(c) == [peer EXCEPT ![c].waiting = FALSE]

\* Part of a response; after the last one the connection is closed, or waits for
\* the next request.
SendStatic(i) ==
  /\ Writing(i) /\ IsConn(i) /\ connections[i].uri = "static"
  /\ peer[Client(i)].end # "reset"
  /\ LET s == connections[i] IN
     IF s.left > 1
       THEN /\ connections' = [connections EXCEPT ![i].left = @ - 1]
            /\ engine' = AllDone(engine, i)
            /\ UNCHANGED <<peer, backlog, child, kernel, server, seen>>
     ELSE IF s.close
       THEN Ends(i, CloseAndCleanup(engine, s, i), {i})
     ELSE /\ connections' = [connections EXCEPT ![i] = GetReady(@)]
          /\ engine' = [AllDone(engine, i) EXCEPT !.wfds = @ \ {i}]
          /\ peer' = Answered(Client(i))
          /\ UNCHANGED <<backlog, child, kernel, server, seen>>

SendStaticFails(i) ==
  /\ Writing(i) /\ IsConn(i) /\ connections[i].uri = "static"
  /\ peer[Client(i)].end = "reset"
  /\ Ends(i, [engine EXCEPT !.rfds = @ \ {i}, !.wfds = @ \ {i}, !.nfds = @ - 1], {i})

\* cgi_read waits for output, or for the program to exit.
CgiReady(i) == Writing(i) /\ IsConn(i) /\ connections[i].uri = "cgi"
                 /\ (child[i].out > 0 \/ child[i].state = "exited")

CgiSend(i) ==
  /\ CgiReady(i) /\ child[i].out > 0 /\ peer[Client(i)].end # "reset"
  /\ child' = [child EXCEPT ![i].out = 0]
  /\ engine' = AllDone(engine, i)
  /\ UNCHANGED <<peer, backlog, kernel, connections, server, seen>>

Pipes(s) == {s.stdin_pipe, s.stdout_pipe}

CgiFinish(i) ==
  /\ CgiReady(i) /\ child[i].out = 0 /\ peer[Client(i)].end # "reset"
  /\ LET s == connections[i] IN
     /\ engine' = FinishCgi(AllDone(engine, i), s, i)
     /\ kernel' = Released(Pipes(s))
     /\ connections' = [connections EXCEPT ![i] = GetReady(@)]
  /\ child' = [child EXCEPT ![i] = NoChild]
  /\ peer' = Answered(Client(i))
  /\ UNCHANGED <<backlog, server, seen>>

\* The pipes are closed and counted off, but stay in the sets.
CgiSendFails(i) ==
  /\ CgiReady(i) /\ peer[Client(i)].end = "reset"
  /\ Ends(i, [engine EXCEPT !.rfds = @ \ {i}, !.wfds = @ \ {i}, !.nfds = @ - 3],
          {i} \cup Pipes(connections[i]))

\* A descriptor that is no connection: through NULL, or send fails with an errno
\* after which the server exits.
SendStale(i) ==
  /\ Writing(i) /\ ~IsConn(i)
  /\ server' \in IF connections[i].request = "NULL" THEN {"crashed"}
                                                    ELSE {"crashed", "exited"}
  /\ UNCHANGED <<peer, backlog, child, kernel, engine, connections, seen>>

HandleSend(i) == \/ SendStatic(i) \/ SendStaticFails(i)
                 \/ CgiSend(i) \/ CgiFinish(i) \/ CgiSendFails(i) \/ SendStale(i)

-----------------------------------------------------------------------------
Server == Select \/ SelectFails \/ \E i \in Fds : HandleRecv(i) \/ HandleSend(i)
Next   == Environment \/ Server

\* The loop never stops of itself.
Spec == Init /\ [][Next]_vars /\ WF_vars(Server)
-----------------------------------------------------------------------------
FdOrNone == Fds \cup {-1}

\* Types of the state; kernel also says to which connection a pipe belongs.
TypeOK ==
  /\ peer \in [Clients -> [state : {"away", "queued", "in"}, port : Listeners,
                           hello : {"ok", "bad", "silent"},
                           input : Requests \cup {NoRequest}, waiting : BOOLEAN,
                           end : {"open", "fin", "reset"}]]
  /\ \A l \in Listeners : backlog[l] \in Seq(Clients)
  /\ child \in [Fds -> [state : {"none", "running", "exited"}, out : 0..MaxChunks]]
  /\ \A f \in Fds : \/ kernel[f] \in [kind : {"free", "std", "listener"}]
                     \/ kernel[f] \in [kind : {"conn"}, of : Clients]
                     \/ kernel[f] \in [kind : {"stdin", "stdout"}, of : Fds]
  /\ engine \in [rfds : SUBSET Fds, wfds : SUBSET Fds, temp_rfds : SUBSET Fds,
                 temp_wfds : SUBSET Fds, nfds : Int, fdmax : Fds]
  /\ connections \in [Fds -> [request : {"NULL", "live", "freed"}, context : BOOLEAN,
                              status : {0, 200, 404}, uri : {"static", "cgi"},
                              close : BOOLEAN, left : 0..MaxSends,
                              stdin_pipe : FdOrNone, stdout_pipe : FdOrNone]]
  /\ server \in {"up", "exited", "crashed", "undefined"}

\* What select has reported of a descriptor still is about the same object when
\* the pass comes to it: handling one descriptor never closes or reuses another
\* that is still to be handled (the temporary sets of liso_engine_event_loop).
SnapshotStable ==
  server = "up" => \A f \in engine.temp_rfds \cup engine.temp_wfds : kernel[f] = seen[f]

\* The pipes of a CGI request whose connection ended first: nobody closes them.
Orphans == {f \in Fds : /\ kernel[f].kind \in {"stdin", "stdout"}
                        /\ f \notin Pipes(connections[kernel[f].of])}

Listening == \A l \in Listeners : kernel[l].kind = "listener"

\* engine.nfds, the counter that limits the connections, is the number of open
\* descriptors whenever select is called, short by exactly the pipes that
\* liso_close_and_cleanup leaves open; until accept fails, which closes the
\* listeners and does not count them off.
CounterExact ==
  server = "up" /\ ~InPass /\ Listening =>
    engine.nfds + Cardinality(Orphans) = Cardinality(OpenFds)

\* A pipe that select watches in the direction of the other: it was read like a
\* connection (RecvStale), or has the descriptor of a pipe that is still watched.
Misplaced(f) == \/ kernel[f].kind = "stdin" /\ f \in engine.wfds
                \/ kernel[f].kind = "stdout" /\ f \in engine.rfds

\* A descriptor that is closed is taken out of the sets for select in the same
\* step, or select would fail and the server exit.  Of all the paths that close
\* descriptors only these break this: a failed accept, a write of CGI output to a
\* client that has reset the connection, and a misplaced pipe.
ClosedNotWatched ==
  [][\A f \in Fds : kernel[f].kind # "free" /\ kernel'[f].kind = "free" =>
       \/ f \notin Watched'
       \/ f \in Listeners \/ Misplaced(f)
       \/ \E c \in Clients : peer[c].end = "reset" /\ peer'[c] = Away]_vars

\* The counter stays at or below MAX_CONNECTIONS - 1, CGI requests with their two
\* pipes included, so that the one branch of liso_handle_recv that defers a
\* client is never taken.  (Once a failed accept has closed the listeners, which
\* stay counted, CGI requests of the same pass may go beyond, where nobody asks.)
LimitHolds ==
  server = "up" /\ (Listening \/ \E l \in Listeners : Reading(l)) =>
    engine.nfds <= MaxConnections - 1

\* select is called for every connection and for no closed descriptor, and
\* fdmax covers what is watched.
WatchExact ==
  server = "up" /\ ~InPass =>
    /\ Watched \subseteq OpenFds \cap 0..engine.fdmax
    /\ {f \in Fds : kernel[f].kind = "conn"} \subseteq engine.rfds

\* readme.txt: "Write for a specific fd is only possible if the read has
\* happened".  A connection is watched for writing exactly while a request read
\* from it has not been answered, and its slot is that of the client behind the
\* descriptor: it has a TLS context exactly if the client came to ssl_sock.
WriteAfterRead ==
  \A f \in Fds : kernel[f].kind = "conn" =>
    /\ connections[f].request = "live"
    /\ f \in engine.wfds <=> connections[f].status # 0
    /\ connections[f].status # 0 => peer[kernel[f].of].waiting
    /\ connections[f].context <=> peer[kernel[f].of].port = SslSock

-----------------------------------------------------------------------------
\* The session that one side of a connection stands for.
Session(p) ==
  IF p.state = "away" THEN "away"
  ELSE IF p.hello # "ok" \/ p.end # "open" THEN "leaving"
  ELSE IF p.waiting THEN "waiting" ELSE "idle"

Promise == INSTANCE Sessions WITH session <- [c \in Clients |-> Session(peer[c])]

\* The server serves its clients independently of each other.
ImplementsSessions == Promise!Spec

-----------------------------------------------------------------------------
\* What the documentation of the server says of it.

\* readme.txt: "If a client tries to cnnect to the server when the limit is
\* reached, the connection is deferred."
DeferredAtLimit == server # "crashed"

\* es_error_handler.c: "this error is handled a little differently so that the
\* server stays alive even if the client disconnects".
AliveAfterDisconnect == server # "exited"
=============================================================================
