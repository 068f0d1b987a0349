# Liso

A TLA+ development of this repository: Liso, an HTTP/1.1 server (one process,
one `select()` loop, plain and TLS listeners, static files and one CGI program);
flaskr, the web application it runs by CGI; and virtualenv, the tool that makes
the environment flaskr runs in. The modules are written from the sources; the
line ranges each definition translates are in `PROJECT.json` ("map").

## The system

| Part | State it keeps | Operations | Interacts with |
|---|---|---|---|
| Select engine (`liso_select_engine.c`) | `rfds`, `wfds`, their snapshots `temp_*`, `nfds`, `fdmax`, the table `connections[]` indexed by descriptor | create, event loop, `liso_handle_recv`, `liso_handle_send`, close and clean up | kernel (descriptors, readiness), every other part |
| Connection (`es_connection.c` and the engine's handlers) | buffer and `bufindex`, request, header table, indices into request body, response and file, CGI pipes | init, cleanup, `get_ready_for_pipeline`, `look_buffer_for_request`, `post_recv_phase`, `process_buffer`, `send_response`, `handle_get_io`, `non_poisonouse_finish` | parser, header table, TLS, files |
| HTTP parser (`http_parser.c`) | none of its own; writes the request | `parse_http`, `determine_status`, `build_response` | connection, file system |
| Header table (`liso_hash.c`) | 109 chains, `keys[64]`, `num_headers` | `hash_add`, `get_value`, `contains_key`, `hash_remove`, `collapse` | parser, handlers |
| CGI gateway (`liso_cgi.c`) | two pipes per request | `cgi_init` (pipe, fork, execve), `cgi_write`, `cgi_send_response`, `cgi_read` | engine's sets and counter, child process |
| TLS (`SSL_init`, `SSL_wrap`, `liso_file_io.c`) | context per connection | handshake, read, write | OpenSSL |
| flaskr (`flaskr/flaskr.py`) | the SQLite file, the session in each browser's cookie | `before_request`, the four views, `teardown_request`, `init_db`; `run_with_cgi`, its own gateway | a process per request, on the child side of the CGI gateway |
| virtualenv (`virtualenv-1.6.4/virtualenv.py`) | the files of one environment, a progress line on the terminal | `create_environment`, `make_environment_relocatable` and what they call | the computer's Python, installers it starts as commands |
| Start-up, logger, error table, signal handler | | sequential or unused | |

The server runs in one thread. What makes it hard is that a connection's life is
spread over many passes of the loop:

- **Cuts.** A read returns any prefix of what was sent; a request, or a pipeline
  of requests, is seen in pieces; TLS adds a second buffer that select cannot see.
- **Parts.** A response goes out in several writes, while more input of the same
  client is read and parsed.
- **Reuse.** The slot of a connection is reset, not rebuilt, for its next request,
  and reused by the next client that gets the same descriptor.
- **Snapshots.** A pass of the loop works on copies of the descriptor sets; what a
  handler closes is still in the copies.
- **Manual bookkeeping.** `nfds` limits the connections and `fdmax` bounds the
  loop, and both are updated by hand in every path, the CGI pipes included.
- **Failure.** Clients reset, files vanish between two passes, CGI programs exit
  early; some errnos end the process by design, others by accident.
- **Blocking.** `SSL_accept`, `cgi_read`, `cgi_write` and the sends block the only
  thread, and the program at the other end of the pipes blocks too.

flaskr is concurrent without knowing it: several requests are several processes on
one database file, each may be killed between two statements, and a session is a
cookie that the last answer overwrites. A run of virtualenv is sequential and long:
it may be killed anywhere, in the middle of a file too, and is then run again, with
other options, by another interpreter or after the directory was moved.

What correctness means, by part. Connection: pipelined requests are answered
once each, in order, whole, none forgotten, none with leftovers of another.
Engine: sets, counter and table agree with the open descriptors; sessions are
independent; everybody who waits is served. CGI gateway: the pipes live exactly
as long as the request; a program reads its own body and its output reaches the client in
order. Header table: it is a map. flaskr: an answer tells what became of the entry,
and sessions follow the answers. virtualenv: a run that ends well leaves a whole
environment, spares what its owner did, and relocation keeps things working. The
hazards, each at its line with the properties that watch it, are in `PROJECT.json`.

## Modules

| Module | What it is |
|---|---|
| `HttpParser` | `parse_http` and `determine_status` as operators on the kinds of request line and header block they tell apart. Among them: the method field of 5 bytes that a longer token overruns (`StoredMethod`), the order of the checks, what an unparsed field keeps. |
| `LisoConnection` | One connection: a client that sends a script of requests, the socket, the TLS layer, the `es_connection`, the document tree. One action per way a handler can run. |
| `RequestPipeline` | Abstract: a FIFO server of pipelined requests. `LisoConnection` implements it. |
| `MCConnection` | Scripts for the instances. |
| `LisoConnection_proof`, `LisoConnectionOrder_proof` | Theorems about `LisoConnection`, checked by TLAPS; the second builds on the first and has the steps of the refinement of `RequestPipeline`. |
| `LisoEngine` | The loop over all descriptors, the connection table, accepting and the limit, CGI pipes. A connection is here what the loop needs of it. |
| `LisoEngine_proof` | Theorems about `LisoEngine`, the steps of the refinement of `Sessions` among them. |
| `Sessions` | Abstract: each client sees a session of its own. `LisoEngine` implements it. |
| `MCEngine` | Requests and symmetry for the instances. |
| `LisoHash` | The header table: chains, `keys[]`, counter, and its life on a connection. |
| `HeaderMap` | Abstract: a map from names to values and the judgement of a POST by it. `LisoHash` implements it. |
| `LisoHash_proof` | Theorems about `LisoHash`, the refinement of `HeaderMap` among them. |
| `MCHash` | Header names with the buckets `super_fast_hash` gives them. |
| `LisoCgi` | One connection whose client pipelines CGI requests: body, pipes, program, output. |
| `WsgiGateway` | flaskr's `run_with_cgi` as a machine that takes a WSGI application step by step; `LisoCgi` runs it in the child. |
| `LisoCgi_proof` | Theorems about `LisoCgi` and the gateway in it. |
| `MCCgi` | Pipelines of careful and careless applications. |
| `Flaskr` | The application: processes, database with its lock, cookies. |
| `Flaskr_proof` | Theorems about `Flaskr`. |
| `MCFlaskr` | Two browsers, one of which asks two things at a time. |
| `VeFiles`, `VeRelocate`, `VeLogger` | virtualenv's operations on one file, on one path, and its logger, as operators. |
| `Virtualenv` | Runs of virtualenv on one environment, and what its owner does in between. |
| `Virtualenv_proof` | Theorems about `Virtualenv`. |
| `MCVirtualenv` | Computers, command lines and directories for the instance. |
| `Induction_proof` | Induction over the naturals and their intervals, in terms of sets, for the proofs. |

### LisoConnection

Bytes become *units*: a request is the head of its header block, the tail that
ends with the empty line, and `Content-Length` units of body, so that a read can
cut it in front of, inside and behind the header block and anywhere in the body.
A unit knows its request and its position, which is what the properties need to
speak of lost, repeated or misattributed input.

| Variable | Code |
|---|---|
| `conn` | the `es_connection` (buffer, `hasRequestHeaders`, `sentResponseHeaders`, `iindex`, `postfinish`, `ioIndex`, `sendContentSize`, `responseLeft`, request and status), and the connection's bit in `engine.wfds` |
| `snap` | its bits in `temp_rfds`, `temp_wfds` |
| `input`, `fin`, `sockErr`, `gone` | the kernel's side of the socket |
| `tls`, `pending` | `context`, and the part of a record SSL holds back |
| `disk` | the document tree, which other processes may change |
| `server` | up, or how the process ended (exit, or a SIGPIPE) |
| `script`, `nextUnit`, `out` | what the client sends; the responses it got (history) |

`Select` takes the snapshot; `RecvPlain`, `RecvTls`, `RecvZero`, `RecvError` are
`liso_handle_recv` by the outcome of the read, with `process_buffer`,
`look_buffer_for_request` and `post_recv_phase` inside; `SendResponse`,
`SendFile`, `SendFileVanished`, `SendFails` are `liso_handle_send`, with
`build_response`, `handle_get_io` and `non_poisonouse_finish` inside. When the
read handler returns -1 the snapshot loses both bits, as the `continue` of the
loop has it.

### LisoEngine

| Variable | Code |
|---|---|
| `engine` | `rfds`, `wfds`, `temp_rfds`, `temp_wfds`, `nfds`, `fdmax` |
| `connections` | the table; per slot: whether `request` is NULL, live or freed, the context, status, kind of URI, `Connection: Close`, writes left, the parent's pipe ends |
| `kernel` | what each descriptor is: free, listener, a client's connection, the write end of a program's input, the read end of its output |
| `peer`, `backlog`, `child` | clients (among their fields the listener each came to), those waiting to be accepted, CGI programs |
| `server`, `seen` | how the process is; `kernel` at the last select (history) |

The kernel gives out the lowest free descriptor, so that reuse happens at once.
`Accept`, `AcceptFails`, `AcceptAtLimit` are the listener branch of
`liso_handle_recv`; `RecvStatic`, `RecvCgi`, `RecvEnd`, `RecvIgnored` the other
one; `RecvStale` and `SendStale` are the handlers run on a descriptor that is no
connection (a pipe end in the sets, or a closed descriptor), with the outcomes the
build can have: a crash through a NULL or freed request, or nothing. `Sock` and
`SslSock` are 4 and 5, `nfds` starts at 6, as in `liso_engine_create`.

Abstractions: one request outstanding per client, which arrives in one read
(LisoConnection has the rest); the sends block and send all of what the CGI
program has produced; accept fails for want of descriptors or, where
`AcceptErrors` says so, for reasons outside of the process; the process's limit
of descriptors is `MAX_CONNECTIONS`; resets of TLS connections are left to
LisoConnection; programs do not inherit their siblings' pipe ends in a way that
matters. `FD_CLR(-1)`, which a failing `pipe` leads to, makes the server "undefined".

### LisoHash

| Variable | Code |
|---|---|
| `hash` | the chains, latest pair first; a bucket is `super_fast_hash % 109` |
| `keys`, `num_headers` | `keys[]` and the counter that is its index |
| `verdict` | what `determine_status` finds of a POST's headers |
| `process` | up, crashed through a NULL value, overrun (a name written behind `keys[]`) or cleared (a row behind it zeroed) |

One action per function: `hash_add` (with `hash_add_overruns` once `keys[]` is full),
`hash_remove` with `remove_key_from_keyset` (`hash_remove_overruns` where its loop, which
runs to `HASHSIZE` and not to the size of `keys[]`, meets the name behind the table;
nothing in the server calls either), `determine_status`, and `get_ready_for_pipeline` with
`collapse`. The sixty-fifth field enters its chain like every other, and then its name
becomes the counter, of which the constant `Packed` gives the value. Lookups hash the name as it is given,
`hash_add` its lower case. Two names share a bucket with another: the constants
`Lower` and `Bucket` give the buckets the real function computes. `ImplementsHeaderMap`
maps a name to the values of its pairs, in the order of its chain.

### LisoCgi and WsgiGateway

| Variable | Code |
|---|---|
| `requests`, `inbound`, `socket`, `client`, `got` | the client, which may shut down or reset; the socket; what was received (history) |
| `connection` | the `es_connection` with the connection's bit in `engine.wfds`; whether the server has its pipe ends open, and whether they are in the sets |
| `temp` | what select reported and the pass has not come to: the connection for reading, for writing, `stdin_pipe[1]` |
| `server` | where the single thread is: in `select`, before `process_buffer`, in `post_recv_phase`, in the `write` of `cgi_write`, in the `read` of `cgi_read`; or killed by SIGPIPE, crashed through NULL, exited |
| `writeSize` | `cgi_write`'s |
| `stdin_pipe`, `stdout_pipe` | the pipes, of `PipeSize` units |
| `program`, `taken` | the child, as the state of `run_with_cgi` or the reason there is none; what the children read (history) |
| `begun`, `lost` | the requests the server has come to, the first one during which it dropped input (history) |

`Select` takes the snapshot, in the order of the pass: the connection's reading, its writing,
then the pipe, whose descriptor is above. `RecvData` and `RecvEnd` are `liso_handle_recv`. A
request for `/cgi/...` names no file, so that a GET has status 404 until its answer is sent,
and line 291 looks at what was read only if the status is 200 or 0: during a GET input is read
and dropped, and an end or a reset goes unnoticed (`Ignoring`). `RecvPipe` is the same
function on the write end of the program's input, which select reports once the program has
ended: the slot of that descriptor has no request, and the server crashes. `NewRequest` (with
`cgi_init`), `GoAstray` and `MoreInput` are `process_buffer`; `PostRecv`, `CgiWrite`,
`PostFinish`, `Send` and `CgiSendResponse` (with `cgi_read`) the rest of the server, which
stops where the code blocks; `ProgramReads` and `ProgramSteps` are the child, which blocks
on its pipes. `fork` and `execve` may fail (`Faults`): nobody looks at what `cgi_init` returns.

Abstractions: GETs have no body; after input was dropped in the middle of a request what
follows is answered 400 for ever (`GoAstray`), although a head further on in the buffer would be
found; the descriptor of the pipe is one that no connection has had (`RecvStale` of LisoEngine
has the others); the 503 that the limit would give is LisoEngine's.

`WsgiGateway` keeps `headers_set`, `headers_sent` and the result, and takes the events
of an application (`start`, `write`, `return`, `data`, `raise`, ...) in the order the
application has them: `write`, `start_response` and `run_with_cgi` are the operators.
The sends block, and no signal handler is installed, so that a send is not short.

### Flaskr

| Variable | Code |
|---|---|
| `db` | the database file: whether the table is there, its rows in order of id |
| `writer`, `row` | the process that holds SQLite's RESERVED lock, and the row it has not committed |
| `init` | where `init_db`'s script is |
| `cookie` | each browser's session: `logged_in` and the flashed messages |
| `proc` | the processes: view, session as the request brought it, answer |
| `asked`, `trouble`, `epoch` | bound, the trouble of the behaviour, number of `init_db`s (history) |

`Ask` is the browser and `before_request`; `show_entries`, `add_entry_refused`,
`add_entry_insert`, `add_entry_commit`, `login`, `logout` are the views, cut where another
process can see the database; `teardown_request` closes the connection, `Receive` brings
the answer and its cookie. SQLite and the signed cookie are modelled from how the
application uses them (marked external): one writer, readers see the last commit, who
waits too long gets `OperationalError`, a closed connection rolls back. In DEBUG mode an
exception leaves the application (answer 500 in the model: nothing was output).

### Virtualenv

| Variable | Code |
|---|---|
| `host`, `home` | the computer (platform, names of its interpreter, what is found on it); the directory |
| `fs` | the environment's files: absent, torn, a link, a copy, or a text |
| `dev` | whether a package is installed in development mode, inside or outside |
| `opts`, `todo`, `status` | the options of a run, its file operations still to do, how it is or ended |
| `logger` | the fields of `Logger`, and where the terminal's cursor is |
| `downloads` | what the run's commands fetched from the network |
| `relocated`, `acts` | history, bound |

An operator named after a Python function yields that function's operations in its
order (`install_python`, `fix_lib64`, `install_distutils`, `_install_req`, `main`, ...);
`Start` begins a run with the operations of `main`. One action performs each kind of
operation (`CopyFile`, `WriteFile`, `LinkSelf`, `Rmtree`, `CopyExecutable`, `CallBegins`
... `CallFails`, `FixupScript`, ...) with what `os` would do there, so that the effect
depends on what is in the directory then. `Interrupt` kills the run between two operations
or in the middle of a file. `InstallPackage`, `EditConfig` and `Move` are the owner.
`LinkDir` is the link to the `distutils` of another environment whose interpreter runs
virtualenv. `CopyFails` is the run that cannot make the temporary directory, or copy the
tarball to it, after the progress line was begun. The easy_install of every run rewrites
`easy-install.pth` (`PthLines`): it drops a line that leads nowhere and may make the others
absolute. Paths are sequences of names; the texts of scripts are their first line.

## Runs

| Run | Instance | Shows |
|---|---|---|
| `connection_pipeline` | 12 pipelines of 3 requests, TCP and TLS, buffer of 5 units, 3 units in flight; shut-down, reset, and files removed or cut short at any step | `TypeOK`, `AnswersInOrder`, `NotInterleaved`, `NoStrandedInput`, `StreamIntact`, `ServerStaysUp` |
| `connection_service` | the same and all 121 pairs of 11 kinds of request; TCP; a client that may shut down or reset at any step | `OwnStatus`; under fairness `RequestsServed` and the refinement `ImplementsPipeline` |
| `engine_service` | 2 clients, 4 descriptors beyond the first 6, TCP and TLS, pages found and not, kept alive and closed, good and failing handshakes, ends and resets | `TypeOK`, `SnapshotStable`, `WatchExact`, `WriteAfterRead`; under fairness `ImplementsSessions` |
| `engine_faults` | 3 clients of the CGI program that end or reset, `accept` may fail, 5 descriptors | `CounterExact`, `LimitHolds`, `ClosedNotWatched`, when pipes leak and stale bits stay in the sets |
| `headers` | 5 spellings of 4 names in real buckets, room for 3 fields | `TypeOK`, `CounterIsTotal`, `CrashNeedsCollision`; the refinement `ImplementsHeaderMap` |
| `cgi` | 7 pipelines of 1 to 3 requests, GETs and POSTs, careful and careless applications, buffer and pipes of 2 units, shut-down, reset, failing `fork` and `execve` | `TypeOK`, `OwnInput`, `OutputIntact`, `WsgiKept`, `OnlyCarelessPrograms`; under fairness `Answered` |
| `flaskr` | 4 requests of 2 browsers, one with two at a time; a kill, or `init_db`, at any step | `TypeOK`, `AnswerTellsOutcome`, `OnlyMembersPost`, `ReadsOwnEntries`, `FlashedOnce`, `SessionFollows` |
| `virtualenv` | 8 computers, 9 command lines, 2 directories, 4 runs or acts of the owner | `TypeOK`, `SuccessIsWhole`, `FlagMatches`, `LinesWhole`, `NothingFetched`, `OwnersFilesKept`, `RelocationKeepsWorking` |
| `doc_whole_request` | one GET | violated: a header block in two reads is answered 400 |
| `doc_tls_post` | one POST, TLS, record longer than the buffer | violated: the request waits for ever |
| `doc_limit` | 3 clients, room for one | violated: no deferral, a write through NULL |
| `doc_disconnect` | CGI client that resets | violated: the server exits |

The four `doc_` runs check what `readme.txt` and a comment of `es_error_handler.c` say;
`PROJECT.json` quotes them ("findings").

Why the bounds are enough. A buffer of 5 units is shorter than a pipeline of
three and longer than a header block, so that it fills, holds parts of two
requests, and wraps. `ResponseSize` 2 and files of 2 units make each
response take several writes, with partial ones in between. Three requests are
what it takes for the leftovers of one to reach the next but one. Bodies have 0,
1, 2 or 4 units: none, one read, two reads, more than a buffer. `MaxResponses` 4
is above what a script can be answered when it is answered once each. In the
engine two clients use a descriptor after each other and beside each other, on
two listeners; three are needed for a CGI pipe to get a descriptor whose slot was
a connection's, and for the limit to be met while a CGI request is served.

A header table of three fields overflows after a collision, a repeated name and a
removal have all had room in it. Of the fields of the standard only `te` falls into
`content-length`'s bucket (53); `cookie` and `accept-charset` share 86 and are there as a
chain that no lookup of the code concerns. In `LisoCgi` a buffer and pipes of two units are
full with bodies of three and four and with outputs of four; three requests follow each
other on one connection. In `Flaskr` four requests are a login, two posts and a page, or a
login and two posts beside another browser's; one kill or one `init_db` meets each of them
at each step. In `Virtualenv` four acts are an interrupted run, a move, a run that repairs
and `--relocatable`; the nine command lines have every option at least once, and the
computers every platform branch of the code. File contents are what distinguishes one
version of a file from another, no more.

`CHECK_DEADLOCK` is off because a server whose clients have said everything, or that
has exited, stops, and so do browsers and owners at their bounds.

Symmetry of the clients is used in safety runs only. Faulty variants of
definitions (`GetReady_KeepsRequest`, `AllDone_KeepsWrite`, ...) stand in front of
the definitions they vary; `PROJECT.json` ("mutants") pairs each property with
the variant that breaks it.

### Fairness

`LisoConnection`: the loop never stops, `select` returns every ready descriptor
and the pass visits all of them, so that the server's actions are weakly fair,
each by itself; nothing is assumed of the client. In `LisoEngine` the loop as a
whole is weakly fair (`WF_vars(Server)`): that each client is reached is not
assumed but checked, it is the ascending pass that provides it. With CGI
requests, or a TLS client that is silent in its handshake, a blocking call stops
everybody, and no liveness is claimed. In `LisoCgi` the server's thread, the program's
process and a client that has begun each go on (`WF` of `ServerStep`, `ProgramStep`,
`ClientSend`): the kernel schedules runnable processes, and where a call blocks the action
is disabled. `Answered` is claimed for careful programs only, those that read exactly
their body before they write. `Flaskr`, `LisoHash` and `Virtualenv` promise nothing about
when, and have no fairness.

## What is proved

TLAPS checks the theorems below for every value of the constants that the named
assumptions of the modules allow (`SizesAssumption`, `InputsAssumption`,
`EngineAssumption`, `HashAssumption`, `CgiAssumption`, `VirtualenvAssumption`, ...): any number of clients,
browsers, descriptors and requests, any buffer, file and pipe sizes, any cut of reads and
writes, any directories, command lines and number of runs. What a theorem assumes beyond them is in the last column. `PROJECT.json`
("theorems") says what each one means.

| Module | Theorem: property | Beyond the module's assumptions |
|---|---|---|
| `LisoConnection_proof` | `TypeCorrect`: `TypeOK`; `ResponsesNotInterleaved`: `NotInterleaved` | |
| `LisoConnectionOrder_proof` | `PipelinedInOrder`: `AnswersInOrder`; `InputKept`: `StreamIntact`; `BufferNeverStranded`: `NoStrandedInput` | |
| | `StepsOfPipeline`: the safety part of `ImplementsPipeline` | |
| | `ProcessSurvives`: `ServerStaysUp` | `"timeout" \notin PeerFaults` |
| | `NoHeaderLeaks`: `OwnStatus` | `DiskFaults = {}` |
| `LisoEngine_proof` | `TypeCorrect`: `TypeOK`; `CounterCorrect`: `CounterExact`; `LimitKept`: `LimitHolds`; `ClosedUnwatched`: `ClosedNotWatched` | |
| | `SnapshotKept`: `SnapshotStable`; `WatchedExactly`: `WatchExact`; `WritesAfterReads`: `WriteAfterRead`; `StepsOfSessions`: the safety part of `ImplementsSessions` | `StaticOnly` |
| `LisoHash_proof` | `TypeCorrect`: `TypeOK`; `CounterExact`: `CounterIsTotal`; `CrashesByCollision`: `CrashNeedsCollision`; `TableIsMap`: `ImplementsHeaderMap` | |
| `LisoCgi_proof` | `TypeCorrect`: `TypeOK`; `ProgramsReadOwnInput`: `OwnInput`; `OutputReachesClient`: `OutputIntact`; `GatewayKeepsRules`: `WsgiKept`; `LoopNeverBlocked`: `OnlyCarelessPrograms` | |
| `Flaskr_proof` | `TypeCorrect`: `TypeOK`; `AnswersTellOutcomes`: `AnswerTellsOutcome`; `MembersPost`: `OnlyMembersPost`; `SessionFollowsAnswers`: `SessionFollows`; `FlashesShownOnce`: `FlashedOnce`; `EntriesRead`: `ReadsOwnEntries` | |
| `Virtualenv_proof` | `TypeCorrect`: `TypeOK`; `WholeAfterSuccess`: `SuccessIsWhole`; `FlagAsAsked`: `FlagMatches`; `LinesStayWhole`: `LinesWhole`; `NeverFetches`: `NothingFetched`; `OwnersFilesAreKept`: `OwnersFilesKept`; `RelocationIsSafe`: `RelocationKeepsWorking` | |

The extra hypotheses are conditions on the environment under which the code keeps the
property at all, and those of the runs that check it. `send_response` exits on an errno it
does not name, and a connection that timed out gives one. A file that is removed between
the parse and the answer changes the status, as it should. `StaticOnly` (no CGI requests,
an `accept` that does not fail) is needed because with CGI requests the invariants are
false: see the leaks below.

### The arguments

Each theorem rests on an inductive invariant, which TLC checked on the instances of the
runs before it was proved, with a lemma per action.

*One response at a time.* `NotInterleaved` speaks of the history `out` and is not inductive:
that `send_response` may start depends on `responseLeft` and `sentResponseHeaders`, which say
nothing of the client unless they track what it still lacks. `IInv` adds exactly that:
`OutTracks` (what is left of the last response is `responseLeft`, what is owed of its file is
`sendContentSize`), `Decided` (a connection to be written to has a status, only a parsed
request has 200), which the write branch relies on through the snapshot, and `BodyBound`. A
dead socket (`sockErr`) is excepted through `gone`, because its writes reach nobody.

*Answers in order, input kept.* `OrderInv` follows the stream: the units in the buffer, in
SSL's record and in the socket are consecutive (`StreamIntact`), they begin with the unit the
connection expects next (`RequestTracks`: head of the next request, tail of this one, or the
next unit of its body), nothing is left in a buffer that no event will bring up
(`NoStrandedInput`), and the number of answers fits the number of the request
(`AnswerTracks`). The three properties hold each other up: an answer is out of order only if
a unit was lost or read twice, and that happens only where one is stranded. The refinement
steps follow, since an answer that becomes clean and complete is always the next one.
`OwnStatus` needs moreover that the header table, the status and the file of a request were
written since its own head was read.

*The counter.* `CounterExact` is kept by hand in the code, so its invariant names the set it
counts: `Counted`, the open descriptors but the pipes no connection has any more. `Counts`
says that `nfds` is its cardinality, and `Slots` which pipes a slot still has. `Deaf` says that
pipe ends in the wrong set are read or written by nobody, and `SockWatched` that the listeners
are in `rfds`. For `StaticOnly` the sets are exact (`Sets`), each client is behind one
descriptor (`Places`) and a slot to be written has an unanswered request (`Answers`). From these, and
from `Gone` (a client that is away has left nothing behind), the steps of `Sessions` follow: a
write can only be the answer to a client that waits, and `Ends` happens to a client that has
left or is answered with `Connection: Close`. This proof found the abstraction map itself
ambiguous, a `CASE` whose arms overlapped, where TLC took the first; `Session` is total now.
The proof of the counter corrected two properties that hold on the instances of the run and fail on larger ones:
`LimitHolds` is false once a failed `accept` has closed the listeners, which stay counted,
while CGI requests of the same pass still open pipes; and a closed pipe may stay watched when
its descriptor was that of a pipe which was already watched in the other direction
(`Misplaced`). Both are stated now as the code keeps them.

*The header table.* The values of a name are found by a walk along a chain, a recursive
function. That it exists and what it yields for a chain with a pair more or less is proved by
induction along the chain. Then `hash_add`, `hash_remove`, `determine_status` and
`get_ready_for_pipeline` are the steps of `HeaderMap`, whose specification is implied as a
whole, for every function `Bucket`. The counter is the cardinality of the set of places.

*The CGI gateway.* `InStep` is the stream again, up to the unit the client sends next: without a
gap as long as nothing was dropped, and rising afterwards. `Losing` says that input is dropped
only while the request in hand has no body, and that every request before it was begun unless
something was dropped before: so `OwnInput` holds to the end of that request, and `OutputIntact`
for all that were begun. `Phases` ties what select has reported to the state of the connection.
`Written` says what is in the program's pipe (the last units written of this request's body)
and `Counted` how many units each program took, which gives `OwnInput`. `Doing` relates what
is left of a careful program's script to what it has read: it waits for input only where some
of the body is to come. `PipeSize >= 2` is the one size that matters: a header block and a
block of data must fit into an empty pipe, as they do into the kernel's (the pipe holds at
least 4096 bytes), or the program could wait for room that no reader makes. `Headed` follows
what was put out, over what the client got and what is in the pipe.

`OutputIntact` compares what the client got, block by block, with `Output`: what the gateway
would put out for the whole script if nothing were in its way, defined over the script as a
whole and not step by step. It needs an invariant of its own over `IInv`, `Delivered`:
`InOrder` and `AllSent` are the property, and `Account` says of the request in hand that the
gateway has refused no event so far, knows which headers it has, and has put out as many
blocks as it performed writes, and one with the headers; where the blocks are, with the client
or still in the pipe, does not matter. The lemma `AccountMoves` is the gateway's step against
`Output`, whichever event comes next; the server only moves blocks (`Share`), so that
the count of a request changes nowhere else.

*flaskr.* `Stored` says which requests the rows are of, `Members` that a session is logged in
because a login was answered, and `Alone` that the live process of a browser that waits is
its last one. From `Alone`: nobody else changes its cookie (`Fresh`), so that it shows messages
once and follows the answers.

*virtualenv.* A run is a list of operations, and what was there before may be anything that
runs and kills have left. So the invariant speaks of *duties*: a run that has not gone wrong
has each of its duties still on the list or done (`Progress`), and nothing on the list undoes
a duty but in front of it (`Order`: `--clear`'s `rmtree` before everything, the renaming and linking of
executables before the interpreter is tested). `lib64` and `local` are duties too, where the
computer asks for them: `LinkSelf` leaves a link to this directory or ends the run. That the list of `main` has this shape is shown
function by function, and that taking off its first operation keeps it follows from what the
operation may change (`Changes`) and what comes of it (`Result`). At the end the list is empty
and every duty is done: `SuccessIsWhole`, `FlagMatches`. `OwnersFilesKept` is `Changes` with `Lawful`, the
operations a command line can lead to, and for `easy-install.pth` that both forms of a line
that easy_install may leave are resolved to the same path. For `RelocationKeepsWorking` the invariant says of the
files that a `--relocatable` run was through with that they would work in *every* directory
(`MovedWorks`); it rests on the algebra of `make_relative_path` (what it makes is resolved to the
path it was made of, and does not depend on the part of the path the two have in common).
`Logged` relates the terminal's line to the fields of `Logger` and to the command under way, or
to the directory that could not be written to.

The proof corrected `RelocationKeepsWorking`, which had been stated of whatever worked
before a move and holds on the instance of the run. It is false with five acts: scripts
written in another directory, which a relocation after a move leaves alone, work again when
the directory moves back, and stop when it moves once more. And a path that leads out of the environment and back into it stops
working under another name. Both were confirmed with TLC. The property is stated now of what
`--relocatable` was through with (`relocated`) and of paths that do not lead out
(`Relocatable`).

### Only model-checked

- Liveness, which is out of the prover's reach: `RequestsServed`, `Answered`, and the fairness of
  `ImplementsPipeline` and `ImplementsSessions`.
- `ImplementsSessions` and `ImplementsPipeline` as wholes, for the same reason: what is proved is that
  the initial states are initial states of the abstract specification and every step is one
  of its steps or a stutter.

Every safety invariant and every action property that a run checks is a theorem.

The provers cannot instantiate the library's induction theorems, which take an operator. Where a
proof needs induction (`Induction_proof`) the property is given as the set of numbers that have
it, which a lemma can take as a parameter. No module has a RECURSIVE operator.

## What the models show of the code beyond the runs

- The status is determined again when a response is built. If the file of a GET
  has vanished since it was parsed, the GET branch sends the 404 without
  finishing it, and sends it again in the next pass.
- With a full buffer `recv` is asked for no bytes, returns 0, and the connection
  of a client that is still sending is closed.
- A file cut short while it is sent makes `sendfile` return 0 for ever; on TLS a
  file that cannot be opened any more ends the process in `fclose(NULL)`.
- A write to a TLS client that has gone raises SIGPIPE, which nothing ignores in spite
  of `vulnerabilities.txt`, lines 17-18. On a plain connection `send` passes `MSG_NOSIGNAL`
  and `sendfile` (line 650) cannot: a client that has shut down and resets while it is sent
  a file makes the socket report EPIPE, and the signal ends the process. After a reset
  without a shutdown the first error is ECONNRESET, and the connection is closed in time.
  `ServerStaysUp` names both ways, and the `fclose(NULL)`, and excludes every other.
- A CGI client that shuts down has its pipes counted off and not closed: `CounterExact`
  says by how many descriptors the counter is then behind. A program's exit makes its pipe
  readable, and the loop handles it as a connection (`SnapshotStable` and
  `server = "up"` fail with CGI requests).
- Three paths leave a closed descriptor in the sets (`ClosedNotWatched`): a failed
  `accept`, a CGI client that resets, and a pipe that is watched in the other direction,
  because it was handled as a connection or has the descriptor of one that was.
- The branch of `liso_handle_recv` that defers a client is never reached: `LimitHolds`.
  Where it could matter no more, after a failed `accept`, the counter can pass the limit.
- A program that writes before it has read all of a large body deadlocks with the server,
  each waiting for the other's pipe. `stdin_pipe` is closed only at the end of the request, so
  that a program that reads to the end of the file waits for ever. One that answers without
  reading, as flaskr's `abort(401)` does, can kill the server by SIGPIPE. If `fork` or
  `execve` failed the server waits for ever (`OnlyCarelessPrograms`).
- A GET of the CGI program has status 404, as there is no such file. What the client sends
  before the answer is complete is read and thrown away, and so is the rest of its pipeline;
  its end or reset goes unnoticed until a write fails (`OwnInput` and `OutputIntact` say up to
  where requests keep what is theirs, `Answered` excepts a pipeline that lost something).
- A program that ends before its output was sent whole makes its own input pipe readable,
  and the next select hands that descriptor to `liso_handle_recv`: the server crashes through
  the NULL request of the slot. That it mostly survives is because select is not called
  in between. A client whose reset makes `send` fail leaves closed pipes in the sets, and
  the server exits with EBADF at the next select.
- A program that raises before it has sent anything gives an empty answer, without even a
  status line.
- `contains_key` does not compare: a POST with a `TE` field and no length ends the process
  through NULL. The sixty-fifth field
  is written over the counter.
- Nothing tells a browser that asks again after a killed process whether its entry is
  stored: an entry may be there twice, under two requests. With two requests under way,
  the later answer restores the session it started from: a logout can be undone, a message
  shown twice. `FlashedOnce` and `SessionFollows` are claimed for browsers that wait.
- A file torn by a kill is taken for a complete one by most of the next run
  (`WrittenOnce` lists them), and only `--clear` heals those in `lib_dir`. After a move the
  absolute links `lib64` and `local` dangle and the next run raises. The mark of
  `--no-site-packages` leaks in from another environment's interpreter. A relative
  destination dodges the check against the environment's own interpreter.
- Every run of virtualenv ends with easy_install, which rewrites `easy-install.pth`. After a
  move the line of a package that was developed inside the environment leads nowhere, and
  the run that is to repair the environment drops it (`OwnersFilesKept`).
- When the directory cannot be written to and the tarball not be copied, the run ends with its
  progress line open: `start_progress` comes before the `try` (`LinesWhole`).
- With `--never-download`, an egg found by a relative path and a current directory that
  cannot be written to, the command fetches from the network, contrary to
  `docs/index.txt`, lines 316-318. `--relocatable` without `activate_this.py` reports it and makes
  scripts that do not start.

## Not modelled

- *Sequential, or without effect on decisions:* start-up, logger, error table, the signal
  handler (never installed), the functions of `liso_file_io.c` that nobody calls,
  `contains_value` and the printing helpers of the header table.
- *Text:* the scanning of a request below the kinds it tells apart, the wording of
  responses, the CGI environment variables, flaskr's templates, the scripts virtualenv embeds
  and the usage errors of its command line, `create_bootstrap_script`.
- *Arithmetic:* `super_fast_hash`, whose results on the names used are a table.
- *Negative* `Content-Length`s; the second server that a failed `execve` leaves behind, on
  the same sockets.
- *Memory that is overrun.* The parser fills fixed fields without a bound: `sscanf` at
  `http_parser.c:114` the URI and the version (the length is compared at line 142, when it is too
  late), and `parse_headers` its `header[64]`, `value[256]` and `content_length[32]` (150-152).
  What such a request overwrites is not modelled; of the method, whose field is the shortest,
  what is stored is (`StoredMethod`), and no run has one that is too long. `hash_add`'s write behind
  `keys[]` is modelled, what the process does afterwards is not.
- *Environments that depend on each other:* the one whose interpreter ran virtualenv, and
  to whose `distutils` links were made, stays where it is.
- *Elsewhere:* the reordering of `sys.path` in flaskr's start-up; `setup.py`; the second copy
  of virtualenv under `flaskr/templates`, the same file by file; the echo client and the
  checker, which belong to an echo server that this tree has no more.

## Plan

1. *(done)* `HttpParser`, `LisoConnection`, `RequestPipeline`; `LisoEngine`,
   `Sessions`; type correctness and `NotInterleaved` proved.
2. *(done)* `LisoHash` with `HeaderMap`; `LisoCgi` with `WsgiGateway`; `Flaskr`;
   `Virtualenv`.
3. *(done)* Proofs: all invariants and action properties that the runs check, the
   refinement of `HeaderMap`, the steps of the refinements of `RequestPipeline` and `Sessions`.
4. What could follow: the weaker forms of `SnapshotStable` and `WatchExact` that hold with CGI
   requests too, as `CounterExact` and `ClosedNotWatched` do.
