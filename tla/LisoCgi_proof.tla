----------------------------- MODULE LisoCgi_proof -----------------------------
(***************************************************************************)
(* A CGI program reads its own request's body and nothing else, flaskr's   *)
(* gateway keeps the rules of WSGI, and the loop and a careful program     *)
(* never wait for each other: for every pipeline of requests, every size   *)
(* of the buffer and every size of a pipe a header block and a block of    *)
(* data fit in.                                                            *)
(*                                                                         *)
(* The inductive invariant follows a body on its way: what is in the       *)
(* buffer, in the socket and still with the client rises, whatever is      *)
(* dropped of it, and before anything is dropped it is one run of          *)
(* consecutive units that begins with the one the connection expects       *)
(* (InStep); what is in the program's pipe are the last units written      *)
(* (Written); what the programs have taken is counted by request           *)
(* (Counted); and only a request behind the first during which input was   *)
(* dropped is passed over (Losing).  Phases says where the loop can be,    *)
(* Doing how far a careful program is, Headed what has been put out.       *)
(*                                                                         *)
(* A second invariant follows the answers the other way (Delivered): what  *)
(* the client has got is in the order of the requests, is all there of     *)
(* those that are answered, and of the one that is being answered it is,   *)
(* with what is in the pipe, what the events so far have put out.          *)
(***************************************************************************)
EXTENDS LisoCgi, FiniteSetTheorems, SequenceTheorems, TLAPS

Unit   == Nat \X Nat
Block  == Nat \X {"head", "data"}
Puts   == {<<>>, <<"head">>, <<"data">>, <<"head", "data">>}
States == {"none", "unforked", "server", "running", "raised", "exited"}
Connections ==
  [buf : Seq(Unit), request : Nat, hasRequestHeaders : BOOLEAN, postfinish : BOOLEAN,
   iindex : Nat, wfds : BOOLEAN, pipes : BOOLEAN, watched : BOOLEAN, astray : BOOLEAN,
   open : BOOLEAN]
Gateways ==
  [script : Seq(Events), headers_set : BOOLEAN, headers_sent : BOOLEAN, result : BOOLEAN,
   closed : BOOLEAN, state : States, put : Puts]
At == {"select", "process", "post", "write", "read", "killed", "crashed", "exited"}

Types ==
  /\ requests \in Pipelines
  /\ inbound \in Unit /\ inbound[1] >= 1 /\ socket \in Seq(Unit)
  /\ client \in {"open", "fin", "reset"}
  /\ got \in Seq(Block)
  /\ connection \in Connections
  /\ temp \subseteq {"recv", "send", "pipe"}
  /\ server \in At
  /\ writeSize \in Nat
  /\ stdin_pipe \in Seq(Unit) /\ stdout_pipe \in Seq(Block)
  /\ program \in Gateways
  /\ taken \in Seq([by : Nat, unit : Unit])
  /\ begun \subseteq Nat /\ lost \in Nat

\* Nothing grows beyond its room, and the request is one of the client's.
Sizes ==
  /\ Len(connection.buf) <= BufSize
  /\ Len(stdin_pipe) <= PipeSize /\ Len(stdout_pipe) <= PipeSize
  /\ connection.request <= Len(requests)

\* What is in the buffer b, then in the socket s, then the unit the client sends next.
Stream(b, s, u) ==
  [i \in 1..(Len(b) + Len(s) + 1) |->
     IF i <= Len(b) THEN b[i] ELSE IF i <= Len(b) + Len(s) THEN s[i - Len(b)] ELSE u]
Following(p, u) == IF u[2] < p[u[1]].body THEN <<u[1], u[2] + 1>> ELSE <<u[1] + 1, 0>>
Consecutive(p, b, s, u) ==
  \A i \in 1..(Len(b) + Len(s)) :
    Stream(b, s, u)[i + 1] = Following(p, Stream(b, s, u)[i]) /\ Stream(b, s, u)[i][1] <= Len(p)

\* Whatever is dropped of it, it rises from what the connection has had, and all but the last
\* unit of it is a part of one of the client's requests.
Later(u, v) == u[1] < v[1] \/ (u[1] = v[1] /\ u[2] < v[2])
Rising(p, b, s, u, x) ==
  /\ \A i \in 1..(Len(b) + Len(s) + 1) : Later(x, Stream(b, s, u)[i])
  /\ \A i, j \in 1..(Len(b) + Len(s) + 1) : i < j => Later(Stream(b, s, u)[i], Stream(b, s, u)[j])
  /\ \A i \in 1..(Len(b) + Len(s)) : Stream(b, s, u)[i][1] <= Len(p)
Had == <<connection.request, 0>>

\* Before anything is dropped it begins with the unit the connection expects.
Expected ==
  IF connection.hasRequestHeaders /\ connection.iindex < Now.body
    THEN <<connection.request, connection.iindex + 1>> ELSE <<connection.request + 1, 0>>
InStep ==
  /\ Rising(requests, connection.buf, socket, inbound, Had)
  /\ lost = 0 =>
       /\ Stream(connection.buf, socket, inbound)[1] = Expected
       /\ Consecutive(requests, connection.buf, socket, inbound)

\* What of the body is in the program's pipe.
Written ==
  connection.hasRequestHeaders =>
    /\ connection.request >= 1
    /\ connection.iindex <= Now.body /\ Len(stdin_pipe) <= connection.iindex
    /\ lost = 0 =>
         \A j \in DOMAIN stdin_pipe :
           stdin_pipe[j] = <<connection.request, connection.iindex - Len(stdin_pipe) + j>>

\* What the program of this request has read: what was written and is not in the pipe.
TakenBy(r, t) == {k \in DOMAIN t : t[k].by = r}
Read == connection.iindex - Len(stdin_pipe)
Counted ==
  /\ lost = 0 => \A k \in DOMAIN taken : taken[k].by <= connection.request
  /\ lost = 0 /\ connection.hasRequestHeaders =>
       Cardinality(TakenBy(connection.request, taken)) = Read
  /\ OwnInput

\* Input is dropped while the request has no body, and only what was dropped is passed over.
Losing ==
  /\ lost <= connection.request
  /\ lost # 0 /\ lost = connection.request /\ connection.hasRequestHeaders => Now.body = 0
  /\ \A r \in begun : r <= connection.request
  /\ connection.request >= 1 => connection.request \in begun
  /\ \A r \in 1..connection.request : r \in begun \/ (lost # 0 /\ lost < r)

\* Where the loop can be, and what select can have reported.
Phases ==
  /\ connection.pipes => connection.hasRequestHeaders
  /\ connection.open /\ connection.hasRequestHeaders => connection.pipes
  /\ connection.hasRequestHeaders <=> program.state # "none"
  /\ ~connection.hasRequestHeaders => stdout_pipe = <<>> /\ connection.iindex = 0
  /\ server \in {"process", "post", "write", "read", "killed"} => connection.open
  /\ server = "process" => connection.buf # <<>>
  /\ server \in {"post", "write", "read", "killed"} => connection.hasRequestHeaders
  /\ connection.wfds => connection.hasRequestHeaders /\ connection.iindex = Now.body
  /\ server = "read" => connection.wfds
  /\ server = "write" =>
       writeSize <= Len(connection.buf) /\ writeSize <= Now.body - connection.iindex
  /\ "recv" \in temp => connection.open /\ server = "select"
  /\ "send" \in temp => connection.open /\ connection.wfds /\ server # "read"

\* How far the program is: what is left of its script, and how much a careful one has read.
Done == Len(Now.script) - Len(program.script)
Doing ==
  connection.pipes =>
    /\ program.state = "running" =>
         /\ Len(program.script) <= Len(Now.script)
         /\ \A i \in DOMAIN program.script : program.script[i] = Now.script[Done + i]
         /\ Careful(Now) => Read = IF Done < Now.body THEN Done ELSE Now.body
    /\ program.state \in {"raised", "exited"} /\ Careful(Now) => Read = Now.body

Killed == server = "killed" => ~Careful(Now) \/ NotStarted

\* What was put out: the header block is the first of a request's, and only of one.
Out == got \o stdout_pipe
Headed ==
  /\ \A i \in DOMAIN Out : Out[i][1] <= connection.request
  /\ client # "reset" /\ connection.hasRequestHeaders =>
       (program.headers_sent <=> \E i \in DOMAIN Out : Out[i][1] = connection.request)
  /\ WsgiKept

IInv == /\ Types /\ Sizes /\ InStep /\ Written /\ Counted /\ Losing /\ Phases /\ Doing /\ Killed
        /\ Headed

-----------------------------------------------------------------------------
(* Facts about the data. *)

LEMMA RequestTypes ==
  ASSUME requests \in Pipelines, NEW r \in 1..Len(requests)
  PROVE  /\ requests[r].body \in Nat /\ requests[r].script \in Seq(Events)
         /\ requests[r].method \in {"GET", "POST"}
         /\ requests[r].method = "GET" => requests[r].body = 0
         /\ Len(requests) \in Nat
<1>1. requests \in Seq({q \in Request : q.method = "GET" => q.body = 0})
  BY CgiAssumption DEF CgiAssumption
<1>2. requests[r] \in {q \in Request : q.method = "GET" => q.body = 0}
  BY <1>1, ElementOfSeq
<1>3. Len(requests) \in Nat
  BY <1>1
<1> QED
  BY <1>2, <1>3 DEF Request

LEMMA RequestsLen ==
  ASSUME requests \in Pipelines PROVE Len(requests) \in Nat
  BY CgiAssumption DEF CgiAssumption

LEMMA FollowingType ==
  ASSUME requests \in Pipelines, NEW u \in Unit, u[1] \in 1..Len(requests)
  PROVE  After(u) = Following(requests, u) /\ After(u) \in Unit /\ After(u)[1] >= 1
  BY RequestTypes DEF After, Following, Unit

LEMMA SeqElements ==
  ASSUME NEW S, NEW t \in Seq(S) PROVE \A k \in DOMAIN t : t[k] \in S
  OBVIOUS

LEMMA MinOfTwo ==
  ASSUME NEW a \in Int, NEW b \in Int
  PROVE  /\ Min({a, b}) \in {a, b} /\ Min({a, b}) \in Int
         /\ Min({a, b}) <= a /\ Min({a, b}) <= b
<1>1. \E x \in {a, b} : \A y \in {a, b} : x =< y
  OBVIOUS
<1>2. Min({a, b}) \in {a, b} /\ \A y \in {a, b} : Min({a, b}) =< y
  BY <1>1 DEF Min
<1> QED
  BY <1>2

\* The stream does not depend on where the line between buffer and socket is drawn.
LEMMA StreamMoves ==
  ASSUME NEW b \in Seq(Unit), NEW s \in Seq(Unit), NEW u \in Unit, NEW n \in 0..Len(s)
  PROVE  /\ b \o SubSeq(s, 1, n) \in Seq(Unit) /\ SubSeq(s, n + 1, Len(s)) \in Seq(Unit)
         /\ Len(b \o SubSeq(s, 1, n)) = Len(b) + n
         /\ Stream(b \o SubSeq(s, 1, n), SubSeq(s, n + 1, Len(s)), u) = Stream(b, s, u)
<1> DEFINE f == SubSeq(s, 1, n)
           r == SubSeq(s, n + 1, Len(s))
<1>1. Len(b) \in Nat /\ Len(s) \in Nat /\ n \in Nat /\ n <= Len(s) /\ \A i \in 1..Len(s) : s[i] \in Unit
  BY ElementOfSeq
<1>2. f \in Seq(Unit) /\ Len(f) = n /\ \A i \in 1..n : f[i] = s[i]
  BY <1>1, SubSeqProperties
<1>3. /\ r \in Seq(Unit) /\ Len(r) = Len(s) - n
      /\ \A i \in 1..(Len(s) - n) : r[i] = s[n + i]
  BY <1>1, SubSeqProperties
<1> HIDE DEF f, r
<1>4. /\ b \o f \in Seq(Unit) /\ Len(b \o f) = Len(b) + n
      /\ \A i \in 1..(Len(b) + n) : (b \o f)[i] = IF i <= Len(b) THEN b[i] ELSE s[i - Len(b)]
  <2>1. /\ b \o f \in Seq(Unit) /\ Len(b \o f) = Len(b) + Len(f)
        /\ \A i \in 1..(Len(b) + Len(f)) :
             (b \o f)[i] = IF i <= Len(b) THEN b[i] ELSE f[i - Len(b)]
    BY <1>2, ConcatProperties, Zenon
  <2> QED
    BY <1>1, <1>2, <2>1
<1>5. Stream(b \o f, r, u) = Stream(b, s, u)
  <2>1. Len(b \o f) + Len(r) = Len(b) + Len(s)
    BY <1>1, <1>3, <1>4
  <2>2. \A i \in 1..(Len(b) + Len(s) + 1) :
          (IF i <= Len(b \o f) THEN (b \o f)[i]
           ELSE IF i <= Len(b \o f) + Len(r) THEN r[i - Len(b \o f)] ELSE u)
          = (IF i <= Len(b) THEN b[i] ELSE IF i <= Len(b) + Len(s) THEN s[i - Len(b)] ELSE u)
    <3> TAKE i \in 1..(Len(b) + Len(s) + 1)
    <3>1. CASE i <= Len(b)
      BY <3>1, <1>1, <1>4
    <3>2. CASE i > Len(b) /\ i <= Len(b) + n
      BY <3>2, <1>1, <1>4
    <3>3. CASE i > Len(b) + n /\ i <= Len(b) + Len(s)
      <4>1. i - Len(b \o f) \in 1..(Len(s) - n) /\ n + (i - Len(b \o f)) = i - Len(b)
        BY <3>3, <1>1, <1>4
      <4>2. r[i - Len(b \o f)] = s[i - Len(b)]
        BY <4>1, <1>3
      <4> QED
        BY <4>2, <3>3, <1>1, <1>3, <1>4
    <3>4. CASE i > Len(b) + Len(s)
      BY <3>4, <1>1, <1>3, <1>4
    <3> QED
      BY <3>1, <3>2, <3>3, <3>4, <1>1
  <2> QED
    BY <2>1, <2>2 DEF Stream
<1> QED
  BY <1>3, <1>4, <1>5 DEF f, r

LEMMA StreamUnits ==
  ASSUME NEW b \in Seq(Unit), NEW s \in Seq(Unit), NEW u \in Unit,
         NEW i \in 1..(Len(b) + Len(s) + 1)
  PROVE  Stream(b, s, u)[i] \in Unit
<1>1. /\ Len(b) \in Nat /\ Len(s) \in Nat /\ \A k \in 1..Len(b) : b[k] \in Unit
      /\ \A k \in 1..Len(s) : s[k] \in Unit
  BY ElementOfSeq
<1>2. CASE i <= Len(b)
  BY <1>1, <1>2 DEF Stream
<1>3. CASE i > Len(b) /\ i <= Len(b) + Len(s)
  <2>1. i - Len(b) \in 1..Len(s)
    BY <1>1, <1>3
  <2> QED
    BY <1>1, <1>3, <2>1 DEF Stream
<1>4. CASE i > Len(b) + Len(s)
  BY <1>1, <1>4 DEF Stream
<1> QED
  BY <1>1, <1>2, <1>3, <1>4

\* The first unit of the buffer is taken; the rest of the stream moves up.
LEMMA StreamTail ==
  ASSUME NEW b \in Seq(Unit), b # <<>>, NEW s \in Seq(Unit), NEW u \in Unit
  PROVE  /\ Len(b) \in Nat /\ Len(b) > 0 /\ Len(s) \in Nat /\ Head(b) = Stream(b, s, u)[1]
         /\ Head(b) \in Unit /\ Tail(b) \in Seq(Unit) /\ Len(Tail(b)) = Len(b) - 1
         /\ \A i \in 1..(Len(b) + Len(s)) : Stream(Tail(b), s, u)[i] = Stream(b, s, u)[i + 1]
<1> DEFINE t == Tail(b)
<1>1. /\ Len(b) \in Nat /\ Len(b) > 0 /\ Len(s) \in Nat /\ Head(b) = b[1] /\ b[1] \in Unit
      /\ t \in Seq(Unit) /\ Len(t) = Len(b) - 1 /\ \A i \in 1..(Len(b) - 1) : t[i] = b[i + 1]
  BY HeadTailProperties, EmptySeq
<1> HIDE DEF t
<1>2. ASSUME NEW i \in 1..(Len(b) + Len(s))
      PROVE  Stream(t, s, u)[i] = Stream(b, s, u)[i + 1]
  <2>0. i \in 1..(Len(t) + Len(s) + 1)
    BY <1>1
  <2>1. CASE i <= Len(t)
    BY <2>0, <2>1, <1>1 DEF Stream
  <2>2. CASE i > Len(t)
    <3>1. i - Len(t) = (i + 1) - Len(b)
      BY <1>1
    <3> QED
      BY <2>0, <2>2, <3>1, <1>1 DEF Stream
  <2> QED
    BY <2>1, <2>2, <1>1
<1>3. Stream(b, s, u)[1] = b[1]
  BY <1>1 DEF Stream
<1> QED
  BY <1>1, <1>2, <1>3 DEF t

LEMMA StreamAdvances ==
  ASSUME NEW p, NEW b \in Seq(Unit), b # <<>>, NEW s \in Seq(Unit), NEW u \in Unit,
         Consecutive(p, b, s, u)
  PROVE  /\ Consecutive(p, Tail(b), s, u)
         /\ Stream(Tail(b), s, u)[1] = Following(p, Stream(b, s, u)[1])
<1> DEFINE t == Tail(b)
<1>1. /\ Len(b) \in Nat /\ Len(b) > 0 /\ Len(s) \in Nat /\ Len(t) = Len(b) - 1
      /\ \A i \in 1..(Len(b) + Len(s)) : Stream(t, s, u)[i] = Stream(b, s, u)[i + 1]
  BY StreamTail
<1> HIDE DEF t
<1>2. Stream(b, s, u)[1 + 1] = Following(p, Stream(b, s, u)[1])
  BY <1>1 DEF Consecutive
<1>3. Stream(t, s, u)[1] = Stream(b, s, u)[1 + 1]
  BY <1>1
<1>4. Consecutive(p, t, s, u)
  <2> SUFFICES ASSUME NEW i \in 1..(Len(t) + Len(s))
               PROVE  /\ Stream(t, s, u)[i + 1] = Following(p, Stream(t, s, u)[i])
                      /\ Stream(t, s, u)[i][1] <= Len(p)
    BY DEF Consecutive
  <2>1. i + 1 \in 1..(Len(b) + Len(s)) /\ i \in 1..(Len(b) + Len(s))
    BY <1>1
  <2>2. /\ Stream(b, s, u)[(i + 1) + 1] = Following(p, Stream(b, s, u)[i + 1])
        /\ Stream(b, s, u)[i + 1][1] <= Len(p)
    BY <2>1 DEF Consecutive
  <2> QED
    BY <1>1, <2>1, <2>2
<1> QED
  BY <1>2, <1>3, <1>4 DEF t

LEMMA LaterIs ==
  ASSUME NEW u \in Unit, NEW v \in Unit, NEW w \in Unit, Later(u, v), Later(v, w)
  PROVE  Later(u, w)
  BY DEF Later, Unit

LEMMA RisingAdvances ==
  ASSUME NEW p, NEW b \in Seq(Unit), b # <<>>, NEW s \in Seq(Unit), NEW u \in Unit, NEW x,
         Rising(p, b, s, u, x)
  PROVE  /\ Rising(p, Tail(b), s, u, Head(b)) /\ Rising(p, Tail(b), s, u, x)
         /\ Later(x, Head(b)) /\ Head(b)[1] <= Len(p)
<1> DEFINE t == Tail(b)
           h == Head(b)
           S(i) == Stream(b, s, u)[i]
           T(i) == Stream(t, s, u)[i]
<1>1. /\ Len(b) \in Nat /\ Len(b) > 0 /\ Len(s) \in Nat /\ Len(t) = Len(b) - 1 /\ h = S(1)
      /\ \A i \in 1..(Len(b) + Len(s)) : T(i) = S(i + 1)
  BY StreamTail
<1>2. /\ \A i \in 1..(Len(b) + Len(s) + 1) : Later(x, S(i))
      /\ \A i, j \in 1..(Len(b) + Len(s) + 1) : i < j => Later(S(i), S(j))
      /\ \A i \in 1..(Len(b) + Len(s)) : S(i)[1] <= Len(p)
  BY DEF Rising
<1> HIDE DEF t, h, S, T
<1>3. ASSUME NEW i \in 1..(Len(t) + Len(s) + 1)
      PROVE  Later(x, T(i)) /\ Later(h, T(i))
  <2>1. i \in 1..(Len(b) + Len(s)) /\ i + 1 \in 1..(Len(b) + Len(s) + 1) /\ 1 < i + 1
        /\ 1 \in 1..(Len(b) + Len(s) + 1)
    BY <1>1
  <2>2. Later(x, S(i + 1)) /\ Later(S(1), S(i + 1))
    BY <1>2, <2>1
  <2> QED
    BY <1>1, <2>1, <2>2
<1>4. ASSUME NEW i \in 1..(Len(t) + Len(s) + 1), NEW j \in 1..(Len(t) + Len(s) + 1), i < j
      PROVE  Later(T(i), T(j))
  <2>1. /\ i \in 1..(Len(b) + Len(s)) /\ i + 1 \in 1..(Len(b) + Len(s) + 1) /\ i + 1 < j + 1
        /\ j \in 1..(Len(b) + Len(s)) /\ j + 1 \in 1..(Len(b) + Len(s) + 1)
    BY <1>1, <1>4
  <2>2. Later(S(i + 1), S(j + 1))
    BY <1>2, <2>1
  <2> QED
    BY <1>1, <2>1, <2>2
<1>5. ASSUME NEW i \in 1..(Len(t) + Len(s))
      PROVE  T(i)[1] <= Len(p)
  <2>1. i \in 1..(Len(b) + Len(s)) /\ i + 1 \in 1..(Len(b) + Len(s))
    BY <1>1
  <2> QED
    BY <1>1, <1>2, <2>1
<1>6. Later(x, h) /\ h[1] <= Len(p)
  <2>1. 1 \in 1..(Len(b) + Len(s)) /\ 1 \in 1..(Len(b) + Len(s) + 1)
    BY <1>1
  <2> QED
    BY <1>1, <1>2, <2>1
<1> QED
  BY <1>3, <1>4, <1>5, <1>6 DEF Rising, t, h, S, T

\* The client's next unit goes into the socket.
LEMMA StreamAppend ==
  ASSUME NEW b \in Seq(Unit), NEW s \in Seq(Unit), NEW u \in Unit, NEW v
  PROVE  /\ Len(b) \in Nat /\ Len(s) \in Nat /\ Len(Append(s, u)) = Len(s) + 1
         /\ \A i \in 1..(Len(b) + Len(s) + 1) :
              Stream(b, Append(s, u), v)[i] = Stream(b, s, u)[i]
         /\ Stream(b, Append(s, u), v)[Len(b) + Len(s) + 2] = v
         /\ Stream(b, s, u)[Len(b) + Len(s) + 1] = u
<1> DEFINE t == Append(s, u)
<1>1. /\ Len(b) \in Nat /\ Len(s) \in Nat /\ t \in Seq(Unit) /\ Len(t) = Len(s) + 1
      /\ t[Len(s) + 1] = u /\ \A i \in 1..Len(s) : t[i] = s[i]
  OBVIOUS
<1> HIDE DEF t
<1>2. ASSUME NEW i \in 1..(Len(b) + Len(s) + 1)
      PROVE  Stream(b, t, v)[i] = Stream(b, s, u)[i]
  <2>0. i \in 1..(Len(b) + Len(t) + 1)
    BY <1>1
  <2>1. CASE i <= Len(b)
    <3>1. Stream(b, t, v)[i] = b[i]
      BY <2>0, <2>1 DEF Stream
    <3>2. Stream(b, s, u)[i] = b[i]
      BY <2>1 DEF Stream
    <3> QED
      BY <3>1, <3>2
  <2>4. CASE i > Len(b) /\ i <= Len(b) + Len(s)
    <3>1. ~(i <= Len(b)) /\ i <= Len(b) + Len(t) /\ i - Len(b) \in 1..Len(s)
      BY <2>4, <1>1
    <3>2. Stream(b, t, v)[i] = t[i - Len(b)]
      BY <2>0, <3>1 DEF Stream
    <3>3. Stream(b, s, u)[i] = s[i - Len(b)]
      BY <2>4, <3>1 DEF Stream
    <3>4. t[i - Len(b)] = s[i - Len(b)]
      BY <3>1, <1>1
    <3> QED
      BY <3>2, <3>3, <3>4
  <2>2. CASE i = Len(b) + Len(s) + 1
    <3>1. /\ i - Len(b) = Len(s) + 1 /\ ~(i <= Len(b)) /\ i <= Len(b) + Len(t)
          /\ ~(i <= Len(b) + Len(s))
      BY <2>2, <1>1
    <3>2. Stream(b, t, v)[i] = t[i - Len(b)]
      BY <2>0, <3>1 DEF Stream
    <3>3. Stream(b, s, u)[i] = u
      BY <3>1 DEF Stream
    <3> QED
      BY <3>1, <3>2, <3>3, <1>1
  <2>3. i <= Len(b) \/ (i > Len(b) /\ i <= Len(b) + Len(s)) \/ i = Len(b) + Len(s) + 1
    <3> DEFINE k == Len(b) + Len(s)
    <3>1. i \in Nat /\ k \in Nat /\ i <= k + 1
      BY <1>1
    <3> HIDE DEF k
    <3>2. i <= k \/ i = k + 1
      BY <3>1
    <3> QED
      BY <3>2, <1>1 DEF k
  <2> QED
    BY <2>1, <2>2, <2>3, <2>4
<1>3. /\ Stream(b, t, v)[Len(b) + Len(s) + 2] = v
      /\ Stream(b, s, u)[Len(b) + Len(s) + 1] = u
  BY <1>1 DEF Stream
<1> QED
  BY <1>1, <1>2, <1>3 DEF t

LEMMA StreamGrows ==
  ASSUME NEW p, NEW b \in Seq(Unit), NEW s \in Seq(Unit), NEW u \in Unit, Consecutive(p, b, s, u),
         u[1] <= Len(p), NEW v, v = Following(p, u)
  PROVE  /\ Consecutive(p, b, Append(s, u), v)
         /\ Stream(b, Append(s, u), v)[1] = Stream(b, s, u)[1]
<1> DEFINE t == Append(s, u)
           k == Len(b) + Len(s)
<1>1. /\ k \in Nat /\ Len(b) + Len(t) = k + 1
      /\ \A i \in 1..(k + 1) : Stream(b, t, v)[i] = Stream(b, s, u)[i]
      /\ Stream(b, t, v)[k + 2] = v /\ Stream(b, s, u)[k + 1] = u
  BY StreamAppend
<1>2. \A i \in 1..k : Stream(b, s, u)[i + 1] = Following(p, Stream(b, s, u)[i])
                      /\ Stream(b, s, u)[i][1] <= Len(p)
  BY DEF Consecutive
<1> HIDE DEF t, k
<1>3. ASSUME NEW i \in 1..(k + 1)
      PROVE  /\ Stream(b, t, v)[i + 1] = Following(p, Stream(b, t, v)[i])
             /\ Stream(b, t, v)[i][1] <= Len(p)
  <2>1. CASE i <= k
    <3>1. i \in 1..k /\ i + 1 \in 1..(k + 1)
      BY <2>1, <1>1
    <3> QED
      BY <1>1, <1>2, <3>1
  <2>2. CASE i = k + 1
    <3>1. i + 1 = k + 2
      BY <2>2, <1>1
    <3> QED
      BY <1>1, <2>2, <3>1
  <2> QED
    BY <2>1, <2>2, <1>1
<1>4. Consecutive(p, b, t, v)
  BY <1>1, <1>3 DEF Consecutive
<1>5. 1 \in 1..(k + 1)
  BY <1>1
<1> QED
  BY <1>1, <1>4, <1>5 DEF t

LEMMA RisingGrows ==
  ASSUME NEW p, NEW b \in Seq(Unit), NEW s \in Seq(Unit), NEW u \in Unit, NEW x \in Unit,
         Rising(p, b, s, u, x), u[1] <= Len(p), NEW v \in Unit, v = Following(p, u)
  PROVE  Rising(p, b, Append(s, u), v, x)
<1> DEFINE t == Append(s, u)
           k == Len(b) + Len(s)
           S(i) == Stream(b, s, u)[i]
           T(i) == Stream(b, t, v)[i]
<1>1. /\ k \in Nat /\ Len(b) + Len(t) = k + 1 /\ \A i \in 1..(k + 1) : T(i) = S(i)
      /\ T(k + 2) = v /\ S(k + 1) = u
  BY StreamAppend, SMTT(60)
<1>2. /\ \A i \in 1..(k + 1) : Later(x, S(i))
      /\ \A i, j \in 1..(k + 1) : i < j => Later(S(i), S(j))
      /\ \A i \in 1..k : S(i)[1] <= Len(p)
  BY DEF Rising
<1>3. \A i \in 1..(k + 1) : S(i) \in Unit
  BY StreamUnits
<1>4. Later(u, v)
  BY DEF Later, Following, Unit
<1> HIDE DEF t, k, S, T
<1>5. ASSUME NEW i \in 1..(k + 1) PROVE Later(S(i), v)
  <2>1. CASE i = k + 1
    BY <1>1, <1>4, <2>1
  <2>2. CASE i # k + 1
    <3>1. i < k + 1 /\ k + 1 \in 1..(k + 1)
      BY <1>1, <2>2
    <3>2. Later(S(i), u)
      BY <1>1, <1>2, <3>1
    <3> QED
      BY <1>3, <1>4, <3>2, LaterIs
  <2> QED
    BY <2>1, <2>2
<1>6. ASSUME NEW i \in 1..(k + 2)
      PROVE  i \in 1..(k + 1) \/ i = k + 2
  BY <1>1
<1>7. ASSUME NEW i \in 1..(k + 2) PROVE Later(x, T(i))
  <2>1. CASE i \in 1..(k + 1)
    BY <1>1, <1>2, <2>1
  <2>2. CASE i = k + 2
    <3>1. Later(x, u) /\ k + 1 \in 1..(k + 1)
      BY <1>1, <1>2
    <3> QED
      BY <1>1, <1>4, <2>2, <3>1, LaterIs
  <2> QED
    BY <1>6, <2>1, <2>2
<1>8. ASSUME NEW i \in 1..(k + 2), NEW j \in 1..(k + 2), i < j
      PROVE  Later(T(i), T(j))
  <2>1. i \in 1..(k + 1)
    BY <1>1, <1>8
  <2>2. CASE j \in 1..(k + 1)
    BY <1>1, <1>2, <1>8, <2>1, <2>2
  <2>3. CASE j = k + 2
    BY <1>1, <1>5, <2>1, <2>3
  <2> QED
    BY <1>6, <2>2, <2>3
<1>9. ASSUME NEW i \in 1..(k + 1) PROVE T(i)[1] <= Len(p)
  <2>1. i \in 1..k \/ i = k + 1
    BY <1>1
  <2> QED
    BY <1>1, <1>2, <2>1
<1>10. (Len(b) + Len(t)) + 1 = k + 2
  BY <1>1
<1> QED
  BY <1>1, <1>7, <1>8, <1>9, <1>10 DEF Rising, t, S, T

\* Units are dropped from the socket.
LEMMA RisingDrops ==
  ASSUME NEW p, NEW b \in Seq(Unit), NEW s \in Seq(Unit), NEW u \in Unit, NEW n \in 0..Len(s),
         NEW x, Rising(p, b, s, u, x)
  PROVE  /\ SubSeq(s, n + 1, Len(s)) \in Seq(Unit)
         /\ Rising(p, b, SubSeq(s, n + 1, Len(s)), u, x)
<1> DEFINE r == SubSeq(s, n + 1, Len(s))
           S(i) == Stream(b, s, u)[i]
           T(i) == Stream(b, r, u)[i]
           f(i) == IF i <= Len(b) THEN i ELSE i + n
<1>1. Len(b) \in Nat /\ Len(s) \in Nat /\ n \in Nat /\ n <= Len(s) /\ \A i \in 1..Len(s) : s[i] \in Unit
  BY ElementOfSeq
<1>2. r \in Seq(Unit) /\ Len(r) = Len(s) - n /\ \A i \in 1..(Len(s) - n) : r[i] = s[n + i]
  BY <1>1, SubSeqProperties
<1>3. /\ \A i \in 1..(Len(b) + Len(s) + 1) : Later(x, S(i))
      /\ \A i, j \in 1..(Len(b) + Len(s) + 1) : i < j => Later(S(i), S(j))
      /\ \A i \in 1..(Len(b) + Len(s)) : S(i)[1] <= Len(p)
  BY DEF Rising
<1> HIDE DEF r, S, T
<1>4. ASSUME NEW i \in 1..(Len(b) + Len(r) + 1)
      PROVE  T(i) = S(f(i)) /\ f(i) \in 1..(Len(b) + Len(s) + 1)
  <2>1. CASE i <= Len(b)
    <3>1. i \in 1..(Len(b) + Len(s) + 1)
      BY <1>1, <2>1
    <3> QED
      BY <2>1, <3>1 DEF S, T, Stream
  <2>2. CASE i > Len(b) /\ i <= Len(b) + Len(r)
    <3>1. /\ i + n \in 1..(Len(b) + Len(s) + 1) /\ ~(i + n <= Len(b)) /\ ~(i <= Len(b))
          /\ i + n <= Len(b) + Len(s) /\ i - Len(b) \in 1..(Len(s) - n)
          /\ n + (i - Len(b)) = (i + n) - Len(b)
      BY <1>1, <1>2, <2>2
    <3>2. T(i) = r[i - Len(b)]
      BY <2>2, <3>1 DEF T, Stream
    <3>3. S(i + n) = s[(i + n) - Len(b)]
      BY <3>1 DEF S, Stream
    <3>4. r[i - Len(b)] = s[(i + n) - Len(b)]
      BY <1>2, <3>1
    <3> QED
      BY <3>1, <3>2, <3>3, <3>4
  <2>3. CASE i > Len(b) + Len(r)
    <3>1. /\ i + n \in 1..(Len(b) + Len(s) + 1) /\ ~(i + n <= Len(b)) /\ ~(i <= Len(b))
          /\ ~(i + n <= Len(b) + Len(s)) /\ ~(i <= Len(b) + Len(r))
      BY <1>1, <1>2, <2>3
    <3>2. T(i) = u
      BY <3>1 DEF T, Stream
    <3>3. S(i + n) = u
      BY <3>1 DEF S, Stream
    <3> QED
      BY <3>1, <3>2, <3>3
  <2> QED
    BY <1>1, <1>2, <2>1, <2>2, <2>3
<1>5. ASSUME NEW i \in 1..(Len(b) + Len(r) + 1), NEW j \in 1..(Len(b) + Len(r) + 1), i < j
      PROVE  f(i) < f(j)
  BY <1>1, <1>2, <1>5
<1>6. ASSUME NEW i \in 1..(Len(b) + Len(r))
      PROVE  i \in 1..(Len(b) + Len(r) + 1) /\ f(i) \in 1..(Len(b) + Len(s))
  BY <1>1, <1>2
<1> HIDE DEF f
<1>7. \A i \in 1..(Len(b) + Len(r) + 1) : Later(x, T(i))
  BY <1>3, <1>4
<1>8. \A i, j \in 1..(Len(b) + Len(r) + 1) : i < j => Later(T(i), T(j))
  BY <1>3, <1>4, <1>5
<1>9. \A i \in 1..(Len(b) + Len(r)) : T(i)[1] <= Len(p)
  BY <1>3, <1>4, <1>6
<1> QED
  BY <1>2, <1>7, <1>8, <1>9 DEF Rising, r, T

-----------------------------------------------------------------------------
(* What the gateway does in a step. *)

LEMMA ProcessIs ==
  ASSUME NEW st \in States, NEW text \in Seq(Events)
  PROVE  /\ Process(st, text) \in Gateways /\ Process(st, text).state = st
         /\ Process(st, text).script = text /\ Process(st, text).headers_sent = FALSE
         /\ Process(st, text).headers_set = FALSE
         /\ Process(st, text).result = FALSE /\ Process(st, text).closed = FALSE
<1> DEFINE n == [script |-> text, headers_set |-> FALSE, headers_sent |-> FALSE,
                 result |-> FALSE, closed |-> FALSE, state |-> "running", put |-> <<>>]
<1>1. Process(st, text) = [n EXCEPT !.state = st]
  BY DEF Process, NewGateway
<1>2. /\ n \in Gateways /\ n.script = text /\ n.headers_sent = FALSE /\ n.result = FALSE
      /\ n.closed = FALSE /\ n.headers_set = FALSE
  BY DEF Gateways, States, Puts
<1> HIDE DEF n
<1> QED
  BY <1>1, <1>2 DEF Gateways

LEMMA PutsAre ==
  ASSUME NEW p \in Puts, NEW r \in Nat
  PROVE  /\ Put(r, p) \in Seq(Block) /\ Len(Put(r, p)) = Len(p) /\ Len(p) \in 0..2
         /\ \A i \in 1..Len(p) : Put(r, p)[i] = <<r, p[i]>>
         /\ p # <<>> => (Len(p) >= 1 /\ (p[1] = "head" \/ p = <<"data">>))
         /\ \A i \in 2..Len(p) : p[i] = "data"
<1>1. p = <<>> \/ p = <<"head">> \/ p = <<"data">> \/ p = <<"head", "data">>
  BY DEF Puts
<1>2. p \in Seq({"head", "data"}) /\ Len(p) \in 0..2 /\ DOMAIN p = 1..Len(p)
  <2>1. CASE p = <<>>
    BY <2>1
  <2>2. CASE p = <<"head">>
    BY <2>2
  <2>3. CASE p = <<"data">>
    BY <2>3
  <2>4. CASE p = <<"head", "data">>
    BY <2>4
  <2> QED
    BY <1>1, <2>1, <2>2, <2>3, <2>4
<1>3. Put(r, p) = [i \in 1..Len(p) |-> <<r, p[i]>>]
  BY <1>2 DEF Put
<1>4. \A i \in 1..Len(p) : <<r, p[i]>> \in Block
  BY <1>2 DEF Block
<1>5. Put(r, p) \in [1..Len(p) -> Block] /\ Len(p) \in Nat
  BY <1>2, <1>3, <1>4
<1>6. Put(r, p) \in Seq(Block)
  BY <1>5
<1>7. Len(Put(r, p)) = Len(p)
  BY <1>3, <1>2
<1> QED
  BY <1>1, <1>2, <1>3, <1>6, <1>7

LEMMA RaisedIs ==
  ASSUME NEW g \in Gateways
  PROVE  /\ Raised(g) \in Gateways /\ Raised(g).state = "raised" /\ Raised(g).put = <<>>
         /\ Raised(g).script = g.script /\ Raised(g).headers_sent = g.headers_sent
         /\ Raised(g).result = g.result /\ Raised(g).closed = g.result
  BY DEF Raised, Gateways, States, Puts

LEMMA WriteIs ==
  ASSUME NEW g \in Gateways, NEW data \in {<<>>, <<"data">>}, NEW h, h = write(g, data)
  PROVE  /\ h \in Gateways /\ h.script = g.script /\ h.result = g.result
         /\ ~g.headers_set => h = Raised(g)
         /\ g.headers_set =>
              /\ h.state = g.state /\ h.closed = g.closed /\ h.headers_sent /\ h.headers_set
              /\ g.headers_sent => h.put = data
              /\ ~g.headers_sent =>
                   h.put # <<>> /\ h.put[1] = "head" /\ Len(h.put) = 1 + Len(data)
<1>1. CASE ~g.headers_set
  BY <1>1, RaisedIs DEF write
<1>2. CASE g.headers_set
  <2> DEFINE p == (IF g.headers_sent THEN <<>> ELSE <<"head">>) \o data
  <2>1. /\ p \in Puts /\ (g.headers_sent => p = data)
        /\ ~g.headers_sent => p # <<>> /\ p[1] = "head" /\ Len(p) = 1 + Len(data)
    <3>1. /\ <<>> \o <<>> = <<>> /\ <<>> \o <<"data">> = <<"data">>
          /\ <<"head">> \o <<>> = <<"head">> /\ <<"head">> \o <<"data">> = <<"head", "data">>
      <4>1. /\ <<>> \in Seq({"head", "data"}) /\ <<"data">> \in Seq({"head", "data"})
            /\ <<"head">> \in Seq({"head", "data"})
        OBVIOUS
      <4>2. <<"head">> \o <<"data">> = <<"head", "data">>
        <5> DEFINE a == <<"head">>
                   b == <<"data">>
                   c == <<"head", "data">>
        <5>1. /\ a \in Seq({"head", "data"}) /\ Len(a) = 1 /\ a[1] = "head"
              /\ b \in Seq({"head", "data"}) /\ Len(b) = 1 /\ b[1] = "data"
              /\ c \in Seq({"head", "data"}) /\ Len(c) = 2 /\ c[1] = "head" /\ c[2] = "data"
          OBVIOUS
        <5> HIDE DEF a, b, c
        <5>2. /\ a \o b \in Seq({"head", "data"}) /\ Len(a \o b) = Len(a) + Len(b)
              /\ \A i \in 1..(Len(a) + Len(b)) :
                   (a \o b)[i] = IF i <= Len(a) THEN a[i] ELSE b[i - Len(a)]
          BY <5>1, ConcatProperties, Zenon
        <5>3. \A i \in 1..2 : (a \o b)[i] = c[i]
          BY <5>1, <5>2
        <5>4. a \o b = c
          BY <5>1, <5>2, <5>3, SeqEqual
        <5> QED
          BY <5>4 DEF a, b, c
      <4> QED
        BY <4>1, <4>2, ConcatEmptySeq
    <3>2. CASE g.headers_sent
      <4>1. p = data
        BY <3>1, <3>2
      <4> QED
        BY <4>1, <3>2 DEF Puts
    <3>3. CASE ~g.headers_sent
      <4>1. \/ p = <<"head">> /\ data = <<>>
            \/ p = <<"head", "data">> /\ data = <<"data">>
        BY <3>1, <3>3
      <4>2. p \in Puts
        BY <4>1 DEF Puts
      <4> HIDE DEF p
      <4>3. p # <<>> /\ p[1] = "head" /\ Len(p) = 1 + Len(data)
        <5>1. CASE p = <<"head">> /\ data = <<>>
          BY <5>1
        <5>2. CASE p = <<"head", "data">> /\ data = <<"data">>
          BY <5>2
        <5> QED
          BY <4>1, <5>1, <5>2
      <4> QED
        BY <4>2, <4>3, <3>3
    <3> QED
      BY <3>2, <3>3
  <2> HIDE DEF p
  <2>2. h = [g EXCEPT !.headers_sent = TRUE, !.put = p]
    BY <1>2 DEF write, p
  <2>3. h \in Gateways /\ h.script = g.script /\ h.result = g.result /\ h.state = g.state
        /\ h.closed = g.closed /\ h.headers_sent = TRUE /\ h.put = p
        /\ h.headers_set = g.headers_set
    BY <2>1, <2>2 DEF Gateways
  <2> QED
    BY <1>2, <2>1, <2>3
<1> QED
  BY <1>1, <1>2

LEMMA StartIs ==
  ASSUME NEW g \in Gateways, NEW x \in BOOLEAN, NEW h, h = start_response(g, x)
  PROVE  /\ h \in Gateways /\ h.put = <<>> /\ h.script = g.script
         /\ h.headers_sent = g.headers_sent
         /\ IF (x /\ g.headers_sent) \/ (~x /\ g.headers_set)
              THEN h.state = "raised" /\ h.closed = h.result
              ELSE h.state = g.state /\ h.headers_set
<1>1. CASE (x /\ g.headers_sent) \/ (~x /\ g.headers_set)
  BY <1>1, RaisedIs DEF start_response
<1>2. CASE ~((x /\ g.headers_sent) \/ (~x /\ g.headers_set))
  <2>1. h = [g EXCEPT !.headers_set = TRUE, !.put = <<>>]
    BY <1>2 DEF start_response
  <2>2. /\ h \in Gateways /\ h.put = <<>> /\ h.script = g.script
        /\ h.headers_sent = g.headers_sent /\ h.state = g.state /\ h.headers_set = TRUE
    BY <2>1 DEF Gateways, Puts
  <2> QED
    BY <1>2, <2>2
<1> QED
  BY <1>1, <1>2

LEMMA FinishedIs ==
  ASSUME NEW g \in Gateways, g.state = "running", NEW h, h = Finished(g)
  PROVE  /\ h \in Gateways /\ h.state \in {"raised", "exited"} /\ h.closed
         /\ h.put # <<>> => h.headers_sent /\ ~g.headers_sent /\ h.put[1] = "head"
         /\ h.put = <<>> => h.headers_sent = g.headers_sent
         /\ h.state = "raised" => h.headers_sent = g.headers_sent
         /\ h.state = "exited" => h.headers_sent
         /\ Len(h.put) = IF g.headers_set /\ ~g.headers_sent THEN 1 ELSE 0
<1> DEFINE last == IF g.headers_sent THEN [g EXCEPT !.put = <<>>] ELSE write(g, <<>>)
<1>1. /\ last \in Gateways /\ last.state \in {"raised", "running"}
      /\ last.put # <<>> => last.headers_sent /\ ~g.headers_sent /\ last.put[1] = "head"
      /\ last.put = <<>> => last.headers_sent = g.headers_sent
      /\ last.state = "raised" => last.headers_sent = g.headers_sent
      /\ last.state = "running" => last.headers_sent
      /\ Len(last.put) = IF g.headers_set /\ ~g.headers_sent THEN 1 ELSE 0
  <2>1. CASE g.headers_sent
    BY <2>1 DEF Gateways, Puts
  <2>2. CASE ~g.headers_sent
    <3>1. last = write(g, <<>>)
      BY <2>2
    <3> HIDE DEF last
    <3>2. /\ last \in Gateways
          /\ ~g.headers_set => last = Raised(g)
          /\ g.headers_set =>
               /\ last.state = g.state /\ last.headers_sent
               /\ last.put # <<>> /\ last.put[1] = "head" /\ Len(last.put) = 1
      BY <2>2, <3>1, WriteIs
    <3>3. CASE g.headers_set
      BY <2>2, <3>2, <3>3
    <3>4. CASE ~g.headers_set
      BY <2>2, <3>2, <3>4, RaisedIs
    <3> QED
      BY <3>3, <3>4
  <2> QED
    BY <2>1, <2>2
<1> HIDE DEF last
<1>2. h = [last EXCEPT !.state = IF last.state = "raised" THEN "raised" ELSE "exited",
                       !.closed = TRUE]
  BY DEF Finished, last
<1>3. /\ h \in Gateways /\ h.closed = TRUE /\ h.put = last.put
      /\ h.headers_sent = last.headers_sent
      /\ h.state = IF last.state = "raised" THEN "raised" ELSE "exited"
  BY <1>1, <1>2 DEF Gateways, States
<1> QED
  BY <1>1, <1>3

\* A step that is not a read: where it leaves the gateway.
LEMMA GatewayStep ==
  ASSUME NEW g \in Gateways, g.state = "running", NEW h, h = run_with_cgi(g),
         g.script = <<>> \/ Head(g.script) # "read"
  PROVE  /\ h \in Gateways /\ h.state \in {"running", "raised", "exited"}
         /\ h.state = "running" => g.script # <<>> /\ h.script = Tail(g.script)
         /\ h.put # <<>> => h.headers_sent
         /\ h.state = "raised" => h.headers_sent = g.headers_sent
         /\ h.put = <<>> => h.headers_sent = g.headers_sent
         /\ g.headers_sent => h.headers_sent /\ h.put \in {<<>>, <<"data">>}
         /\ ~g.headers_sent /\ h.put # <<>> => h.put[1] = "head"
         /\ h.state = "exited" => h.headers_sent /\ g.script = <<>>
         /\ h.state \in {"exited", "raised"} => (h.result => h.closed)
<1>1. CASE g.script = <<>>
  <2>1. h = Finished(g)
    BY <1>1 DEF run_with_cgi
  <2>2. /\ h \in Gateways /\ h.state \in {"raised", "exited"} /\ h.closed
        /\ h.put # <<>> => h.headers_sent /\ ~g.headers_sent /\ h.put[1] = "head"
        /\ h.put = <<>> => h.headers_sent = g.headers_sent
        /\ h.state = "raised" => h.headers_sent = g.headers_sent
        /\ h.state = "exited" => h.headers_sent
    BY <2>1, FinishedIs
  <2> QED
    BY <1>1, <2>2
<1>2. CASE g.script # <<>>
  <2> DEFINE e == Head(g.script)
             k == [g EXCEPT !.script = Tail(g.script), !.put = <<>>]
  <2>1. g.script \in Seq(Events) /\ e \in Events /\ Tail(g.script) \in Seq(Events)
    BY <1>2 DEF Gateways
  <2>2. /\ k \in Gateways /\ k.script = Tail(g.script) /\ k.put = <<>> /\ k.state = "running"
        /\ k.headers_sent = g.headers_sent
    BY <2>1 DEF Gateways, Puts
  <2>3. h = CASE e = "start"     -> start_response(k, FALSE)
              [] e = "start_exc" -> start_response(k, TRUE)
              [] e \in {"write", "data"} -> write(k, <<"data">>)
              [] e = "return"    -> [k EXCEPT !.result = TRUE]
              [] e = "raise"     -> Raised(k)
              [] OTHER           -> k
    BY <1>2 DEF run_with_cgi
  <2> HIDE DEF e, k
  <2>4. CASE e \in {"start", "start_exc"}
    <3>1. PICK x \in BOOLEAN : h = start_response(k, x)
      BY <2>3, <2>4
    <3>2. /\ h \in Gateways /\ h.put = <<>> /\ h.script = k.script
          /\ h.headers_sent = k.headers_sent
          /\ (h.state = "raised" /\ h.closed = h.result) \/ h.state = k.state
      BY <3>1, <2>2, StartIs
    <3> QED
      BY <1>2, <2>2, <3>2
  <2>5. CASE e \in {"write", "data"}
    <3>1. h = write(k, <<"data">>)
      BY <2>3, <2>5
    <3>2. /\ h \in Gateways /\ h.script = k.script /\ h.result = k.result
          /\ ~k.headers_set => h = Raised(k)
          /\ k.headers_set =>
               /\ h.state = k.state /\ h.closed = k.closed /\ h.headers_sent
               /\ k.headers_sent => h.put = <<"data">>
               /\ ~k.headers_sent => h.put # <<>> /\ h.put[1] = "head"
      <4>1. <<"data">> \in {<<>>, <<"data">>}
        OBVIOUS
      <4> QED
        BY <4>1, <3>1, <2>2, WriteIs, Zenon
    <3>3. CASE k.headers_set
      BY <3>3, <1>2, <2>2, <3>2
    <3>4. CASE ~k.headers_set
      BY <3>4, <1>2, <2>2, <3>2, RaisedIs
    <3> QED
      BY <3>3, <3>4
  <2>6. CASE e = "return"
    <3>1. h = [k EXCEPT !.result = TRUE]
      BY <2>3, <2>6
    <3>2. /\ h \in Gateways /\ h.script = k.script /\ h.put = k.put /\ h.state = k.state
          /\ h.headers_sent = k.headers_sent
      BY <2>2, <3>1 DEF Gateways
    <3> QED
      BY <1>2, <2>2, <3>2
  <2>7. CASE e = "raise"
    <3>1. h = Raised(k)
      BY <2>3, <2>7
    <3> QED
      BY <1>2, <2>2, <3>1, RaisedIs
  <2>8. CASE e \in {"read", "empty"}
    <3>1. h = k
      BY <2>3, <2>8
    <3> QED
      BY <1>2, <2>2, <3>1
  <2> QED
    BY <2>1, <2>4, <2>5, <2>6, <2>7, <2>8 DEF Events
<1> QED
  BY <1>1, <1>2

-----------------------------------------------------------------------------
(* The invariant holds in the initial states. *)

LEMMA InitHolds == Init => IInv
<1> SUFFICES ASSUME Init PROVE IInv
  OBVIOUS
<1>1. /\ requests \in Pipelines /\ inbound = <<1, 0>> /\ socket = <<>> /\ client = "open"
      /\ got = <<>> /\ temp = {} /\ server = "select" /\ writeSize = 0
      /\ stdin_pipe = <<>> /\ stdout_pipe = <<>> /\ taken = <<>> /\ begun = {} /\ lost = 0
  BY DEF Init
<1>2. /\ connection.buf = <<>> /\ connection.request = 0 /\ connection.iindex = 0
      /\ connection.hasRequestHeaders = FALSE /\ connection.pipes = FALSE
      /\ connection.open = TRUE /\ connection.wfds = FALSE /\ connection \in Connections
  BY DEF Init, InitConnection, Connections
<1>3. program \in Gateways /\ program.state = "none" /\ program.closed = FALSE
  <2>1. "none" \in States /\ <<>> \in Seq(Events) /\ program = Process("none", <<>>)
    BY DEF Init, NoProgram, States
  <2> QED
    BY <2>1, ProcessIs
<1>4. Len(requests) \in Nat
  BY <1>1, RequestsLen
<1>5. BufSize \in Nat /\ PipeSize \in Nat
  BY CgiAssumption DEF CgiAssumption
<1>6. Types
  BY <1>1, <1>2, <1>3 DEF Types, Unit, Block, At
<1>7. Sizes
  BY <1>1, <1>2, <1>4, <1>5 DEF Sizes
<1>8. InStep
  BY <1>1, <1>2 DEF InStep, Stream, Expected, Consecutive, Rising, Later, Had
<1>9. Written /\ Losing /\ Phases /\ Doing /\ Killed
  BY <1>1, <1>2, <1>3 DEF Written, Losing, Phases, Doing, Killed
<1>10. Counted
  BY <1>1, <1>2 DEF Counted, OwnInput
<1>11. Headed
  <2>1. got \o stdout_pipe = <<>>
    BY <1>1, ConcatEmptySeq, EmptySeq
  <2> QED
    BY <1>2, <1>3, <2>1 DEF Headed, Out, WsgiKept
<1> QED
  BY <1>6, <1>7, <1>8, <1>9, <1>10, <1>11 DEF IInv

-----------------------------------------------------------------------------
(* What a step leaves alone. *)

\* The request in hand is one of the client's.
LEMMA NowTypes ==
  ASSUME Types, Sizes, Written, connection.hasRequestHeaders
  PROVE  /\ connection.request \in 1..Len(requests)
         /\ Now.body \in Nat /\ Now.script \in Seq(Events)
<1>1. Len(requests) \in Nat /\ requests \in Pipelines
  BY RequestsLen DEF Types
<1>2. connection.request \in 1..Len(requests)
  BY <1>1 DEF Types, Sizes, Written, Connections
<1> QED
  BY <1>1, <1>2, RequestTypes DEF Now

LEMMA ProgressKept ==
  ASSUME Written, Counted, Losing, Doing, requests' = requests, stdin_pipe' = stdin_pipe,
         taken' = taken, program' = program, connection'.request = connection.request,
         connection'.hasRequestHeaders = connection.hasRequestHeaders,
         connection'.iindex = connection.iindex, connection'.pipes => connection.pipes,
         begun' = begun, lost' = lost
  PROVE  /\ Written' /\ Counted' /\ Losing' /\ Doing'
         /\ Now' = Now /\ Expected' = Expected /\ Had' = Had
<1>1. Now' = Now /\ Done' = Done /\ Read' = Read
  BY DEF Now, Done, Read
<1>2. Written'
  BY <1>1 DEF Written
<1>3. Counted'
  BY <1>1 DEF Counted, OwnInput, TakenBy
<1>4. Losing'
  BY <1>1 DEF Losing
<1>5. Doing'
  BY <1>1 DEF Doing, Careful
<1>6. Expected' = Expected /\ Had' = Had
  BY <1>1 DEF Expected, Had
<1> QED
  BY <1>1, <1>2, <1>3, <1>4, <1>5, <1>6

LEMMA OutputKept ==
  ASSUME Headed, got' = got, stdout_pipe' = stdout_pipe, program' = program,
         connection'.request = connection.request,
         connection'.hasRequestHeaders = connection.hasRequestHeaders,
         connection'.pipes => connection.pipes, client' # "reset" => client # "reset"
  PROVE  Headed'
  BY DEF Headed, Out, WsgiKept, Exited

\* A step that moves the loop, select's report or a flag of the connection.
LEMMA FrameKept ==
  ASSUME IInv, requests' = requests, inbound' = inbound, socket' = socket, got' = got,
         stdin_pipe' = stdin_pipe, stdout_pipe' = stdout_pipe, program' = program,
         taken' = taken, begun' = begun, lost' = lost, connection'.buf = connection.buf,
         connection'.request = connection.request,
         connection'.hasRequestHeaders = connection.hasRequestHeaders,
         connection'.iindex = connection.iindex, connection'.pipes = connection.pipes,
         client' # "reset" => client # "reset"
  PROVE  /\ Sizes' /\ InStep' /\ Written' /\ Counted' /\ Losing' /\ Doing' /\ Headed'
         /\ Now' = Now
<1>1. /\ Types /\ Sizes /\ InStep /\ Written /\ Counted /\ Losing /\ Phases /\ Doing /\ Killed
      /\ Headed
  BY DEF IInv
<1>2. /\ Written' /\ Counted' /\ Losing' /\ Doing'
      /\ Now' = Now /\ Expected' = Expected /\ Had' = Had
  BY <1>1, ProgressKept
<1>3. Headed'
  BY <1>1, OutputKept
<1>4. Sizes'
  BY <1>1 DEF Sizes
<1>5. InStep'
  BY <1>1, <1>2 DEF InStep
<1> QED
  BY <1>2, <1>3, <1>4, <1>5

-----------------------------------------------------------------------------
(* The steps. *)

LEMMA ClientSendKeeps ==
  ASSUME IInv, ClientSend PROVE IInv'
<1>1. /\ client = "open" /\ inbound[1] <= Len(requests)
      /\ socket' = Append(socket, inbound) /\ inbound' = After(inbound)
      /\ requests' = requests /\ client' = client /\ got' = got /\ connection' = connection
      /\ temp' = temp /\ server' = server /\ writeSize' = writeSize /\ stdin_pipe' = stdin_pipe
      /\ stdout_pipe' = stdout_pipe /\ program' = program /\ taken' = taken
      /\ begun' = begun /\ lost' = lost
  BY DEF ClientSend, Pipes, History
<1>2. /\ Types /\ Sizes /\ InStep /\ Written /\ Counted /\ Losing /\ Phases /\ Doing /\ Killed
      /\ Headed
  BY DEF IInv
<1>3. /\ Written' /\ Counted' /\ Losing' /\ Doing'
      /\ Now' = Now /\ Expected' = Expected /\ Had' = Had
  BY <1>1, <1>2, ProgressKept
<1>4. Headed'
  BY <1>1, <1>2, OutputKept
<1>5. After(inbound) = Following(requests, inbound) /\ After(inbound) \in Unit
      /\ After(inbound)[1] >= 1
  <2>1. requests \in Pipelines /\ Len(requests) \in Nat /\ inbound \in Unit
    BY <1>2, RequestsLen DEF Types
  <2>2. inbound[1] \in 1..Len(requests)
    BY <1>1, <1>2, <2>1 DEF Types, Unit
  <2> QED
    BY <2>1, <2>2, FollowingType
<1>6. InStep'
  <2>1. /\ connection.buf \in Seq(Unit) /\ socket \in Seq(Unit) /\ inbound \in Unit
        /\ Had \in Unit /\ Rising(requests, connection.buf, socket, inbound, Had)
    BY <1>2 DEF Types, Connections, InStep, Had, Unit
  <2>2. Rising(requests, connection.buf, Append(socket, inbound), After(inbound), Had)
    BY <1>1, <1>5, <2>1, RisingGrows
  <2>3. ASSUME lost = 0
        PROVE  /\ Consecutive(requests, connection.buf, Append(socket, inbound), After(inbound))
               /\ Stream(connection.buf, Append(socket, inbound), After(inbound))[1] = Expected
    <3>1. /\ Consecutive(requests, connection.buf, socket, inbound)
          /\ Stream(connection.buf, socket, inbound)[1] = Expected
      BY <1>2, <2>3 DEF InStep
    <3> QED
      BY <1>1, <1>5, <2>1, <3>1, StreamGrows
  <2> QED
    BY <1>1, <1>3, <2>2, <2>3 DEF InStep
<1>7. Types'
  <2>1. Append(socket, inbound) \in Seq(Unit)
    BY <1>2 DEF Types
  <2> QED
    BY <1>1, <1>2, <1>5, <2>1 DEF Types
<1>8. Sizes' /\ Phases' /\ Killed'
  BY <1>1, <1>2, <1>3 DEF Sizes, Phases, Killed, NotStarted
<1> QED
  BY <1>3, <1>4, <1>6, <1>7, <1>8 DEF IInv

LEMMA ClientLeavesKeeps ==
  ASSUME IInv, NEW how \in {"fin", "reset"}, ClientLeaves(how) PROVE IInv'
<1>1. /\ client' = how /\ client # "reset"
      /\ UNCHANGED <<requests, inbound, socket, got, connection, temp, server>>
      /\ writeSize' = writeSize /\ stdin_pipe' = stdin_pipe
      /\ stdout_pipe' = stdout_pipe /\ program' = program /\ taken' = taken
      /\ begun' = begun /\ lost' = lost
  BY DEF ClientLeaves, Pipes, History
<1>2. /\ Sizes' /\ InStep' /\ Written' /\ Counted' /\ Losing' /\ Doing' /\ Headed'
      /\ Now' = Now
  BY <1>1, FrameKept
<1>3. Types /\ Phases /\ Killed
  BY DEF IInv
<1>4. Types' /\ Phases' /\ Killed'
  BY <1>1, <1>2, <1>3 DEF Types, Phases, Killed, NotStarted
<1> QED
  BY <1>2, <1>4 DEF IInv

LEMMA SelectKeeps ==
  ASSUME IInv, Select PROVE IInv'
<1>1. /\ server = "select" /\ temp' = Ready
      /\ UNCHANGED <<requests, inbound, socket, client, got, connection, server>>
      /\ writeSize' = writeSize /\ stdin_pipe' = stdin_pipe
      /\ stdout_pipe' = stdout_pipe /\ program' = program /\ taken' = taken
      /\ begun' = begun /\ lost' = lost
  BY DEF Select, Pipes, History
<1>2. /\ Sizes' /\ InStep' /\ Written' /\ Counted' /\ Losing' /\ Doing' /\ Headed'
      /\ Now' = Now
  BY <1>1, FrameKept
<1>3. Types /\ Phases /\ Killed
  BY DEF IInv
<1>4. /\ Ready \subseteq {"recv", "send", "pipe"} /\ ("recv" \in Ready => connection.open)
      /\ ("send" \in Ready => connection.open /\ connection.wfds)
  BY DEF Ready, Serving
<1>5. Types' /\ Phases' /\ Killed'
  BY <1>1, <1>2, <1>3, <1>4 DEF Types, Phases, Killed, NotStarted
<1> QED
  BY <1>2, <1>5 DEF IInv

\* The loop ends, in select or on the program's pipe.
LEMMA LoopEndsKeeps ==
  ASSUME IInv, SelectFails \/ RecvPipe PROVE IInv'
<1>1. /\ server = "select" /\ server' \in {"exited", "crashed"} /\ temp' = temp
      /\ UNCHANGED <<requests, inbound, socket, client, got, connection>>
      /\ writeSize' = writeSize /\ stdin_pipe' = stdin_pipe
      /\ stdout_pipe' = stdout_pipe /\ program' = program /\ taken' = taken
      /\ begun' = begun /\ lost' = lost /\ "recv" \notin temp
  BY DEF SelectFails, RecvPipe, Pipes, History
<1>2. /\ Sizes' /\ InStep' /\ Written' /\ Counted' /\ Losing' /\ Doing' /\ Headed'
      /\ Now' = Now
  BY <1>1, FrameKept
<1>3. Types /\ Phases /\ Killed
  BY DEF IInv
<1>4. Types' /\ Phases' /\ Killed'
  BY <1>1, <1>2, <1>3 DEF Types, Phases, Killed, NotStarted, At
<1> QED
  BY <1>2, <1>4 DEF IInv

LEMMA RecvDataKeeps ==
  ASSUME IInv, RecvData PROVE IInv'
<1>1. /\ server = "select" /\ "recv" \in temp /\ temp' = temp \ {"recv"}
      /\ socket # <<>> /\ Space > 0
      /\ UNCHANGED <<requests, inbound, client, got>> /\ writeSize' = writeSize
      /\ stdin_pipe' = stdin_pipe /\ stdout_pipe' = stdout_pipe
      /\ program' = program /\ taken' = taken /\ begun' = begun
  BY DEF RecvData, Pipes
<1>2. /\ Types /\ Sizes /\ InStep /\ Written /\ Counted /\ Losing /\ Phases /\ Doing /\ Killed
      /\ Headed
  BY DEF IInv
<1>a. /\ connection.buf \in Seq(Unit) /\ socket \in Seq(Unit) /\ inbound \in Unit
      /\ connection \in Connections /\ connection.open /\ connection.request \in Nat
      /\ lost \in Nat
  BY <1>1, <1>2 DEF Types, Connections, Phases
<1>b. PICK n \in 1..Min({Space, Len(socket)}) :
        /\ socket' = SubSeq(socket, n + 1, Len(socket))
        /\ IF Ignoring
             THEN /\ lost' = IF lost = 0 THEN connection.request ELSE lost
                  /\ UNCHANGED <<connection, server>>
             ELSE /\ connection' = [connection EXCEPT !.buf = @ \o SubSeq(socket, 1, n)]
                  /\ server' = "process"
                  /\ UNCHANGED lost
  BY DEF RecvData
<1>c. /\ Len(connection.buf) \in Nat /\ Len(socket) \in Nat /\ BufSize \in Nat
  BY <1>a, CgiAssumption DEF CgiAssumption
<1>d. n \in 1..Len(socket) /\ n \in 0..Len(socket) /\ n <= Space
  <2>1. Space \in Int /\ Len(socket) \in Int
    BY <1>c DEF Space
  <2>2. Min({Space, Len(socket)}) \in Int /\ Min({Space, Len(socket)}) <= Space
        /\ Min({Space, Len(socket)}) <= Len(socket)
    BY <2>1, MinOfTwo
  <2> HIDE DEF Space
  <2> QED
    BY <2>1, <2>2
<1>3. CASE ~Ignoring
  <2> DEFINE b == connection.buf \o SubSeq(socket, 1, n)
             r == SubSeq(socket, n + 1, Len(socket))
  <2>4. /\ b \in Seq(Unit) /\ r \in Seq(Unit) /\ Len(b) = Len(connection.buf) + n
        /\ Stream(b, r, inbound) = Stream(connection.buf, socket, inbound)
        /\ Len(b) + Len(r) = Len(connection.buf) + Len(socket)
    <3>2. /\ b \in Seq(Unit) /\ r \in Seq(Unit) /\ Len(b) = Len(connection.buf) + n
          /\ Stream(b, r, inbound) = Stream(connection.buf, socket, inbound)
      BY <1>a, <1>d, StreamMoves
    <3>3. Len(r) = Len(socket) - n
      <4>1. \A i \in (n + 1)..Len(socket) : socket[i] \in Unit
        BY <1>a, <1>c, <1>d, ElementOfSeq
      <4> QED
        BY <1>c, <1>d, <4>1, SubSeqProperties
    <3> HIDE DEF b, r
    <3> QED
      BY <1>c, <1>d, <3>2, <3>3
  <2> HIDE DEF b, r
  <2>5. /\ connection' = [connection EXCEPT !.buf = b] /\ socket' = r /\ server' = "process"
        /\ lost' = lost
    BY <1>b, <1>3 DEF b, r
  <2>6. /\ connection' \in Connections /\ connection'.buf = b
        /\ connection'.request = connection.request
        /\ connection'.hasRequestHeaders = connection.hasRequestHeaders
        /\ connection'.iindex = connection.iindex /\ connection'.wfds = connection.wfds
        /\ connection'.pipes = connection.pipes /\ connection'.open = connection.open
    BY <1>a, <2>4, <2>5 DEF Connections
  <2>7. /\ Written' /\ Counted' /\ Losing' /\ Doing'
        /\ Now' = Now /\ Expected' = Expected /\ Had' = Had
    BY <1>1, <1>2, <2>5, <2>6, ProgressKept
  <2>8. Headed'
    BY <1>1, <1>2, <2>6, OutputKept
  <2>9. InStep'
    <3>1. /\ Rising(requests, b, r, inbound, Had)
          /\ lost = 0 => Consecutive(requests, b, r, inbound) /\ Stream(b, r, inbound)[1] = Expected
      BY <1>2, <2>4 DEF InStep, Consecutive, Rising
    <3> QED
      BY <1>1, <2>5, <2>6, <2>7, <3>1 DEF InStep
  <2>10. Types'
    BY <1>1, <1>2, <1>3, <2>4, <2>5, <2>6 DEF Types, At
  <2>11. Sizes'
    <3>1. Len(b) <= BufSize
      BY <1>c, <1>d, <2>4 DEF Space
    <3> QED
      BY <1>1, <1>2, <2>6, <3>1 DEF Sizes
  <2>12. Phases' /\ Killed'
    <3>1. b # <<>>
      BY <1>c, <1>d, <2>4, EmptySeq
    <3> QED
      BY <1>1, <1>2, <1>a, <2>5, <2>6, <2>7, <3>1 DEF Phases, Killed
  <2> QED
    BY <2>7, <2>8, <2>9, <2>10, <2>11, <2>12 DEF IInv
<1>4. CASE Ignoring
  <2>1. /\ connection' = connection /\ server' = server
        /\ lost' = IF lost = 0 THEN connection.request ELSE lost
        /\ socket' = SubSeq(socket, n + 1, Len(socket)) /\ connection.hasRequestHeaders
        /\ Now.method = "GET"
    BY <1>b, <1>4 DEF Ignoring
  <2>2. /\ Now.body = 0 /\ connection.request \in 1..Len(requests)
    <3>1. connection.request \in 1..Len(requests) /\ requests \in Pipelines
      BY <1>2, <2>1, NowTypes DEF Types
    <3> QED
      BY <2>1, <3>1, RequestTypes DEF Now
  <2>3. lost' # 0 /\ lost' \in Nat /\ lost' <= connection.request
        /\ (lost # 0 => lost' = lost) /\ (lost = 0 => lost' = connection.request)
    BY <1>2, <1>a, <2>1, <2>2 DEF Losing
  <2>4. Now' = Now /\ Done' = Done /\ Read' = Read /\ Had' = Had
    BY <1>1, <2>1 DEF Now, Done, Read, Had
  <2>5. Types'
    <3>1. SubSeq(socket, n + 1, Len(socket)) \in Seq(Unit)
      BY <1>2, <1>a, <1>d, RisingDrops DEF InStep
    <3> QED
      BY <1>1, <1>2, <2>1, <2>3, <3>1 DEF Types
  <2>6. InStep'
    <3>1. Rising(requests, connection.buf, SubSeq(socket, n + 1, Len(socket)), inbound, Had)
      BY <1>2, <1>a, <1>d, RisingDrops DEF InStep
    <3> QED
      BY <1>1, <2>1, <2>3, <2>4, <3>1 DEF InStep
  <2>7. Written' /\ Doing' /\ Sizes'
    BY <1>1, <1>2, <2>1, <2>3, <2>4 DEF Written, Doing, Sizes, Careful
  <2>8. Counted'
    <3>1. ASSUME NEW k \in DOMAIN taken, taken[k].by <= lost'
          PROVE  lost = 0 \/ taken[k].by <= lost
      BY <2>3, <3>1
    <3> QED
      BY <1>1, <1>2, <2>3, <3>1 DEF Counted, OwnInput
  <2>9. Losing'
    <3>1. ASSUME NEW r \in 1..connection.request PROVE r \in begun \/ lost' < r
      BY <1>2, <2>3 DEF Losing
    <3> QED
      BY <1>1, <1>2, <2>1, <2>2, <2>3, <2>4, <3>1 DEF Losing
  <2>10. Headed'
    BY <1>1, <1>2, <2>1, OutputKept
  <2>11. Phases' /\ Killed'
    BY <1>1, <1>2, <2>1, <2>4 DEF Phases, Killed
  <2> QED
    BY <2>5, <2>6, <2>7, <2>8, <2>9, <2>10, <2>11 DEF IInv
<1> QED
  BY <1>3, <1>4

LEMMA RecvEndKeeps ==
  ASSUME IInv, RecvEnd PROVE IInv'
<1>1. /\ server = "select" /\ server' = server
      /\ UNCHANGED <<requests, inbound, socket, client, got>> /\ writeSize' = writeSize
      /\ stdin_pipe' = stdin_pipe /\ stdout_pipe' = stdout_pipe
      /\ program' = program /\ taken' = taken /\ begun' = begun /\ lost' = lost
  BY DEF RecvEnd, Pipes, History
<1>2. Types /\ Phases /\ Killed /\ connection \in Connections
  BY DEF IInv, Types
<1>3. CASE temp' = temp \ {"recv"} /\ connection' = connection
  <2>1. /\ Sizes' /\ InStep' /\ Written' /\ Counted' /\ Losing' /\ Doing' /\ Headed'
        /\ Now' = Now
    BY <1>1, <1>3, FrameKept
  <2>2. Types' /\ Phases' /\ Killed'
    BY <1>1, <1>2, <1>3, <2>1 DEF Types, Phases, Killed, NotStarted
  <2> QED
    BY <2>1, <2>2 DEF IInv
<1>4. CASE /\ temp' = temp \ {"recv", "send"}
           /\ connection' = [connection EXCEPT !.open = FALSE, !.wfds = FALSE, !.watched = FALSE]
  <2>1. /\ connection' \in Connections /\ connection'.buf = connection.buf
        /\ connection'.request = connection.request
        /\ connection'.hasRequestHeaders = connection.hasRequestHeaders
        /\ connection'.iindex = connection.iindex /\ connection'.wfds = FALSE
        /\ connection'.pipes = connection.pipes /\ connection'.open = FALSE
    BY <1>2, <1>4 DEF Connections
  <2>2. /\ Sizes' /\ InStep' /\ Written' /\ Counted' /\ Losing' /\ Doing' /\ Headed'
        /\ Now' = Now
    BY <1>1, <2>1, FrameKept
  <2>3. Types' /\ Phases' /\ Killed'
    BY <1>1, <1>2, <1>4, <2>1, <2>2 DEF Types, Phases, Killed
  <2> QED
    BY <2>2, <2>3 DEF IInv
<1> QED
  BY <1>3, <1>4 DEF RecvEnd

\* A new request: its head leaves the buffer, and nobody has read any of its body.
LEMMA NewRequestIs ==
  ASSUME IInv, NewRequest, NEW r, r = Head(connection.buf)[1]
  PROVE  /\ connection'.request = r /\ connection'.hasRequestHeaders = TRUE
         /\ begun' = begun \cup {r}
         /\ r \in Nat /\ r > connection.request /\ r \in 1..Len(requests)
<1> DEFINE h == Head(connection.buf)
<1>1. /\ server = "process" /\ ~connection.hasRequestHeaders /\ h[2] = 0
      /\ connection' = [connection EXCEPT !.hasRequestHeaders = TRUE, !.buf = Tail(@),
                                          !.request = r, !.wfds = requests[r].method = "GET",
                                          !.pipes = TRUE,
                                          !.watched = program'.state # "unforked"]
      /\ begun' = begun \cup {r}
  BY DEF NewRequest
<1>2. /\ connection \in Connections /\ connection.buf \in Seq(Unit) /\ connection.buf # <<>>
      /\ connection.request \in Nat
      /\ socket \in Seq(Unit) /\ inbound \in Unit /\ requests \in Pipelines
  BY <1>1 DEF IInv, Types, Phases, Connections
<1>3. h \in Unit
  BY <1>2, StreamTail
<1>4. r \in Nat /\ h = <<r, 0>>
  BY <1>1, <1>3 DEF Unit
<1>5. Later(Had, h) /\ r <= Len(requests)
  <2>1. InStep
    BY DEF IInv
  <2> QED
    BY <1>2, <2>1, RisingAdvances DEF InStep
<1>6. r > connection.request
  BY <1>1, <1>2, <1>4, <1>5 DEF Later, Had
<1>7. Len(requests) \in Nat
  BY <1>2, RequestsLen
<1> QED
  BY <1>1, <1>2, <1>4, <1>5, <1>6, <1>7 DEF Connections

LEMMA NewRequestKeeps ==
  ASSUME IInv, NewRequest PROVE IInv'
<1> DEFINE h == Head(connection.buf)
           r == h[1]
           get == requests[r].method = "GET"
<1>0. /\ server = "process" /\ ~connection.hasRequestHeaders /\ h[2] = 0
      /\ CgiInit(r) /\ server' = "post"
      /\ connection' = [connection EXCEPT !.hasRequestHeaders = TRUE, !.buf = Tail(@),
                                          !.request = r, !.wfds = get, !.pipes = TRUE,
                                          !.watched = program'.state # "unforked"]
      /\ begun' = begun \cup {r}
      /\ UNCHANGED <<requests, inbound, socket, client, got, temp, writeSize, taken, lost>>
  BY DEF NewRequest
<1>1. /\ Types /\ Sizes /\ InStep /\ Written /\ Counted /\ Losing /\ Phases /\ Doing /\ Killed
      /\ Headed
  BY DEF IInv
<1>2. /\ connection \in Connections /\ connection.buf \in Seq(Unit) /\ connection.buf # <<>>
      /\ connection.request \in Nat /\ connection.iindex = 0 /\ stdout_pipe = <<>>
      /\ connection.open /\ socket \in Seq(Unit) /\ inbound \in Unit /\ requests \in Pipelines
      /\ lost \in Nat /\ connection.wfds = FALSE
  BY <1>0, <1>1 DEF Types, Phases, Connections
<1>a. /\ h \in Unit /\ Tail(connection.buf) \in Seq(Unit)
      /\ Head(connection.buf) = Stream(connection.buf, socket, inbound)[1]
      /\ Len(connection.buf) \in Nat /\ Len(Tail(connection.buf)) = Len(connection.buf) - 1
  BY <1>2, StreamTail
<1>b. r \in Nat /\ h = <<r, 0>>
  BY <1>0, <1>a DEF Unit
<1>c. /\ Rising(requests, Tail(connection.buf), socket, inbound, h)
      /\ r > connection.request /\ r <= Len(requests)
  <2>1. /\ Rising(requests, Tail(connection.buf), socket, inbound, h)
        /\ Later(Had, h) /\ r <= Len(requests)
    BY <1>1, <1>2, RisingAdvances DEF InStep
  <2>2. r > connection.request
    BY <1>0, <1>2, <1>b, <2>1 DEF Later, Had
  <2> QED
    BY <2>1, <2>2
<1>3. /\ connection'.buf = Tail(connection.buf) /\ connection'.request = r
      /\ connection'.hasRequestHeaders = TRUE /\ connection'.pipes = TRUE
      /\ connection'.iindex = 0 /\ connection'.wfds = get
      /\ connection'.open = connection.open /\ connection' \in Connections
  <2> DEFINE w == program'.state # "unforked"
             t == Tail(connection.buf)
  <2> HIDE DEF get, w, r, t
  <2>1. get \in BOOLEAN /\ w \in BOOLEAN
    BY DEF get, w
  <2>2. connection' = [connection EXCEPT !.hasRequestHeaders = TRUE, !.buf = t, !.request = r,
                                         !.wfds = get, !.pipes = TRUE, !.watched = w]
    BY <1>0 DEF get, w, r, t
  <2>3. t \in Seq(Unit)
    BY <1>a DEF t
  <2>4. /\ connection'.buf = t /\ connection'.request = r
        /\ connection'.hasRequestHeaders = TRUE /\ connection'.pipes = TRUE
        /\ connection'.iindex = connection.iindex /\ connection'.wfds = get
        /\ connection'.open = connection.open /\ connection' \in Connections
    BY <1>2, <1>b, <2>1, <2>2, <2>3 DEF Connections
  <2> QED
    BY <1>2, <2>4 DEF t
<1>4. Expected = <<connection.request + 1, 0>>
  BY <1>0 DEF Expected
<1>5. ASSUME lost = 0
      PROVE  /\ Consecutive(requests, Tail(connection.buf), socket, inbound)
             /\ Stream(Tail(connection.buf), socket, inbound)[1] = Following(requests, h)
             /\ r = connection.request + 1
  <2>1. /\ Consecutive(requests, connection.buf, socket, inbound)
        /\ Stream(connection.buf, socket, inbound)[1] = <<connection.request + 1, 0>>
    BY <1>1, <1>4, <1>5 DEF InStep
  <2> DEFINE b == connection.buf
  <2>a. b \in Seq(Unit) /\ b # <<>> /\ socket \in Seq(Unit) /\ inbound \in Unit
    BY <1>2
  <2>b. Consecutive(requests, b, socket, inbound) /\ Stream(b, socket, inbound)[1] = h
    BY <1>a, <2>1
  <2> HIDE DEF b, h
  <2>3. /\ Consecutive(requests, Tail(b), socket, inbound)
        /\ Stream(Tail(b), socket, inbound)[1] = Following(requests, Stream(b, socket, inbound)[1])
    BY <2>a, <2>b, StreamAdvances, Zenon
  <2>4. h[1] = connection.request + 1
    BY <1>a, <2>1 DEF h
  <2> QED
    BY <2>3, <2>b, <2>4 DEF b
<1>6. /\ r \in 1..Len(requests) /\ Len(requests) \in Nat
      /\ requests[r].body \in Nat /\ requests[r].script \in Seq(Events)
      /\ get => requests[r].body = 0
  <2>1. Len(requests) \in Nat
    BY <1>2, RequestsLen
  <2>2. r \in 1..Len(requests)
    BY <1>2, <1>b, <1>c, <2>1
  <2> HIDE DEF r
  <2> QED
    BY <1>2, <2>1, <2>2, RequestTypes
<1>7. Now' = requests[r]
  BY <1>0, <1>3 DEF Now
<1>8. /\ stdin_pipe' = <<>> /\ stdout_pipe' = <<>>
      /\ program' \in Gateways /\ program'.state \in {"running", "unforked", "server"}
      /\ program'.headers_sent = FALSE
      /\ program'.state = "running" => program'.script = requests[r].script
  <2> HIDE DEF r
  <2>1. \/ program' = Process("running", requests[r].script)
        \/ program' = Process("unforked", <<>>) \/ program' = Process("server", <<>>)
    BY <1>0 DEF CgiInit
  <2>2. {"running", "unforked", "server"} \subseteq States /\ <<>> \in Seq(Events)
    BY DEF States
  <2> DEFINE text == requests[r].script
  <2>3. stdin_pipe' = <<>> /\ stdout_pipe' = <<>> /\ text \in Seq(Events)
    BY <1>0, <1>6 DEF CgiInit
  <2> HIDE DEF text
  <2>4. CASE program' = Process("running", text)
    BY <2>2, <2>3, <2>4, ProcessIs DEF text
  <2>5. CASE program' = Process("unforked", <<>>)
    BY <2>2, <2>3, <2>5, ProcessIs
  <2>6. CASE program' = Process("server", <<>>)
    BY <2>2, <2>3, <2>6, ProcessIs
  <2> QED
    BY <2>1, <2>4, <2>5, <2>6 DEF text
<1> HIDE DEF h, r
<1>9. Types'
  <2>1. begun \cup {r} \subseteq Nat
    BY <1>1, <1>b DEF Types
  <2> HIDE DEF get
  <2> QED
    BY <1>0, <1>1, <1>2, <1>3, <1>8, <2>1 DEF Types, At
<1>10. Sizes'
  <2>1. Len(connection'.buf) <= Len(connection.buf) /\ Len(connection'.buf) \in Nat
    BY <1>2, <1>3, <1>a
  <2>2. BufSize \in Nat /\ PipeSize \in Nat
    BY CgiAssumption DEF CgiAssumption
  <2>3. Len(connection.buf) <= BufSize
    BY <1>1 DEF Sizes
  <2> QED
    BY <1>0, <1>3, <1>6, <1>8, <1>a, <2>1, <2>2, <2>3 DEF Sizes
<1>11. InStep'
  <2>1. Following(requests, <<r, 0>>) = IF 0 < requests[r].body THEN <<r, 0 + 1>> ELSE <<r + 1, 0>>
    BY DEF Following
  <2>2. Expected' = IF 0 < requests[r].body THEN <<r, 0 + 1>> ELSE <<r + 1, 0>>
    BY <1>3, <1>7 DEF Expected
  <2>3. Had' = h
    BY <1>3, <1>b DEF Had
  <2> QED
    BY <1>0, <1>3, <1>5, <1>b, <1>c, <2>1, <2>2, <2>3 DEF InStep
<1>12. Written'
  <2>1. DOMAIN stdin_pipe' = {} /\ Len(stdin_pipe') = 0
    BY <1>8
  <2> QED
    BY <1>0, <1>3, <1>6, <1>7, <2>1 DEF Written
<1>18. Read' = 0
  <2>1. connection'.iindex = 0 /\ Len(stdin_pipe') = 0
    BY <1>3, <1>8
  <2> QED
    BY <2>1 DEF Read
<1>13. Counted'
  <2>1. ASSUME lost = 0
        PROVE  /\ \A k \in DOMAIN taken : taken[k].by <= r
               /\ Cardinality(TakenBy(r, taken)) = 0
    <3>1. \A k \in DOMAIN taken : taken[k] \in [by : Nat, unit : Unit]
      BY <1>1, SeqElements DEF Types
    <3>2. \A k \in DOMAIN taken : taken[k].by <= connection.request /\ taken[k].by \in Nat
      BY <1>1, <2>1, <3>1 DEF Counted
    <3>3. \A k \in DOMAIN taken : taken[k].by # r /\ taken[k].by <= r
      BY <1>2, <1>b, <1>c, <3>2
    <3>4. TakenBy(r, taken) = {}
      BY <3>3 DEF TakenBy
    <3> QED
      BY <3>3, <3>4, FS_EmptySet
  <2>4. Read' = 0
    BY <1>18
  <2>5. OwnInput'
    BY <1>0, <1>1 DEF Counted, OwnInput
  <2> QED
    BY <1>0, <1>3, <2>1, <2>4, <2>5 DEF Counted
<1>17. Losing'
  <2>1. lost <= connection.request
    BY <1>1 DEF Losing
  <2>2. lost < r
    BY <1>2, <1>b, <1>c, <2>1
  <2>3. \A x \in begun : x <= r
    <3>1. \A x \in begun : x <= connection.request /\ x \in Nat
      BY <1>1 DEF Losing, Types
    <3> QED
      BY <1>2, <1>b, <1>c, <3>1
  <2>4. ASSUME NEW x \in 1..r, x \notin begun'
        PROVE  lost # 0 /\ lost < x
    <3>1. x # r
      BY <1>0, <2>4
    <3>2. CASE x <= connection.request
      <4>1. x \in 1..connection.request /\ x \notin begun
        BY <1>0, <1>2, <2>4, <3>2
      <4> QED
        BY <1>1, <4>1 DEF Losing
    <3>3. CASE x > connection.request
      <4>1. lost # 0
        <5>1. lost = 0 => r = connection.request + 1
          BY <1>5
        <5> QED
          BY <1>2, <1>b, <3>1, <3>3, <5>1
      <4> QED
        BY <1>2, <2>1, <3>3, <4>1
    <3> QED
      BY <1>2, <3>2, <3>3
  <2> QED
    BY <1>0, <1>2, <1>3, <1>b, <2>2, <2>3, <2>4 DEF Losing
<1>14. Phases' /\ Killed'
  <2>1. program'.state # "none"
    BY <1>8
  <2>2. "recv" \notin temp /\ "send" \notin temp
    BY <1>0, <1>1, <1>2 DEF Phases
  <2>3. get => connection'.iindex = Now'.body
    BY <1>3, <1>6, <1>7
  <2> HIDE DEF get
  <2>4. Phases'
    BY <1>0, <1>2, <1>3, <2>1, <2>2, <2>3 DEF Phases
  <2> QED
    BY <1>0, <2>4 DEF Killed
<1>15. Doing'
  <2>1. program'.state \notin {"raised", "exited"}
    BY <1>8
  <2>2. ASSUME program'.state = "running"
        PROVE  Done' = 0 /\ program'.script = Now'.script /\ Read' = 0
    <3>1. program'.script = Now'.script /\ Len(Now'.script) \in Nat
      BY <1>6, <1>7, <1>8, <2>2
    <3> HIDE DEF Now
    <3> QED
      BY <1>18, <3>1 DEF Done
  <2> HIDE DEF Now
  <2>3. ASSUME program'.state = "running"
        PROVE  /\ Len(program'.script) <= Len(Now'.script)
               /\ \A i \in DOMAIN program'.script : program'.script[i] = Now'.script[Done' + i]
               /\ Read' = IF Done' < Now'.body THEN Done' ELSE Now'.body
    <3>1. /\ Len(Now'.script) \in Nat /\ Now'.body \in Nat
          /\ \A i \in DOMAIN Now'.script : 0 + i = i
      BY <1>6, <1>7
    <3> QED
      BY <2>2, <2>3, <3>1
  <2> QED
    BY <2>1, <2>3 DEF Doing
<1>16. Headed'
  <2>1. Out' = Out
    BY <1>0, <1>2, <1>8 DEF Out
  <2>2. \A i \in DOMAIN Out : Out[i][1] <= connection.request /\ Out[i][1] \in Nat
    <3>1. Out \in Seq(Block)
      BY <1>1, ConcatProperties DEF Types, Out
    <3>2. \A i \in DOMAIN Out : Out[i] \in Block
      BY <3>1
    <3> QED
      BY <1>1, <3>2 DEF Headed, Block
  <2>3. \A i \in DOMAIN Out : Out[i][1] # r /\ Out[i][1] <= r
    BY <1>2, <1>b, <1>c, <2>2
  <2>4. WsgiKept'
    <3>1. program'.state \notin {"raised", "exited"}
      BY <1>8
    <3> QED
      BY <1>0, <1>1, <1>2, <1>8, <3>1 DEF Headed, WsgiKept, Exited
  <2> QED
    BY <1>3, <1>8, <2>1, <2>3, <2>4 DEF Headed
<1> QED
  BY <1>9, <1>10, <1>11, <1>12, <1>13, <1>14, <1>15, <1>16, <1>17 DEF IInv

LEMMA GoAstrayKeeps ==
  ASSUME IInv, GoAstray PROVE IInv'
<1>1. /\ server = "process" /\ server' = "select" /\ ~connection.hasRequestHeaders
      /\ connection' = [connection EXCEPT !.astray = TRUE]
      /\ UNCHANGED <<requests, inbound, socket, client, got, temp>> /\ writeSize' = writeSize
      /\ stdin_pipe' = stdin_pipe /\ stdout_pipe' = stdout_pipe
      /\ program' = program /\ taken' = taken /\ begun' = begun /\ lost' = lost
  BY DEF GoAstray, Pipes, History
<1>2. Types /\ Phases /\ Killed /\ connection \in Connections
  BY DEF IInv, Types
<1>3. /\ connection' \in Connections /\ connection'.buf = connection.buf
      /\ connection'.request = connection.request
      /\ connection'.hasRequestHeaders = connection.hasRequestHeaders
      /\ connection'.iindex = connection.iindex /\ connection'.wfds = connection.wfds
      /\ connection'.pipes = connection.pipes /\ connection'.open = connection.open
  BY <1>1, <1>2 DEF Connections
<1>4. /\ Sizes' /\ InStep' /\ Written' /\ Counted' /\ Losing' /\ Doing' /\ Headed'
      /\ Now' = Now
  BY <1>1, <1>3, FrameKept
<1>5. Types' /\ Phases' /\ Killed'
  BY <1>1, <1>2, <1>3, <1>4 DEF Types, Phases, Killed, At
<1> QED
  BY <1>4, <1>5 DEF IInv

LEMMA MoreInputKeeps ==
  ASSUME IInv, MoreInput PROVE IInv'
<1>1. /\ server = "process" /\ connection.hasRequestHeaders
      /\ UNCHANGED <<requests, inbound, socket, client, got, temp>> /\ writeSize' = writeSize
      /\ stdin_pipe' = stdin_pipe /\ stdout_pipe' = stdout_pipe
      /\ program' = program /\ taken' = taken /\ begun' = begun /\ lost' = lost
  BY DEF MoreInput, Pipes, History
<1>2. /\ Types /\ Sizes /\ Written /\ Phases /\ Killed /\ connection \in Connections
  BY DEF IInv, Types
<1>3. /\ server' \in {"post", "select"} /\ connection' \in Connections
      /\ connection'.buf = connection.buf /\ connection'.request = connection.request
      /\ connection'.hasRequestHeaders = connection.hasRequestHeaders
      /\ connection'.iindex = connection.iindex
      /\ connection.wfds => connection'.wfds
      /\ connection'.wfds => connection.wfds \/ Now.method # "POST"
      /\ connection'.pipes = connection.pipes /\ connection'.open = connection.open
  <2>1. CASE Now.method = "POST"
    <3>1. server' = "post" /\ connection' = connection
      BY <2>1 DEF MoreInput
    <3> QED
      BY <1>2, <3>1
  <2>2. CASE Now.method # "POST"
    <3>1. server' = "select" /\ connection' = [connection EXCEPT !.wfds = TRUE]
      BY <2>2 DEF MoreInput
    <3> QED
      BY <1>2, <2>2, <3>1 DEF Connections
  <2> QED
    BY <2>1, <2>2
<1>4. /\ Sizes' /\ InStep' /\ Written' /\ Counted' /\ Losing' /\ Doing' /\ Headed'
      /\ Now' = Now
  BY <1>1, <1>3, FrameKept
<1>5. connection'.wfds => connection.iindex = Now.body
  <2>1. connection.request \in 1..Len(requests) /\ requests \in Pipelines
    BY <1>1, <1>2, NowTypes DEF Types
  <2>2. Now.method # "POST" => Now.body = 0
    BY <2>1, RequestTypes DEF Now
  <2>3. connection.iindex \in Nat /\ connection.iindex <= Now.body
    BY <1>1, <1>2 DEF Written, Connections
  <2>4. connection.wfds => connection.iindex = Now.body
    BY <1>2 DEF Phases
  <2> QED
    BY <1>3, <2>2, <2>3, <2>4
<1>6. Types' /\ Phases' /\ Killed'
  BY <1>1, <1>2, <1>3, <1>4, <1>5 DEF Types, Phases, Killed, At
<1> QED
  BY <1>4, <1>6 DEF IInv

LEMMA PostRecvKeeps ==
  ASSUME IInv, PostRecv PROVE IInv'
<1>1. /\ server = "post" /\ connection' = connection
      /\ UNCHANGED <<requests, inbound, socket, client, got, temp>>
      /\ stdin_pipe' = stdin_pipe /\ stdout_pipe' = stdout_pipe
      /\ program' = program /\ taken' = taken /\ begun' = begun /\ lost' = lost
  BY DEF PostRecv, Pipes, History
<1>2. /\ Types /\ Sizes /\ Written /\ Phases /\ Killed
  BY DEF IInv
<1>3. /\ Sizes' /\ InStep' /\ Written' /\ Counted' /\ Losing' /\ Doing' /\ Headed'
      /\ Now' = Now
  BY <1>1, FrameKept
<1>6. \/ server' = "select" /\ writeSize' = writeSize
      \/ /\ server' = "write" /\ writeSize' \in Nat
         /\ writeSize' <= Len(connection.buf) /\ writeSize' <= Now.body - connection.iindex
  <2>1. /\ connection.hasRequestHeaders /\ connection.iindex \in Nat
        /\ connection.buf \in Seq(Unit)
    BY <1>1, <1>2 DEF Phases, Types, Connections
  <2>2. Now.body \in Nat /\ connection.iindex <= Now.body /\ Len(connection.buf) \in Nat
    BY <1>2, <2>1, NowTypes DEF Written
  <2> DEFINE a == Now.body - connection.iindex
             b == Len(connection.buf)
  <2>3. a \in Nat /\ b \in Nat /\ a \in Int /\ b \in Int
    BY <2>1, <2>2
  <2>4. BodyShare(connection, Now.body) = Min({a, b})
    BY DEF BodyShare
  <2> HIDE DEF a, b
  <2>5. Min({a, b}) \in {a, b} /\ Min({a, b}) <= a /\ Min({a, b}) <= b
    BY <2>3, MinOfTwo
  <2>6. Min({a, b}) \in Nat
    BY <2>3, <2>5
  <2>7. CASE connection.postfinish
    BY <2>7 DEF PostRecv
  <2>8. CASE ~connection.postfinish
    <3>1. server' = "write" /\ writeSize' = BodyShare(connection, Now.body)
      BY <2>8 DEF PostRecv
    <3> QED
      BY <3>1, <2>4, <2>5, <2>6 DEF a, b
  <2> QED
    BY <2>7, <2>8
<1>7. Types' /\ Phases' /\ Killed'
  BY <1>1, <1>2, <1>3, <1>6 DEF Types, Phases, Killed, At
<1> QED
  BY <1>3, <1>7 DEF IInv

LEMMA PostFinishKeeps ==
  ASSUME IInv, PostFinish PROVE IInv'
<1>1. /\ server = "write" /\ server' = "select"
      /\ UNCHANGED <<requests, inbound, socket, client, got, temp>> /\ writeSize' = writeSize
      /\ stdin_pipe' = stdin_pipe /\ stdout_pipe' = stdout_pipe
      /\ program' = program /\ taken' = taken /\ begun' = begun /\ lost' = lost
  BY DEF PostFinish, Pipes, History
<1>2. Types /\ Phases /\ Killed /\ connection \in Connections
  BY DEF IInv, Types
<1>4. /\ connection' \in Connections /\ connection'.buf = connection.buf
      /\ connection'.request = connection.request
      /\ connection'.hasRequestHeaders = connection.hasRequestHeaders
      /\ connection'.iindex = connection.iindex
      /\ connection.wfds => connection'.wfds
      /\ connection'.wfds => connection.wfds \/ connection.iindex = Now.body
      /\ connection'.pipes = connection.pipes /\ connection'.open = connection.open
  <2>1. CASE connection.iindex = Now.body
    <3>1. connection' = [connection EXCEPT !.postfinish = TRUE, !.wfds = TRUE]
      BY <2>1 DEF PostFinish
    <3> QED
      BY <1>2, <2>1, <3>1 DEF Connections
  <2>2. CASE connection.iindex # Now.body
    <3>1. connection' = connection
      BY <2>2 DEF PostFinish
    <3> QED
      BY <1>2, <3>1
  <2> QED
    BY <2>1, <2>2
<1>5. /\ Sizes' /\ InStep' /\ Written' /\ Counted' /\ Losing' /\ Doing' /\ Headed'
      /\ Now' = Now
  BY <1>1, <1>4, FrameKept
<1>6. Types' /\ Phases' /\ Killed'
  <2>1. connection.hasRequestHeaders
    BY <1>1, <1>2 DEF Phases
  <2> QED
    BY <1>1, <1>2, <1>4, <1>5, <2>1 DEF Types, Phases, Killed, At
<1> QED
  BY <1>5, <1>6 DEF IInv

LEMMA SendKeeps ==
  ASSUME IInv, Send PROVE IInv'
<1>1. /\ server = "select" /\ "recv" \notin temp /\ "send" \in temp /\ server' = "read"
      /\ temp' = temp \ {"send"}
      /\ UNCHANGED <<requests, inbound, socket, client, got, connection>>
      /\ writeSize' = writeSize
      /\ stdin_pipe' = stdin_pipe /\ stdout_pipe' = stdout_pipe
      /\ program' = program /\ taken' = taken /\ begun' = begun /\ lost' = lost
  BY DEF Send, Pipes, History
<1>2. Types /\ Phases /\ Killed
  BY DEF IInv
<1>3. /\ Sizes' /\ InStep' /\ Written' /\ Counted' /\ Losing' /\ Doing' /\ Headed'
      /\ Now' = Now
  BY <1>1, FrameKept
<1>4. Types' /\ Phases' /\ Killed'
  BY <1>1, <1>2, <1>3 DEF Types, Phases, Killed, At
<1> QED
  BY <1>3, <1>4 DEF IInv

\* A unit goes from the buffer into the pipe; or the program is gone, which it is not while
\* it has a careful program's input to read.
LEMMA CgiWriteKeeps ==
  ASSUME IInv, CgiWrite PROVE IInv'
<1>1. /\ server = "write" /\ writeSize > 0
      /\ UNCHANGED <<requests, inbound, socket, client, got, temp, stdout_pipe, program, taken>>
      /\ begun' = begun /\ lost' = lost
  BY DEF CgiWrite, History
<1>2. /\ Types /\ Sizes /\ InStep /\ Written /\ Counted /\ Losing /\ Phases /\ Doing /\ Killed
      /\ Headed
  BY DEF IInv
<1>3. /\ connection \in Connections /\ connection.buf \in Seq(Unit) /\ connection.open
      /\ connection.hasRequestHeaders /\ connection.iindex \in Nat /\ connection.request \in Nat
      /\ connection.pipes /\ Len(connection.buf) \in Nat /\ writeSize \in Nat
      /\ stdin_pipe \in Seq(Unit) /\ Len(stdin_pipe) \in Nat
  BY <1>1, <1>2 DEF Types, Phases, Connections
<1>4. /\ Now.body \in Nat /\ connection.iindex < Now.body /\ connection.buf # <<>>
      /\ writeSize <= Len(connection.buf) /\ writeSize <= Now.body - connection.iindex
      /\ Len(stdin_pipe) <= connection.iindex
  <2>1. /\ writeSize <= Len(connection.buf) /\ writeSize <= Now.body - connection.iindex
        /\ Now.body \in Nat /\ Len(stdin_pipe) <= connection.iindex
    BY <1>1, <1>2, <1>3, NowTypes DEF Phases, Written
  <2>2. Len(connection.buf) > 0
    BY <1>1, <1>3, <2>1
  <2>3. connection.buf # <<>>
    BY <2>2
  <2> QED
    BY <1>1, <1>3, <2>1, <2>3
<1>5. CASE /\ ~HasReader /\ server' = "killed"
           /\ UNCHANGED <<stdin_pipe, connection, writeSize>>
  <2>1. /\ Sizes' /\ InStep' /\ Written' /\ Counted' /\ Losing' /\ Doing' /\ Headed'
        /\ Now' = Now
    BY <1>1, <1>5, FrameKept
  <2>4. Types' /\ Phases'
    BY <1>1, <1>2, <1>3, <1>5, <2>1 DEF Types, Phases, At
  <2>5. Killed'
    <3>1. program.state \in {"raised", "exited"}
      BY <1>2, <1>3, <1>5 DEF Types, Gateways, States, Phases, HasReader
    <3>2. Careful(Now) => Read = Now.body
      BY <1>2, <1>3, <3>1 DEF Doing
    <3>3. Read # Now.body
      BY <1>3, <1>4 DEF Read
    <3>4. ~Careful(Now)
      BY <3>2, <3>3
    <3>5. Careful(Now') = Careful(Now)
      BY <2>1
    <3> QED
      BY <2>1, <3>4 DEF Killed, Careful
  <2> QED
    BY <2>1, <2>4, <2>5 DEF IInv
<1>6. CASE /\ HasReader /\ Len(stdin_pipe) < PipeSize
           /\ stdin_pipe' = Append(stdin_pipe, Head(connection.buf))
           /\ connection' = [connection EXCEPT !.buf = Tail(@), !.iindex = @ + 1]
           /\ writeSize' = writeSize - 1 /\ server' = server
  <2> DEFINE x == <<connection.request, connection.iindex + 1>>
             b == connection.buf
  <2>1. Expected = x
    BY <1>3, <1>4 DEF Expected
  <2>a. /\ b \in Seq(Unit) /\ b # <<>> /\ socket \in Seq(Unit) /\ inbound \in Unit
    BY <1>2, <1>3, <1>4 DEF Types
  <2>2. /\ Tail(b) \in Seq(Unit) /\ Len(Tail(b)) = Len(b) - 1 /\ Head(b) \in Unit
        /\ Head(b) = Stream(b, socket, inbound)[1]
    BY <2>a, StreamTail
  <2>b. Rising(requests, Tail(b), socket, inbound, Had)
    BY <1>2, <2>a, RisingAdvances DEF InStep
  <2>3. ASSUME lost = 0
        PROVE  /\ Consecutive(requests, Tail(b), socket, inbound)
               /\ Stream(Tail(b), socket, inbound)[1] = Following(requests, x)
               /\ Head(b) = x
    <3>2. /\ Consecutive(requests, b, socket, inbound) /\ Stream(b, socket, inbound)[1] = x
      BY <1>2, <2>1, <2>3 DEF InStep
    <3> HIDE DEF b, x
    <3>3. /\ Consecutive(requests, Tail(b), socket, inbound)
          /\ Stream(Tail(b), socket, inbound)[1] = Following(requests, Stream(b, socket, inbound)[1])
      BY <2>a, <3>2, StreamAdvances, Zenon
    <3> QED
      BY <2>2, <3>2, <3>3
  <2>4. /\ connection' \in Connections /\ connection'.buf = Tail(b)
        /\ connection'.request = connection.request
        /\ connection'.hasRequestHeaders = connection.hasRequestHeaders
        /\ connection'.iindex = connection.iindex + 1 /\ connection'.wfds = connection.wfds
        /\ connection'.pipes = connection.pipes /\ connection'.open = connection.open
    <3> DEFINE t == Tail(b)
               n == connection.iindex + 1
    <3>1. t \in Seq(Unit) /\ n \in Nat
      BY <1>3, <2>2
    <3>2. connection' = [connection EXCEPT !.buf = t, !.iindex = n]
      BY <1>6
    <3> HIDE DEF t, n
    <3>3. /\ connection' \in Connections /\ connection'.buf = t
          /\ connection'.request = connection.request
          /\ connection'.hasRequestHeaders = connection.hasRequestHeaders
          /\ connection'.iindex = n /\ connection'.wfds = connection.wfds
          /\ connection'.pipes = connection.pipes /\ connection'.open = connection.open
      BY <1>3, <3>1, <3>2 DEF Connections
    <3> QED
      BY <3>3 DEF t, n
  <2>5. Now' = Now
    BY <1>1, <2>4 DEF Now
  <2>6. /\ Len(stdin_pipe') = Len(stdin_pipe) + 1 /\ stdin_pipe' \in Seq(Unit)
        /\ \A j \in 1..(Len(stdin_pipe) + 1) :
             stdin_pipe'[j] = IF j <= Len(stdin_pipe) THEN stdin_pipe[j] ELSE Head(b)
    <3> DEFINE h == Head(b)
    <3>1. h \in Unit /\ stdin_pipe' = Append(stdin_pipe, h)
      BY <1>6, <2>2
    <3> HIDE DEF h, b
    <3>2. /\ Len(stdin_pipe') = Len(stdin_pipe) + 1 /\ stdin_pipe' \in Seq(Unit)
          /\ \A j \in 1..(Len(stdin_pipe) + 1) :
               stdin_pipe'[j] = IF j <= Len(stdin_pipe) THEN stdin_pipe[j] ELSE h
      BY <1>3, <3>1
    <3> QED
      BY <3>2 DEF h
  <2>7. Types'
    <3>1. writeSize' \in Nat
      BY <1>1, <1>3, <1>6
    <3> QED
      BY <1>1, <1>2, <1>6, <2>4, <2>6, <3>1 DEF Types, At
  <2>8. Sizes'
    <3>1. BufSize \in Nat /\ PipeSize \in Nat
      BY CgiAssumption DEF CgiAssumption
    <3> QED
      BY <1>1, <1>2, <1>3, <1>6, <2>2, <2>4, <2>6, <3>1 DEF Sizes
  <2>9. InStep'
    <3>1. Following(requests, x) =
            IF connection.iindex + 1 < Now.body
              THEN <<connection.request, (connection.iindex + 1) + 1>>
              ELSE <<connection.request + 1, 0>>
      BY DEF Following, Now
    <3>2. Expected' = Following(requests, x) /\ Had' = Had
      BY <1>3, <2>4, <2>5, <3>1 DEF Expected, Had
    <3> HIDE DEF x
    <3> QED
      BY <1>1, <2>3, <2>4, <2>b, <3>2 DEF InStep
  <2>10. Written'
    <3>1. connection.request >= 1 /\ connection.iindex + 1 <= Now.body
          /\ Len(stdin_pipe') <= connection.iindex + 1
      BY <1>2, <1>3, <1>4, <2>6 DEF Written
    <3>2. ASSUME lost = 0, NEW j \in 1..(Len(stdin_pipe) + 1)
          PROVE  stdin_pipe'[j] =
                   <<connection.request, (connection.iindex + 1) - (Len(stdin_pipe) + 1) + j>>
      <4>1. (connection.iindex + 1) - (Len(stdin_pipe) + 1) + j = connection.iindex - Len(stdin_pipe) + j
        BY <1>3
      <4>2. CASE j <= Len(stdin_pipe)
        <5>1. j \in DOMAIN stdin_pipe
          BY <1>3, <4>2
        <5> QED
          BY <1>2, <1>3, <2>6, <3>2, <4>1, <4>2, <5>1 DEF Written
      <4>3. CASE j = Len(stdin_pipe) + 1
        <5>1. connection.iindex - Len(stdin_pipe) + j = connection.iindex + 1
          BY <1>3, <4>3
        <5>2. stdin_pipe'[j] = x
          BY <1>3, <2>3, <2>6, <3>2, <4>3
        <5> QED
          BY <4>1, <5>1, <5>2
      <4>4. j <= Len(stdin_pipe) \/ j = Len(stdin_pipe) + 1
        BY <1>3
      <4> QED
        BY <4>2, <4>3, <4>4
    <3>3. DOMAIN stdin_pipe' = 1..(Len(stdin_pipe) + 1)
      BY <2>6
    <3> QED
      BY <1>1, <2>4, <2>5, <2>6, <3>1, <3>2, <3>3 DEF Written
  <2>11. Read' = Read
    BY <1>3, <2>4, <2>6 DEF Read
  <2>12. Counted'
    BY <1>1, <1>2, <2>4, <2>11 DEF Counted, OwnInput, TakenBy
  <2>16. Losing'
    BY <1>1, <1>2, <2>4, <2>5 DEF Losing
  <2>13. Doing'
    <3>1. Done' = Done
      BY <1>1, <2>5 DEF Done
    <3> QED
      BY <1>1, <1>2, <2>4, <2>5, <2>11, <3>1 DEF Doing, Careful
  <2>14. Headed'
    BY <1>1, <1>2, <2>4, OutputKept
  <2>15. Phases' /\ Killed'
    <3>1. /\ writeSize' <= Len(connection'.buf)
          /\ writeSize' <= Now'.body - connection'.iindex
      BY <1>1, <1>3, <1>4, <1>6, <2>2, <2>4, <2>5
    <3>2. connection.wfds = FALSE
      <4>1. connection.wfds => connection.iindex = Now.body
        BY <1>2 DEF Phases
      <4> QED
        BY <1>3, <1>4, <4>1 DEF Connections
    <3> QED
      BY <1>1, <1>2, <1>3, <1>6, <2>4, <2>5, <3>1, <3>2 DEF Phases, Killed
  <2> QED
    BY <2>7, <2>8, <2>9, <2>10, <2>12, <2>13, <2>14, <2>15, <2>16 DEF IInv
<1> QED
  BY <1>5, <1>6 DEF CgiWrite

-----------------------------------------------------------------------------
(* What is put out. *)

\* The header block is the first of a request's output, and only the first.
HeadFirst(out) ==
  \A i \in DOMAIN out :
    (out[i][2] = "head") <=> (\A j \in 1..(i - 1) : out[j][1] # out[i][1])
From(out, r) == \E i \in DOMAIN out : out[i][1] = r

WsgiParts ==
  /\ client # "reset" => HeadFirst(Out)
  /\ program.state = "exited" /\ connection.pipes => program.headers_sent
  /\ Exited /\ connection.pipes => (program.result => program.closed)

LEMMA WsgiIs == (WsgiKept <=> WsgiParts) /\ (WsgiKept' <=> WsgiParts')
  BY Zenon DEF WsgiKept, WsgiParts, HeadFirst, Out

LEMMA BlocksJoin ==
  \A a, b, c \in Seq(Block) : (a \o b) \o c = a \o (b \o c)
<1> SUFFICES ASSUME NEW a \in Seq(Block), NEW b \in Seq(Block), NEW c \in Seq(Block)
             PROVE  (a \o b) \o c = a \o (b \o c)
  OBVIOUS
<1> QED
  BY ConcatAssociative

LEMMA OutMoves ==
  ASSUME NEW a \in Seq(Block), NEW b \in Seq(Block), NEW n \in 0..Len(b)
  PROVE  /\ a \o SubSeq(b, 1, n) \in Seq(Block) /\ SubSeq(b, n + 1, Len(b)) \in Seq(Block)
         /\ Len(SubSeq(b, n + 1, Len(b))) = Len(b) - n
         /\ \A i \in 1..(Len(b) - n) : SubSeq(b, n + 1, Len(b))[i] = b[n + i]
         /\ (a \o SubSeq(b, 1, n)) \o SubSeq(b, n + 1, Len(b)) = a \o b
<1> DEFINE f == SubSeq(b, 1, n)
           r == SubSeq(b, n + 1, Len(b))
<1>1. Len(b) \in Nat /\ n \in Nat /\ n <= Len(b) /\ \A i \in 1..Len(b) : b[i] \in Block
  BY ElementOfSeq
<1>2. f \in Seq(Block)
  BY <1>1, SubSeqProperties
<1>3. /\ r \in Seq(Block) /\ Len(r) = Len(b) - n
      /\ \A i \in 1..(Len(b) - n) : r[i] = b[n + i]
  BY <1>1, SubSeqProperties
<1>4. f \o r = b
  <2>1. 1 \in 1..(Len(b) + 1) /\ n \in (1 - 1)..Len(b) /\ Len(b) \in n..Len(b)
    BY <1>1
  <2>2. SubSeq(b, 1, n) \o SubSeq(b, n + 1, Len(b)) = SubSeq(b, 1, Len(b))
    BY <2>1, ConcatAdjacentSubSeq
  <2> QED
    BY <2>2, SubSeqFull
<1> HIDE DEF f, r
<1>5. a \o f \in Seq(Block) /\ (a \o f) \o r = a \o (f \o r)
  <2>1. a \o f \in Seq(Block)
    BY <1>2, ConcatProperties
  <2>2. (a \o f) \o r = a \o (f \o r)
    <3>1. a \in Seq(Block) /\ f \in Seq(Block) /\ r \in Seq(Block)
      BY <1>2, <1>3
    <3> QED
      BY <3>1, BlocksJoin
  <2> QED
    BY <2>1, <2>2
<1> QED
  BY <1>3, <1>4, <1>5 DEF f, r

\* A step of the gateway puts p out for request r.
LEMMA OutGrows ==
  ASSUME NEW out \in Seq(Block), NEW r \in Nat, NEW p \in Puts, NEW q, q = out \o Put(r, p),
         HeadFirst(out), From(out, r) => p \in {<<>>, <<"data">>},
         ~From(out, r) /\ p # <<>> => p[1] = "head"
  PROVE  HeadFirst(q) /\ (From(q, r) <=> From(out, r) \/ p # <<>>)
<1>1. /\ Put(r, p) \in Seq(Block) /\ Len(Put(r, p)) = Len(p) /\ Len(p) \in 0..2
      /\ \A i \in 1..Len(p) : Put(r, p)[i] = <<r, p[i]>>
      /\ p # <<>> => (Len(p) >= 1 /\ (p[1] = "head" \/ p = <<"data">>))
      /\ \A i \in 2..Len(p) : p[i] = "data"
  BY PutsAre
<1>2. Len(out) \in Nat /\ DOMAIN out = 1..Len(out)
  OBVIOUS
<1> DEFINE n == Len(out)
<1>3. /\ q \in Seq(Block) /\ DOMAIN q = 1..(n + Len(p))
      /\ \A i \in 1..n : q[i] = out[i]
      /\ \A i \in 1..Len(p) : q[n + i][1] = r /\ q[n + i][2] = p[i]
  <2> DEFINE t == Put(r, p)
  <2>1. t \in Seq(Block) /\ Len(t) = Len(p) /\ \A i \in 1..Len(p) : t[i] = <<r, p[i]>>
    BY <1>1
  <2> HIDE DEF t
  <2>2. /\ out \o t \in Seq(Block) /\ Len(out \o t) = Len(out) + Len(t)
        /\ \A i \in 1..(Len(out) + Len(t)) :
             (out \o t)[i] = IF i <= Len(out) THEN out[i] ELSE t[i - Len(out)]
    <3>1. out \in Seq(Block) /\ t \in Seq(Block)
      BY <2>1
    <3> QED
      BY <3>1, ConcatProperties, Zenon
  <2>3. q = out \o t
    BY DEF t
  <2>4. \A i \in 1..n : q[i] = out[i]
    BY <1>1, <1>2, <2>1, <2>2, <2>3
  <2>5. ASSUME NEW i \in 1..Len(p) PROVE q[n + i][1] = r /\ q[n + i][2] = p[i]
    <3>1. n + i \in 1..(Len(out) + Len(t)) /\ ~(n + i <= Len(out)) /\ (n + i) - Len(out) = i
      BY <1>1, <1>2, <2>1
    <3>2. q[n + i] = <<r, p[i]>>
      BY <2>1, <2>2, <2>3, <3>1
    <3> QED
      BY <3>2
  <2>6. DOMAIN q = 1..(n + Len(p))
    BY <2>1, <2>2, <2>3
  <2> QED
    BY <2>2, <2>3, <2>4, <2>5, <2>6
<1>4. CASE p = <<>>
  <2>1. Len(p) = 0
    BY <1>4
  <2>2. DOMAIN q = 1..n /\ \A i \in 1..n : q[i] = out[i]
    <3>1. n + Len(p) = n
      BY <1>2, <2>1
    <3> QED
      BY <1>3, <3>1
  <2>3. HeadFirst(q)
    <3> SUFFICES ASSUME NEW i \in 1..n
                 PROVE  (q[i][2] = "head") <=> (\A j \in 1..(i - 1) : q[j][1] # q[i][1])
      BY <2>2 DEF HeadFirst
    <3>a. \A j \in 1..(i - 1) : j \in 1..n
      BY <1>2
    <3>1. q[i] = out[i] /\ \A j \in 1..(i - 1) : q[j] = out[j]
      BY <2>2, <3>a
    <3>2. (out[i][2] = "head") <=> (\A j \in 1..(i - 1) : out[j][1] # out[i][1])
      BY <1>2 DEF HeadFirst
    <3> QED
      BY <3>1, <3>2
  <2> QED
    BY <1>2, <1>4, <2>2, <2>3 DEF From
<1>5. CASE p # <<>>
  <2>1. Len(p) >= 1 /\ Len(p) <= 2
    BY <1>1, <1>5
  <2>2. From(q, r)
    <3>1. n + 1 \in DOMAIN q /\ q[n + 1][1] = r
      BY <1>2, <1>3, <2>1
    <3> QED
      BY <3>1 DEF From
  <2>3. HeadFirst(q)
    <3> SUFFICES ASSUME NEW i \in 1..(n + Len(p))
                 PROVE  (q[i][2] = "head") <=> (\A j \in 1..(i - 1) : q[j][1] # q[i][1])
      BY <1>3 DEF HeadFirst
    <3>1. CASE i \in 1..n
      <4>1. q[i] = out[i] /\ \A j \in 1..(i - 1) : q[j] = out[j]
        BY <1>2, <1>3, <3>1
      <4>2. (out[i][2] = "head") <=> (\A j \in 1..(i - 1) : out[j][1] # out[i][1])
        BY <1>2, <3>1 DEF HeadFirst
      <4> QED
        BY <4>1, <4>2
    <3>2. CASE i = n + 1
      <4>1. q[i][1] = r /\ q[i][2] = p[1]
        BY <1>3, <2>1, <3>2
      <4>2. (\E j \in 1..(i - 1) : q[j][1] = r) <=> From(out, r)
        <5>1. i - 1 = n
          BY <1>2, <3>2
        <5> QED
          BY <1>2, <1>3, <5>1 DEF From
      <4>3. (p[1] = "head") <=> ~From(out, r)
        <5>1. CASE From(out, r)
          <6>1. p = <<"data">>
            BY <1>5, <5>1
          <6> QED
            BY <5>1, <6>1
        <5>2. CASE ~From(out, r)
          BY <1>5, <5>2
        <5> QED
          BY <5>1, <5>2
      <4> QED
        BY <4>1, <4>2, <4>3
    <3>3. CASE i = n + 2 /\ Len(p) = 2
      <4>1. q[i][1] = r /\ q[i][2] = "data"
        BY <1>1, <1>3, <3>3
      <4>2. n + 1 \in 1..(i - 1) /\ q[n + 1][1] = r
        BY <1>2, <1>3, <2>1, <3>3
      <4> QED
        BY <4>1, <4>2
    <3>4. i \in 1..n \/ i = n + 1 \/ (i = n + 2 /\ Len(p) = 2)
      BY <1>1, <1>2, <2>1
    <3> QED
      BY <3>1, <3>2, <3>3, <3>4
  <2> QED
    BY <1>5, <2>2, <2>3
<1> QED
  BY <1>4, <1>5

LEMMA OutTypes ==
  ASSUME Types
  PROVE  /\ Out \in Seq(Block) /\ Len(Out) = Len(got) + Len(stdout_pipe)
         /\ \A i \in DOMAIN Out : Out[i] \in Block
         /\ \A i \in 1..Len(got) : Out[i] = got[i]
         /\ \A i \in 1..Len(stdout_pipe) : Out[Len(got) + i] = stdout_pipe[i]
<1>1. got \in Seq(Block) /\ stdout_pipe \in Seq(Block)
  BY DEF Types
<1>2. Len(got) \in Nat /\ Len(stdout_pipe) \in Nat
  BY <1>1
<1>3. /\ got \o stdout_pipe \in Seq(Block)
      /\ Len(got \o stdout_pipe) = Len(got) + Len(stdout_pipe)
      /\ \A i \in 1..(Len(got) + Len(stdout_pipe)) :
           (got \o stdout_pipe)[i] = IF i <= Len(got) THEN got[i] ELSE stdout_pipe[i - Len(got)]
  BY <1>1, ConcatProperties, Zenon
<1>4. \A i \in 1..Len(got) : Out[i] = got[i]
  BY <1>2, <1>3 DEF Out
<1>5. ASSUME NEW i \in 1..Len(stdout_pipe) PROVE Out[Len(got) + i] = stdout_pipe[i]
  <2>1. /\ Len(got) + i \in 1..(Len(got) + Len(stdout_pipe)) /\ ~(Len(got) + i <= Len(got))
        /\ (Len(got) + i) - Len(got) = i
    BY <1>2
  <2> QED
    BY <1>3, <2>1 DEF Out
<1>6. \A i \in DOMAIN Out : Out[i] \in Block
  BY <1>3, SeqElements DEF Out
<1> QED
  BY <1>3, <1>4, <1>5, <1>6 DEF Out

\* Output goes to the client.
LEMMA OutputSent ==
  ASSUME IInv, server = "read", NEW n \in 0..Len(stdout_pipe),
         stdout_pipe' = SubSeq(stdout_pipe, n + 1, Len(stdout_pipe)),
         got' = got \o SubSeq(stdout_pipe, 1, n), UNCHANGED <<connection, program>>,
         server' = IF connection.buf # <<>> THEN "process" ELSE "select",
         UNCHANGED <<requests, inbound, socket, client, temp, writeSize, stdin_pipe, taken>>,
         UNCHANGED <<begun, lost>>
  PROVE  IInv'
<1>1. /\ Types /\ Sizes /\ InStep /\ Written /\ Counted /\ Losing /\ Phases /\ Doing /\ Killed
      /\ Headed
  BY DEF IInv
<1>2. got \in Seq(Block) /\ stdout_pipe \in Seq(Block) /\ Len(stdout_pipe) \in Nat
  BY <1>1 DEF Types
<1>3. /\ got' \in Seq(Block) /\ stdout_pipe' \in Seq(Block)
      /\ Len(stdout_pipe') = Len(stdout_pipe) - n /\ Out' = Out
  BY <1>2, OutMoves DEF Out
<1>4. /\ Written' /\ Counted' /\ Losing' /\ Doing'
      /\ Now' = Now /\ Expected' = Expected /\ Had' = Had
  BY <1>1, ProgressKept
<1>5. WsgiKept'
  <2>1. WsgiParts
    BY <1>1, WsgiIs DEF Headed
  <2>2. WsgiParts'
    BY <1>3, <2>1 DEF WsgiParts, Exited
  <2> QED
    BY <2>2, WsgiIs
<1>6. Headed'
  BY <1>1, <1>3, <1>5 DEF Headed
<1>7. InStep'
  BY <1>1, <1>4 DEF InStep
<1>8. Types'
  BY <1>1, <1>3 DEF Types, At
<1>9. Sizes'
  <2>1. PipeSize \in Nat
    BY CgiAssumption DEF CgiAssumption
  <2> QED
    BY <1>1, <1>2, <1>3, <2>1 DEF Sizes
<1>10. Phases' /\ Killed'
  BY <1>1, <1>4 DEF Phases, Killed
<1> QED
  BY <1>4, <1>6, <1>7, <1>8, <1>9, <1>10 DEF IInv

\* send fails, and the connection is closed; the client has reset.
LEMMA OutputRefused ==
  ASSUME IInv, server = "read", NEW n \in 0..Len(stdout_pipe), client = "reset",
         stdout_pipe' = SubSeq(stdout_pipe, n + 1, Len(stdout_pipe)),
         connection' = [connection EXCEPT !.open = FALSE, !.wfds = FALSE, !.pipes = FALSE],
         server' = "select", UNCHANGED <<got, program>>,
         UNCHANGED <<requests, inbound, socket, client, temp, writeSize, stdin_pipe, taken>>,
         UNCHANGED <<begun, lost>>
  PROVE  IInv'
<1>1. /\ Types /\ Sizes /\ InStep /\ Written /\ Counted /\ Losing /\ Phases /\ Doing /\ Killed
      /\ Headed
  BY DEF IInv
<1>2. /\ got \in Seq(Block) /\ stdout_pipe \in Seq(Block) /\ Len(stdout_pipe) \in Nat
      /\ Len(got) \in Nat /\ connection \in Connections
  BY <1>1 DEF Types
<1>3. /\ stdout_pipe' \in Seq(Block) /\ Len(stdout_pipe') = Len(stdout_pipe) - n
      /\ \A i \in 1..(Len(stdout_pipe) - n) : stdout_pipe'[i] = stdout_pipe[n + i]
  BY <1>2, OutMoves, SMTT(60)
<1>4. /\ connection' \in Connections /\ connection'.buf = connection.buf
      /\ connection'.request = connection.request
      /\ connection'.hasRequestHeaders = connection.hasRequestHeaders
      /\ connection'.iindex = connection.iindex /\ connection'.wfds = FALSE
      /\ connection'.pipes = FALSE /\ connection'.open = FALSE
  BY <1>2 DEF Connections
<1>5. /\ Written' /\ Counted' /\ Losing' /\ Doing'
      /\ Now' = Now /\ Expected' = Expected /\ Had' = Had
  BY <1>1, <1>4, ProgressKept
<1>6. Types'
  BY <1>1, <1>3, <1>4 DEF Types, At
<1>7. Sizes'
  <2>1. PipeSize \in Nat
    BY CgiAssumption DEF CgiAssumption
  <2> QED
    BY <1>1, <1>2, <1>3, <1>4, <2>1 DEF Sizes
<1>8. InStep'
  BY <1>1, <1>4, <1>5 DEF InStep
<1>9. Phases' /\ Killed'
  <2>1. connection.hasRequestHeaders
    BY <1>1 DEF Phases
  <2> QED
    BY <1>1, <1>4, <1>5, <2>1 DEF Phases, Killed
<1>10. Headed'
  <2>1. /\ Out \in Seq(Block) /\ Len(Out) = Len(got) + Len(stdout_pipe)
        /\ \A i \in 1..Len(got) : Out[i] = got[i]
        /\ \A i \in 1..Len(stdout_pipe) : Out[Len(got) + i] = stdout_pipe[i]
    BY <1>1, OutTypes
  <2>2. /\ Out' \in Seq(Block) /\ Len(Out') = Len(got) + Len(stdout_pipe')
        /\ \A i \in 1..Len(got) : Out'[i] = got[i]
        /\ \A i \in 1..Len(stdout_pipe') : Out'[Len(got) + i] = stdout_pipe'[i]
    <3> DEFINE s == stdout_pipe'
    <3>1. s \in Seq(Block) /\ got \in Seq(Block) /\ Len(s) \in Nat
      BY <1>2, <1>3
    <3>2. Out' = got \o s
      BY DEF Out
    <3> HIDE DEF s
    <3>3. /\ got \o s \in Seq(Block) /\ Len(got \o s) = Len(got) + Len(s)
          /\ \A i \in 1..(Len(got) + Len(s)) :
               (got \o s)[i] = IF i <= Len(got) THEN got[i] ELSE s[i - Len(got)]
      BY <3>1, ConcatProperties, Zenon
    <3>4. \A i \in 1..Len(got) : (got \o s)[i] = got[i]
      BY <1>2, <3>1, <3>3
    <3>5. ASSUME NEW i \in 1..Len(s) PROVE (got \o s)[Len(got) + i] = s[i]
      <4>1. /\ Len(got) + i \in 1..(Len(got) + Len(s)) /\ ~(Len(got) + i <= Len(got))
            /\ (Len(got) + i) - Len(got) = i
        BY <1>2, <3>1
      <4> QED
        BY <3>3, <4>1
    <3> QED
      BY <3>2, <3>3, <3>4, <3>5 DEF s
  <2>3. ASSUME NEW i \in DOMAIN Out' PROVE Out'[i][1] <= connection.request
    <3>1. \A k \in 1..Len(Out) : Out[k][1] <= connection.request
      BY <1>1, <2>1 DEF Headed
    <3>2. i \in 1..(Len(got) + (Len(stdout_pipe) - n))
      BY <1>3, <2>2, <2>3, SMTT(60)
    <3>3. CASE i <= Len(got)
      <4>1. i \in 1..Len(got) /\ i \in 1..Len(Out)
        BY <1>2, <2>1, <3>2, <3>3
      <4> QED
        BY <2>1, <2>2, <3>1, <4>1
    <3>4. CASE i > Len(got)
      <4> DEFINE k == i - Len(got)
      <4>a. k \in 1..(Len(stdout_pipe) - n) /\ i = Len(got) + k
        BY <1>2, <3>2, <3>4
      <4>b. n + k \in 1..Len(stdout_pipe)
        BY <1>2, <4>a
      <4>c. Len(got) + (n + k) \in 1..(Len(got) + Len(stdout_pipe))
        BY <1>2, <4>b
      <4>1. /\ k \in 1..(Len(stdout_pipe) - n) /\ i = Len(got) + k
            /\ n + k \in 1..Len(stdout_pipe) /\ Len(got) + (n + k) \in 1..Len(Out)
        BY <2>1, <4>a, <4>b, <4>c, Zenon
      <4> HIDE DEF k
      <4>2. Out'[Len(got) + k] = stdout_pipe'[k]
        BY <1>3, <2>2, <4>1
      <4>3. stdout_pipe'[k] = stdout_pipe[n + k]
        BY <1>3, <4>1
      <4>4. Out[Len(got) + (n + k)] = stdout_pipe[n + k]
        BY <2>1, <4>1
      <4> QED
        BY <3>1, <4>1, <4>2, <4>3, <4>4
    <3> QED
      BY <1>2, <3>2, <3>3, <3>4
  <2>4. WsgiKept'
    BY <1>4 DEF WsgiKept, Exited
  <2> QED
    BY <1>4, <2>3, <2>4 DEF Headed
<1> QED
  BY <1>5, <1>6, <1>7, <1>8, <1>9, <1>10 DEF IInv

\* All output was sent: ready for the next request.
LEMMA OutputEnds ==
  ASSUME IInv, server = "read", stdout_pipe = <<>>, stdout_pipe' = <<>>,
         connection' = GetReady(connection), program' = NoProgram, UNCHANGED got,
         server' = IF connection.buf # <<>> THEN "process" ELSE "select",
         UNCHANGED <<requests, inbound, socket, client, temp, writeSize, stdin_pipe, taken>>,
         UNCHANGED <<begun, lost>>
  PROVE  IInv'
<1>1. /\ Types /\ Sizes /\ InStep /\ Written /\ Counted /\ Losing /\ Phases /\ Doing /\ Killed
      /\ Headed
  BY DEF IInv
<1>2. /\ connection \in Connections /\ connection.open /\ connection.hasRequestHeaders
      /\ connection.iindex = Now.body /\ Now.body \in Nat
  BY <1>1, NowTypes DEF Types, Phases
<1>3. /\ connection' \in Connections /\ connection'.buf = connection.buf
      /\ connection'.request = connection.request /\ connection'.hasRequestHeaders = FALSE
      /\ connection'.iindex = 0 /\ connection'.wfds = FALSE
      /\ connection'.pipes = FALSE /\ connection'.open = TRUE
  <2>1. connection' = [InitConnection EXCEPT !.buf = connection.buf, !.request = connection.request]
    BY DEF GetReady
  <2>2. /\ connection.buf \in Seq(Unit) /\ connection.request \in Nat
        /\ InitConnection \in Connections /\ InitConnection.hasRequestHeaders = FALSE
        /\ InitConnection.iindex = 0 /\ InitConnection.wfds = FALSE
        /\ InitConnection.pipes = FALSE /\ InitConnection.open = TRUE
    BY <1>2 DEF Connections, InitConnection
  <2> QED
    BY <2>1, <2>2 DEF Connections
<1>4. /\ program' \in Gateways /\ program'.state = "none" /\ program'.headers_sent = FALSE
  <2>1. "none" \in States /\ <<>> \in Seq(Events) /\ program' = Process("none", <<>>)
    BY DEF NoProgram, States
  <2>2. /\ Process("none", <<>>) \in Gateways /\ Process("none", <<>>).state = "none"
        /\ Process("none", <<>>).headers_sent = FALSE
    BY <2>1, ProcessIs
  <2> QED
    BY <2>1, <2>2
<1>5. Types'
  BY <1>1, <1>3, <1>4 DEF Types, At
<1>6. Sizes'
  BY <1>1, <1>3 DEF Sizes
<1>7. InStep'
  <2>1. Expected = <<connection.request + 1, 0>>
    BY <1>2 DEF Expected
  <2>2. Expected' = <<connection.request + 1, 0>> /\ Had' = Had
    BY <1>3 DEF Expected, Had
  <2> QED
    BY <1>1, <1>3, <2>1, <2>2 DEF InStep
<1>8. Written' /\ Losing' /\ Phases' /\ Killed' /\ Doing'
  BY <1>1, <1>3, <1>4 DEF Written, Losing, Phases, Killed, Doing
<1>9. Counted'
  <2>1. OwnInput'
    BY <1>1 DEF Counted, OwnInput
  <2>2. lost = 0 => \A k \in DOMAIN taken : taken[k].by <= connection.request
    BY <1>1 DEF Counted
  <2> QED
    BY <1>3, <2>1, <2>2 DEF Counted
<1>10. Headed'
  <2>1. Out' = Out
    BY DEF Out
  <2>2. WsgiKept'
    BY <1>1, <1>3 DEF Headed, WsgiKept, Exited
  <2> QED
    BY <1>1, <1>3, <2>1, <2>2 DEF Headed
<1> QED
  BY <1>5, <1>6, <1>7, <1>8, <1>9, <1>10 DEF IInv

LEMMA CgiSendResponseKeeps ==
  ASSUME IInv, CgiSendResponse PROVE IInv'
<1>1. /\ server = "read" /\ UNCHANGED <<begun, lost>>
      /\ UNCHANGED <<requests, inbound, socket, client, temp, writeSize, stdin_pipe, taken>>
  BY DEF CgiSendResponse, History
<1>2. /\ stdout_pipe \in Seq(Block) /\ Len(stdout_pipe) \in Nat
      /\ stdout_pipe # <<>> => Len(stdout_pipe) > 0
  BY DEF IInv, Types
<1>3. PICK n \in (IF stdout_pipe = <<>> THEN {0} ELSE 1..Len(stdout_pipe)) :
       /\ stdout_pipe' = SubSeq(stdout_pipe, n + 1, Len(stdout_pipe))
       /\ IF client = "reset"
            THEN /\ connection' = [connection EXCEPT !.open = FALSE, !.wfds = FALSE,
                                                         !.pipes = FALSE]
                 /\ server' = "select"
                 /\ UNCHANGED <<got, program>>
          ELSE /\ server' = IF connection.buf # <<>> THEN "process" ELSE "select"
               /\ got' = got \o SubSeq(stdout_pipe, 1, n)
               /\ IF n > 0 THEN UNCHANGED <<connection, program>>
                  ELSE connection' = GetReady(connection) /\ program' = NoProgram
  BY Zenon DEF CgiSendResponse
<1>4. n \in 0..Len(stdout_pipe) /\ (n = 0 <=> stdout_pipe = <<>>)
  BY <1>2, <1>3
<1>5. CASE client = "reset"
  BY <1>1, <1>3, <1>4, <1>5, OutputRefused
<1>6. CASE client # "reset" /\ n > 0
  BY <1>1, <1>3, <1>4, <1>6, OutputSent
<1>7. CASE client # "reset" /\ ~(n > 0)
  <2>1. n = 0 /\ stdout_pipe = <<>>
    BY <1>4, <1>7
  <2>2. stdout_pipe' = <<>> /\ got' = got
    <3>1. SubSeq(stdout_pipe, n + 1, Len(stdout_pipe)) = <<>> /\ SubSeq(stdout_pipe, 1, n) = <<>>
      BY <1>2, <2>1, SubSeqEmpty
    <3>2. got' = got \o <<>> /\ got \in Seq(Block)
      BY <1>3, <1>7, <3>1 DEF IInv, Types
    <3> QED
      BY <1>3, <3>1, <3>2, ConcatEmptySeq
  <2> QED
    BY <1>1, <1>3, <1>7, <2>1, <2>2, OutputEnds
<1> QED
  BY <1>5, <1>6, <1>7

-----------------------------------------------------------------------------
(* The program's steps. *)

\* A unit read is one more of this request's.
LEMMA TakenGrows ==
  ASSUME NEW n \in Nat, NEW t, NEW v, NEW r, DOMAIN t = 1..n, DOMAIN v = 1..(n + 1),
         \A k \in 1..n : v[k] = t[k], v[n + 1].by = r
  PROVE  Cardinality(TakenBy(r, v)) = Cardinality(TakenBy(r, t)) + 1
<1>1. TakenBy(r, t) \in SUBSET (1..n) /\ IsFiniteSet(1..n)
  <2>1. 1 \in Int /\ n \in Int
    OBVIOUS
  <2>2. IsFiniteSet(1..n)
    BY <2>1, FS_Interval
  <2> QED
    BY <2>2 DEF TakenBy
<1>2. IsFiniteSet(TakenBy(r, t))
  BY <1>1, FS_Subset
<1>3. n + 1 \notin TakenBy(r, t)
  BY DEF TakenBy
<1>4. ASSUME NEW k
      PROVE  k \in TakenBy(r, v) <=> k \in TakenBy(r, t) \/ k = n + 1
  <2>1. k \in DOMAIN v <=> k \in DOMAIN t \/ k = n + 1
    OBVIOUS
  <2>2. k \in DOMAIN t => v[k] = t[k]
    OBVIOUS
  <2> QED
    BY <2>1, <2>2 DEF TakenBy
<1>5. TakenBy(r, v) = TakenBy(r, t) \cup {n + 1}
  BY <1>4
<1> DEFINE A == TakenBy(r, t)
           x == n + 1
<1>6. IsFiniteSet(A) /\ x \notin A /\ TakenBy(r, v) = A \cup {x}
  BY <1>2, <1>3, <1>5
<1> HIDE DEF A, x
<1>7. Cardinality(A \cup {x}) = Cardinality(A) + 1
  BY <1>6, FS_AddElement
<1> QED
  BY <1>6, <1>7 DEF A

\* Reading moves a careful program on in its script.
LEMMA DoingMoves ==
  ASSUME Types, Sizes, Written, Doing, connection.hasRequestHeaders, connection.pipes,
         program.state = "running", Read \in Nat, program.script # <<>>,
         NEW h \in Gateways, h.state = "running", h.script = Tail(program.script),
         NEW got_on \in Nat, got_on = IF AtRead THEN Read + 1 ELSE Read
  PROVE  LET left == Len(Now.script) - Len(h.script)
         IN /\ Len(h.script) <= Len(Now.script)
            /\ \A i \in DOMAIN h.script : h.script[i] = Now.script[left + i]
            /\ Careful(Now) => got_on = IF left < Now.body THEN left ELSE Now.body
<1> DEFINE old == program.script
           new == h.script
<1>1. Now.body \in Nat /\ Now.script \in Seq(Events) /\ Len(Now.script) \in Nat
  BY NowTypes
<1>2. old \in Seq(Events) /\ old # <<>>
  BY DEF Types, Gateways
<1>3. /\ new \in Seq(Events) /\ Len(new) = Len(old) - 1 /\ Len(old) \in Nat /\ Len(old) >= 1
      /\ \A i \in 1..(Len(old) - 1) : new[i] = old[i + 1]
  <2>1. new = Tail(old)
    OBVIOUS
  <2> HIDE DEF old, new
  <2> QED
    BY <1>2, <2>1, HeadTailProperties, EmptySeq
<1>4. /\ Len(old) <= Len(Now.script)
      /\ \A i \in DOMAIN old : old[i] = Now.script[Done + i]
      /\ Careful(Now) => Read = IF Done < Now.body THEN Done ELSE Now.body
  BY DEF Doing
<1>5. AtRead <=> old[1] = "read"
  BY <1>2 DEF AtRead
<1> HIDE DEF old, new
<1> DEFINE left == Len(Now.script) - Len(new)
<1>6. Done = Len(Now.script) - Len(old)
  BY DEF Done, old
<1>7. left = Done + 1 /\ Done \in Nat /\ left <= Len(Now.script)
  BY <1>1, <1>3, <1>4, <1>6
<1>8. \A i \in DOMAIN new : new[i] = Now.script[left + i]
  <2> TAKE i \in DOMAIN new
  <2>a. i \in 1..(Len(old) - 1)
    BY <1>3
  <2>b. i + 1 \in 1..Len(old) /\ Done + (i + 1) = (Done + 1) + i
    BY <1>3, <1>7, <2>a
  <2>c. DOMAIN old = 1..Len(old)
    BY <1>2
  <2>1. i \in 1..(Len(old) - 1) /\ i + 1 \in DOMAIN old /\ Done + (i + 1) = left + i
    BY <1>7, <2>a, <2>b, <2>c
  <2> QED
    BY <1>3, <1>4, <2>1
<1>9. ASSUME Careful(Now)
      PROVE  got_on = IF left < Now.body THEN left ELSE Now.body
  <2>1. old[1] = Now.script[Done + 1]
    BY <1>2, <1>3, <1>4
  <2>2. (Now.script[Done + 1] = "read") <=> (Done + 1 <= Now.body)
    <3>1. Done + 1 \in DOMAIN Now.script
      BY <1>1, <1>3, <1>6, <1>7
    <3> QED
      BY <1>9, <3>1 DEF Careful
  <2>3. AtRead <=> Done + 1 <= Now.body
    BY <1>5, <2>1, <2>2
  <2>4. CASE AtRead
    BY <1>1, <1>4, <1>7, <1>9, <2>3, <2>4
  <2>5. CASE ~AtRead
    BY <1>1, <1>4, <1>7, <1>9, <2>3, <2>5
  <2> QED
    BY <2>4, <2>5
<1>10. Len(new) <= Len(Now.script)
  BY <1>1, <1>3, <1>4
<1> QED
  BY <1>8, <1>9, <1>10 DEF new

\* A careful program that does not read has read everything.
LEMMA AllRead ==
  ASSUME Types, Sizes, Written, Doing, connection.hasRequestHeaders, connection.pipes,
         program.state = "running", ~AtRead, Careful(Now)
  PROVE  Read = Now.body
<1>1. Now.body \in Nat /\ Now.script \in Seq(Events) /\ Len(Now.script) \in Nat
  BY NowTypes
<1>2. program.script \in Seq(Events) /\ Len(program.script) \in Nat
  BY DEF Types, Gateways
<1>3. /\ Len(program.script) <= Len(Now.script)
      /\ \A i \in DOMAIN program.script : program.script[i] = Now.script[Done + i]
      /\ Read = IF Done < Now.body THEN Done ELSE Now.body
  BY DEF Doing
<1>4. Done \in Nat /\ Done <= Len(Now.script)
  <2> DEFINE a == Len(Now.script)
             b == Len(program.script)
  <2>1. a \in Nat /\ b \in Nat /\ b <= a /\ Done = a - b
    BY <1>1, <1>2, <1>3 DEF Done
  <2> HIDE DEF a, b
  <2>2. Done \in Nat /\ Done <= a
    BY <2>1
  <2> QED
    BY <2>2 DEF a
<1>5. Now.body <= Len(Now.script)
        /\ \A i \in DOMAIN Now.script : (Now.script[i] = "read") <=> (i <= Now.body)
  BY DEF Careful
<1>6. CASE program.script = <<>>
  <2>1. Len(program.script) = 0
    BY <1>6
  <2>2. Done = Len(Now.script)
    BY <1>1, <2>1 DEF Done
  <2> QED
    BY <1>1, <1>3, <1>5, <2>2
<1>7. CASE program.script # <<>>
  <2>1. Len(program.script) >= 1
    BY <1>2, <1>7, EmptySeq
  <2>2. program.script[1] = Now.script[Done + 1] /\ program.script[1] # "read"
    BY <1>2, <1>3, <1>7, <2>1 DEF AtRead
  <2>3. Done + 1 \in DOMAIN Now.script
    <3>1. Done = Len(Now.script) - Len(program.script)
      BY DEF Done
    <3>2. Done + 1 \in 1..Len(Now.script)
      <4> DEFINE a == Len(Now.script)
                 b == Len(program.script)
      <4>1. a \in Nat /\ b \in Nat /\ b >= 1 /\ Done = a - b /\ Done \in Nat
        BY <1>1, <1>2, <1>4, <2>1, <3>1
      <4> HIDE DEF a, b
      <4>2. Done + 1 \in 1..a
        BY <4>1
      <4> QED
        BY <4>2 DEF a
    <3>3. DOMAIN Now.script = 1..Len(Now.script)
      BY <1>1
    <3> QED
      BY <3>2, <3>3
  <2>4. ~(Done + 1 <= Now.body)
    BY <1>5, <2>2, <2>3
  <2> QED
    BY <1>1, <1>3, <1>4, <2>4
<1> QED
  BY <1>6, <1>7

\* What both kinds of step leave alone.
LEMMA ProgramFrame ==
  ASSUME IInv, UNCHANGED <<requests, inbound, socket, client, got, connection, temp, server, writeSize>>,
         UNCHANGED <<begun, lost>>, program.state = "running", program'.state # "none", Len(stdin_pipe') <= Len(stdin_pipe),
         Len(stdin_pipe') \in Nat, stdin_pipe \in Seq(Unit), Len(stdout_pipe') <= PipeSize
  PROVE  /\ Now' = Now /\ InStep' /\ Sizes' /\ Losing' /\ Phases' /\ Killed'
         /\ connection.hasRequestHeaders
<1>1. /\ Types /\ Sizes /\ InStep /\ Written /\ Counted /\ Losing /\ Phases /\ Doing /\ Killed
      /\ Headed
  BY DEF IInv
<1>2. connection.hasRequestHeaders
  BY <1>1 DEF Phases
<1>3. Now' = Now /\ Expected' = Expected /\ Had' = Had
  BY DEF Now, Expected, Had
<1>4. InStep' /\ Losing'
  BY <1>1, <1>3 DEF InStep, Losing
<1>5. Sizes'
  <2>1. PipeSize \in Nat /\ Len(stdin_pipe) \in Nat
    BY CgiAssumption DEF CgiAssumption
  <2>2. Len(stdin_pipe) <= PipeSize
    BY <1>1 DEF Sizes
  <2>3. Len(stdin_pipe') <= PipeSize
    BY <2>1, <2>2
  <2> QED
    BY <1>1, <2>3 DEF Sizes
<1>6. Phases'
  BY <1>1, <1>2, <1>3 DEF Phases
<1>7. Killed'
  <2>1. server = "killed" => ~Careful(Now)
    BY <1>1 DEF Killed, NotStarted
  <2> QED
    BY <1>3, <2>1 DEF Killed, Careful
<1> QED
  BY <1>2, <1>3, <1>4, <1>5, <1>6, <1>7

LEMMA ProgramReadsKeeps ==
  ASSUME IInv, ProgramReads PROVE IInv'
<1>1. /\ program.state = "running" /\ AtRead
      /\ UNCHANGED <<requests, inbound, socket, client, got, connection, temp, server, writeSize,
                     stdout_pipe>>
      /\ UNCHANGED <<begun, lost>>
      /\ program' = [program EXCEPT !.script = Tail(@), !.put = <<>>]
  BY DEF ProgramReads, Running, History
<1>2. /\ Types /\ Sizes /\ InStep /\ Written /\ Counted /\ Losing /\ Phases /\ Doing /\ Killed
      /\ Headed
  BY DEF IInv
<1>3. /\ connection.hasRequestHeaders /\ connection \in Connections /\ program \in Gateways
      /\ stdin_pipe \in Seq(Unit) /\ Len(stdin_pipe) \in Nat
      /\ connection.request \in Nat /\ connection.iindex \in Nat
      /\ taken \in Seq([by : Nat, unit : Unit]) /\ program.script # <<>>
  BY <1>1, <1>2 DEF Phases, Types, Connections, AtRead
<1>4. /\ program' \in Gateways /\ program'.state = "running"
      /\ program'.script = Tail(program.script)
      /\ program'.headers_sent = program.headers_sent
  <2> DEFINE t == Tail(program.script)
  <2>1. t \in Seq(Events)
    BY <1>3, HeadTailProperties DEF Gateways
  <2>2. program' = [program EXCEPT !.script = t, !.put = <<>>]
    BY <1>1
  <2> HIDE DEF t
  <2>3. /\ program' \in Gateways /\ program'.state = program.state /\ program'.script = t
        /\ program'.headers_sent = program.headers_sent
    BY <1>3, <2>1, <2>2 DEF Gateways, Puts
  <2> QED
    BY <1>1, <2>3 DEF t
<1>5. /\ Len(stdin_pipe) <= connection.iindex /\ Read \in Nat
      /\ Len(stdout_pipe') <= PipeSize
  <2>1. Len(stdin_pipe) <= connection.iindex
    BY <1>2, <1>3 DEF Written
  <2> QED
    BY <1>1, <1>2, <1>3, <2>1 DEF Read, Sizes
<1>6. Headed'
  <2>1. Out' = Out
    BY <1>1 DEF Out
  <2>2. WsgiParts
    BY <1>2, WsgiIs DEF Headed
  <2>3. WsgiParts'
    BY <1>1, <1>4, <2>1, <2>2 DEF WsgiParts, Exited
  <2> QED
    BY <1>1, <1>2, <1>4, <2>1, <2>3, WsgiIs DEF Headed
<1>7. CASE stdin_pipe = <<>> /\ ~connection.pipes /\ UNCHANGED <<taken, stdin_pipe>>
  <2>1. /\ Now' = Now /\ InStep' /\ Sizes' /\ Losing' /\ Phases' /\ Killed'
    BY <1>1, <1>3, <1>4, <1>5, <1>7, ProgramFrame
  <2>2. Types'
    BY <1>1, <1>2, <1>4, <1>7 DEF Types
  <2>3. Written'
    BY <1>1, <1>2, <1>7, <2>1 DEF Written
  <2>4. Counted'
    <3>1. Read' = Read
      BY <1>1, <1>7 DEF Read
    <3> QED
      BY <1>1, <1>2, <1>7, <3>1 DEF Counted, OwnInput, TakenBy
  <2>5. Doing'
    BY <1>1, <1>7 DEF Doing
  <2> QED
    BY <1>6, <2>1, <2>2, <2>3, <2>4, <2>5 DEF IInv
<1>8. CASE /\ stdin_pipe # <<>>
           /\ taken' = Append(taken, [by |-> connection.request, unit |-> Head(stdin_pipe)])
           /\ stdin_pipe' = Tail(stdin_pipe)
  <2> DEFINE r == connection.request
             u == Head(stdin_pipe)
             e == [by |-> r, unit |-> u]
             S == [by : Nat, unit : Unit]
  <2>1. /\ stdin_pipe' \in Seq(Unit) /\ Len(stdin_pipe') = Len(stdin_pipe) - 1 /\ u \in Unit
        /\ Len(stdin_pipe) >= 1 /\ u = stdin_pipe[1]
        /\ \A j \in 1..(Len(stdin_pipe) - 1) : stdin_pipe'[j] = stdin_pipe[j + 1]
    <3>1. Len(stdin_pipe) >= 1 /\ u = stdin_pipe[1]
      BY <1>3, <1>8, EmptySeq
    <3> QED
      BY <1>3, <1>8, <3>1, HeadTailProperties
  <2>2. e \in S /\ e.by = r /\ e.unit = u /\ taken \in Seq(S) /\ taken' = Append(taken, e)
    BY <1>3, <1>8, <2>1
  <2>c. lost # 0 => lost < r
    <3>1. lost \in Nat /\ lost <= r /\ (lost # 0 /\ lost = r => Now.body = 0)
      BY <1>2, <1>3 DEF Losing, Types
    <3>2. Now.body # 0
      BY <1>2, <1>3, <1>5, <2>1 DEF Written
    <3> QED
      BY <1>3, <3>1, <3>2
  <2>3. lost = 0 => u = <<r, Read + 1>>
    <3>1. 1 \in DOMAIN stdin_pipe
      BY <1>3, <2>1
    <3>2. lost = 0 => stdin_pipe[1] = <<r, connection.iindex - Len(stdin_pipe) + 1>>
      BY <1>2, <1>3, <3>1 DEF Written
    <3> QED
      BY <2>1, <3>2 DEF Read
  <2> HIDE DEF u, e, S
  <2>4. /\ taken' \in Seq(S) /\ Len(taken) \in Nat /\ Len(taken') = Len(taken) + 1
        /\ taken'[Len(taken) + 1] = e
        /\ \A k \in 1..Len(taken) : taken'[k] = taken[k]
        /\ Cardinality(TakenBy(e.by, taken')) = Cardinality(TakenBy(e.by, taken)) + 1
    <3> DEFINE v == taken'
    <3>1. v = Append(taken, e)
      BY <2>2
    <3> HIDE DEF v
    <3>a. taken \in Seq(S) /\ e \in S
      BY <2>2
    <3>2. /\ v \in Seq(S) /\ Len(taken) \in Nat /\ Len(v) = Len(taken) + 1
          /\ v[Len(taken) + 1] = e /\ \A k \in 1..Len(taken) : v[k] = taken[k]
      BY <3>1, <3>a
    <3>3. Cardinality(TakenBy(e.by, v)) = Cardinality(TakenBy(e.by, taken)) + 1
      <4> DEFINE n == Len(taken)
      <4>1. n \in Nat /\ DOMAIN taken = 1..n /\ DOMAIN v = 1..(n + 1)
        BY <3>2, <3>a
      <4>2. (\A k \in 1..n : v[k] = taken[k]) /\ v[n + 1].by = e.by
        BY <3>2
      <4> HIDE DEF n
      <4> QED
        BY <4>1, <4>2, TakenGrows
    <3> QED
      BY <3>2, <3>3 DEF v
  <2>5. /\ Now' = Now /\ InStep' /\ Sizes' /\ Losing' /\ Phases' /\ Killed'
    <3>1. Len(stdin_pipe') <= Len(stdin_pipe) /\ Len(stdin_pipe') \in Nat
      BY <1>3, <2>1
    <3> QED
      BY <1>1, <1>3, <1>4, <1>5, <3>1, ProgramFrame
  <2>6. Types'
    <3>1. taken' \in Seq([by : Nat, unit : Unit])
      BY <2>4 DEF S
    <3> QED
      BY <1>1, <1>2, <1>4, <2>1, <3>1 DEF Types
  <2>7. Read' = Read + 1
    BY <1>1, <1>3, <2>1 DEF Read
  <2>8. Written'
    <3>1. connection.request >= 1 /\ connection.iindex <= Now.body
      BY <1>2, <1>3 DEF Written
    <3>2. Len(stdin_pipe') <= connection.iindex
      BY <1>3, <1>5, <2>1
    <3>3. ASSUME lost = 0, NEW j \in DOMAIN stdin_pipe'
          PROVE  stdin_pipe'[j] = <<connection.request, connection.iindex - Len(stdin_pipe') + j>>
      <4>1. j \in 1..(Len(stdin_pipe) - 1)
        BY <2>1
      <4>2. stdin_pipe'[j] = stdin_pipe[j + 1] /\ j + 1 \in DOMAIN stdin_pipe
        BY <1>3, <2>1, <4>1
      <4>3. stdin_pipe[j + 1] = <<connection.request, connection.iindex - Len(stdin_pipe) + (j + 1)>>
        BY <1>2, <1>3, <3>3, <4>2 DEF Written
      <4>4. connection.iindex - Len(stdin_pipe) + (j + 1) = connection.iindex - Len(stdin_pipe') + j
        <5> DEFINE m == connection.iindex
                   l == Len(stdin_pipe)
                   k == Len(stdin_pipe')
        <5>1. m \in Nat /\ l \in Nat /\ k = l - 1 /\ j \in Nat
          BY <1>3, <2>1, <4>1
        <5> HIDE DEF m, l, k
        <5>2. m - l + (j + 1) = m - k + j
          BY <5>1
        <5> QED
          BY <5>2 DEF m, l, k
      <4> QED
        BY <4>2, <4>3, <4>4
    <3> QED
      BY <1>1, <2>5, <3>1, <3>2, <3>3 DEF Written
  <2>9. lost = 0 => Cardinality(TakenBy(r, taken')) = Read + 1
    BY <1>2, <1>3, <2>2, <2>4 DEF Counted
  <2>10. Counted'
    <3> DEFINE n == Len(taken) + 1
    <3>1. DOMAIN taken = 1..Len(taken) /\ DOMAIN taken' = 1..n
      BY <1>3, <2>4
    <3>2. \A k \in DOMAIN taken' : k \in 1..Len(taken) \/ k = n
      BY <2>4, <3>1
    <3>3. ASSUME lost = 0, NEW k \in DOMAIN taken' PROVE taken'[k].by <= connection.request
      <4>1. CASE k \in 1..Len(taken)
        BY <1>2, <2>4, <3>1, <3>3, <4>1 DEF Counted
      <4>2. CASE k = n
        BY <1>3, <2>2, <2>4, <4>2
      <4> QED
        BY <3>2, <4>1, <4>2
    <3>4. ASSUME NEW k \in DOMAIN taken', lost = 0 \/ taken'[k].by <= lost
          PROVE  /\ taken'[k].unit[1] = taken'[k].by
                 /\ taken'[k].unit[2] = Cardinality({j \in 1..k : taken'[j].by = taken'[k].by})
      <4>1. CASE k \in 1..Len(taken)
        <5>1. \A j \in 1..k : taken'[j] = taken[j]
          BY <2>4, <4>1
        <5>2. taken'[k] = taken[k]
          BY <2>4, <4>1
        <5>3. {j \in 1..k : taken'[j].by = taken'[k].by} = {j \in 1..k : taken[j].by = taken[k].by}
          BY <5>1, <5>2
        <5>4. /\ taken[k].unit[1] = taken[k].by
              /\ taken[k].unit[2] = Cardinality({j \in 1..k : taken[j].by = taken[k].by})
          BY <1>2, <3>1, <3>4, <4>1, <5>2 DEF Counted, OwnInput
        <5> QED
          BY <5>2, <5>3, <5>4
      <4>2. CASE k = n
        <5>1. taken'[k].by = r /\ taken'[k].unit = u
          BY <2>2, <2>4, <4>2
        <5>2. {j \in 1..k : taken'[j].by = taken'[k].by} = TakenBy(r, taken')
          BY <3>1, <4>2, <5>1 DEF TakenBy
        <5>0. lost = 0
          BY <1>2, <1>3, <2>c, <3>4, <5>1 DEF Types
        <5>3. u[1] = r /\ u[2] = Read + 1
          BY <2>3, <5>0
        <5> QED
          BY <2>9, <5>0, <5>1, <5>2, <5>3
      <4> QED
        BY <3>2, <4>1, <4>2
    <3>5. OwnInput'
      BY <1>1, <3>4 DEF OwnInput
    <3> QED
      BY <1>1, <2>7, <2>9, <3>3, <3>5 DEF Counted
  <2>11. Doing'
    <3> SUFFICES ASSUME connection.pipes PROVE Doing'
      BY <1>1 DEF Doing
    <3> DEFINE h == program'
               left == Len(Now.script) - Len(h.script)
    <3>1. /\ Len(h.script) <= Len(Now.script)
          /\ \A i \in DOMAIN h.script : h.script[i] = Now.script[left + i]
          /\ Careful(Now) => Read + 1 = IF left < Now.body THEN left ELSE Now.body
      <4>1. /\ h \in Gateways /\ h.state = "running" /\ h.script = Tail(program.script)
        BY <1>4
      <4>2. Read + 1 \in Nat /\ Read + 1 = IF AtRead THEN Read + 1 ELSE Read
        BY <1>1, <1>5
      <4> HIDE DEF h, left
      <4> QED
        BY <1>1, <1>2, <1>3, <1>5, <4>1, <4>2, DoingMoves DEF left
    <3>2. Done' = left /\ (Careful(Now))' = Careful(Now)
      BY <2>5 DEF Done, Careful
    <3> QED
      BY <1>1, <1>4, <2>5, <2>7, <3>1, <3>2 DEF Doing
  <2> QED
    BY <1>6, <2>5, <2>6, <2>8, <2>10, <2>11 DEF IInv
<1> QED
  BY <1>7, <1>8 DEF ProgramReads

LEMMA ProgramStepsKeeps ==
  ASSUME IInv, ProgramSteps PROVE IInv'
<1> DEFINE g == run_with_cgi(program)
<1>1. /\ program.state = "running" /\ ~AtRead
      /\ UNCHANGED <<requests, inbound, socket, client, got, connection, temp, server, writeSize,
                     stdin_pipe, taken>>
      /\ UNCHANGED <<begun, lost>>
      /\ \/ /\ connection.pipes \/ g.put = <<>>
            /\ Len(stdout_pipe) + Len(g.put) <= PipeSize
            /\ program' = g
            /\ stdout_pipe' = stdout_pipe \o Put(connection.request, g.put)
         \/ /\ ~connection.pipes /\ g.put # <<>>
            /\ program' = [program EXCEPT !.state = "exited"]
            /\ UNCHANGED stdout_pipe
  BY DEF ProgramSteps, Running, History
<1>2. /\ Types /\ Sizes /\ InStep /\ Written /\ Counted /\ Losing /\ Phases /\ Doing /\ Killed
      /\ Headed
  BY DEF IInv
<1>3. /\ connection.hasRequestHeaders /\ connection \in Connections /\ program \in Gateways
      /\ stdin_pipe \in Seq(Unit) /\ Len(stdin_pipe) \in Nat
      /\ connection.request \in Nat /\ connection.iindex \in Nat
  BY <1>1, <1>2 DEF Phases, Types, Connections
<1>4. /\ Len(stdin_pipe) <= connection.iindex /\ Read \in Nat
  <2>1. Len(stdin_pipe) <= connection.iindex
    BY <1>2, <1>3 DEF Written
  <2> QED
    BY <1>3, <2>1 DEF Read
<1>5. /\ Written' /\ Counted' /\ Read' = Read
  <2>1. Now' = Now /\ Read' = Read
    BY <1>1 DEF Now, Read
  <2>2. Written'
    BY <1>1, <1>2, <2>1 DEF Written
  <2>3. Counted'
    BY <1>1, <1>2, <2>1 DEF Counted, OwnInput, TakenBy
  <2> QED
    BY <2>1, <2>2, <2>3
<1> HIDE DEF g
<1>6. CASE /\ ~connection.pipes /\ g.put # <<>>
           /\ program' = [program EXCEPT !.state = "exited"]
           /\ UNCHANGED stdout_pipe
  <2>1. /\ program' \in Gateways /\ program'.state = "exited"
        /\ program'.headers_sent = program.headers_sent
    BY <1>3, <1>6 DEF Gateways, States
  <2>2. /\ Now' = Now /\ InStep' /\ Sizes' /\ Losing' /\ Phases' /\ Killed'
    <3>1. Len(stdout_pipe') <= PipeSize /\ Len(stdin_pipe') <= Len(stdin_pipe)
      BY <1>1, <1>2, <1>3, <1>6 DEF Sizes
    <3> QED
      BY <1>1, <1>3, <2>1, <3>1, ProgramFrame
  <2>3. Types'
    BY <1>1, <1>2, <1>6, <2>1 DEF Types
  <2>4. Doing'
    BY <1>1, <1>6 DEF Doing
  <2>5. Headed'
    <3>1. Out' = Out
      BY <1>1, <1>6 DEF Out
    <3>2. WsgiParts'
      <4>1. WsgiParts
        BY <1>2, WsgiIs DEF Headed
      <4> QED
        BY <1>1, <1>6, <3>1, <4>1 DEF WsgiParts, Exited
    <3> QED
      BY <1>1, <1>2, <2>1, <3>1, <3>2, WsgiIs DEF Headed
  <2> QED
    BY <1>5, <2>2, <2>3, <2>4, <2>5 DEF IInv
<1>7. CASE /\ Len(stdout_pipe) + Len(g.put) <= PipeSize
           /\ program' = g
           /\ stdout_pipe' = stdout_pipe \o Put(connection.request, g.put)
  <2>1. /\ g \in Gateways /\ g.state \in {"running", "raised", "exited"}
        /\ g.state = "running" => program.script # <<>> /\ g.script = Tail(program.script)
        /\ g.put # <<>> => g.headers_sent
        /\ g.state = "raised" => g.headers_sent = program.headers_sent
        /\ g.put = <<>> => g.headers_sent = program.headers_sent
        /\ program.headers_sent => g.headers_sent /\ g.put \in {<<>>, <<"data">>}
        /\ ~program.headers_sent /\ g.put # <<>> => g.put[1] = "head"
        /\ g.state = "exited" => g.headers_sent /\ program.script = <<>>
        /\ g.state \in {"exited", "raised"} => (g.result => g.closed)
    <3>1. program.script = <<>> \/ Head(program.script) # "read"
      BY <1>1 DEF AtRead
    <3> QED
      BY <1>1, <1>3, <3>1, GatewayStep DEF g
  <2> DEFINE r == connection.request
             p == g.put
             o == Put(r, p)
  <2>2. p \in Puts
    BY <2>1 DEF Gateways
  <2>3. o \in Seq(Block) /\ Len(o) = Len(p) /\ Len(p) \in 0..2
    <3> HIDE DEF p
    <3> QED
      BY <1>3, <2>2, PutsAre
  <2>4. got \in Seq(Block) /\ stdout_pipe \in Seq(Block) /\ Len(stdout_pipe) \in Nat
    BY <1>2 DEF Types
  <2>5. Out' = Out \o o /\ stdout_pipe' \in Seq(Block)
        /\ Len(stdout_pipe') = Len(stdout_pipe) + Len(p)
    <3>1. stdout_pipe' = stdout_pipe \o o
      BY <1>7
    <3> HIDE DEF o
    <3>2. stdout_pipe \o o \in Seq(Block) /\ Len(stdout_pipe \o o) = Len(stdout_pipe) + Len(o)
      BY <2>3, <2>4, ConcatProperties
    <3>3. (got \o stdout_pipe) \o o = got \o (stdout_pipe \o o)
      BY <2>3, <2>4, BlocksJoin
    <3> QED
      BY <1>1, <2>3, <3>1, <3>2, <3>3 DEF Out
  <2>6. /\ Now' = Now /\ InStep' /\ Sizes' /\ Losing' /\ Phases' /\ Killed'
    <3>1. Len(stdout_pipe') <= PipeSize /\ Len(stdin_pipe') <= Len(stdin_pipe)
      BY <1>1, <1>3, <1>7, <2>5
    <3>2. program'.state # "none"
      BY <1>7, <2>1
    <3> QED
      BY <1>1, <1>3, <3>1, <3>2, ProgramFrame
  <2>7. Types'
    BY <1>1, <1>2, <1>7, <2>1, <2>5 DEF Types
  <2>8. Doing'
    <3> SUFFICES ASSUME connection.pipes PROVE Doing'
      BY <1>1 DEF Doing
    <3> DEFINE left == Len(Now.script) - Len(g.script)
    <3>1. ASSUME g.state = "running"
          PROVE  /\ Len(g.script) <= Len(Now.script)
                 /\ \A i \in DOMAIN g.script : g.script[i] = Now.script[left + i]
                 /\ Careful(Now) => Read = IF left < Now.body THEN left ELSE Now.body
      <4>1. program.script # <<>> /\ g.script = Tail(program.script)
        BY <2>1, <3>1
      <4>2. Read = IF AtRead THEN Read + 1 ELSE Read
        BY <1>1
      <4> HIDE DEF left
      <4> QED
        BY <1>1, <1>2, <1>3, <1>4, <2>1, <3>1, <4>1, <4>2, DoingMoves DEF left
    <3>2. Careful(Now) => Read = Now.body
      BY <1>1, <1>2, <1>3, AllRead
    <3>3. program' = g /\ Now' = Now /\ Read' = Read /\ (Careful(Now))' = Careful(Now)
      BY <1>5, <1>7, <2>6 DEF Careful
    <3>4. Done' = left
      BY <3>3 DEF Done
    <3> QED
      BY <3>1, <3>2, <3>3, <3>4 DEF Doing
  <2>9. Headed'
    <3>1. WsgiParts
      BY <1>2, WsgiIs DEF Headed
    <3>2. /\ Out \in Seq(Block) /\ \A i \in DOMAIN Out : Out[i][1] <= r
      BY <1>2, OutTypes DEF Headed
    <3>3. \A i \in DOMAIN Out' : Out'[i][1] <= r
      <4> DEFINE q == Out'
      <4>1. \A i \in 1..Len(p) : o[i] = <<r, p[i]>>
        <5> HIDE DEF p
        <5> QED
          BY <1>3, <2>2, PutsAre
      <4>2. q = Out \o o
        BY <2>5
      <4> HIDE DEF q, o
      <4>3. /\ Out \o o \in Seq(Block) /\ Len(Out \o o) = Len(Out) + Len(o)
            /\ \A i \in 1..(Len(Out) + Len(o)) :
                 (Out \o o)[i] = IF i <= Len(Out) THEN Out[i] ELSE o[i - Len(Out)]
        <5>1. Out \in Seq(Block) /\ o \in Seq(Block)
          BY <2>3, <3>2
        <5> QED
          BY <5>1, ConcatProperties, Zenon
      <4>4. ASSUME NEW i \in DOMAIN q PROVE q[i][1] <= r
        <5>1. i \in 1..(Len(Out) + Len(o)) /\ Len(Out) \in Nat /\ Len(o) \in Nat
          BY <2>3, <3>2, <4>2, <4>3
        <5>2. CASE i <= Len(Out)
          <6>1. q[i] = Out[i] /\ i \in DOMAIN Out
            BY <3>2, <4>2, <4>3, <5>1, <5>2
          <6> QED
            BY <3>2, <6>1
        <5>3. CASE i > Len(Out)
          <6>1. i - Len(Out) \in 1..Len(p) /\ ~(i <= Len(Out))
            BY <2>3, <5>1, <5>3
          <6>2. q[i] = <<r, p[i - Len(Out)]>>
            BY <4>1, <4>2, <4>3, <5>1, <6>1
          <6>3. q[i][1] = r
            BY <6>2
          <6> QED
            BY <1>3, <6>3
        <5> QED
          BY <5>1, <5>2, <5>3
      <4> QED
        BY <4>4 DEF q
    <3>4. ASSUME client # "reset"
          PROVE  HeadFirst(Out') /\ (From(Out', r) <=> g.headers_sent)
      <4>1. HeadFirst(Out) /\ (program.headers_sent <=> From(Out, r))
        BY <1>2, <1>3, <3>1, <3>4 DEF Headed, WsgiParts, From
      <4>2. /\ From(Out, r) => p \in {<<>>, <<"data">>}
            /\ ~From(Out, r) /\ p # <<>> => p[1] = "head"
        BY <2>1, <4>1
      <4> DEFINE q == Out'
      <4>3. q = Out \o Put(r, p)
        BY <2>5
      <4> HIDE DEF p, q, o
      <4>4. HeadFirst(q) /\ (From(q, r) <=> From(Out, r) \/ p # <<>>)
        BY <1>3, <2>2, <3>2, <4>1, <4>2, <4>3, OutGrows
      <4>5. g.headers_sent <=> From(Out, r) \/ p # <<>>
        BY <2>1, <4>1 DEF p
      <4> QED
        BY <4>4, <4>5 DEF q
    <3>5. WsgiParts'
      BY <1>1, <1>7, <2>1, <3>4 DEF WsgiParts, Exited
    <3>6. WsgiKept'
      BY <3>5, WsgiIs
    <3>7. client # "reset" => (g.headers_sent <=> \E i \in DOMAIN Out' : Out'[i][1] = r)
      BY <3>4 DEF From
    <3> QED
      BY <1>1, <1>7, <3>3, <3>6, <3>7 DEF Headed
  <2> QED
    BY <1>5, <2>6, <2>7, <2>8, <2>9 DEF IInv
<1> QED
  BY <1>1, <1>6, <1>7

-----------------------------------------------------------------------------
(* The theorems. *)

LEMMA StepKeeps ==
  ASSUME IInv, [Next]_vars PROVE IInv'
<1>1. CASE UNCHANGED vars
  <2>1. /\ UNCHANGED <<requests, inbound, socket, client, got, connection, temp, server, writeSize,
                       stdin_pipe, stdout_pipe, program, taken>>
        /\ UNCHANGED <<begun, lost>>
    BY <1>1 DEF vars
  <2>2. /\ Sizes' /\ InStep' /\ Written' /\ Counted' /\ Losing' /\ Doing' /\ Headed'
        /\ Now' = Now
    BY <2>1, FrameKept
  <2>3. Types /\ Phases /\ Killed
    BY DEF IInv
  <2>4. Types' /\ Phases' /\ Killed'
    BY <2>1, <2>2, <2>3 DEF Types, Phases, Killed, NotStarted
  <2> QED
    BY <2>2, <2>4 DEF IInv
<1>2. CASE ClientSend
  BY <1>2, ClientSendKeeps
<1>3. CASE \E how \in {"fin", "reset"} : ClientLeaves(how)
  BY <1>3, ClientLeavesKeeps
<1>4. CASE ServerStep
  BY <1>4, SelectKeeps, LoopEndsKeeps, RecvDataKeeps, RecvEndKeeps, NewRequestKeeps, GoAstrayKeeps,
     MoreInputKeeps, PostRecvKeeps, CgiWriteKeeps, PostFinishKeeps, SendKeeps,
     CgiSendResponseKeeps DEF ServerStep
<1>5. CASE ProgramStep
  BY <1>5, ProgramReadsKeeps, ProgramStepsKeeps DEF ProgramStep
<1> QED
  BY <1>1, <1>2, <1>3, <1>4, <1>5 DEF Next
-----------------------------------------------------------------------------
(* The theorems. *)

LEMMA TypesOk == IInv => TypeOK
<1> SUFFICES ASSUME IInv PROVE TypeOK
  OBVIOUS
<1>1. Types /\ Sizes /\ Phases
  BY DEF IInv
<1>2. connection.request \in 0..Len(requests)
  BY <1>1, RequestsLen DEF Types, Sizes, Connections
<1>3. program.state \in States /\ connection.buf \in Seq(Unit)
  BY <1>1 DEF Types, Gateways, Connections
<1>4. server = "write" => writeSize \in 0..Len(connection.buf)
  <2>1. writeSize \in Nat /\ Len(connection.buf) \in Nat
    BY <1>1, <1>3 DEF Types
  <2>2. server = "write" => writeSize <= Len(connection.buf)
    BY <1>1 DEF Phases
  <2> QED
    BY <2>1, <2>2
<1> QED
  BY <1>1, <1>2, <1>3, <1>4 DEF TypeOK, Types, Sizes, States, At

\* The loop and a careful program do not both wait, at either place.
LEMMA NobodyWaits ==
  ASSUME IInv, ServerWaits, ProgramWaits, Careful(Now) PROVE FALSE
<1>1. /\ Types /\ Sizes /\ Written /\ Phases /\ Doing /\ Headed
      /\ program.state = "running"
  BY DEF IInv, ProgramWaits
<1>2. /\ server \in {"write", "read"} /\ connection.open /\ connection.hasRequestHeaders
      /\ connection.pipes
  BY <1>1 DEF ServerWaits, Phases
<1>3. /\ connection.iindex \in Nat /\ Len(stdin_pipe) \in Nat /\ PipeSize \in Nat \ {0, 1}
      /\ program \in Gateways /\ connection.request \in Nat
      /\ stdin_pipe \in Seq(Unit) /\ stdout_pipe \in Seq(Block) /\ Len(stdout_pipe) \in Nat
  BY <1>1, CgiAssumption DEF CgiAssumption, Types, Connections
<1>4. Now.body \in Nat /\ Now.script \in Seq(Events)
  BY <1>1, <1>2, NowTypes
<1>5. connection.iindex <= Now.body /\ Len(stdin_pipe) <= connection.iindex
  BY <1>1, <1>2 DEF Written
<1>6. Read = connection.iindex - Len(stdin_pipe)
  BY DEF Read
<1>7. ASSUME ~AtRead PROVE Read = Now.body
  BY <1>1, <1>2, <1>7, AllRead
\* The loop writes: the pipe is full, and some of the body is not written yet.
<1>8. CASE server = "write"
  <2>1. writeSize > 0 /\ Len(stdin_pipe) = PipeSize
    BY <1>8 DEF ServerWaits
  <2>2. writeSize \in Nat /\ writeSize <= Now.body - connection.iindex
    BY <1>1, <1>8 DEF Types, Phases
  <2>3. ~AtRead
    <3>1. stdin_pipe # <<>>
      BY <1>3, <2>1
    <3> QED
      BY <3>1 DEF ProgramWaits
  <2> QED
    BY <1>3, <1>4, <1>6, <1>7, <2>1, <2>2, <2>3
\* The loop reads: the whole body is written, and nothing has come back.
<1>9. CASE server = "read"
  <2>1. stdout_pipe = <<>> /\ connection.iindex = Now.body
    BY <1>1, <1>9 DEF ServerWaits, Phases
  <2>2. CASE AtRead
    <3>1. Len(stdin_pipe) = 0
      BY <2>2 DEF ProgramWaits
    <3>2. Read = Now.body
      BY <1>3, <1>6, <2>1, <3>1
    <3>3. /\ Len(program.script) <= Len(Now.script)
          /\ \A i \in DOMAIN program.script : program.script[i] = Now.script[Done + i]
          /\ Read = IF Done < Now.body THEN Done ELSE Now.body
      BY <1>1, <1>2 DEF Doing
    <3>4. /\ program.script \in Seq(Events) /\ Len(program.script) \in Nat
          /\ Len(program.script) >= 1 /\ program.script[1] = "read"
      <4>1. program.script \in Seq(Events) /\ program.script # <<>>
        BY <1>3, <2>2 DEF AtRead, Gateways
      <4>2. Len(program.script) \in Nat /\ Len(program.script) >= 1
        BY <4>1, EmptySeq
      <4> QED
        BY <4>1, <4>2, <2>2 DEF AtRead
    <3> DEFINE a == Len(Now.script)
               b == Len(program.script)
    <3>5. a \in Nat /\ b \in Nat /\ b >= 1 /\ b <= a /\ Done = a - b
      BY <1>4, <3>3, <3>4 DEF Done
    <3>6. DOMAIN Now.script = 1..a /\ 1 \in DOMAIN program.script
      BY <1>4, <3>4
    <3> HIDE DEF a, b
    <3>7. Done \in Nat /\ Done + 1 \in 1..a
      BY <3>5
    <3>8. Now.script[Done + 1] = "read"
      BY <3>3, <3>4, <3>6
    <3>9. Done + 1 <= Now.body
      BY <3>6, <3>7, <3>8 DEF Careful
    <3> QED
      BY <1>4, <3>2, <3>3, <3>7, <3>9
  <2>3. CASE ~AtRead
    <3>1. program.script = <<>> \/ Head(program.script) # "read"
      BY <2>3 DEF AtRead
    <3> DEFINE g == run_with_cgi(program)
    <3>2. g \in Gateways
      BY <1>1, <1>3, <3>1, GatewayStep
    <3>3. Len(stdout_pipe) + Len(g.put) > PipeSize
      BY <2>3 DEF ProgramWaits
    <3> HIDE DEF g
    <3>4. Len(g.put) \in 0..2
      BY <3>2, <1>3, PutsAre DEF Gateways
    <3>5. Len(stdout_pipe) = 0
      BY <2>1
    <3> DEFINE m == Len(g.put)
               l == Len(stdout_pipe)
    <3>6. m \in 0..2 /\ l = 0 /\ l + m > PipeSize
      BY <3>3, <3>4, <3>5
    <3> HIDE DEF m, l
    <3> QED
      BY <1>3, <3>6
  <2> QED
    BY <2>2, <2>3
<1> QED
  BY <1>2, <1>8, <1>9

LEMMA CarefulNotBlocked == IInv => OnlyCarelessPrograms
<1>1. IInv => Killed
  BY DEF IInv
<1> QED
  BY <1>1, NobodyWaits DEF OnlyCarelessPrograms, Killed

\* Nothing outgrows its buffer or pipe, the loop and the process are always in one of
\* their states, and what cgi_write has still to write is in the buffer.
THEOREM TypeCorrect == Spec => []TypeOK
<1>1. IInv /\ [Next]_vars => IInv'
  BY StepKeeps
<1> QED
  BY <1>1, InitHolds, TypesOk, PTL DEF Spec

\* However recv, write and the program's reads cut a pipeline of requests, the program of
\* each request reads its own body, in order, from its first unit on, and nothing of
\* another request (post_recv_phase and cgi_write); up to the first GET during which
\* liso_handle_recv drops what it reads.
THEOREM ProgramsReadOwnInput == Spec => []OwnInput
<1>1. IInv /\ [Next]_vars => IInv'
  BY StepKeeps
<1>2. IInv => OwnInput
  BY DEF IInv, Counted
<1> QED
  BY <1>1, <1>2, InitHolds, PTL DEF Spec

\* Whatever an application does, run_with_cgi puts the headers out once and before any
\* data, never lets a process exit without them, and closes the result it was given.
THEOREM GatewayKeepsRules == Spec => []WsgiKept
<1>1. IInv /\ [Next]_vars => IInv'
  BY StepKeeps
<1>2. IInv => WsgiKept
  BY DEF IInv, Headed
<1> QED
  BY <1>1, <1>2, InitHolds, PTL DEF Spec

\* The thread blocked in cgi_write or cgi_read and a program that reads all of its input
\* before it puts anything out never wait for each other, and writing to such a program
\* does not kill the server: for every size of the buffer and of the pipes.
THEOREM LoopNeverBlocked == Spec => []OnlyCarelessPrograms
<1>1. IInv /\ [Next]_vars => IInv'
  BY StepKeeps
<1> QED
  BY <1>1, InitHolds, CarefulNotBlocked, PTL DEF Spec

-----------------------------------------------------------------------------
(* What the gateway puts out, by the events of the application.               *)

\* An event the gateway does not allow in the state it is in.
Stops(g, e) ==
  \/ e = "raise"
  \/ e = "start" /\ g.headers_set
  \/ e = "start_exc" /\ g.headers_sent
  \/ e \in {"write", "data"} /\ ~g.headers_set

LEMMA EventIs ==
  ASSUME NEW g \in Gateways, g.state = "running", g.script # <<>>,
         NEW e, e = Head(g.script), e # "read", NEW h, h = run_with_cgi(g)
  PROVE  /\ Stops(g, e) => h.state = "raised" /\ h.put = <<>>
         /\ ~Stops(g, e) =>
              /\ h.state = "running"
              /\ h.headers_set <=> g.headers_set \/ e \in {"start", "start_exc"}
              /\ h.headers_sent <=> g.headers_sent \/ e \in {"write", "data"}
              /\ Len(h.put) = IF e \notin {"write", "data"} THEN 0
                              ELSE IF g.headers_sent THEN 1 ELSE 2
<1> DEFINE k == [g EXCEPT !.script = Tail(g.script), !.put = <<>>]
<1>1. g.script \in Seq(Events) /\ e \in Events /\ Tail(g.script) \in Seq(Events)
  BY DEF Gateways
<1>2. /\ k \in Gateways /\ k.put = <<>> /\ k.state = "running"
      /\ k.headers_sent = g.headers_sent /\ k.headers_set = g.headers_set
  BY <1>1 DEF Gateways, Puts
<1>3. h = CASE e = "start"     -> start_response(k, FALSE)
            [] e = "start_exc" -> start_response(k, TRUE)
            [] e \in {"write", "data"} -> write(k, <<"data">>)
            [] e = "return"    -> [k EXCEPT !.result = TRUE]
            [] e = "raise"     -> Raised(k)
            [] OTHER           -> k
  BY DEF run_with_cgi
<1> HIDE DEF k
<1>4. CASE e \in {"start", "start_exc"}
  <2> DEFINE x == (e = "start_exc")
  <2>1. h = start_response(k, x) /\ x \in BOOLEAN
    BY <1>3, <1>4
  <2>2. /\ h.put = <<>> /\ h.headers_sent = k.headers_sent
        /\ IF (x /\ k.headers_sent) \/ (~x /\ k.headers_set)
             THEN h.state = "raised" ELSE h.state = k.state /\ h.headers_set
    <3> HIDE DEF x
    <3> QED
      BY <1>2, <2>1, StartIs
  <2> QED
    BY <1>2, <1>4, <2>2 DEF Stops
<1>5. CASE e \in {"write", "data"}
  <2>1. h = write(k, <<"data">>)
    BY <1>3, <1>5
  <2>2. /\ ~k.headers_set => h = Raised(k)
        /\ k.headers_set =>
             /\ h.state = k.state /\ h.headers_sent /\ h.headers_set
             /\ k.headers_sent => h.put = <<"data">>
             /\ ~k.headers_sent => Len(h.put) = 1 + Len(<<"data">>)
    <3>1. <<"data">> \in {<<>>, <<"data">>}
      OBVIOUS
    <3> QED
      BY <3>1, <1>2, <2>1, WriteIs, Zenon
  <2>3. CASE k.headers_set
    <3>1. Len(<<"data">>) = 1 /\ ~Stops(g, e)
      BY <1>2, <1>5, <2>3 DEF Stops
    <3>2. Len(h.put) = IF k.headers_sent THEN 1 ELSE 2
      <4>1. CASE k.headers_sent
        BY <2>2, <2>3, <3>1, <4>1
      <4>2. CASE ~k.headers_sent
        <5>1. Len(h.put) = 1 + Len(<<"data">>)
          BY <2>2, <2>3, <4>2
        <5> QED
          BY <3>1, <4>2, <5>1
      <4> QED
        BY <4>1, <4>2
    <3> QED
      BY <1>2, <1>5, <2>2, <2>3, <3>1, <3>2
  <2>4. CASE ~k.headers_set
    BY <1>2, <1>5, <2>2, <2>4, RaisedIs DEF Stops
  <2> QED
    BY <2>3, <2>4
<1>6. CASE e = "return"
  <2>1. h = [k EXCEPT !.result = TRUE]
    BY <1>3, <1>6
  <2>2. /\ h.put = k.put /\ h.state = k.state /\ h.headers_set = k.headers_set
        /\ h.headers_sent = k.headers_sent
    BY <1>2, <2>1 DEF Gateways
  <2> QED
    BY <1>2, <1>6, <2>2 DEF Stops
<1>7. CASE e = "raise"
  BY <1>2, <1>3, <1>7, RaisedIs DEF Stops
<1>8. CASE e = "empty"
  <2>1. h = k
    BY <1>3, <1>8
  <2> QED
    BY <1>2, <1>8, <2>1 DEF Stops
<1> QED
  BY <1>1, <1>4, <1>5, <1>6, <1>7, <1>8 DEF Events

\* The blocks an application has put out in its first d steps.
Yields(s, d) == {i \in 1..d : s[i] \in {"write", "data"}}

LEMMA YieldsMove ==
  ASSUME NEW s, NEW d \in Nat
  PROVE  /\ IsFiniteSet(Yields(s, d)) /\ Cardinality(Yields(s, d)) \in Nat
         /\ HasSent(s, d + 1) <=> Yields(s, d) # {}
         /\ Cardinality(Yields(s, d + 1)) =
              Cardinality(Yields(s, d)) + (IF s[d + 1] \in {"write", "data"} THEN 1 ELSE 0)
         /\ HasSet(s, d + 2) <=> HasSet(s, d + 1) \/ s[d + 1] \in {"start", "start_exc"}
         /\ HasSent(s, d + 2) <=> HasSent(s, d + 1) \/ s[d + 1] \in {"write", "data"}
<1> DEFINE Y == Yields(s, d)
           Z == Yields(s, d + 1)
<1>1. /\ (d + 1) - 1 = d /\ (d + 2) - 1 = d + 1
      /\ \A j : j \in 1..(d + 1) <=> j \in 1..d \/ j = d + 1
  OBVIOUS
<1>2. HasSent(s, d + 1) <=> Yields(s, d) # {}
  BY <1>1 DEF HasSent, Yields
<1>3. HasSet(s, d + 2) <=> HasSet(s, d + 1) \/ s[d + 1] \in {"start", "start_exc"}
  BY <1>1 DEF HasSet
<1>4. HasSent(s, d + 2) <=> HasSent(s, d + 1) \/ s[d + 1] \in {"write", "data"}
  BY <1>1 DEF HasSent
<1>5. IsFiniteSet(Y) /\ Cardinality(Y) \in Nat
  <2>1. IsFiniteSet(1..d) /\ Y \in SUBSET (1..d)
    BY FS_Interval DEF Yields
  <2> HIDE DEF Y
  <2> QED
    BY <2>1, FS_Subset, FS_CardinalityType
<1>6. Z = IF s[d + 1] \in {"write", "data"} THEN Y \cup {d + 1} ELSE Y
  BY <1>1 DEF Yields
<1>7. d + 1 \notin Y
  BY DEF Yields
<1> HIDE DEF Y, Z
<1>8. Cardinality(Y \cup {d + 1}) = Cardinality(Y) + 1
  <2> DEFINE x == d + 1
  <2>1. x \notin Y
    BY <1>7
  <2> HIDE DEF x
  <2>2. Cardinality(Y \cup {x}) = Cardinality(Y) + 1
    BY <1>5, <2>1, FS_AddElement
  <2> QED
    BY <2>2 DEF x
<1>9. Cardinality(Z) = Cardinality(Y) + (IF s[d + 1] \in {"write", "data"} THEN 1 ELSE 0)
  BY <1>5, <1>6, <1>8
<1> QED
  BY <1>2, <1>3, <1>4, <1>5, <1>9 DEF Y, Z

\* Output by its length: blocks of data after a header block, if there is one.
LEMMA OutputIs ==
  ASSUME NEW s \in Seq(Events)
  PROVE  /\ Len(Output(s)) \in Nat
         /\ \A k \in 1..Len(Output(s)) : Output(s)[k] = IF k = 1 THEN "head" ELSE "data"
         /\ LET blocks == {i \in Performed(s) : s[i] \in {"write", "data"}}
                ends   == Performed(s) = DOMAIN s /\ HasSet(s, Len(s) + 1)
            IN Len(Output(s)) = IF blocks = {} /\ ~ends THEN 0 ELSE Cardinality(blocks) + 1
<1> DEFINE blocks == {i \in Performed(s) : s[i] \in {"write", "data"}}
           ends   == Performed(s) = DOMAIN s /\ HasSet(s, Len(s) + 1)
<1>1. Cardinality(blocks) \in Nat
  <2>1. DOMAIN s = 1..Len(s) /\ IsFiniteSet(1..Len(s)) /\ blocks \in SUBSET DOMAIN s
    BY FS_Interval DEF Performed
  <2> HIDE DEF blocks
  <2>2. IsFiniteSet(blocks)
    BY <2>1, FS_Subset
  <2> QED
    BY <2>2, FS_CardinalityType
<1>2. Output(s) = IF blocks = {} /\ ~ends THEN <<>>
                  ELSE [k \in 1..(Cardinality(blocks) + 1) |-> IF k = 1 THEN "head" ELSE "data"]
  BY DEF Output
<1> HIDE DEF blocks, ends
<1>3. CASE blocks = {} /\ ~ends
  BY <1>2, <1>3 DEF blocks, ends
<1>4. CASE ~(blocks = {} /\ ~ends)
  <2> DEFINE n == Cardinality(blocks) + 1
             o == [k \in 1..n |-> IF k = 1 THEN "head" ELSE "data"]
  <2>1. Output(s) = o /\ n \in Nat
    BY <1>1, <1>2, <1>4
  <2> HIDE DEF n
  <2>2. Len(o) = n
    BY <2>1
  <2>3. Len(Output(s)) = n /\ \A k \in 1..n : Output(s)[k] = IF k = 1 THEN "head" ELSE "data"
    BY <2>1, <2>2
  <2> QED
    BY <1>4, <2>1, <2>3 DEF blocks, ends, n
<1> QED
  BY <1>3, <1>4

\* How much of the output there is once d events were allowed, and how much there is in
\* all when the next one is not, or when they were the last.
LEMMA OutputLength ==
  ASSUME NEW s \in Seq(Events), NEW d \in 0..Len(s), \A i \in 1..d : ~Refused(s, i)
  PROVE  /\ Yields(s, d) # {} => Cardinality(Yields(s, d)) + 1 <= Len(Output(s))
         /\ d < Len(s) /\ Refused(s, d + 1) =>
              Len(Output(s)) = IF Yields(s, d) = {} THEN 0 ELSE Cardinality(Yields(s, d)) + 1
         /\ d = Len(s) =>
              Len(Output(s)) = IF Yields(s, d) = {} /\ ~HasSet(s, d + 1) THEN 0
                               ELSE Cardinality(Yields(s, d)) + 1
<1> DEFINE P == Performed(s)
           blocks == {i \in P : s[i] \in {"write", "data"}}
           ends   == P = DOMAIN s /\ HasSet(s, Len(s) + 1)
           Y == Yields(s, d)
<1>1. Len(s) \in Nat /\ d \in Nat /\ d <= Len(s) /\ DOMAIN s = 1..Len(s)
  OBVIOUS
<1>2. Len(Output(s)) = IF blocks = {} /\ ~ends THEN 0 ELSE Cardinality(blocks) + 1
  BY OutputIs
<1>3. \A i \in 1..d : i \in P
  <2> TAKE i \in 1..d
  <2>1. i \in DOMAIN s /\ \A j \in 1..i : j \in 1..d
    BY <1>1
  <2> QED
    BY <2>1 DEF Performed
<1>4. P \subseteq 1..Len(s)
  BY <1>1 DEF Performed
<1>5. Y \subseteq blocks
  BY <1>3 DEF Yields
<1>6. IsFiniteSet(blocks)
  <2>1. IsFiniteSet(1..Len(s)) /\ blocks \in SUBSET (1..Len(s))
    BY <1>1, <1>4, FS_Interval
  <2> HIDE DEF blocks
  <2> QED
    BY <2>1, FS_Subset
<1>7. Y # {} => Cardinality(Y) + 1 <= Len(Output(s))
  <2> HIDE DEF Y, blocks, ends
  <2>1. Cardinality(Y) <= Cardinality(blocks) /\ Cardinality(blocks) \in Nat
    BY <1>5, <1>6, FS_Subset, FS_CardinalityType
  <2>2. Cardinality(Y) \in Nat
    <3>1. IsFiniteSet(Y)
      BY <1>5, <1>6, FS_Subset
    <3> QED
      BY <3>1, FS_CardinalityType
  <2> QED
    BY <1>2, <1>5, <2>1, <2>2
<1>8. ASSUME d < Len(s), Refused(s, d + 1)
      PROVE  Len(Output(s)) = IF Y = {} THEN 0 ELSE Cardinality(Y) + 1
  <2>1. d + 1 \in DOMAIN s /\ d + 1 \notin P
    <3>1. d + 1 \in DOMAIN s /\ d + 1 \in 1..(d + 1)
      BY <1>1, <1>8
    <3> QED
      BY <1>8, <3>1 DEF Performed
  <2>2. \A i \in P : i \in 1..d
    <3> TAKE i \in P
    <3>1. i \in 1..Len(s) /\ \A j \in 1..i : ~Refused(s, j)
      BY <1>4 DEF Performed
    <3>2. ~(d + 1 \in 1..i)
      BY <1>8, <3>1
    <3> QED
      BY <1>1, <3>1, <3>2
  <2>3. blocks = Y
    BY <1>5, <2>2 DEF Yields
  <2>4. ~ends
    BY <2>1
  <2> HIDE DEF blocks, ends, Y
  <2> QED
    BY <1>2, <2>3, <2>4
<1>9. ASSUME d = Len(s)
      PROVE  Len(Output(s)) = IF Y = {} /\ ~HasSet(s, d + 1) THEN 0 ELSE Cardinality(Y) + 1
  <2>1. P = DOMAIN s
    BY <1>1, <1>3, <1>4, <1>9
  <2>2. blocks = Y
    BY <1>1, <1>9, <2>1 DEF Yields
  <2>3. ends <=> HasSet(s, d + 1)
    BY <1>9, <2>1
  <2> HIDE DEF blocks, ends, Y
  <2> QED
    BY <1>2, <2>2, <2>3
<1> HIDE DEF Y
<1> QED
  BY <1>7, <1>8, <1>9 DEF Y

-----------------------------------------------------------------------------
(* The account of what was put out.  Delivered is an invariant over IInv.     *)

Share(out, r) == {k \in DOMAIN out : out[k][1] = r}

\* What the client has is the programs' output, in the order of the requests.
InOrder ==
  \A k \in DOMAIN got :
    /\ got[k][2] = Output(requests[got[k][1]].script)[Blocks(got[k][1], k)]
    /\ \A j \in 1..(k - 1) : got[j][1] <= got[k][1]
    /\ got[k][1] \in begun /\ got[k][1] >= 1
AllSent ==
  \A r \in begun : r < connection.request \/ ~connection.hasRequestHeaders => Complete(r)

\* After d events of s the gateway g has allowed them all, knows which headers it has, and
\* has put out sum blocks.
Accounted(s, d, g, sum) ==
  /\ \A i \in 1..d : ~Refused(s, i)
  /\ g.headers_set <=> HasSet(s, d + 1)
  /\ g.headers_sent <=> HasSent(s, d + 1)
  /\ sum = IF g.headers_sent THEN Cardinality(Yields(s, d)) + 1 ELSE 0

\* The request in hand: what its program has put out, sent or still in the pipe, is what
\* it has come to, and all there is once the program has ended.
Account ==
  connection.open /\ connection.hasRequestHeaders =>
    LET s    == Now.script
        sum  == Cardinality(Share(Out, connection.request))
    IN /\ \A i \in DOMAIN stdout_pipe : stdout_pipe[i][1] = connection.request
       /\ program.state = "running" => Accounted(s, Done, program, sum)
       /\ program.state \in {"raised", "exited"} => sum = Len(Output(s))
       /\ NotStarted => stdout_pipe = <<>>

Delivered == InOrder /\ AllSent /\ Account

LEMMA ShareFinite ==
  ASSUME NEW out \in Seq(Block), NEW r
  PROVE  IsFiniteSet(Share(out, r)) /\ Cardinality(Share(out, r)) \in Nat
<1> DEFINE S == Share(out, r)
<1>1. IsFiniteSet(1..Len(out)) /\ S \in SUBSET (1..Len(out))
  BY FS_Interval DEF Share
<1> HIDE DEF S
<1>2. IsFiniteSet(S) /\ Cardinality(S) \in Nat
  BY <1>1, FS_Subset, FS_CardinalityType
<1> QED
  BY <1>2 DEF S

\* Blocks of one request are added at the end: there are more of it, and of no other.
LEMMA ShareGrows ==
  ASSUME NEW a \in Seq(Block), NEW b \in Seq(Block), NEW r, \A i \in DOMAIN b : b[i][1] = r
  PROVE  /\ Cardinality(Share(a \o b, r)) = Cardinality(Share(a, r)) + Len(b)
         /\ a \o b \in Seq(Block) /\ DOMAIN (a \o b) = 1..(Len(a) + Len(b))
         /\ \A k \in 1..Len(a) : (a \o b)[k] = a[k]
         /\ \A k \in (Len(a) + 1)..(Len(a) + Len(b)) : (a \o b)[k][1] = r
<1> DEFINE n == Len(a)
           m == Len(b)
           q == a \o b
<1>1. n \in Nat /\ m \in Nat /\ DOMAIN a = 1..n /\ DOMAIN b = 1..m
  OBVIOUS
<1>2. /\ q \in Seq(Block) /\ Len(q) = n + m
      /\ \A k \in 1..(n + m) : q[k] = IF k <= n THEN a[k] ELSE b[k - n]
  BY ConcatProperties, Zenon
<1>3. DOMAIN q = 1..(n + m)
  BY <1>2
<1> HIDE DEF q
<1>4. \A k \in 1..n : q[k] = a[k]
  BY <1>1, <1>2
<1>5. \A k \in (n + 1)..(n + m) : q[k][1] = r
  <2> TAKE k \in (n + 1)..(n + m)
  <2>1. k \in 1..(n + m) /\ ~(k <= n) /\ k - n \in 1..m
    BY <1>1
  <2> QED
    BY <1>1, <1>2, <2>1
<1> HIDE DEF n, m
<1>6. \A k : k \in 1..(n + m) <=> k \in 1..n \/ k \in (n + 1)..(n + m)
  BY <1>1
<1>8. Share(q, r) = Share(a, r) \cup ((n + 1)..(n + m))
  <2>1. ASSUME NEW k
        PROVE  k \in Share(q, r) <=> k \in Share(a, r) \/ k \in (n + 1)..(n + m)
    BY <1>1, <1>3, <1>4, <1>5, <1>6 DEF Share
  <2> QED
    BY <2>1
<1>9. Cardinality(Share(q, r)) = Cardinality(Share(a, r)) + m
  <2> DEFINE S == Share(a, r)
             T == (n + 1)..(n + m)
  <2>1. IsFiniteSet(S) /\ Cardinality(S) \in Nat
    BY ShareFinite
  <2>2. IsFiniteSet(T) /\ Cardinality(T) = m
    <3>1. n + 1 \in Int /\ n + m \in Int
      BY <1>1
    <3>2. IsFiniteSet(T) /\ Cardinality(T) = IF n + 1 > n + m THEN 0 ELSE (n + m) - (n + 1) + 1
      BY <3>1, FS_Interval
    <3> HIDE DEF T
    <3> QED
      BY <1>1, <3>2
  <2>3. S \cap T = {}
    BY <1>1 DEF Share
  <2> HIDE DEF S, T
  <2>4. Cardinality(S \cup T) = Cardinality(S) + Cardinality(T) - Cardinality(S \cap T)
    BY <2>1, <2>2, FS_Union
  <2>5. Cardinality(S \cap T) = 0
    BY <2>3, FS_EmptySet
  <2>6. Cardinality(S \cup T) = Cardinality(S) + m
    BY <1>1, <2>1, <2>2, <2>4, <2>5
  <2> QED
    BY <1>8, <2>6 DEF S, T
<1> QED
  BY <1>2, <1>3, <1>4, <1>5, <1>9 DEF q, n, m

MoreOnlyOf(r, old, new) == \A x : x # r => Share(new, x) = Share(old, x)

LEMMA OthersShare ==
  ASSUME NEW a \in Seq(Block), NEW b \in Seq(Block), NEW r, \A i \in DOMAIN b : b[i][1] = r
  PROVE  MoreOnlyOf(r, a, a \o b)
<1> DEFINE n == Len(a)
           m == Len(b)
           q == a \o b
<1>1. n \in Nat /\ m \in Nat /\ DOMAIN a = 1..n
  OBVIOUS
<1>2. /\ DOMAIN q = 1..(n + m) /\ \A k \in 1..n : q[k] = a[k]
      /\ \A k \in (n + 1)..(n + m) : q[k][1] = r
  BY ShareGrows
<1> HIDE DEF q, n, m
<1>3. ASSUME NEW x, x # r, NEW k PROVE k \in Share(q, x) <=> k \in Share(a, x)
  <2>1. k \in 1..(n + m) <=> k \in 1..n \/ k \in (n + 1)..(n + m)
    BY <1>1
  <2> QED
    BY <1>1, <1>2, <1>3, <2>1 DEF Share
<1>4. ASSUME NEW x, x # r PROVE Share(q, x) = Share(a, x)
  <2>1. \A k : k \in Share(q, x) <=> k \in Share(a, x)
    BY <1>3, <1>4
  <2> QED
    BY <2>1
<1>5. MoreOnlyOf(r, a, q)
  BY <1>4 DEF MoreOnlyOf
<1> QED
  BY <1>5 DEF q

\* A block in its place: headers first makes it the right one.
LEMMA RightContent ==
  ASSUME NEW out \in Seq(Block), HeadFirst(out), NEW k \in DOMAIN out, NEW s \in Seq(Events),
         Cardinality(Share(out, out[k][1])) <= Len(Output(s))
  PROVE  out[k][2] = Output(s)[Cardinality({j \in 1..k : out[j][1] = out[k][1]})]
<1> DEFINE r == out[k][1]
           C == {j \in 1..k : out[j][1] = r}
           S == Share(out, r)
<1>1. /\ k \in Nat /\ k >= 1 /\ k <= Len(out) /\ Len(out) \in Nat /\ DOMAIN out = 1..Len(out)
      /\ out[k][2] \in {"head", "data"}
  BY ElementOfSeq DEF Block
<1>2. IsFiniteSet(S) /\ Cardinality(S) \in Nat /\ Cardinality(S) <= Len(Output(s))
  BY ShareFinite
<1>3. C \in SUBSET S /\ k \in C
  BY <1>1 DEF Share
<1>4. (out[k][2] = "head") <=> (\A j \in 1..(k - 1) : out[j][1] # r)
  BY <1>1 DEF HeadFirst
<1>5. \A j \in 1..k : j = k \/ j \in 1..(k - 1)
  BY <1>1
<1>6. \A j \in 1..(k - 1) : j \in 1..k /\ j # k
  BY <1>1
<1> HIDE DEF S
<1>7. /\ IsFiniteSet(C) /\ Cardinality(C) \in Nat /\ Cardinality(C) <= Cardinality(S)
      /\ Cardinality(C) = 1 <=> \E x : C = {x}
      /\ Cardinality(C) = 0 <=> C = {}
  <2> HIDE DEF C
  <2>1. IsFiniteSet(C) /\ Cardinality(C) <= Cardinality(S)
    BY <1>2, <1>3, FS_Subset
  <2> QED
    BY <2>1, FS_CardinalityType, FS_Singleton, FS_EmptySet
<1>8. (Cardinality(C) = 1) <=> (\A j \in 1..(k - 1) : out[j][1] # r)
  <2>1. (\E x : C = {x}) <=> C = {k}
    <3> HIDE DEF C
    <3> QED
      BY <1>3
  <2>2. C = {k} <=> (\A j \in 1..(k - 1) : out[j][1] # r)
    BY <1>3, <1>5, <1>6
  <2> HIDE DEF C
  <2> QED
    BY <1>7, <2>1, <2>2
<1> DEFINE c == Cardinality(C)
<1>9. c \in 1..Len(Output(s))
  <2>1. C # {}
    BY <1>3
  <2> HIDE DEF C
  <2>2. Len(Output(s)) \in Nat
    BY OutputIs
  <2> QED
    BY <1>2, <1>7, <2>1, <2>2
<1> HIDE DEF C, c
<1>10. Output(s)[c] = IF c = 1 THEN "head" ELSE "data"
  BY <1>9, OutputIs
<1>11. out[k][2] = IF c = 1 THEN "head" ELSE "data"
  BY <1>1, <1>4, <1>8 DEF c
<1> QED
  BY <1>10, <1>11 DEF c, C

LEMMA DeliveredInit == Init => Delivered
<1> SUFFICES ASSUME Init PROVE Delivered
  OBVIOUS
<1>1. /\ got = <<>> /\ begun = {} /\ connection.hasRequestHeaders = FALSE
  BY DEF Init, InitConnection
<1>2. InOrder
  BY <1>1 DEF InOrder
<1>3. AllSent /\ Account
  BY <1>1 DEF AllSent, Account
<1> QED
  BY <1>2, <1>3 DEF Delivered

\* The steps that put nothing out and send nothing.
LEMMA DeliveredKept ==
  ASSUME Delivered, requests' = requests, got' = got, stdout_pipe' = stdout_pipe,
         program' = program, connection'.request = connection.request,
         connection'.hasRequestHeaders = connection.hasRequestHeaders,
         connection'.open => connection.open, begun' = begun
  PROVE  Delivered'
<1>1. Now' = Now /\ Done' = Done /\ Out' = Out
  BY DEF Now, Done, Out
<1>2. InOrder'
  BY DEF Delivered, InOrder, Blocks
<1>3. AllSent'
  BY DEF Delivered, AllSent, Complete, Blocks
<1>4. Account'
  BY <1>1 DEF Delivered, Account, NotStarted
<1> QED
  BY <1>2, <1>3, <1>4 DEF Delivered

\* How far a program with its pipes is in its script.
LEMMA AtStep ==
  ASSUME IInv, connection.open, connection.hasRequestHeaders, program.state = "running"
  PROVE  /\ connection.pipes /\ Now.script \in Seq(Events) /\ Done \in 0..Len(Now.script)
         /\ program \in Gateways /\ connection.request \in Nat
         /\ program.script = <<>> => Done = Len(Now.script)
         /\ program.script # <<>> =>
              /\ Done < Len(Now.script) /\ Head(program.script) = Now.script[Done + 1]
              /\ Len(Tail(program.script)) = Len(program.script) - 1
              /\ Len(program.script) \in Nat
<1>1. /\ connection.pipes /\ Now.script \in Seq(Events) /\ program \in Gateways
      /\ connection.request \in Nat /\ program.script \in Seq(Events)
  <2>1. Types /\ Sizes /\ Written /\ Phases
    BY DEF IInv
  <2> QED
    BY <2>1, NowTypes DEF Phases, Types, Gateways, Connections
<1>2. /\ Len(program.script) <= Len(Now.script)
      /\ \A i \in DOMAIN program.script : program.script[i] = Now.script[Done + i]
  BY <1>1 DEF IInv, Doing
<1>3. Len(program.script) \in Nat /\ Len(Now.script) \in Nat
  BY <1>1
<1> DEFINE n == Len(Now.script)
           m == Len(program.script)
<1>a. n \in Nat /\ m \in Nat /\ m <= n /\ Done = n - m
  BY <1>2, <1>3 DEF Done
<1> HIDE DEF n, m
<1>4. Done \in 0..Len(Now.script)
  <2>1. Done \in 0..n
    BY <1>a
  <2> QED
    BY <2>1 DEF n
<1>5. ASSUME program.script = <<>> PROVE Done = Len(Now.script)
  <2>1. m = 0
    BY <1>5 DEF m
  <2>2. Done = n
    BY <1>a, <2>1
  <2> QED
    BY <2>2 DEF n
<1>6. ASSUME program.script # <<>>
      PROVE  /\ Done < Len(Now.script) /\ Head(program.script) = Now.script[Done + 1]
             /\ Len(Tail(program.script)) = Len(program.script) - 1
  <2>1. /\ Len(program.script) > 0 /\ Head(program.script) = program.script[1]
        /\ Len(Tail(program.script)) = Len(program.script) - 1
        /\ DOMAIN program.script = 1..Len(program.script)
    BY <1>1, <1>6, HeadTailProperties, EmptySeq
  <2>2. Done < Len(Now.script)
    <3>1. m > 0
      BY <2>1 DEF m
    <3>2. Done < n
      BY <1>a, <3>1
    <3> QED
      BY <3>2 DEF n
  <2> QED
    BY <1>2, <1>3, <2>1, <2>2
<1> QED
  BY <1>1, <1>3, <1>4, <1>5, <1>6

LEMMA DeliveredReads ==
  ASSUME IInv, Delivered, ProgramReads PROVE Delivered'
<1>1. /\ program.state = "running" /\ AtRead
      /\ UNCHANGED <<requests, got, connection, stdout_pipe>> /\ begun' = begun
      /\ program' = [program EXCEPT !.script = Tail(@), !.put = <<>>]
  BY DEF ProgramReads, Running, History
<1>2. InOrder'
  BY <1>1 DEF Delivered, InOrder, Blocks
<1>3. AllSent'
  BY <1>1 DEF Delivered, AllSent, Complete, Blocks
<1>4. Now' = Now /\ Out' = Out
  BY <1>1 DEF Now, Out
<1>5. Account'
  <2> SUFFICES ASSUME connection.open, connection.hasRequestHeaders PROVE Account'
    BY <1>1 DEF Account
  <2> DEFINE s == Now.script
             d == Done
             sum == Cardinality(Share(Out, connection.request))
  <2>1. /\ s \in Seq(Events) /\ d \in 0..Len(s) /\ program \in Gateways
        /\ program.script # <<>> /\ d < Len(s) /\ s[d + 1] = "read"
        /\ Len(Tail(program.script)) = Len(program.script) - 1
        /\ Len(program.script) \in Nat
    BY <1>1, AtStep DEF AtRead
  <2>2. /\ program'.state = "running" /\ program'.script = Tail(program.script)
        /\ program'.headers_set = program.headers_set
        /\ program'.headers_sent = program.headers_sent
    BY <1>1, <2>1 DEF Gateways
  <2>3. Done' = d + 1
    <3> DEFINE n == Len(Now.script)
               m == Len(program.script)
    <3>a. Done' = Len(Now'.script) - Len(program'.script)
      BY DEF Done
    <3>b. Len(Now'.script) = n /\ Len(program'.script) = m - 1
      BY <1>4, <2>1, <2>2
    <3>c. n \in Nat /\ m \in Nat
      BY <2>1
    <3>1. Done' = n - (m - 1) /\ d = n - m /\ n \in Nat /\ m \in Nat
      BY <3>a, <3>b, <3>c DEF Done
    <3> HIDE DEF n, m, d
    <3> QED
      BY <3>1
  <2>4. /\ \A i \in DOMAIN stdout_pipe : stdout_pipe[i][1] = connection.request
        /\ \A i \in 1..d : ~Refused(s, i)
        /\ program.headers_set <=> HasSet(s, d + 1)
        /\ program.headers_sent <=> HasSent(s, d + 1)
        /\ sum = IF program.headers_sent THEN Cardinality(Yields(s, d)) + 1 ELSE 0
    BY <1>1 DEF Delivered, Account, Accounted
  <2>5. /\ Cardinality(Yields(s, d)) \in Nat
        /\ Cardinality(Yields(s, d + 1)) =
             Cardinality(Yields(s, d)) + (IF s[d + 1] \in {"write", "data"} THEN 1 ELSE 0)
        /\ HasSet(s, d + 2) <=> HasSet(s, d + 1) \/ s[d + 1] \in {"start", "start_exc"}
        /\ HasSent(s, d + 2) <=> HasSent(s, d + 1) \/ s[d + 1] \in {"write", "data"}
    <3>1. d \in Nat
      BY <2>1
    <3> HIDE DEF s, d
    <3> QED
      BY <3>1, YieldsMove, Zenon
  <2> HIDE DEF s, d
  <2>6. \A i \in 1..(d + 1) : ~Refused(s, i)
    <3>1. ~Refused(s, d + 1)
      BY <2>1 DEF Refused
    <3> QED
      BY <2>1, <2>4, <3>1
  <2>7. Cardinality(Yields(s, d + 1)) = Cardinality(Yields(s, d)) /\ (d + 1) + 1 = d + 2
    BY <2>1, <2>5
  <2>8. /\ program'.headers_set <=> HasSet(s, (d + 1) + 1)
        /\ program'.headers_sent <=> HasSent(s, (d + 1) + 1)
    BY <2>1, <2>2, <2>4, <2>5, <2>7
  <2>9. sum = IF program'.headers_sent THEN Cardinality(Yields(s, d + 1)) + 1 ELSE 0
    BY <2>2, <2>4, <2>7
  <2>10. Now'.script = s /\ sum' = sum
    BY <1>1, <1>4 DEF s
  <2>11. Accounted(s, d + 1, program', sum)
    BY <2>6, <2>8, <2>9, Zenon DEF Accounted
  <2> HIDE DEF sum
  <2> QED
    BY <1>1, <2>2, <2>3, <2>4, <2>10, <2>11 DEF Account, NotStarted, sum
<1> QED
  BY <1>2, <1>3, <1>5 DEF Delivered

\* What the gateway puts out is accounted for.
AtEvent(s, d, script) ==
  /\ script = <<>> => d = Len(s)
  /\ script # <<>> => d < Len(s) /\ Head(script) = s[d + 1] /\ s[d + 1] # "read"

LEMMA AccountMoves ==
  ASSUME NEW g \in Gateways, g.state = "running", NEW s \in Seq(Events), NEW d \in 0..Len(s),
         AtEvent(s, d, g.script), NEW h, h = run_with_cgi(g),
         NEW sum \in Nat, Accounted(s, d, g, sum)
  PROVE  IF h.state = "running" THEN d < Len(s) /\ Accounted(s, d + 1, h, sum + Len(h.put))
                                ELSE sum + Len(h.put) = Len(Output(s))
<1> DEFINE y == Cardinality(Yields(s, d))
           z == Cardinality(Yields(s, d + 1))
           e == s[d + 1]
<1>1. d \in Nat
  OBVIOUS
<1>2. /\ y \in Nat /\ (HasSent(s, d + 1) <=> y # 0)
      /\ z = y + (IF e \in {"write", "data"} THEN 1 ELSE 0)
      /\ HasSet(s, d + 2) <=> HasSet(s, d + 1) \/ e \in {"start", "start_exc"}
      /\ HasSent(s, d + 2) <=> HasSent(s, d + 1) \/ e \in {"write", "data"}
      /\ (Yields(s, d) = {} <=> y = 0)
  <2> DEFINE Y == Yields(s, d)
  <2>1. /\ IsFiniteSet(Y) /\ Cardinality(Y) \in Nat /\ (HasSent(s, d + 1) <=> Y # {})
        /\ z = Cardinality(Y) + (IF e \in {"write", "data"} THEN 1 ELSE 0)
        /\ HasSet(s, d + 2) <=> HasSet(s, d + 1) \/ e \in {"start", "start_exc"}
        /\ HasSent(s, d + 2) <=> HasSent(s, d + 1) \/ e \in {"write", "data"}
    BY <1>1, YieldsMove, Zenon
  <2> HIDE DEF Y, z
  <2>2. Cardinality(Y) = 0 <=> Y = {}
    BY <2>1, FS_EmptySet
  <2> QED
    BY <2>1, <2>2 DEF Y
<1>a. /\ \A i \in 1..d : ~Refused(s, i)
      /\ g.headers_set <=> HasSet(s, d + 1)
      /\ g.headers_sent <=> HasSent(s, d + 1)
      /\ sum = IF g.headers_sent THEN y + 1 ELSE 0
  BY DEF Accounted
<1>3. /\ d < Len(s) /\ Refused(s, d + 1) => Len(Output(s)) = IF y = 0 THEN 0 ELSE y + 1
      /\ d = Len(s) =>
           Len(Output(s)) = IF y = 0 /\ ~HasSet(s, d + 1) THEN 0 ELSE y + 1
  BY <1>2, <1>a, OutputLength
<1> HIDE DEF y, z
<1>4. g.headers_set \in BOOLEAN /\ g.headers_sent \in BOOLEAN
  BY DEF Gateways
<1>6. CASE g.script = <<>>
  <2>1. h = Finished(g)
    BY <1>6 DEF run_with_cgi
  <2>2. /\ h.state \in {"raised", "exited"}
        /\ Len(h.put) = IF g.headers_set /\ ~g.headers_sent THEN 1 ELSE 0
    BY <2>1, FinishedIs
  <2>3. Len(Output(s)) = IF y = 0 /\ ~HasSet(s, d + 1) THEN 0 ELSE y + 1
    BY <1>3, <1>6 DEF AtEvent
  <2>4. sum + Len(h.put) = Len(Output(s))
    BY <1>2, <1>4, <1>a, <2>2, <2>3
  <2> QED
    BY <2>2, <2>4
<1>7. CASE g.script # <<>>
  <2>1. d < Len(s) /\ e = Head(g.script) /\ e # "read"
    BY <1>7 DEF AtEvent
  <2> HIDE DEF e
  <2>2. /\ Stops(g, e) => h.state = "raised" /\ h.put = <<>>
        /\ ~Stops(g, e) =>
             /\ h.state = "running"
             /\ h.headers_set <=> g.headers_set \/ e \in {"start", "start_exc"}
             /\ h.headers_sent <=> g.headers_sent \/ e \in {"write", "data"}
             /\ Len(h.put) = IF e \notin {"write", "data"} THEN 0
                             ELSE IF g.headers_sent THEN 1 ELSE 2
    BY <1>7, <2>1, EventIs
  <2>3. Stops(g, e) <=> Refused(s, d + 1)
    BY <1>a DEF Stops, Refused, e
  <2>4. CASE Stops(g, e)
    <3>1. Len(h.put) = 0 /\ h.state # "running"
      BY <2>2, <2>4
    <3>2. Len(Output(s)) = IF y = 0 THEN 0 ELSE y + 1
      BY <1>3, <2>1, <2>3, <2>4
    <3>3. sum + Len(h.put) = Len(Output(s))
      BY <1>2, <1>a, <3>1, <3>2
    <3> QED
      BY <3>1, <3>3
  <2>5. CASE ~Stops(g, e)
    <3> DEFINE l == Len(h.put)
    <3>1. /\ h.state = "running"
          /\ h.headers_set <=> HasSet(s, d + 2)
          /\ h.headers_sent <=> HasSent(s, d + 2)
          /\ h.headers_sent <=> g.headers_sent \/ e \in {"write", "data"}
          /\ l = IF e \notin {"write", "data"} THEN 0 ELSE IF g.headers_sent THEN 1 ELSE 2
      BY <1>2, <1>a, <2>2, <2>5
    <3> HIDE DEF l
    <3>2. g.headers_sent <=> y # 0
      BY <1>2, <1>a
    <3>3. z = y + (IF e \in {"write", "data"} THEN 1 ELSE 0) /\ y \in Nat
      BY <1>2
    <3>4. sum + l = IF h.headers_sent THEN z + 1 ELSE 0
      <4>1. CASE e \in {"write", "data"}
        BY <1>a, <3>1, <3>2, <3>3, <4>1
      <4>2. CASE e \notin {"write", "data"}
        BY <1>a, <3>1, <3>2, <3>3, <4>2
      <4> QED
        BY <4>1, <4>2
    <3>5. \A i \in 1..(d + 1) : ~Refused(s, i)
      BY <1>1, <1>a, <2>3, <2>5
    <3>6. (d + 1) + 1 = d + 2
      BY <1>1
    <3>7. Accounted(s, d + 1, h, sum + l)
      BY <3>1, <3>4, <3>5, <3>6 DEF Accounted, z
    <3> QED
      BY <2>1, <3>1, <3>7 DEF l
  <2> QED
    BY <2>4, <2>5
<1> QED
  BY <1>6, <1>7

LEMMA DeliveredSteps ==
  ASSUME IInv, Delivered, ProgramSteps PROVE Delivered'
<1> DEFINE g == run_with_cgi(program)
           r == connection.request
<1>1. /\ program.state = "running" /\ ~AtRead /\ UNCHANGED <<requests, got, connection>>
      /\ begun' = begun
      /\ \/ /\ program' = g
            /\ stdout_pipe' = stdout_pipe \o Put(r, g.put)
         \/ ~connection.pipes
  BY DEF ProgramSteps, Running, History
<1>2. InOrder'
  BY <1>1 DEF Delivered, InOrder, Blocks
<1>3. AllSent'
  BY <1>1 DEF Delivered, AllSent, Complete, Blocks
<1>4. Account'
  <2> SUFFICES ASSUME connection.open, connection.hasRequestHeaders PROVE Account'
    BY <1>1 DEF Account
  <2> DEFINE s == Now.script
             d == Done
             sum == Cardinality(Share(Out, r))
             p == g.put
             o == Put(r, p)
  <2>1. /\ connection.pipes /\ s \in Seq(Events) /\ d \in 0..Len(s) /\ program \in Gateways
        /\ r \in Nat
        /\ program.script = <<>> => d = Len(s)
        /\ program.script # <<>> =>
             /\ d < Len(s) /\ Head(program.script) = s[d + 1] /\ s[d + 1] # "read"
             /\ Len(Tail(program.script)) = Len(program.script) - 1
             /\ Len(program.script) \in Nat
    BY <1>1, AtStep DEF AtRead
  <2>2. program' = g /\ stdout_pipe' = stdout_pipe \o o
    BY <1>1, <2>1
  <2>3. /\ g \in Gateways /\ g.state \in {"running", "raised", "exited"}
        /\ g.state = "running" => program.script # <<>> /\ g.script = Tail(program.script)
    <3>1. program.script = <<>> \/ Head(program.script) # "read"
      BY <1>1 DEF AtRead
    <3> QED
      BY <1>1, <2>1, <3>1, GatewayStep
  <2>4. /\ o \in Seq(Block) /\ Len(o) = Len(p) /\ Len(p) \in Nat /\ \A i \in DOMAIN o : o[i][1] = r
    <3>1. p \in Puts
      BY <2>3 DEF Gateways
    <3> HIDE DEF p
    <3>2. /\ Put(r, p) \in Seq(Block) /\ Len(Put(r, p)) = Len(p) /\ Len(p) \in 0..2
          /\ \A i \in 1..Len(p) : Put(r, p)[i] = <<r, p[i]>>
      BY <2>1, <3>1, PutsAre
    <3>3. \A i \in 1..Len(p) : Put(r, p)[i][1] = r
      BY <3>2
    <3>4. DOMAIN Put(r, p) = 1..Len(p)
      BY <3>2
    <3> QED
      BY <3>2, <3>3, <3>4
  <2>5. got \in Seq(Block) /\ stdout_pipe \in Seq(Block)
    BY DEF IInv, Types
  <2>6. /\ \A i \in DOMAIN stdout_pipe : stdout_pipe[i][1] = r
        /\ Accounted(s, d, program, sum)
    BY <1>1 DEF Delivered, Account
  <2> HIDE DEF o, p, r
  <2>7. \A i \in DOMAIN stdout_pipe' : stdout_pipe'[i][1] = r
    <3> DEFINE q == stdout_pipe \o o
    <3>1. /\ DOMAIN q = 1..(Len(stdout_pipe) + Len(o))
          /\ \A k \in 1..Len(stdout_pipe) : q[k] = stdout_pipe[k]
          /\ \A k \in (Len(stdout_pipe) + 1)..(Len(stdout_pipe) + Len(o)) : q[k][1] = r
      <4>1. stdout_pipe \in Seq(Block) /\ o \in Seq(Block) /\ \A i \in DOMAIN o : o[i][1] = r
        BY <2>4, <2>5
      <4> QED
        BY <4>1, ShareGrows
    <3> HIDE DEF q
    <3>2. Len(stdout_pipe) \in Nat /\ Len(o) \in Nat /\ DOMAIN stdout_pipe = 1..Len(stdout_pipe)
      BY <2>4, <2>5
    <3>3. ASSUME NEW i \in DOMAIN q PROVE q[i][1] = r
      <4>1. i \in 1..Len(stdout_pipe) \/ i \in (Len(stdout_pipe) + 1)..(Len(stdout_pipe) + Len(o))
        BY <3>1, <3>2
      <4> QED
        BY <2>6, <3>1, <3>2, <4>1
    <3> QED
      BY <2>2, <3>3 DEF q
  <2>8. sum' = sum + Len(p) /\ sum \in Nat
    <3>1. Out \in Seq(Block)
      BY OutTypes DEF IInv
    <3>2. Out' = Out \o o
      <4>1. (got \o stdout_pipe) \o o = got \o (stdout_pipe \o o)
        BY <2>4, <2>5, BlocksJoin
      <4> QED
        BY <1>1, <2>2, <4>1 DEF Out
    <3>3. r' = r
      BY <1>1 DEF r
    <3>4. Cardinality(Share(Out \o o, r)) = Cardinality(Share(Out, r)) + Len(o)
      BY <2>4, <3>1, ShareGrows
    <3>5. Cardinality(Share(Out, r)) \in Nat
      BY <3>1, ShareFinite
    <3>6. sum' = Cardinality(Share(Out', r'))
      OBVIOUS
    <3> QED
      BY <2>4, <3>2, <3>3, <3>4, <3>5, <3>6
  <2>9. Now'.script = s
    BY <1>1 DEF Now
  <2> HIDE DEF s, d, sum, g
  <2>10. IF g.state = "running" THEN d < Len(s) /\ Accounted(s, d + 1, g, sum + Len(p))
                                 ELSE sum + Len(p) = Len(Output(s))
    <3>1. g = run_with_cgi(program) /\ p = g.put /\ program.state = "running"
      BY <1>1 DEF g, p
    <3>2. sum \in Nat /\ d \in 0..Len(s) /\ s \in Seq(Events) /\ program \in Gateways
      BY <2>1, <2>8
    <3>3. AtEvent(s, d, program.script)
      BY <2>1 DEF AtEvent
    <3>4. IF g.state = "running" THEN d < Len(s) /\ Accounted(s, d + 1, g, sum + Len(g.put))
                                 ELSE sum + Len(g.put) = Len(Output(s))
      BY <2>6, <3>1, <3>2, <3>3, AccountMoves
    <3> QED
      BY <3>1, <3>4
  <2>11. CASE g.state = "running"
    <3>1. Done' = d + 1
      <4> DEFINE n == Len(s)
                 m == Len(program.script)
      <4>a. Done' = Len(Now'.script) - Len(program'.script)
        BY DEF Done
      <4>b. Len(Now'.script) = n /\ Len(program'.script) = m - 1
        BY <2>1, <2>2, <2>3, <2>9, <2>11
      <4>c. n \in Nat /\ m \in Nat
        BY <2>1, <2>3, <2>11
      <4>d. d = n - m
        BY DEF d, Done, s
      <4> HIDE DEF n, m
      <4> QED
        BY <4>a, <4>b, <4>c, <4>d
    <3>2. Accounted(s, d + 1, g, sum')
      BY <2>8, <2>10, <2>11
    <3>5. r' = r
      BY <1>1 DEF r
    <3> QED
      BY <2>2, <2>7, <2>9, <2>11, <3>1, <3>2, <3>5 DEF Account, NotStarted, sum, r
  <2>12. CASE g.state # "running"
    <3>1. sum' = Len(Output(s))
      BY <2>8, <2>10, <2>12
    <3>2. r' = r
      BY <1>1 DEF r
    <3> QED
      BY <2>2, <2>3, <2>7, <2>9, <2>12, <3>1, <3>2 DEF Account, NotStarted, sum, r
  <2> QED
    BY <2>11, <2>12
<1> QED
  BY <1>2, <1>3, <1>4 DEF Delivered

LEMMA CompleteIs ==
  ASSUME NEW r
  PROVE  /\ got \in Seq(Block) =>
              (Complete(r) <=> Cardinality(Share(got, r)) = Len(Output(requests[r].script)))
         /\ got' \in Seq(Block) =>
              (Complete(r)' <=> Cardinality(Share(got', r)) = Len(Output(requests'[r].script)))
<1>1. ASSUME got \in Seq(Block)
      PROVE  Share(got, r) = {j \in 1..Len(got) : got[j][1] = r}
  BY <1>1 DEF Share
<1>2. ASSUME got' \in Seq(Block)
      PROVE  Share(got', r) = {j \in 1..Len(got') : got'[j][1] = r}
  BY <1>2 DEF Share
<1> QED
  BY <1>1, <1>2 DEF Complete, Blocks

\* cgi_init: nothing is out for the new request.
LEMMA DeliveredNew ==
  ASSUME IInv, Delivered, NewRequest PROVE Delivered'
<1> DEFINE r == Head(connection.buf)[1]
<1>0. IInv' /\ ~connection.hasRequestHeaders /\ CgiInit(r) /\ UNCHANGED <<requests, got>>
  BY NewRequestKeeps DEF NewRequest
<1>1. /\ connection'.request = r /\ connection'.hasRequestHeaders = TRUE
      /\ begun' = begun \cup {r}
      /\ r \in Nat /\ r > connection.request /\ r \in 1..Len(requests)
  BY NewRequestIs
<1>2. /\ connection.request \in Nat /\ got \in Seq(Block) /\ stdout_pipe = <<>>
      /\ \A i \in DOMAIN Out : Out[i][1] <= connection.request
      /\ \A x \in begun : x \in Nat /\ x <= connection.request
  BY <1>0 DEF IInv, Types, Connections, Phases, Headed, Losing
<1> HIDE DEF r
<1>3. \A x \in begun : Complete(x)'
  BY <1>0 DEF Delivered, AllSent, Complete, Blocks
<1>4. InOrder'
  BY <1>0, <1>1 DEF Delivered, InOrder, Blocks
<1>5. AllSent'
  <2>1. \A x \in begun' : x < r => x \in begun
    BY <1>1
  <2> QED
    BY <1>1, <1>3, <2>1 DEF AllSent
<1>6. Account'
  <2>1. stdout_pipe' = <<>> /\ Out' = got /\ Out = got
    <3>1. stdout_pipe' = <<>>
      BY <1>0 DEF CgiInit
    <3>2. got \o <<>> = got
      BY <1>2, ConcatEmptySeq
    <3> QED
      BY <1>0, <1>2, <3>1, <3>2 DEF Out
  <2>2. Cardinality(Share(Out', r)) = 0
    <3>1. \A i \in DOMAIN got : got[i] \in Block
      BY <1>2, SeqElements
    <3>2. \A i \in DOMAIN got : got[i][1] # r
      <4> TAKE i \in DOMAIN got
      <4>1. got[i][1] <= connection.request /\ got[i][1] \in Nat
        BY <1>2, <2>1, <3>1 DEF Block
      <4> QED
        BY <1>1, <1>2, <4>1
    <3>3. Share(Out', r) = {}
      BY <2>1, <3>2 DEF Share
    <3> QED
      BY <3>3, FS_EmptySet
  <2>3. Now'.script = requests[r].script /\ requests[r].script \in Seq(Events)
    <3>1. requests \in Pipelines
      BY DEF IInv, Types
    <3> QED
      BY <1>0, <1>1, <3>1, RequestTypes DEF Now
  <2>4. program'.state \in {"running", "unforked", "server"}
        /\ (program'.state = "running" =>
              /\ program'.script = requests[r].script
              /\ program'.headers_set = FALSE /\ program'.headers_sent = FALSE)
    <3>1. \/ program' = Process("running", requests[r].script)
          \/ program' = Process("unforked", <<>>) \/ program' = Process("server", <<>>)
      BY <1>0 DEF CgiInit
    <3>2. {"running", "unforked", "server"} \subseteq States /\ <<>> \in Seq(Events)
      BY DEF States
    <3>3. CASE program' = Process("running", requests[r].script)
      BY <2>3, <3>2, <3>3, ProcessIs
    <3>4. CASE program' = Process("unforked", <<>>)
      BY <3>2, <3>4, ProcessIs
    <3>5. CASE program' = Process("server", <<>>)
      BY <3>2, <3>5, ProcessIs
    <3> QED
      BY <3>1, <3>3, <3>4, <3>5
  <2>5. ASSUME program'.state = "running"
        PROVE  Done' = 0 /\ Accounted(Now'.script, Done', program', 0)
    <3> DEFINE s == requests[r].script
    <3>1. s \in Seq(Events) /\ Done' = Len(s) - Len(s)
      BY <2>3, <2>4, <2>5 DEF Done
    <3>2. Now'.script = s
      BY <2>3
    <3> HIDE DEF s
    <3>3. Done' = 0
      BY <3>1
    <3>4. ~HasSet(s, 0 + 1) /\ ~HasSent(s, 0 + 1)
      BY DEF HasSet, HasSent
    <3>5. Accounted(s, 0, program', 0)
      BY <2>4, <2>5, <3>4 DEF Accounted
    <3> QED
      BY <3>2, <3>3, <3>5
  <2> QED
    BY <1>1, <2>1, <2>2, <2>4, <2>5 DEF Account, NotStarted
<1> QED
  BY <1>4, <1>5, <1>6 DEF Delivered

\* No request has more blocks out than its answer has.
LEMMA NoneToSpare ==
  ASSUME IInv, Delivered, connection.open, connection.hasRequestHeaders, stdout_pipe # <<>>
  PROVE  Cardinality(Share(Out, connection.request)) <= Len(Output(Now.script))
<1> DEFINE s == Now.script
           sum == Cardinality(Share(Out, connection.request))
<1>1. /\ program.state = "running" => Accounted(s, Done, program, sum)
      /\ program.state \in {"raised", "exited"} => sum = Len(Output(s))
      /\ NotStarted => stdout_pipe = <<>>
  BY DEF Delivered, Account
<1>2. program.state \in States /\ program.state # "none" /\ s \in Seq(Events)
  <2>1. Types /\ Sizes /\ Written /\ Phases
    BY DEF IInv
  <2> QED
    BY <2>1, NowTypes DEF Types, Gateways, Phases
<1>3. sum \in Nat /\ Len(Output(s)) \in Nat
  <2>1. Out \in Seq(Block)
    BY OutTypes DEF IInv
  <2> QED
    BY <1>2, <2>1, ShareFinite, OutputIs
<1>4. CASE program.state = "running"
  <2> DEFINE d == Done
  <2>1. d \in 0..Len(s)
    BY <1>4, AtStep
  <2>2. Accounted(s, d, program, sum)
    BY <1>1, <1>4
  <2> HIDE DEF s, sum, d
  <2>3. /\ \A i \in 1..d : ~Refused(s, i)
        /\ program.headers_sent <=> HasSent(s, d + 1)
        /\ sum = IF program.headers_sent THEN Cardinality(Yields(s, d)) + 1 ELSE 0
    BY <2>2 DEF Accounted
  <2>4. HasSent(s, d + 1) <=> Yields(s, d) # {}
    <3>1. d \in Nat
      BY <2>1
    <3> QED
      BY <3>1, YieldsMove, Zenon
  <2>5. Yields(s, d) # {} => Cardinality(Yields(s, d)) + 1 <= Len(Output(s))
    BY <1>2, <2>1, <2>3, OutputLength
  <2>6. sum <= Len(Output(s))
    BY <1>3, <2>3, <2>4, <2>5
  <2> QED
    BY <2>6 DEF s, sum
<1>5. CASE program.state \in {"raised", "exited"}
  BY <1>1, <1>3, <1>5
<1> QED
  BY <1>1, <1>2, <1>4, <1>5 DEF States, NotStarted

\* The first n blocks in the pipe go to the client.
LEMMA DeliveredSent ==
  ASSUME IInv, Delivered, server = "read", client # "reset", NEW n \in 1..Len(stdout_pipe),
         stdout_pipe' = SubSeq(stdout_pipe, n + 1, Len(stdout_pipe)),
         got' = got \o SubSeq(stdout_pipe, 1, n), UNCHANGED <<connection, program, requests>>,
         begun' = begun
  PROVE  Delivered'
<1> DEFINE r == connection.request
           f == SubSeq(stdout_pipe, 1, n)
           h == got'
           q == stdout_pipe'
<1>1. /\ got \in Seq(Block) /\ stdout_pipe \in Seq(Block) /\ Len(stdout_pipe) \in Nat
      /\ connection.open /\ connection.hasRequestHeaders /\ r \in Nat /\ r >= 1
      /\ \A i \in DOMAIN Out : Out[i][1] <= r
      /\ r \in begun /\ \A x \in begun : x \in Nat
  BY DEF IInv, Types, Phases, Headed, Connections, Written, Losing
<1>2. /\ \A i \in DOMAIN stdout_pipe : stdout_pipe[i][1] = r
      /\ program.state = "running" => Accounted(Now.script, Done, program, Cardinality(Share(Out, r)))
      /\ program.state \in {"raised", "exited"} =>
           Cardinality(Share(Out, r)) = Len(Output(Now.script))
      /\ NotStarted => stdout_pipe = <<>>
  BY <1>1 DEF Delivered, Account
<1>3. /\ h \in Seq(Block) /\ q \in Seq(Block) /\ Out' = Out
      /\ Len(q) = Len(stdout_pipe) - n /\ \A i \in 1..(Len(stdout_pipe) - n) : q[i] = stdout_pipe[n + i]
  <2> DEFINE g == SubSeq(stdout_pipe, n + 1, Len(stdout_pipe))
  <2>1. /\ got \o f \in Seq(Block) /\ g \in Seq(Block) /\ Len(g) = Len(stdout_pipe) - n
        /\ \A i \in 1..(Len(stdout_pipe) - n) : g[i] = stdout_pipe[n + i]
        /\ (got \o f) \o g = got \o stdout_pipe
    <3>1. n \in 0..Len(stdout_pipe) /\ got \in Seq(Block) /\ stdout_pipe \in Seq(Block)
      BY <1>1
    <3>2. /\ got \o SubSeq(stdout_pipe, 1, n) \in Seq(Block)
          /\ SubSeq(stdout_pipe, n + 1, Len(stdout_pipe)) \in Seq(Block)
          /\ Len(SubSeq(stdout_pipe, n + 1, Len(stdout_pipe))) = Len(stdout_pipe) - n
          /\ \A i \in 1..(Len(stdout_pipe) - n) :
               SubSeq(stdout_pipe, n + 1, Len(stdout_pipe))[i] = stdout_pipe[n + i]
          /\ (got \o SubSeq(stdout_pipe, 1, n)) \o SubSeq(stdout_pipe, n + 1, Len(stdout_pipe))
               = got \o stdout_pipe
      <4> HIDE DEF h, q
      <4> QED
        BY <3>1, OutMoves, ZenonT(60)
    <3> QED
      BY <3>2
  <2>2. h = got \o f /\ q = g
    OBVIOUS
  <2>3. Out' = h \o q
    BY DEF Out
  <2> HIDE DEF f, g, h, q
  <2> QED
    BY <2>1, <2>2, <2>3 DEF Out
<1>4. f \in Seq(Block) /\ \A i \in DOMAIN f : f[i][1] = r
  <2>1. f \in Seq(Block) /\ Len(f) = n /\ \A i \in 1..n : f[i] = stdout_pipe[i]
    BY <1>1, SubSeqProperties
  <2>2. \A i \in 1..n : i \in DOMAIN stdout_pipe
    BY <1>1
  <2> QED
    BY <1>2, <2>1, <2>2
<1>5. h = got \o f
  OBVIOUS
<1> HIDE DEF f, h, q, r
<1>6. Now' = Now /\ Done' = Done /\ r' = r
  BY DEF Now, Done, r
<1>7. Account'
  <2>1. \A i \in DOMAIN q : q[i][1] = r
    <3> TAKE i \in DOMAIN q
    <3> DEFINE l == Len(stdout_pipe)
    <3>1. l \in Nat /\ n \in 1..l /\ DOMAIN stdout_pipe = 1..l /\ DOMAIN q = 1..(l - n)
      BY <1>1, <1>3
    <3> HIDE DEF l
    <3>2. i \in 1..(l - n) /\ n + i \in 1..l
      BY <3>1
    <3>3. q[i] = stdout_pipe[n + i]
      BY <1>3, <3>2 DEF l
    <3> QED
      BY <1>2, <3>1, <3>2, <3>3
  <2>2. NotStarted' => stdout_pipe = <<>>
    BY <1>2 DEF NotStarted
  <2>3. ~NotStarted
    <3>1. Len(stdout_pipe) >= 1
      BY <1>1
    <3>2. stdout_pipe # <<>>
      BY <3>1
    <3> QED
      BY <1>2, <3>2
  <2> QED
    BY <1>2, <1>3, <1>6, <2>1, <2>3 DEF Account, NotStarted, r, q
<1>8. /\ \A x : x # r => Share(h, x) = Share(got, x)
      /\ \A k \in 1..Len(got) : h[k] = got[k]
      /\ \A k \in (Len(got) + 1)..(Len(got) + Len(f)) : h[k][1] = r
      /\ DOMAIN h = 1..(Len(got) + Len(f)) /\ Len(got) \in Nat /\ Len(f) \in Nat
  <2>1. got \in Seq(Block) /\ f \in Seq(Block) /\ \A i \in DOMAIN f : f[i][1] = r
    BY <1>1, <1>4
  <2>a. \A x : x # r => Share(got \o f, x) = Share(got, x)
    <3>1. MoreOnlyOf(r, got, got \o f)
      BY <2>1, OthersShare
    <3> QED
      BY <3>1 DEF MoreOnlyOf
  <2>2. /\ DOMAIN (got \o f) = 1..(Len(got) + Len(f))
        /\ \A k \in 1..Len(got) : (got \o f)[k] = got[k]
        /\ \A k \in (Len(got) + 1)..(Len(got) + Len(f)) : (got \o f)[k][1] = r
    BY <2>1, ShareGrows
  <2>3. Len(got) \in Nat /\ Len(f) \in Nat
    BY <2>1
  <2> QED
    BY <1>5, <2>a, <2>2, <2>3
<1>9. \A x \in begun : x < r => Cardinality(Share(h, x)) = Len(Output(requests[x].script))
  <2> SUFFICES ASSUME NEW x \in begun, x < r
               PROVE  Cardinality(Share(h, x)) = Len(Output(requests[x].script))
    OBVIOUS
  <2>1. x < connection.request /\ x # r
    BY <1>1 DEF r
  <2>2. Complete(x)
    BY <2>1 DEF Delivered, AllSent
  <2> QED
    BY <1>1, <1>8, <2>1, <2>2, CompleteIs
<1>10. AllSent'
  <2> SUFFICES ASSUME NEW x \in begun, x < connection.request
               PROVE  Complete(x)'
    BY <1>1 DEF AllSent
  <2>2. Cardinality(Share(got', x)) = Len(Output(requests'[x].script))
    BY <1>9 DEF h, r
  <2>3. got' \in Seq(Block)
    BY <1>3 DEF h
  <2> QED
    BY <2>2, <2>3, CompleteIs
<1>11. /\ \A k \in DOMAIN h : h[k] = Out[k] /\ k \in DOMAIN Out /\ h[k] \in Block
       /\ \A k \in DOMAIN Out : Out[k] \in Block
       /\ Out \in Seq(Block)
  <2>1. Out = h \o q
    BY <1>3 DEF Out, h, q
  <2>2. /\ h \o q \in Seq(Block) /\ Len(h \o q) = Len(h) + Len(q)
        /\ \A i \in 1..(Len(h) + Len(q)) :
             (h \o q)[i] = IF i <= Len(h) THEN h[i] ELSE q[i - Len(h)]
    BY <1>3, ConcatProperties, Zenon
  <2>3. Len(h) \in Nat /\ Len(q) \in Nat /\ DOMAIN h = 1..Len(h)
    BY <1>3
  <2>4. \A k \in 1..Len(h) : (h \o q)[k] = h[k] /\ k \in 1..(Len(h) + Len(q))
    BY <2>2, <2>3
  <2>5. DOMAIN (h \o q) = 1..(Len(h) + Len(q))
    BY <2>2
  <2>6. \A k \in DOMAIN h : h[k] \in Block
    BY <1>3, SeqElements
  <2>7. \A k \in DOMAIN Out : Out[k] \in Block
    BY <2>1, <2>2, SeqElements
  <2> QED
    BY <2>1, <2>2, <2>3, <2>4, <2>5, <2>6, <2>7
<1>12. HeadFirst(h)
  <2>1. HeadFirst(Out)
    BY WsgiIs DEF IInv, Headed, WsgiParts
  <2> SUFFICES ASSUME NEW i \in DOMAIN h
               PROVE  (h[i][2] = "head") <=> (\A j \in 1..(i - 1) : h[j][1] # h[i][1])
    BY DEF HeadFirst
  <2>2. (Out[i][2] = "head") <=> (\A j \in 1..(i - 1) : Out[j][1] # Out[i][1])
    BY <1>11, <2>1 DEF HeadFirst
  <2>3. \A j \in 1..(i - 1) : j \in DOMAIN h
    <3> DEFINE l == Len(got) + Len(f)
    <3>1. l \in Nat /\ DOMAIN h = 1..l
      BY <1>8
    <3> HIDE DEF l
    <3> QED
      BY <3>1
  <2> QED
    BY <1>11, <2>2, <2>3
<1>13. Cardinality(Share(h, r)) <= Len(Output(requests[r].script))
  <2>1. Share(h, r) \subseteq Share(Out, r)
    BY <1>11 DEF Share
  <2>2. IsFiniteSet(Share(Out, r)) /\ Cardinality(Share(Out, r)) \in Nat
    BY <1>11, ShareFinite
  <2>3. Cardinality(Share(h, r)) <= Cardinality(Share(Out, r))
    BY <2>1, <2>2, FS_Subset
  <2>4. Cardinality(Share(h, r)) \in Nat
    BY <1>3, ShareFinite
  <2>5. Cardinality(Share(Out, r)) <= Len(Output(requests[r].script))
    <3>1. stdout_pipe # <<>>
      <4>1. Len(stdout_pipe) >= 1
        BY <1>1
      <4> QED
        BY <4>1
    <3> QED
      BY <1>1, <3>1, NoneToSpare DEF Now, r
  <2>6. Len(Output(requests[r].script)) \in Nat
    <3>1. Now.script \in Seq(Events)
      BY <1>1, NowTypes DEF IInv
    <3> QED
      BY <3>1, OutputIs DEF Now, r
  <2> HIDE DEF r
  <2> QED
    BY <2>2, <2>3, <2>4, <2>5, <2>6
<1>14. InOrder'
  <2> SUFFICES ASSUME NEW k \in DOMAIN h
               PROVE  /\ h[k][2] = Output(requests[h[k][1]].script)
                                     [Cardinality({j \in 1..k : h[j][1] = h[k][1]})]
                      /\ \A j \in 1..(k - 1) : h[j][1] <= h[k][1]
                      /\ h[k][1] \in begun /\ h[k][1] >= 1
    BY DEF InOrder, Blocks, h
  <2>1. k \in 1..Len(got) \/ k \in (Len(got) + 1)..(Len(got) + Len(f))
    BY <1>8
  <2>2. h[k][1] \in Nat /\ h[k][1] <= r
    BY <1>1, <1>11 DEF Block, r
  <2>3. h[k][1] \in begun /\ h[k][1] >= 1
    <3>1. CASE k \in 1..Len(got)
      <4>1. got[k][1] \in begun /\ got[k][1] >= 1
        BY <1>1, <3>1 DEF Delivered, InOrder
      <4> QED
        BY <1>8, <3>1, <4>1
    <3>2. CASE k \in (Len(got) + 1)..(Len(got) + Len(f))
      BY <1>1, <1>8, <3>2
    <3> QED
      BY <2>1, <3>1, <3>2
  <2>4. \A j \in 1..(k - 1) : h[j][1] <= h[k][1]
    <3>1. CASE k \in 1..Len(got)
      <4>1. \A j \in 1..(k - 1) : got[j][1] <= got[k][1]
        BY <1>1, <3>1 DEF Delivered, InOrder
      <4>2. \A j \in 1..(k - 1) : j \in 1..Len(got)
        <5>1. Len(got) \in Nat
          BY <1>8
        <5> HIDE DEF h
        <5> QED
          BY <3>1, <5>1, SMTT(60)
      <4> QED
        BY <1>8, <3>1, <4>1, <4>2
    <3>2. CASE k \in (Len(got) + 1)..(Len(got) + Len(f))
      <4>1. h[k][1] = r
        BY <1>8, <3>2
      <4>2. \A j \in 1..(k - 1) : j \in DOMAIN h
        BY <1>8, <3>2
      <4> QED
        BY <1>1, <1>11, <4>1, <4>2 DEF r
    <3> QED
      BY <2>1, <3>1, <3>2
  <2> DEFINE x == h[k][1]
             s == requests[x].script
  <2>5. x \in 1..r
    BY <1>1, <2>2, <2>3
  <2>6. s \in Seq(Events)
    <3>1. Types /\ Sizes
      BY DEF IInv
    <3>2. requests \in Pipelines /\ Len(requests) \in Nat /\ r <= Len(requests)
      BY <3>1, RequestsLen DEF Types, Sizes, r
    <3>3. x \in 1..Len(requests)
      BY <1>1, <2>5, <3>2
    <3> HIDE DEF x
    <3> QED
      BY <3>2, <3>3, RequestTypes
  <2>7. Cardinality(Share(h, x)) <= Len(Output(s))
    <3>1. CASE x = r
      BY <1>13, <3>1
    <3>2. CASE x # r
      <4>1. x \in begun /\ x < r
        BY <1>1, <2>3, <2>5, <3>2
      <4>2. Cardinality(Share(h, x)) = Len(Output(s))
        BY <1>9, <4>1
      <4>3. Len(Output(s)) \in Nat
        BY <2>6, OutputIs
      <4> QED
        BY <4>2, <4>3
    <3> QED
      BY <3>1, <3>2
  <2>8. h[k][2] = Output(s)[Cardinality({j \in 1..k : h[j][1] = h[k][1]})]
    <3> HIDE DEF s
    <3> QED
      BY <1>3, <1>12, <2>6, <2>7, RightContent
  <2> QED
    BY <2>3, <2>4, <2>8
<1> QED
  BY <1>7, <1>10, <1>14 DEF Delivered

\* All was sent, and the program is gone: its request is complete.
LEMMA DeliveredEnds ==
  ASSUME IInv, Delivered, server = "read", stdout_pipe = <<>>, EndOfOutput,
         connection' = GetReady(connection), UNCHANGED <<got, requests>>, begun' = begun
  PROVE  Delivered'
<1>1. /\ got \in Seq(Block) /\ connection \in Connections /\ connection.open
      /\ connection.hasRequestHeaders /\ connection.request \in Nat
      /\ \A r \in begun : r \in Nat /\ r <= connection.request
  BY DEF IInv, Types, Phases, Connections, Losing
<1>2. connection'.request = connection.request /\ connection'.hasRequestHeaders = FALSE
  BY <1>1 DEF GetReady, InitConnection, Connections
<1>3. InOrder'
  BY DEF Delivered, InOrder, Blocks
<1>4. \A r \in begun : Complete(r)
  <2>1. Complete(connection.request)
    <3>1. Cardinality(Share(Out, connection.request)) = Len(Output(Now.script))
      BY <1>1 DEF Delivered, Account, EndOfOutput, Exited
    <3>2. Out = got
      BY <1>1, ConcatEmptySeq DEF Out
    <3> QED
      BY <1>1, <3>1, <3>2, CompleteIs DEF Now
  <2>2. \A r \in begun : r < connection.request \/ r = connection.request
    BY <1>1
  <2> QED
    BY <2>1, <2>2 DEF Delivered, AllSent
<1>5. AllSent'
  <2>1. \A r \in begun : Complete(r)'
    BY <1>4 DEF Complete, Blocks
  <2> QED
    BY <1>2, <2>1 DEF AllSent
<1>6. Account'
  BY <1>2 DEF Account
<1> QED
  BY <1>3, <1>5, <1>6 DEF Delivered

LEMMA DeliveredSends ==
  ASSUME IInv, Delivered, CgiSendResponse PROVE Delivered'
<1>1. server = "read" /\ (stdout_pipe # <<>> \/ EndOfOutput) /\ requests' = requests
      /\ begun' = begun
  BY DEF CgiSendResponse, History
<1>2. /\ stdout_pipe \in Seq(Block) /\ Len(stdout_pipe) \in Nat /\ connection \in Connections
      /\ stdout_pipe # <<>> => Len(stdout_pipe) > 0
  BY DEF IInv, Types
<1>3. PICK n \in (IF stdout_pipe = <<>> THEN {0} ELSE 1..Len(stdout_pipe)) :
       /\ stdout_pipe' = SubSeq(stdout_pipe, n + 1, Len(stdout_pipe))
       /\ IF client = "reset"
            THEN /\ connection' = [connection EXCEPT !.open = FALSE, !.wfds = FALSE,
                                                         !.pipes = FALSE]
                 /\ server' = "select"
                 /\ UNCHANGED <<got, program>>
          ELSE /\ server' = IF connection.buf # <<>> THEN "process" ELSE "select"
               /\ got' = got \o SubSeq(stdout_pipe, 1, n)
               /\ IF n > 0 THEN UNCHANGED <<connection, program>>
                  ELSE connection' = GetReady(connection) /\ program' = NoProgram
  BY Zenon DEF CgiSendResponse
<1>4. n \in 0..Len(stdout_pipe) /\ (n = 0 <=> stdout_pipe = <<>>)
  BY <1>2, <1>3
<1>5. CASE client = "reset"
  <2>1. /\ connection'.open = FALSE /\ connection'.request = connection.request
        /\ connection'.hasRequestHeaders = connection.hasRequestHeaders /\ got' = got
    BY <1>2, <1>3, <1>5 DEF Connections
  <2>2. InOrder'
    BY <1>1, <2>1 DEF Delivered, InOrder, Blocks
  <2>3. AllSent'
    BY <1>1, <2>1 DEF Delivered, AllSent, Complete, Blocks
  <2>4. Account'
    BY <2>1 DEF Account
  <2> QED
    BY <2>2, <2>3, <2>4 DEF Delivered
<1>6. CASE client # "reset" /\ n > 0
  <2>1. n \in 1..Len(stdout_pipe)
    BY <1>4, <1>6
  <2> QED
    BY <1>1, <1>3, <1>6, <2>1, DeliveredSent
<1>7. CASE client # "reset" /\ ~(n > 0)
  <2>1. n = 0 /\ stdout_pipe = <<>>
    BY <1>4, <1>7
  <2>2. got' = got
    <3>1. SubSeq(stdout_pipe, 1, n) = <<>>
      BY <1>2, <2>1, SubSeqEmpty
    <3>2. got' = got \o <<>> /\ got \in Seq(Block)
      BY <1>3, <1>7, <3>1 DEF IInv, Types
    <3> QED
      BY <3>2, ConcatEmptySeq
  <2> QED
    BY <1>1, <1>3, <1>7, <2>1, <2>2, DeliveredEnds
<1> QED
  BY <1>5, <1>6, <1>7

\* The loop's other steps move the request on, end the loop or close the connection.
LEMMA DeliveredServer ==
  ASSUME IInv, Delivered, ServerStep PROVE Delivered'
<1>1. connection \in Connections
  BY DEF IInv, Types
<1>2. CASE NewRequest
  BY <1>2, DeliveredNew
<1>3. CASE CgiSendResponse
  BY <1>3, DeliveredSends
<1>4. ASSUME UNCHANGED <<requests, got, stdout_pipe, program, begun>>,
             connection'.request = connection.request,
             connection'.hasRequestHeaders = connection.hasRequestHeaders,
             connection'.open => connection.open
      PROVE  Delivered'
  BY <1>4, DeliveredKept
<1>5. CASE Select \/ SelectFails \/ RecvPipe \/ PostRecv \/ Send
  <2>1. UNCHANGED <<requests, got, connection, stdout_pipe, program, begun>>
    BY <1>5 DEF Select, SelectFails, RecvPipe, PostRecv, Send, Pipes, History
  <2> QED
    BY <1>4, <2>1
<1>6. CASE RecvData
  <2>1. /\ UNCHANGED <<requests, got, stdout_pipe, program, begun>>
        /\ \/ \E n \in 1..Min({Space, Len(socket)}) :
                connection' = [connection EXCEPT !.buf = @ \o SubSeq(socket, 1, n)]
           \/ connection' = connection
    BY <1>6 DEF RecvData, Pipes
  <2>2. /\ connection'.request = connection.request
        /\ connection'.hasRequestHeaders = connection.hasRequestHeaders
        /\ connection'.open = connection.open
    BY <1>1, <2>1 DEF Connections
  <2> QED
    BY <1>4, <2>1, <2>2
<1>7. CASE RecvEnd
  <2>1. /\ UNCHANGED <<requests, got, stdout_pipe, program, begun>>
        /\ \/ connection' = [connection EXCEPT !.open = FALSE, !.wfds = FALSE, !.watched = FALSE]
           \/ connection' = connection
    BY <1>7 DEF RecvEnd, Pipes, History
  <2>2. /\ connection'.request = connection.request
        /\ connection'.hasRequestHeaders = connection.hasRequestHeaders
        /\ connection'.open => connection.open
    BY <1>1, <2>1 DEF Connections
  <2> QED
    BY <1>4, <2>1, <2>2
<1>8. CASE GoAstray \/ MoreInput
  <2>1. /\ UNCHANGED <<requests, got, stdout_pipe, program, begun>>
        /\ \/ connection' = [connection EXCEPT !.astray = TRUE]
           \/ connection' = [connection EXCEPT !.wfds = TRUE]
           \/ connection' = connection
    BY <1>8 DEF GoAstray, MoreInput, Pipes, History
  <2>2. /\ connection'.request = connection.request
        /\ connection'.hasRequestHeaders = connection.hasRequestHeaders
        /\ connection'.open = connection.open
    BY <1>1, <2>1 DEF Connections
  <2> QED
    BY <1>4, <2>1, <2>2
<1>9. CASE CgiWrite
  <2>1. /\ UNCHANGED <<requests, got, stdout_pipe, program, begun>>
        /\ \/ connection' = [connection EXCEPT !.buf = Tail(@), !.iindex = @ + 1]
           \/ connection' = connection
    BY <1>9 DEF CgiWrite, History
  <2>2. /\ connection'.request = connection.request
        /\ connection'.hasRequestHeaders = connection.hasRequestHeaders
        /\ connection'.open = connection.open
    BY <1>1, <2>1 DEF Connections
  <2> QED
    BY <1>4, <2>1, <2>2
<1>10. CASE PostFinish
  <2>1. /\ UNCHANGED <<requests, got, stdout_pipe, program, begun>>
        /\ \/ connection' = [connection EXCEPT !.postfinish = TRUE, !.wfds = TRUE]
           \/ connection' = connection
    BY <1>10 DEF PostFinish, Pipes, History
  <2>2. /\ connection'.request = connection.request
        /\ connection'.hasRequestHeaders = connection.hasRequestHeaders
        /\ connection'.open = connection.open
    BY <1>1, <2>1 DEF Connections
  <2> QED
    BY <1>4, <2>1, <2>2
<1> QED
  BY <1>2, <1>3, <1>5, <1>6, <1>7, <1>8, <1>9, <1>10 DEF ServerStep

LEMMA DeliveredAlways ==
  ASSUME IInv, Delivered, [Next]_vars PROVE Delivered'
<1>1. CASE UNCHANGED vars
  BY <1>1, DeliveredKept DEF vars
<1>2. CASE ClientSend \/ \E how \in {"fin", "reset"} : ClientLeaves(how)
  <2>1. UNCHANGED <<requests, got, connection, stdout_pipe, program, begun>>
    BY <1>2 DEF ClientSend, ClientLeaves, Pipes, History
  <2> QED
    BY <2>1, DeliveredKept
<1>3. CASE ServerStep
  BY <1>3, DeliveredServer
<1>4. CASE ProgramStep
  BY <1>4, DeliveredReads, DeliveredSteps DEF ProgramStep
<1> QED
  BY <1>1, <1>2, <1>3, <1>4 DEF Next

\* Whatever the programs put out and however the loop and the pipes cut it, the client
\* receives it in the order of its requests, every block once; the server is ready for
\* another request only when the last program's output was sent to its end; and it passes
\* over a request of the pipeline only after a GET during which input was dropped
\* (cgi_send_response, liso_handle_send and liso_handle_recv).
THEOREM OutputReachesClient == Spec => []OutputIntact
<1>1. IInv /\ Delivered /\ [Next]_vars => IInv' /\ Delivered'
  BY StepKeeps, DeliveredAlways
<1>2. IInv /\ Delivered => OutputIntact
  BY DEF IInv, Losing, Delivered, InOrder, AllSent, OutputIntact
<1> QED
  BY <1>1, <1>2, InitHolds, DeliveredInit, PTL DEF Spec
=============================================================================
